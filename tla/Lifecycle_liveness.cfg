\* Commands return, requested closes and hangups complete.
SPECIFICATION FairSpec
CONSTANTS
    Api = {a1}
    Reader = reader
    Writer = writer
    Core = core
    Nobody = nobody
    MaxStreams = 1
    LockMayFail = FALSE
PROPERTIES CommandsComplete CloseCompletes HangupReleases
