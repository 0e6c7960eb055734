\* Three messages of all kinds, names taken by others, texts of any length and nesting.
SPECIFICATION MsgSpec
CONSTANTS
    RawAudioMode = TRUE
    Sizes = {1, 3}
    MaxFrame = 3
    MaxDelta = 2
    MaxBytes = 5
    MaxConns = 2
    MaxDepth = 1
    Names = {0, 1, 2}
    MaxMessages = 3
CHECK_DEADLOCK FALSE
INVARIANTS
    MsgTypeOK DepthGuard FilesRemoved PlayNamesFile EveryTextAnswered SamplesAligned
PROPERTIES OthersFilesKept
