CONSTANTS
    Subclasses <- MCSubclasses
    ChannelVars <- MCChannelVars
    MaxWsUri = 14
    Commands <- MCCommands
    StartCommands <- MCStartCommands
    TextCommands <- MCTextCommands
    AudioFrames <- Frames
SPECIFICATION Spec
INVARIANTS
    ApiTypeOK SubclassesAllOrNothing StreamAllOrNothing SettingsAsDocumented
    ArgumentsAsDocumented CommandsTakeEffect Base64Carries
