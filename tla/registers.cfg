SPECIFICATION Spec
CONSTANTS
    Nvm <- MCNvm
    Ids = {{5, 6}, {3, 4, 6}}
    Samples <- MCSamples
    Desired <- MCDesired
    Bursts <- MCBursts
    Readings <- MCReadings
    Copies = {0, 1, 6}
    MaxCalls = 4
VIEW View
CHECK_DEADLOCK FALSE
INVARIANTS
    CalibExact
    DelayWithinOne
PROPERTIES
    SettingsApplied
    ModeKeepsSettings
    OnlyHumidityLost
    OwnCompensation
    BurstLands
