CONSTANTS
    MaxCommands = 5
    MaxInst = 4
    MaxPlayers = 3
    MaxKills = 1
SPECIFICATION FairMusicSpec
INVARIANTS
    MusicTypeOK
    PlayerReachable
    NoReleasedPlayer
    NotificationShown
PROPERTY StopSilences
CHECK_DEADLOCK FALSE
