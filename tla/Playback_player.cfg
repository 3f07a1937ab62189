CONSTANTS
    MaxPlayers = 3
    MaxTimers = 2
SPECIFICATION Spec
INVARIANTS
    TypeOK
    PlayingIsWatched
    NoWindowLost
PROPERTIES
    StopSticks
    NextSparesVideos
    ControlMovesDown
    EndIsNoticed
