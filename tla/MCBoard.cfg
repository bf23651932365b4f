\* The WiFi tasks may end, but touch polls for ever.
CONSTANTS
    MAX_WIFI_RETRIES = 2
    RawYs <- Edges
    NumLanguages = 3
    INIT_ATTEMPTS = 2
    Lifted = Lifted
SPECIFICATION FairBoardSpec
INVARIANTS
    BoardTypeOK
    StatusFollowsLink
PROPERTIES
    ConnectorEnds
    ChangesAreShown
    FingerTurnsOnce
    FingerIsNoticed
