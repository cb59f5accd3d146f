\* Two sessions of two frames each, a failure or a calibration edit.
CONSTANTS
    page = page
    Page = page
    Clients = {page}
    Nobody = Nobody
    Sessions = {1, 2}
    MaxSessions = 2
    MaxGeneration = 2
    MaxSerial = 2
    MaxMishaps = 1
SPECIFICATION FairSpec
PROPERTIES
    ScreenFollowsPage
    NewestNeverDropped
    SettlesOnNewest
CHECK_DEADLOCK FALSE
