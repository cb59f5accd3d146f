\* One session of two frames.
CONSTANTS
    page = page
    Page = page
    Clients = {page}
    Nobody = Nobody
    Sessions = {1}
    MaxSessions = 2
    MaxGeneration = 2
    MaxSerial = 1
    MaxMishaps = 0
SPECIFICATION Spec
PROPERTIES
    NeverPublishesLate
CHECK_DEADLOCK FALSE
