\* Two exports that begin with the page's defaults.
CONSTANTS
    Settings <- PageDefaults
    MaxRequests = 2
    NoFrame = NoFrame
SPECIFICATION ReuseSpec
PROPERTIES NamesTellRendersApart
CHECK_DEADLOCK FALSE
