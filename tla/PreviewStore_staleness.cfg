\* Two edits that restore the original calibration content.
CONSTANTS
    r1 = r1
    r2 = r2
    f1 = f1
    f2 = f2
    on = on
    off = off
    Nobody = Nobody
    Requests = {r1, r2}
    Anonymous = {}
    Files = {f1}
    Measurable = {f1}
    Calibrations = {on, off}
    MaxItems = 1
    MaxBuilds = 2
    MaxPending = 1
    MaxFiles = 1
    MaxEdits = 2
    MaxDisturbances = 0
SPECIFICATION ProxySpec
PROPERTIES
    AnalysisMatchesCalibration
