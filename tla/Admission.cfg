\* Three threads compete for the slots of three kinds with quota 1; three requests
\* of one file, or two of them while the calibrations are edited.
CONSTANTS
    t1 = t1
    t2 = t2
    t3 = t3
    Threads = {t1, t2, t3}
    Kinds <- MCKinds
    Interactive <- MCInteractive
    Quotas <- MCQuotas
    MaxCalls = 3
    MaxInterrupts = 1
    MaxDepth = 2
    r1 = r1
    r2 = r2
    r3 = r3
    f1 = f1
    on = on
    off = off
    Nobody = Nobody
    Requests = {r1, r2, r3}
    Anonymous = {}
    Files = {f1}
    Measurable = {f1}
    Calibrations = {on, off}
    MaxItems = 1
    MaxBuilds = 2
    MaxPending = 1
    MaxFiles = 1
    MaxEdits = 1
    MaxDisturbances = 1
SYMMETRY AllAlike
SPECIFICATION AdmissionSpec
INVARIANTS
    TypeOK
    SlotsAccounted
    NoHoldAndWait
    FlightsAccounted
    GuidanceHonoured
PROPERTIES
    AdmissionRestored
    ServedIfCurrent
