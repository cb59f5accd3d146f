\* Two threads of the scheduler; two requests, two files and one build slot of
\* the proxy store; weak fairness of every thread's own steps.
CONSTANTS
    t1 = t1
    t2 = t2
    Threads = {t1, t2}
    Kinds <- MCKinds
    Interactive <- MCInteractive
    Quotas <- MCQuotas
    MaxCalls = 3
    MaxInterrupts = 2
    MaxDepth = 2
    r1 = r1
    r2 = r2
    f1 = f1
    f2 = f2
    on = on
    Nobody = Nobody
    Requests = {r1, r2}
    Anonymous = {r2}
    Files = {f1, f2}
    Measurable = {f1}
    Calibrations = {on}
    MaxItems = 1
    MaxBuilds = 1
    MaxPending = 1
    MaxFiles = 1
    MaxEdits = 0
    MaxDisturbances = 1
SPECIFICATION RequestSpec
PROPERTIES
    EveryRequestLeaves
    EveryRequestAnswered
