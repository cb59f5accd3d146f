CONSTANTS
    s1 = s1
    s2 = s2
    s3 = s3
    c1 = c1
    c2 = c2
    c3 = c3
    Sessions = {s1, s2, s3}
    Clients = {c1, c2, c3}
    MaxSessions = 2
    MaxGeneration = 3
    p1 = p1
    p2 = p2
    p3 = p3
    Paths = {p1, p2, p3}
    MaxPending = 2
    MaxPendingBytes = 3
    MaxFiles = 2
    EntryBytes <- MCBytes
    Durable <- MCDurable
    MaxSubmissions = 4
    MaxUnlinks = 1
    u1 = u1
    u2 = u2
    u3 = u3
    Uploads = {u1, u2, u3}
    Lengths = {0, 1, 2, 4}
    UploadMax = 3
    UploadTotal = 4
    UploadSlots = 2
    MaxRemovals = 1
    w1 = w1
    w2 = w2
    StreamWorkers = {w1, w2}
    Totals = {1, 12}
    MaxItems = 3
    PoolWidth = 2
    MaxMishaps = 1
    a = a
    b = b
    c = c
    n1 = n1
    n2 = n2
    x1 = x1
    x2 = x2
    Nobody = Nobody
    Callers = {a, b, c}
    Names = {n1, n2}
    PixelKeys = {x1, x2}
    Kinds = {"plan"}
    Limits <- MCLimits
    EvictionOrder <- MCEvictionOrder
    PixelLimit = 1
    MaxFailures = 1
    MaxRenders = 2
    MaxPressure = 1
SPECIFICATION Spec
INVARIANTS GuiTypeOK NewestPersisted KernelsWithinShare ReportsOfTheirPixels
PROPERTIES NeverRevived UploadsAccounted KeepsPromise WorkEnds
CHECK_DEADLOCK FALSE
