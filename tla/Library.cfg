SPECIFICATION Spec
CONSTANTS
    c1 = c1
    c2 = c2
    Commands = {c1, c2}
    FromGui = {c1}
    Ids = {"a", "b"}
    Unusable = "x"
    Packages <- MCPackages
    MaxMishaps = 2
    Tables <- MCTables
    Physical = {"camera"}
    Conditional = {"shutter", "body"}
    None = None
    Lookups <- MCLookups
    Unknown = Unknown
    LoadRequests <- MCLoadRequests
    Offers <- MCOffers
    AnyVersion = 0
    MaxChanges = 2
    DngFiles <- MCDngFiles
    Calls <- MCCalls
    Frames <- MCFrames
    Parts = 2
    p = p
    Pixels = {p}
    Captures <- MCCaptures
    Nothing = Nothing
    Containers <- MCContainers
    Ifds = {1, 2, 3, 4}
    Root = 1
    End = End
    MaxVisits = 3
    Files <- MCFactFiles
    Declarations <- MCDeclarations
    Entries <- MCEntries
    Garbled = Garbled
    NoValue = NoValue
    Measured <- MCScoped
    Shots <- MCShots
    Wanted <- MCWanted
    MaxEdits = 2
    Undeclared = Undeclared
    f1 = f1
    f2 = f2
    Photos = {f1, f2}
    NoPhoto = NoPhoto
    MaxPageSessions = 3
    MaxFrames = 2
    Settings <- MCSettings
    MaxRequests = 2
    NoFrame = NoFrame
    Halvings = 2
    Steps = 2
    EvCandidates = 3
    ShoulderCandidates = 2
    Bodies <- MCBodies
    Undecided = Undecided
    CommandLines <- MCCommandLines
    Source <- MCSource
    Links <- MCLinks
    NoName = NoName
    Hosts <- MCHosts
    Ttl = 1
    MaxClock = 1
    Unknowable = Unknowable
    Jobs <- MCJobs
    PlanFrames <- MCPlanFrames
    MinReliable = 2
    Unmeasured = Unmeasured
    Recordings <- MCRecordings
    Analysts = {a1, a2}
    Whites = {20, 13}
    Missing = Missing
    Sets <- MCSets
    Rounds = 2
    Unstated = Unstated
    Deliveries <- MCDeliveries
    Donors <- MCDonors
    Codestreams <- MCCodestreams
    MaxRewrites = 2
    Void = Void
    Takes <- MCTakes
    AnchorAssets <- MCAnchorAssets
    WindowRegions = {"skin", "foliage"}
    MaxInstalls = 1
    Unmoved = Unmoved
    Plates <- MCPlates
    Restless = {"t1"}
    MaxTouches = 2
INVARIANTS EditsHold MeasurementsNeverMixed PriorsOfTheFile BundlesHonest CorrectionsAccounted MapsFollowScene EvidenceFollows FactsOfTheFile FramesFollowDials ExposureRendered RunsHonest PicturesTrue
PROPERTIES PageHonest
CHECK_DEADLOCK FALSE
