SPECIFICATION Spec
CONSTANTS
    Jobs = {j1, j2}
    Nobody = nobody
    Decoders = {raw9, libraw}
    NoDecoder = none
    Contents = {c1, c2}
    MaxEvents = 3
    firstContent = c1
    someDecoder = raw9
    HeifQualities <- MCHeifQualities
    AuxQualities <- MCAuxQualities
    JpegQualities <- MCJpegQualities
    Ladder <- MCLadder
    Sizes = {80, 97, 100}
    Errors = {0, 1, 2}
    Budget = 1
INVARIANTS TypesOK DirectorySound RenditionsHonest SearchSound
PROPERTIES ReportedIsSaved EveryExportAnswered
CHECK_DEADLOCK FALSE
