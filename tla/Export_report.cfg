SPECIFICATION ExportSpec
CONSTANTS
    Jobs = {j1}
    Nobody = nobody
    Decoders = {raw9}
    NoDecoder = none
    Contents = {c1}
    MaxEvents = 1
PROPERTY CrashDeliveredNothing
CHECK_DEADLOCK FALSE
