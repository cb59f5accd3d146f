\* Every memory an older page may have left, with and without Apple RAW.
SPECIFICATION ControlsSpec
PROPERTIES ResetMeansDefaults
CHECK_DEADLOCK FALSE
