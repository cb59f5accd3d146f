\* Two threads look up priors around one switch of the release.
CONSTANTS
    Threads = {t1, t2}
    Versions = {v1, v2}
    Nothing = nothing
    MaxSelections = 1
SPECIFICATION PriorSpec
INVARIANT LookupServesItsRelease
