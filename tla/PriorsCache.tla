----------------------------- MODULE PriorsCache -----------------------------
(***************************************************************************)
(* The priors of the selected public library, as all threads of a process  *)
(* cache them: _jptc_entries of priors.py, over the library on disk that   *)
(* calibration_registry.py selects.  Cache and version are two globals.    *)
(***************************************************************************)
EXTENDS Naturals

CONSTANTS
    Threads,         \* threads that look up priors
    Versions,        \* installed releases
    Nothing,         \* None
    MaxSelections    \* bound: changes of the selection


VARIABLES
    selection,       \* current.json, Nothing for the packaged release
    selecting,       \* select_version has written it and not yet dropped the cache
    selections,      \* counter of the bound
    cache,           \* _JPTC_CACHE: the release its entries are of
    label,           \* _JPTC_LIBRARY_ID
    lookup           \* the threads

priorVars == <<selection, selecting, selections, cache, label, lookup>>

PriorInit ==
    /\ selection \in Versions
    /\ selecting = FALSE /\ selections = 0
    /\ cache = Nothing /\ label = Nothing
    /\ lookup = [t \in Threads |-> [at |-> "idle", library |-> Nothing, entries |-> Nothing]]

Goto(t, place) == lookup' = [lookup EXCEPT ![t].at = place]

\* The pointer is written atomically; the cache goes after it.
Select ==
    /\ ~selecting /\ selections < MaxSelections
    /\ selection' \in Versions \ {selection}
    /\ selecting' = TRUE /\ selections' = selections + 1
    /\ UNCHANGED <<cache, label, lookup>>

DropCache ==
    /\ selecting
    /\ cache' = Nothing /\ selecting' = FALSE
    /\ UNCHANGED <<selection, selections, label, lookup>>

\* current_library
ReadLibrary(t) ==
    /\ lookup[t].at \in {"idle", "done"}
    /\ lookup' = [lookup EXCEPT ![t] = [at |-> "check", library |-> selection, entries |-> Nothing]]
    /\ UNCHANGED <<selection, selecting, selections, cache, label>>

\* A hit returns the global, read once more; a miss builds the entries.
CheckCache(t) ==
    /\ lookup[t].at = "check"
    /\ Goto(t, IF cache # Nothing /\ label = lookup[t].library THEN "hit" ELSE "cache")
    /\ UNCHANGED <<selection, selecting, selections, cache, label>>

ReturnHit(t) ==
    /\ lookup[t].at = "hit"
    /\ lookup' = [lookup EXCEPT ![t].at = "done", ![t].entries = cache]
    /\ UNCHANGED <<selection, selecting, selections, cache, label>>

\* _JPTC_CACHE = entries
StoreCache(t) ==
    /\ lookup[t].at = "cache"
    /\ cache' = lookup[t].library
    /\ Goto(t, "label")
    /\ UNCHANGED <<selection, selecting, selections, label>>

\* _JPTC_LIBRARY_ID = library["version"]
StoreLabel(t) ==
    /\ lookup[t].at = "label"
    /\ label' = lookup[t].library
    /\ lookup' = [lookup EXCEPT ![t].at = "done", ![t].entries = lookup[t].library]
    /\ UNCHANGED <<selection, selecting, selections, cache>>

PriorNext ==
    \/ Select \/ DropCache
    \/ \E t \in Threads : ReadLibrary(t) \/ CheckCache(t) \/ ReturnHit(t) \/ StoreCache(t) \/ StoreLabel(t)
PriorSpec == PriorInit /\ [][PriorNext]_priorVars

-----------------------------------------------------------------------------
\* "Switching to a catalogue that lacks the ID does not implicitly load the old
\* assets" (docs/NOISE_CALIBRATION.zh-CN.md): entries that a lookup is answered
\* with are those of the release it has read.
LookupServesItsRelease ==
    \A t \in Threads : lookup[t].at = "done" /\ lookup[t].entries # Nothing
                         => lookup[t].entries = lookup[t].library
==============================================================================
