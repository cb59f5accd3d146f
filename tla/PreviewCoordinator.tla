------------------------- MODULE PreviewCoordinator -------------------------
(***************************************************************************)
(* gui/preview_scheduler.py: the registry that makes realtime previews     *)
(* latest-wins.  A browser session announces frame generations, a browser  *)
(* client announces selection epochs; only the newest of each is current,  *)
(* and only for the most recently announced MaxSessions names.             *)
(* Every operation is one critical section of _lock.                       *)
(***************************************************************************)
EXTENDS Lru

CONSTANTS
    Sessions,        \* previewSession names
    Clients,         \* previewClient names
    MaxSessions,     \* _max_sessions, at least 1
    MaxGeneration    \* bound: generations and epochs announced

ASSUME MaxSessionsAssumption == MaxSessions \in Nat \ {0}
ASSUME MaxGenerationAssumption == MaxGeneration \in Nat

VARIABLES
    latest,          \* _latest: newest generation, 0 where the session is unknown
    latestOrder,     \* the key order of _latest, oldest first
    selections,      \* _selections: newest epoch, 0 where the client is unknown
    selectionsOrder, \* the key order of _selections
    announced        \* history: sessions accepted since the last clear, by recency

coordinatorVars == <<latest, latestOrder, selections, selectionsOrder, announced>>

Generations == 0..MaxGeneration

CoordinatorTypeOK ==
    /\ latest \in [Sessions -> Generations]
    /\ selections \in [Clients -> Generations]
    /\ latestOrder \in Seq(Sessions)
    /\ selectionsOrder \in Seq(Clients)
    /\ announced \in Seq(Sessions)

CoordinatorInit ==
    /\ latest = [s \in Sessions |-> 0]
    /\ selections = [c \in Clients |-> 0]
    /\ latestOrder = <<>>
    /\ selectionsOrder = <<>>
    /\ announced = <<>>

\* Mutant of SelectionAccepted: a selection's second request is refused.
SelectionNewer(c, e) == e <= 0 \/ e > selections[c]

\* register and register_selection answer TRUE without a trace for a request
\* that carries no generation (or no client); otherwise an older number than
\* the one on record is refused.
GenerationAccepted(s, g) == g <= 0 \/ g >= latest[s]
SelectionAccepted(c, e) == e <= 0 \/ e >= selections[c]

IsCurrent(s, g) == g <= 0 \/ latest[s] = g
SelectionIsCurrent(c, e) == e <= 0 \/ selections[c] = e

\* The map m with x -> n stored, its oldest names beyond the bound forgotten.
Stored(m, kept, x, n) ==
    [y \in DOMAIN m |-> IF y = x THEN n ELSE IF y \in ToSet(kept) THEN m[y] ELSE 0]

\* Mutant of Register: it takes any number.
RegisterAny(s, g) ==
    /\ g > 0
    /\ latestOrder' = KeepNewest(MoveToEnd(latestOrder, s), MaxSessions)
    /\ latest' = Stored(latest, latestOrder', s, g)
    /\ announced' = MoveToEnd(announced, s)
    /\ UNCHANGED <<selections, selectionsOrder>>

Register(s, g) ==
    /\ g > 0
    /\ g >= latest[s]
    /\ latestOrder' = KeepNewest(MoveToEnd(latestOrder, s), MaxSessions)
    /\ latest' = Stored(latest, latestOrder', s, g)
    /\ announced' = MoveToEnd(announced, s)
    /\ UNCHANGED <<selections, selectionsOrder>>

RegisterSelection(c, e) ==
    /\ e > 0
    /\ e >= selections[c]
    /\ selectionsOrder' = KeepNewest(MoveToEnd(selectionsOrder, c), MaxSessions)
    /\ selections' = Stored(selections, selectionsOrder', c, e)
    /\ UNCHANGED <<latest, latestOrder, announced>>

Clear ==
    /\ latest' = [s \in Sessions |-> 0]
    /\ selections' = [c \in Clients |-> 0]
    /\ latestOrder' = <<>>
    /\ selectionsOrder' = <<>>
    /\ announced' = <<>>

CoordinatorNext ==
    \/ \E s \in Sessions, g \in Generations : Register(s, g)
    \/ \E c \in Clients, e \in Generations : RegisterSelection(c, e)
    \/ Clear

CoordinatorSpec == CoordinatorInit /\ [][CoordinatorNext]_coordinatorVars

-----------------------------------------------------------------------------
\* The names on record are exactly those with a number, at most MaxSessions.
RegistryConsistent ==
    /\ ToSet(latestOrder) = {s \in Sessions : latest[s] # 0}
    /\ ToSet(selectionsOrder) = {c \in Clients : selections[c] # 0}
    /\ IsInjective(latestOrder) /\ IsInjective(selectionsOrder)
    /\ Len(latestOrder) <= MaxSessions
    /\ Len(selectionsOrder) <= MaxSessions

\* Forgetting takes the sessions idle for longest: the MaxSessions sessions
\* that announced a generation last are all still on record (lines 34-37).
RecentSessionsKept == latestOrder = KeepNewest(announced, MaxSessions)

\* No name that stays on record has its number lowered by the step.
NoneRevived ==
    /\ \A s \in Sessions : latest[s] # 0 /\ latest'[s] # 0 => latest'[s] >= latest[s]
    /\ \A c \in Clients : selections[c] # 0 /\ selections'[c] # 0 =>
           selections'[c] >= selections[c]

\* While a session stays on record its generation never falls back, so an
\* obsolete frame cannot become current again; the same for selections.
NeverRevived == [][NoneRevived]_coordinatorVars

=============================================================================
