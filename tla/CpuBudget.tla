------------------------------ MODULE CpuBudget ------------------------------
(***************************************************************************)
(* cpu_budget.py: how a streaming render shares the machine.  The render   *)
(* splits it among its stream workers; a worker that maps a function over  *)
(* items (ordered_budget_map) submits batches to a pool all renders share, *)
(* and the native kernels the batches call read one process-wide budget    *)
(* (rust/src/budget.rs).                                                   *)
(***************************************************************************)
EXTENDS Naturals, FiniteSets, FiniteSetsExt

CONSTANTS
    StreamWorkers,   \* threads that may stream a render
    Totals,          \* machines: numbers of processors
    MaxItems,        \* bound: items of a map
    PoolWidth,       \* workers of the shared pool
    MaxMishaps       \* bound: failing submits and items, interrupts

ASSUME CpuAssumption == Totals \subseteq Nat \ {0} /\ PoolWidth \in Nat \ {0} /\ MaxItems \in Nat

VARIABLES
    machine,         \* TOTAL, and who does the heavy lifting
    call,            \* the map a stream worker is in
    batch,           \* the batches of that map
    claims,          \* _native_claims, by owner
    native,          \* THREAD_BUDGET, 0 for unlimited
    mishaps          \* counter of the bound

cpuVars == <<machine, call, batch, claims, native, mishaps>>

Greater(a, b) == IF a > b THEN a ELSE b
Smaller(a, b) == IF a < b THEN a ELSE b

\* split_for: few wide workers for a native core, many narrow ones otherwise.
Outer(total, core) ==
    IF core THEN Greater(2, Smaller(3, total \div 4))
    ELSE Greater(2, Smaller(6, IF total > 2 THEN total - 2 ELSE 0))
Inner(total, core) == Greater(2, total \div Outer(total, core))
Share == Inner(machine.total, machine.core)

\* budgeted_workers: the threads a native kernel starts.
BudgetedWorkers == IF native = 0 THEN machine.total ELSE Smaller(machine.total, native)

Section == "section"     \* the owner of the render's own claim
ASSUME SectionAssumption == Section \notin StreamWorkers

\* Mutant of Claimed: the latest claim is the budget.
ClaimedLast(held) ==
    claims' = held /\ native' = IF \E o \in DOMAIN held : held[o] # claims[o]
        THEN LET o == CHOOSE x \in DOMAIN held : held[x] # claims[x] IN held[o] ELSE native

\* native_budget, entering or leaving: the tightest claim that is held.
Claimed(held) ==
    /\ claims' = held
    /\ native' = LET some == {held[o] : o \in DOMAIN held} \ {0}
                 IN  IF some = {} THEN 0 ELSE Min(some)

CpuInit ==
    /\ machine \in [total : Totals, core : BOOLEAN]
    /\ call = [w \in StreamWorkers |-> [at |-> "idle", items |-> 0, batches |-> 0, share |-> 0, failed |-> FALSE]]
    /\ batch = [w \in StreamWorkers |-> [i \in 1..MaxItems |-> "none"]]
    /\ claims = [o \in StreamWorkers \cup {Section} |-> 0]
    /\ native = 0
    /\ mishaps = 0

Mishap == mishaps < MaxMishaps /\ mishaps' = mishaps + 1
BatchOf(w, i, state) == batch' = [batch EXCEPT ![w][i] = state]
Submitted(w) == Cardinality({i \in 1..MaxItems : batch[w][i] # "none"})
Finished == {"ok", "failed"}

\* The pooled section of a render: claim(stream_inner) around its stream pool.
OpenSection ==
    /\ claims[Section] = 0 /\ \A w \in StreamWorkers : call[w].at = "idle"
    /\ Claimed([claims EXCEPT ![Section] = Share])
    /\ UNCHANGED <<machine, call, batch, mishaps>>

CloseSection ==
    /\ claims[Section] # 0 /\ \A w \in StreamWorkers : call[w].at \in {"idle", "left"}
    /\ Claimed([claims EXCEPT ![Section] = 0])
    /\ call' = [w \in StreamWorkers |-> [call[w] EXCEPT !.at = "left"]]
    /\ UNCHANGED <<machine, batch, mishaps>>

Ceiling(a, b) == (a + b - 1) \div b

\* ordered_budget_map with room for more than one batch; a single worker runs
\* all items itself, as one batch with the whole share.
BeginMap(w) ==
    /\ claims[Section] # 0 /\ call[w].at = "idle"
    /\ \E n \in 1..MaxItems, most \in 1..MaxItems :
         LET workers == Smaller(n, Smaller(most, Share))
             batches == Ceiling(n, Ceiling(n, workers))
             share == Greater(1, Share \div batches)
         IN  /\ call' = [call EXCEPT ![w] = [at |-> "submit", items |-> n, batches |-> batches,
                                             share |-> share, failed |-> FALSE]]
             /\ Claimed([claims EXCEPT ![w] = share])
    /\ UNCHANGED <<machine, batch, mishaps>>

\* pool.submit, which may raise: the batches submitted before are still joined.
SubmitBatch(w) ==
    /\ call[w].at = "submit"
    /\ \/ /\ Submitted(w) < call[w].batches
          /\ BatchOf(w, Submitted(w) + 1, "queued")
          /\ call' = [call EXCEPT ![w].at = IF Submitted(w) + 1 = call[w].batches THEN "join" ELSE "submit"]
          /\ UNCHANGED mishaps
       \/ /\ Mishap
          /\ call' = [call EXCEPT ![w].at = "join", ![w].failed = TRUE]
          /\ UNCHANGED batch
    /\ UNCHANGED <<machine, claims, native>>

Running == {r \in StreamWorkers \X (1..MaxItems) : batch[r[1]][r[2]] = "running"}

RunBatch(w, i) ==
    /\ batch[w][i] = "queued" /\ Cardinality(Running) < PoolWidth
    /\ BatchOf(w, i, "running")
    /\ UNCHANGED <<machine, call, claims, native, mishaps>>

EndBatch(w, i) ==
    /\ batch[w][i] = "running"
    /\ \/ BatchOf(w, i, "ok") /\ UNCHANGED mishaps
       \/ BatchOf(w, i, "failed") /\ Mishap
    /\ UNCHANGED <<machine, call, claims, native>>

Joined(w) == \A i \in 1..MaxItems : batch[w][i] \in Finished \cup {"none"}

\* An interrupt in result(): noted, and the wait goes on.
InterruptMap(w) ==
    /\ call[w].at = "join" /\ ~Joined(w) /\ Mishap
    /\ call' = [call EXCEPT ![w].failed = TRUE]
    /\ UNCHANGED <<machine, batch, claims, native>>

\* Mutant of EndMap: the result of a failed batch is asked for again.
EndMapRetries(w) ==
    /\ call[w].at = "join" /\ \A i \in 1..MaxItems : batch[w][i] \in {"ok", "none"}
    /\ call' = [call EXCEPT ![w].at = IF call[w].failed THEN "raised" ELSE "returned"]
    /\ Claimed([claims EXCEPT ![w] = 0])
    /\ UNCHANGED <<machine, batch, mishaps>>

\* Mutant of EndMap: only the failures of submit are raised.
EndMapForgetful(w) ==
    /\ call[w].at = "join" /\ Joined(w)
    /\ call' = [call EXCEPT ![w].at = IF call[w].failed THEN "raised" ELSE "returned"]
    /\ Claimed([claims EXCEPT ![w] = 0])
    /\ UNCHANGED <<machine, batch, mishaps>>

\* Every future is done: the claim is released, the first failure raised.
EndMap(w) ==
    /\ call[w].at = "join" /\ Joined(w)
    /\ call' = [call EXCEPT ![w].at = IF call[w].failed \/ \E i \in 1..MaxItems : batch[w][i] = "failed"
                                      THEN "raised" ELSE "returned"]
    /\ Claimed([claims EXCEPT ![w] = 0])
    /\ UNCHANGED <<machine, batch, mishaps>>

\* The caller goes on to its next chunk.
UseMap(w) ==
    /\ call[w].at \in {"returned", "raised"}
    /\ call' = [call EXCEPT ![w] = [at |-> "idle", items |-> 0, batches |-> 0, share |-> 0, failed |-> FALSE]]
    /\ batch' = [batch EXCEPT ![w] = [i \in 1..MaxItems |-> "none"]]
    /\ UNCHANGED <<machine, claims, native, mishaps>>

MapStep(w) == SubmitBatch(w) \/ EndMap(w) \/ \E i \in 1..MaxItems : RunBatch(w, i) \/ EndBatch(w, i)
CpuNext ==
    \/ OpenSection \/ CloseSection
    \/ \E w \in StreamWorkers : BeginMap(w) \/ MapStep(w) \/ InterruptMap(w) \/ UseMap(w)

CpuSpec == CpuInit /\ [][CpuNext]_cpuVars

\* Callers and pool threads run; the pool's queue is first in, first out.
CpuFairness ==
    \A w \in StreamWorkers : WF_cpuVars(MapStep(w)) /\ SF_cpuVars(\E i \in 1..MaxItems : RunBatch(w, i))

-----------------------------------------------------------------------------
CpuTypeOK ==
    /\ native \in Nat
    /\ \A w \in StreamWorkers : call[w].items <= MaxItems /\ call[w].batches <= call[w].items
    /\ \A w \in StreamWorkers : claims[w] = (IF call[w].at \in {"submit", "join"} THEN call[w].share ELSE 0)

\* While a batch runs, no kernel it calls starts more threads than its share:
\* neither the end of another render's section nor an interrupt of its own
\* caller hands it the whole machine.  The shares of a caller's running batches
\* fit its own share, and those of all stream workers the machine: "the bound
\* is now TOTAL + a small constant" (render.py).
KernelsWithinShare ==
    /\ \A r \in Running : BudgetedWorkers <= call[r[1]].share
    /\ \A w \in StreamWorkers :
         call[w].share * Cardinality({i \in 1..MaxItems : batch[w][i] = "running"}) <= Share
    /\ Outer(machine.total, machine.core) * Share <= machine.total + 4

\* A map that returns has computed every batch, whatever failed meanwhile.
ReturnsWhole ==
    \A w \in StreamWorkers : call[w].at = "returned" =>
        \A i \in 1..call[w].batches : batch[w][i] = "ok"

\* Every map ends, with its results or with an exception.
EveryMapEnds == \A w \in StreamWorkers : call[w].at = "submit" ~> call[w].at \in {"returned", "raised", "left"}
=============================================================================
