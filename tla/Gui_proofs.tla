----------------------------- MODULE Gui_proofs -----------------------------
(***************************************************************************)
(* Proofs about the parts MCGui puts side by side: CpuBudget, for any      *)
(* machines, any number of stream workers, items and mishaps and any width *)
(* of the shared pool; the caches of RuntimeCache, for any callers, keys,  *)
(* limits and eviction order, which implement SingleFlight; UploadStore,   *)
(* for any uploads, lengths and quotas; DiskWriter with its driver, for    *)
(* any paths, sizes and limits; and the types of all parts together.       *)
(***************************************************************************)
EXTENDS MCGui, Registry_proofs, WellFoundedInduction, FiniteSetTheorems, TLAPS

-----------------------------------------------------------------------------
(* The CPU budget

   The budget of the kernels is one number for the process; CpuInv says which
   claims it is the tightest of, and that a worker's claim stands as long as any
   batch of its map may run. *)


Batches == 1..MaxItems
Owners == StreamWorkers \cup {Section}
Mapping == {"submit", "join"}
Maps ==
    [at : {"idle", "returned", "raised", "left"} \cup Mapping, items : Nat, batches : Nat, share : Nat,
     failed : BOOLEAN]

Types ==
    /\ machine \in [total : Nat \ {0}, core : BOOLEAN]
    /\ call \in [StreamWorkers -> Maps]
    /\ batch \in [StreamWorkers -> [Batches -> {"none", "queued", "running"} \cup Finished]]
    /\ claims \in [Owners -> Nat]
    /\ native \in Nat

\* The budget is as tight as every claim that is held.
BudgetTight == \A o \in Owners : claims[o] # 0 => native # 0 /\ native <= claims[o]

\* The batches of a map are submitted in their order.
InOrder(w) == \E k \in 0..call[w].batches : \A i \in Batches : batch[w][i] # "none" <=> i <= k

\* A map in progress has split the share of its worker among its batches.
SharesFit(w) ==
    /\ call[w].items <= MaxItems /\ call[w].batches <= call[w].items
    /\ call[w].share * call[w].batches <= Share
    /\ call[w].at \in Mapping => call[w].share >= 1

\* A claim stands while batches may run; what is left afterwards is finished,
\* and all of it when the map returns.
ClaimStands(w) ==
    /\ claims[w] = (IF call[w].at \in Mapping THEN call[w].share ELSE 0)
    /\ call[w].at \notin Mapping => \A i \in Batches : batch[w][i] \in Finished \cup {"none"}
    /\ call[w].at = "idle" => \A i \in Batches : batch[w][i] = "none"
    /\ call[w].at = "join" /\ ~call[w].failed => \A i \in 1..call[w].batches : batch[w][i] # "none"
    /\ call[w].at = "returned" => \A i \in 1..call[w].batches : batch[w][i] = "ok"

WorkerInv(w) == InOrder(w) /\ SharesFit(w) /\ ClaimStands(w)
CpuInv == Types /\ BudgetTight /\ \A w \in StreamWorkers : WorkerInv(w)

-----------------------------------------------------------------------------
(* Arithmetic *)

\* What a natural number of parts leaves of a natural number.
LEMMA DivisionBounds ==
  ASSUME NEW a \in Nat, NEW b \in Nat \ {0}
  PROVE  a \div b \in Nat /\ b * (a \div b) <= a /\ a < b * (a \div b) + b
  OBVIOUS

\* Whole batches of n items for w workers are no more than the workers, nor than
\* the items.
LEMMA BatchesFit ==
  ASSUME NEW n \in Nat \ {0}, NEW w \in Nat \ {0}
  PROVE  Ceiling(n, Ceiling(n, w)) \in Nat
         /\ 1 <= Ceiling(n, Ceiling(n, w))
         /\ Ceiling(n, Ceiling(n, w)) <= w /\ Ceiling(n, Ceiling(n, w)) <= n
<1> DEFINE size == Ceiling(n, w)
           count == Ceiling(n, size)
<1>1. size \in Nat /\ w * size <= n + w - 1 /\ n + w - 1 < w * size + w
  <2>1. n + w - 1 \in Nat
    OBVIOUS
  <2>2. QED BY <2>1, DivisionBounds DEF Ceiling
<1> HIDE DEF size
<1>2. size >= 1 /\ w * size >= n
  BY <1>1
<1>3. count \in Nat /\ size * count <= n + size - 1 /\ n + size - 1 < size * count + size
  <2>1. n + size - 1 \in Nat /\ size \in Nat \ {0}
    BY <1>1, <1>2
  <2>2. QED BY <2>1, DivisionBounds DEF Ceiling
<1> HIDE DEF count
<1>4. size * count < size * (w + 1)
  BY <1>1, <1>2, <1>3
<1>5. count <= w
  BY <1>1, <1>2, <1>3, <1>4
<1>6. count >= 1
  BY <1>1, <1>2, <1>3
<1>7. size * count <= size * n
  BY <1>1, <1>2, <1>3
<1>8. count <= n
  BY <1>1, <1>2, <1>3, <1>7
<1>9. QED BY <1>3, <1>5, <1>6, <1>8 DEF count, size

\* The stream workers of a machine, each with its share, hardly exceed it.
LEMMA MachineShared ==
  ASSUME NEW total \in Nat \ {0}, NEW core \in BOOLEAN
  PROVE  /\ Outer(total, core) \in 2..6
         /\ Inner(total, core) \in Nat /\ Inner(total, core) >= 2
         /\ Outer(total, core) * Inner(total, core) <= total + 4
<1> DEFINE outer == Outer(total, core)
<1>1. outer \in 2..6 /\ 2 * outer <= total + 4
  <2>1. CASE core
    <3>1. total \div 4 \in Nat /\ 4 * (total \div 4) <= total
      BY DivisionBounds
    <3>2. QED BY <2>1, <3>1 DEF Outer, Greater, Smaller
  <2>2. CASE ~core
    BY <2>2 DEF Outer, Greater, Smaller
  <2>3. QED BY <2>1, <2>2
<1> HIDE DEF outer
<1>2. total \div outer \in Nat /\ outer * (total \div outer) <= total
  BY <1>1, DivisionBounds
<1>3. Inner(total, core) = IF 2 > total \div outer THEN 2 ELSE total \div outer
  BY DEF Inner, Greater, outer
<1>4. CASE 2 > total \div outer
  BY <1>1, <1>3, <1>4 DEF outer
<1>5. CASE ~(2 > total \div outer)
  BY <1>1, <1>2, <1>3, <1>5 DEF outer
<1>6. QED BY <1>4, <1>5

\* Natural numbers have a least one.
LEMMA LeastIsMin ==
  ASSUME NEW S \in SUBSET Nat, S # {}
  PROVE  Min(S) \in S /\ \A x \in S : Min(S) <= x
<1>1. PICK x \in S : \A y \in S : ~ (<<y, x>> \in OpToRel(<, Nat))
  BY NatLessThanWellFounded, WFMin
<1>2. \A y \in S : x <= y
  <2>1. SUFFICES ASSUME NEW y \in S, y < x PROVE FALSE
    OBVIOUS
  <2>2. <<y, x>> \in OpToRel(<, Nat)
    BY <2>1 DEF OpToRel
  <2>3. QED BY <1>1, <2>2
<1>3. QED BY <1>2 DEF Min

-----------------------------------------------------------------------------
(* The steps *)

\* Whoever claims or lets go of a claim, the budget is the tightest that is held.
LEMMA ClaimedIsTight ==
  ASSUME NEW held \in [Owners -> Nat], Claimed(held)
  PROVE  claims' = held /\ native' \in Nat /\ BudgetTight'
<1> DEFINE some == {held[o] : o \in DOMAIN held} \ {0}
<1>1. claims' = held /\ native' = (IF some = {} THEN 0 ELSE Min(some))
  BY DEF Claimed
<1>2. \A o \in Owners : held[o] # 0 => held[o] \in some
  OBVIOUS
<1>3. some \subseteq Nat /\ 0 \notin some
  OBVIOUS
<1> HIDE DEF some
<1>4. CASE some = {}
  BY <1>1, <1>2, <1>4 DEF BudgetTight
<1>5. CASE some # {}
  <2>1. Min(some) \in some /\ \A x \in some : Min(some) <= x
    BY <1>3, <1>5, LeastIsMin
  <2>2. QED BY <1>1, <1>2, <1>3, <1>5, <2>1 DEF BudgetTight
<1>6. QED BY <1>4, <1>5

\* A step of one worker leaves what the invariant says of the others.
LEMMA OthersKept ==
  ASSUME CpuInv, NEW w \in StreamWorkers, Types', BudgetTight', WorkerInv(w)', machine' = machine,
         \A v \in StreamWorkers \ {w} :
            call'[v] = call[v] /\ batch'[v] = batch[v] /\ claims'[v] = claims[v]
  PROVE  CpuInv'
<1>1. ASSUME NEW v \in StreamWorkers, v # w PROVE WorkerInv(v)'
  <2>1. call'[v] = call[v] /\ batch'[v] = batch[v] /\ claims'[v] = claims[v] /\ Share' = Share
    BY <1>1 DEF Share
  <2>2. WorkerInv(v)
    BY DEF CpuInv
  <2>3. QED BY <2>1, <2>2 DEF WorkerInv, InOrder, SharesFit, ClaimStands
<1>2. QED BY <1>1 DEF CpuInv

\* The section opens while no worker maps.
LEMMA OpenSectionKeeps ==
  ASSUME CpuInv, OpenSection
  PROVE  CpuInv'
<1> DEFINE held == [claims EXCEPT ![Section] = Share]
<1>1. Share \in Nat
  BY MachineShared DEF CpuInv, Types, Share
<1>2. held \in [Owners -> Nat] /\ \A w \in StreamWorkers : held[w] = claims[w]
  BY <1>1, SectionAssumption DEF CpuInv, Types, Owners
<1>3. claims' = held /\ native' \in Nat /\ BudgetTight'
  BY <1>2, ClaimedIsTight DEF OpenSection
<1> HIDE DEF held
<1>4. UNCHANGED <<machine, call, batch>>
  BY DEF OpenSection
<1>5. Types'
  BY <1>2, <1>3, <1>4 DEF CpuInv, Types
<1>6. ASSUME NEW w \in StreamWorkers PROVE WorkerInv(w)'
  <2>1. Share' = Share
    BY <1>4 DEF Share
  <2>2. WorkerInv(w)
    BY DEF CpuInv
  <2>3. QED BY <1>2, <1>3, <1>4, <2>1, <2>2 DEF WorkerInv, InOrder, SharesFit, ClaimStands
<1>7. QED BY <1>3, <1>5, <1>6 DEF CpuInv

\* It closes when every worker has no map, or has left.
LEMMA CloseSectionKeeps ==
  ASSUME CpuInv, CloseSection
  PROVE  CpuInv'
<1> DEFINE held == [claims EXCEPT ![Section] = 0]
<1>1. held \in [Owners -> Nat] /\ \A w \in StreamWorkers : held[w] = claims[w]
  BY SectionAssumption DEF CpuInv, Types, Owners
<1>2. claims' = held /\ native' \in Nat /\ BudgetTight'
  BY <1>1, ClaimedIsTight DEF CloseSection
<1> HIDE DEF held
<1>3. /\ UNCHANGED <<machine, batch>>
      /\ call' = [w \in StreamWorkers |-> [call[w] EXCEPT !.at = "left"]]
  BY DEF CloseSection
<1>4. ASSUME NEW w \in StreamWorkers
      PROVE  /\ call'[w] \in Maps /\ call'[w].at = "left"
             /\ call'[w].items = call[w].items /\ call'[w].batches = call[w].batches
             /\ call'[w].share = call[w].share
  <2>1. call[w] \in Maps
    BY DEF CpuInv, Types
  <2>2. QED BY <1>3, <2>1 DEF Maps
<1>5. call' \in [StreamWorkers -> Maps]
  BY <1>3, <1>4
<1>6. Types'
  BY <1>1, <1>2, <1>3, <1>5 DEF CpuInv, Types
<1>7. ASSUME NEW w \in StreamWorkers PROVE WorkerInv(w)'
  <2>1. Share' = Share
    BY <1>3 DEF Share
  <2>2. WorkerInv(w) /\ call[w].at \in {"idle", "left"}
    BY DEF CpuInv, CloseSection
  <2>3. QED BY <1>1, <1>2, <1>3, <1>4, <2>1, <2>2
            DEF WorkerInv, InOrder, SharesFit, ClaimStands, Mapping
<1>8. QED BY <1>2, <1>6, <1>7 DEF CpuInv

\* A worker that begins a map claims the share of one of its batches.
LEMMA BeginMapKeeps ==
  ASSUME CpuInv, NEW w \in StreamWorkers, BeginMap(w)
  PROVE  CpuInv'
<1>1. Share \in Nat /\ Share >= 2
  BY MachineShared DEF CpuInv, Types, Share
<1>2. PICK n \in 1..MaxItems, most \in 1..MaxItems :
        LET workers == Smaller(n, Smaller(most, Share))
            batches == Ceiling(n, Ceiling(n, workers))
            share == Greater(1, Share \div batches)
        IN  /\ call' = [call EXCEPT ![w] = [at |-> "submit", items |-> n, batches |-> batches,
                                             share |-> share, failed |-> FALSE]]
            /\ Claimed([claims EXCEPT ![w] = share])
  BY DEF BeginMap
<1> DEFINE workers == Smaller(n, Smaller(most, Share))
           batches == Ceiling(n, Ceiling(n, workers))
           share == Greater(1, Share \div batches)
           new == [at |-> "submit", items |-> n, batches |-> batches, share |-> share, failed |-> FALSE]
           held == [claims EXCEPT ![w] = share]
<1>3. n \in Nat \ {0} /\ n <= MaxItems /\ workers \in Nat \ {0} /\ workers <= Share
  BY <1>1, CpuAssumption DEF Smaller
<1> HIDE DEF workers
<1>4. batches \in Nat /\ 1 <= batches /\ batches <= workers /\ batches <= n
  BY <1>3, BatchesFit
<1> HIDE DEF batches
<1>5. share \in Nat /\ share >= 1 /\ share * batches <= Share
  <2>1. Share \div batches \in Nat /\ batches * (Share \div batches) <= Share
    BY <1>1, <1>4, DivisionBounds
  <2>2. CASE Share \div batches >= 1
    BY <1>4, <2>1, <2>2 DEF Greater
  <2>3. CASE Share \div batches = 0
    BY <1>1, <1>3, <1>4, <2>3 DEF Greater
  <2>4. QED BY <2>1, <2>2, <2>3
<1> HIDE DEF share
<1>6. new \in Maps
  BY <1>3, <1>4, <1>5 DEF Maps, Mapping
<1>7. call' = [call EXCEPT ![w] = new] /\ Claimed(held) /\ UNCHANGED <<machine, batch>>
  BY <1>2 DEF BeginMap, workers, batches, share
<1>8. held \in [Owners -> Nat] /\ held[w] = share /\ \A v \in StreamWorkers \ {w} : held[v] = claims[v]
  BY <1>5 DEF CpuInv, Types, Owners
<1>9. claims' = held /\ native' \in Nat /\ BudgetTight'
  BY <1>7, <1>8, ClaimedIsTight
<1>10. /\ new.at = "submit" /\ new.items = n /\ new.batches = batches /\ new.share = share
  OBVIOUS
<1> HIDE DEF new, held
<1>11. /\ call' \in [StreamWorkers -> Maps] /\ call'[w] = new
       /\ \A v \in StreamWorkers \ {w} : call'[v] = call[v]
  BY <1>6, <1>7 DEF CpuInv, Types
<1>12. Types'
  BY <1>7, <1>8, <1>9, <1>11 DEF CpuInv, Types
<1>13. WorkerInv(w)'
  <2>1. Share' = Share
    BY <1>7 DEF Share
  <2>2. \A i \in Batches : batch'[w][i] = "none"
    BY <1>7 DEF CpuInv, WorkerInv, ClaimStands, BeginMap
  <2>3. InOrder(w)'
    <3>1. 0 \in 0..call'[w].batches /\ \A i \in Batches : ~(i <= 0)
      BY <1>4, <1>10, <1>11, CpuAssumption DEF Batches
    <3>2. QED BY <2>2, <3>1 DEF InOrder
  <2>4. SharesFit(w)'
    BY <1>3, <1>4, <1>5, <1>10, <1>11, <2>1 DEF SharesFit
  <2>5. ClaimStands(w)'
    BY <1>8, <1>9, <1>10, <1>11, <2>2 DEF ClaimStands, Mapping
  <2>6. QED BY <2>3, <2>4, <2>5 DEF WorkerInv
<1>14. QED BY <1>7, <1>8, <1>9, <1>11, <1>12, <1>13, OthersKept

\* The batches submitted are the first ones.
LEMMA SubmittedFirst ==
  ASSUME CpuInv, NEW w \in StreamWorkers
  PROVE  /\ Submitted(w) \in 0..call[w].batches
         /\ call[w].batches \in Nat /\ call[w].batches <= MaxItems
         /\ \A i \in Batches : batch[w][i] # "none" <=> i <= Submitted(w)
<1>1. PICK k \in 0..call[w].batches : \A i \in Batches : batch[w][i] # "none" <=> i <= k
  BY DEF CpuInv, WorkerInv, InOrder
<1>2. call[w].batches \in Nat /\ call[w].batches <= MaxItems
  BY CpuAssumption DEF CpuInv, WorkerInv, SharesFit, Types, Maps
<1>3. {i \in 1..MaxItems : batch[w][i] # "none"} = 1..k
  BY <1>1, <1>2, CpuAssumption DEF Batches
<1>4. Cardinality(1..k) = k
  BY <1>1, <1>2, FS_Interval
<1>5. QED BY <1>1, <1>2, <1>3, <1>4 DEF Submitted

\* A batch goes to the pool, or the pool refuses it.
LEMMA SubmitBatchKeeps ==
  ASSUME CpuInv, NEW w \in StreamWorkers, SubmitBatch(w)
  PROVE  CpuInv'
<1>1. /\ Submitted(w) \in 0..call[w].batches
      /\ call[w].batches \in Nat /\ call[w].batches <= MaxItems
      /\ \A i \in Batches : batch[w][i] # "none" <=> i <= Submitted(w)
  BY SubmittedFirst
<1>2. /\ call[w] \in Maps /\ call[w].at = "submit" /\ UNCHANGED <<machine, claims, native>>
      /\ call \in [StreamWorkers -> Maps]
      /\ batch \in [StreamWorkers -> [Batches -> {"none", "queued", "running"} \cup Finished]]
  BY DEF CpuInv, Types, SubmitBatch
<1>3. WorkerInv(w) /\ Share' = Share
  BY <1>2 DEF CpuInv, Share
<1>4. CASE /\ Submitted(w) < call[w].batches
           /\ BatchOf(w, Submitted(w) + 1, "queued")
           /\ call' = [call EXCEPT ![w].at = IF Submitted(w) + 1 = call[w].batches THEN "join" ELSE "submit"]
  <2> DEFINE place == IF Submitted(w) + 1 = call[w].batches THEN "join" ELSE "submit"
             next == Submitted(w) + 1
  <2>1. next \in Batches /\ next \in 0..call[w].batches /\ place \in Mapping
    BY <1>1, <1>4, CpuAssumption DEF Batches, Mapping
  <2>2. place = "join" => next = call[w].batches
    OBVIOUS
  <2>3. call' = [call EXCEPT ![w].at = place] /\ batch' = [batch EXCEPT ![w][next] = "queued"]
    BY <1>4 DEF BatchOf
  <2>4. \A i \in Batches : (batch[w][i] # "none" \/ i = next) <=> i <= next
    BY <1>1, CpuAssumption DEF Batches
  <2> HIDE DEF place, next
  <2>5. /\ call' \in [StreamWorkers -> Maps]
        /\ call'[w].at = place /\ call'[w].items = call[w].items
        /\ call'[w].batches = call[w].batches /\ call'[w].share = call[w].share
        /\ \A v \in StreamWorkers \ {w} : call'[v] = call[v]
    BY <1>2, <2>1, <2>3 DEF Maps
  <2>6. /\ batch' \in [StreamWorkers -> [Batches -> {"none", "queued", "running"} \cup Finished]]
        /\ batch'[w][next] = "queued"
        /\ \A i \in Batches : i # next => batch'[w][i] = batch[w][i]
        /\ \A v \in StreamWorkers \ {w} : batch'[v] = batch[v]
    BY <1>2, <2>1, <2>3
  <2>7. Types' /\ BudgetTight'
    BY <1>2, <2>5, <2>6 DEF CpuInv, Types, BudgetTight
  <2>8. \A i \in Batches : batch'[w][i] # "none" <=> i <= next
    BY <2>4, <2>6
  <2>9. InOrder(w)'
    BY <2>1, <2>5, <2>8 DEF InOrder
  <2>10. SharesFit(w)'
    BY <1>2, <1>3, <2>1, <2>5 DEF WorkerInv, SharesFit, Mapping
  <2>11. ClaimStands(w)'
    <3>1. 1..call[w].batches \subseteq Batches
      BY <1>1, CpuAssumption DEF Batches
    <3>2. place = "join" => \A i \in 1..call[w].batches : batch'[w][i] # "none"
      BY <1>1, <2>2, <2>8, <3>1
    <3>3. QED BY <1>2, <1>3, <2>1, <2>5, <3>2 DEF WorkerInv, ClaimStands, Mapping
  <2>12. WorkerInv(w)'
    BY <2>9, <2>10, <2>11 DEF WorkerInv
  <2>13. QED BY <1>2, <2>5, <2>6, <2>7, <2>12, OthersKept
<1>5. CASE /\ call' = [call EXCEPT ![w].at = "join", ![w].failed = TRUE]
           /\ UNCHANGED batch
  <2>1. /\ call' \in [StreamWorkers -> Maps]
        /\ call'[w].at = "join" /\ call'[w].failed /\ call'[w].items = call[w].items
        /\ call'[w].batches = call[w].batches /\ call'[w].share = call[w].share
        /\ \A v \in StreamWorkers \ {w} : call'[v] = call[v]
    BY <1>2, <1>5 DEF Maps, Mapping
  <2>2. Types' /\ BudgetTight'
    BY <1>2, <1>5, <2>1 DEF CpuInv, Types, BudgetTight
  <2>3. WorkerInv(w)'
    BY <1>2, <1>3, <1>5, <2>1 DEF WorkerInv, InOrder, SharesFit, ClaimStands, Mapping
  <2>4. QED BY <1>2, <1>5, <2>1, <2>2, <2>3, OthersKept
<1>6. QED BY <1>4, <1>5 DEF SubmitBatch

\* A batch that begins or ends was submitted, and its map is still in progress.
LEMMA BatchKeeps ==
  ASSUME CpuInv, NEW w \in StreamWorkers, NEW i \in Batches, NEW state \in {"running"} \cup Finished,
         batch[w][i] \in {"queued", "running"}, BatchOf(w, i, state),
         UNCHANGED <<machine, call, claims, native>>
  PROVE  CpuInv'
<1>1. /\ batch \in [StreamWorkers -> [Batches -> {"none", "queued", "running"} \cup Finished]]
      /\ batch' = [batch EXCEPT ![w][i] = state]
  BY DEF CpuInv, Types, BatchOf
<1>2. /\ batch' \in [StreamWorkers -> [Batches -> {"none", "queued", "running"} \cup Finished]]
      /\ batch'[w][i] = state
      /\ \A j \in Batches : j # i => batch'[w][j] = batch[w][j]
      /\ \A v \in StreamWorkers \ {w} : batch'[v] = batch[v]
  BY <1>1
<1>3. Types' /\ BudgetTight' /\ Share' = Share
  BY <1>2 DEF CpuInv, Types, BudgetTight, Share
<1>4. WorkerInv(w)
  BY DEF CpuInv
<1>5. call[w].at \in Mapping
  BY <1>4 DEF WorkerInv, ClaimStands, Finished
<1>6. state # "none"
  BY DEF Finished
<1>7. \A j \in Batches : batch'[w][j] # "none" <=> batch[w][j] # "none"
  BY <1>2, <1>6
<1>8. InOrder(w)'
  BY <1>4, <1>7 DEF WorkerInv, InOrder
<1>9. SharesFit(w)'
  BY <1>3, <1>4 DEF WorkerInv, SharesFit
<1>10. ClaimStands(w)'
  <2>1. 1..call[w].batches \subseteq Batches
    BY SubmittedFirst, CpuAssumption DEF Batches
  <2>2. QED BY <1>4, <1>5, <1>7, <2>1 DEF WorkerInv, ClaimStands, Mapping
<1>11. QED BY <1>2, <1>3, <1>8, <1>9, <1>10, OthersKept DEF WorkerInv

\* An interrupt is noted; the worker goes on waiting.
LEMMA InterruptMapKeeps ==
  ASSUME CpuInv, NEW w \in StreamWorkers, InterruptMap(w)
  PROVE  CpuInv'
<1>1. /\ call \in [StreamWorkers -> Maps] /\ call[w].at = "join"
      /\ call' = [call EXCEPT ![w].failed = TRUE]
      /\ UNCHANGED <<machine, batch, claims, native>>
  BY DEF CpuInv, Types, InterruptMap
<1>2. /\ call' \in [StreamWorkers -> Maps]
      /\ call'[w].at = "join" /\ call'[w].failed /\ call'[w].items = call[w].items
      /\ call'[w].batches = call[w].batches /\ call'[w].share = call[w].share
      /\ \A v \in StreamWorkers \ {w} : call'[v] = call[v]
  BY <1>1 DEF Maps
<1>3. Types' /\ BudgetTight' /\ Share' = Share
  BY <1>1, <1>2 DEF CpuInv, Types, BudgetTight, Share
<1>4. WorkerInv(w)'
  BY <1>1, <1>2, <1>3 DEF CpuInv, WorkerInv, InOrder, SharesFit, ClaimStands, Mapping
<1>5. QED BY <1>1, <1>2, <1>3, <1>4, OthersKept

\* The claim goes when every batch is finished.
LEMMA EndMapKeeps ==
  ASSUME CpuInv, NEW w \in StreamWorkers, EndMap(w)
  PROVE  CpuInv'
<1> DEFINE held == [claims EXCEPT ![w] = 0]
           place == IF call[w].failed \/ \E i \in 1..MaxItems : batch[w][i] = "failed"
                      THEN "raised" ELSE "returned"
<1>1. held \in [Owners -> Nat] /\ held[w] = 0 /\ \A v \in StreamWorkers \ {w} : held[v] = claims[v]
  BY DEF CpuInv, Types, Owners
<1>2. claims' = held /\ native' \in Nat /\ BudgetTight'
  BY <1>1, ClaimedIsTight DEF EndMap
<1> HIDE DEF held
<1>3. /\ call \in [StreamWorkers -> Maps] /\ call[w].at = "join"
      /\ call' = [call EXCEPT ![w].at = place]
      /\ UNCHANGED <<machine, batch>>
      /\ \A i \in Batches : batch[w][i] \in Finished \cup {"none"}
  BY DEF CpuInv, Types, EndMap, Joined, Batches
<1>4. place \in {"raised", "returned"}
  OBVIOUS
<1>5. place = "returned" => ~call[w].failed /\ \A i \in Batches : batch[w][i] # "failed"
  BY DEF Batches
<1> HIDE DEF place
<1>6. /\ call' \in [StreamWorkers -> Maps]
      /\ call'[w].at = place /\ call'[w].items = call[w].items
      /\ call'[w].batches = call[w].batches /\ call'[w].share = call[w].share
      /\ \A v \in StreamWorkers \ {w} : call'[v] = call[v]
  BY <1>3, <1>4 DEF Maps
<1>7. Types' /\ Share' = Share
  BY <1>1, <1>2, <1>3, <1>6 DEF CpuInv, Types, Share
<1>8. WorkerInv(w)
  BY DEF CpuInv
<1>9. InOrder(w)' /\ SharesFit(w)'
  BY <1>3, <1>4, <1>6, <1>7, <1>8 DEF WorkerInv, InOrder, SharesFit, Mapping
<1>10. ClaimStands(w)'
  <2>1. 1..call[w].batches \subseteq Batches
    BY SubmittedFirst, CpuAssumption DEF Batches
  <2>2. place = "returned" => \A i \in 1..call[w].batches : batch[w][i] = "ok"
    BY <1>3, <1>5, <1>8, <2>1 DEF WorkerInv, ClaimStands, Finished
  <2>3. QED BY <1>1, <1>2, <1>3, <1>4, <1>6, <2>2 DEF ClaimStands, Mapping
<1>11. QED BY <1>1, <1>2, <1>3, <1>6, <1>7, <1>9, <1>10, OthersKept DEF WorkerInv

\* The next map begins with nothing submitted.
LEMMA UseMapKeeps ==
  ASSUME CpuInv, NEW w \in StreamWorkers, UseMap(w)
  PROVE  CpuInv'
<1> DEFINE new == [at |-> "idle", items |-> 0, batches |-> 0, share |-> 0, failed |-> FALSE]
           none == [i \in Batches |-> "none"]
<1>1. /\ call' = [call EXCEPT ![w] = new] /\ batch' = [batch EXCEPT ![w] = none]
      /\ UNCHANGED <<machine, claims, native>> /\ call[w].at \notin Mapping
  BY DEF UseMap, Mapping, Batches
<1>2. /\ new \in Maps /\ new.at = "idle" /\ new.items = 0 /\ new.batches = 0 /\ new.share = 0
  BY DEF Maps
<1>3. none \in [Batches -> {"none", "queued", "running"} \cup Finished] /\ \A i \in Batches : none[i] = "none"
  OBVIOUS
<1> HIDE DEF new, none
<1>4. /\ call' \in [StreamWorkers -> Maps] /\ call'[w] = new
      /\ batch' \in [StreamWorkers -> [Batches -> {"none", "queued", "running"} \cup Finished]]
      /\ batch'[w] = none
      /\ \A v \in StreamWorkers \ {w} : call'[v] = call[v] /\ batch'[v] = batch[v]
  BY <1>1, <1>2, <1>3 DEF CpuInv, Types
<1>5. Types' /\ BudgetTight' /\ Share' = Share
  BY <1>1, <1>4 DEF CpuInv, Types, BudgetTight, Share
<1>6. WorkerInv(w)'
  <2>1. WorkerInv(w)
    BY DEF CpuInv
  <2>2. InOrder(w)'
    <3>1. 0 \in 0..call'[w].batches /\ \A i \in Batches : ~(i <= 0)
      BY <1>2, <1>4, CpuAssumption DEF Batches
    <3>2. QED BY <1>3, <1>4, <3>1 DEF InOrder
  <2>3. SharesFit(w)'
    <3>1. Share \in Nat
      BY MachineShared DEF CpuInv, Types, Share
    <3>2. QED BY <1>2, <1>4, <1>5, <3>1, CpuAssumption DEF SharesFit, Mapping
  <2>4. ClaimStands(w)'
    BY <1>1, <1>2, <1>3, <1>4, <2>1 DEF WorkerInv, ClaimStands, Mapping
  <2>5. QED BY <2>2, <2>3, <2>4 DEF WorkerInv
<1>7. QED BY <1>1, <1>4, <1>5, <1>6, OthersKept

-----------------------------------------------------------------------------
(* The theorems *)

\* The budget is the tightest of the claims that are held, and a map holds its
\* claim until the last of its batches is done.
THEOREM CpuInvariant == CpuSpec => []CpuInv
<1>1. CpuInit => CpuInv
  <2> SUFFICES ASSUME CpuInit PROVE CpuInv
    OBVIOUS
  <2>1. machine \in [total : Nat \ {0}, core : BOOLEAN]
    BY CpuAssumption DEF CpuInit
  <2>2. call \in [StreamWorkers -> Maps]
    BY DEF CpuInit, Maps
  <2>3. Types /\ BudgetTight
    BY <2>1, <2>2 DEF CpuInit, Types, BudgetTight, Owners, Batches
  <2>4. Share \in Nat
    BY <2>1, MachineShared DEF Share
  <2>5. ASSUME NEW w \in StreamWorkers PROVE WorkerInv(w)
    <3>1. /\ call[w].at = "idle" /\ call[w].items = 0 /\ call[w].batches = 0 /\ call[w].share = 0
          /\ claims[w] = 0 /\ \A i \in Batches : batch[w][i] = "none"
      BY DEF CpuInit, Batches
    <3>2. InOrder(w)
      <4>1. 0 \in 0..call[w].batches /\ \A i \in Batches : ~(i <= 0)
        BY <3>1, CpuAssumption DEF Batches
      <4>2. QED BY <3>1, <4>1 DEF InOrder
    <3>3. SharesFit(w) /\ ClaimStands(w)
      BY <2>4, <3>1, CpuAssumption DEF SharesFit, ClaimStands, Mapping
    <3>4. QED BY <3>2, <3>3 DEF WorkerInv
  <2>6. QED BY <2>3, <2>5 DEF CpuInv
<1>2. CpuInv /\ [CpuNext]_cpuVars => CpuInv'
  <2> SUFFICES ASSUME CpuInv, [CpuNext]_cpuVars PROVE CpuInv'
    OBVIOUS
  <2>1. CASE OpenSection \/ CloseSection
    BY <2>1, OpenSectionKeeps, CloseSectionKeeps
  <2>2. ASSUME NEW w \in StreamWorkers, BeginMap(w) PROVE CpuInv'
    BY <2>2, BeginMapKeeps
  <2>3. ASSUME NEW w \in StreamWorkers, SubmitBatch(w) PROVE CpuInv'
    BY <2>3, SubmitBatchKeeps
  <2>4. ASSUME NEW w \in StreamWorkers, NEW i \in Batches, RunBatch(w, i) PROVE CpuInv'
    BY <2>4, BatchKeeps DEF RunBatch
  <2>5. ASSUME NEW w \in StreamWorkers, NEW i \in Batches, EndBatch(w, i) PROVE CpuInv'
    <3>1. {"ok", "failed"} \subseteq Finished
      BY DEF Finished
    <3>2. QED BY <2>5, <3>1, BatchKeeps DEF EndBatch
  <2>6. ASSUME NEW w \in StreamWorkers, EndMap(w) PROVE CpuInv'
    BY <2>6, EndMapKeeps
  <2>7. ASSUME NEW w \in StreamWorkers, InterruptMap(w) \/ UseMap(w) PROVE CpuInv'
    BY <2>7, InterruptMapKeeps, UseMapKeeps
  <2>8. CASE UNCHANGED cpuVars
    BY <2>8 DEF cpuVars, CpuInv, Types, BudgetTight, WorkerInv, InOrder, SharesFit, ClaimStands, Share
  <2>9. QED BY <2>1, <2>2, <2>3, <2>4, <2>5, <2>6, <2>7, <2>8 DEF CpuNext, MapStep, Batches
<1>3. QED BY <1>1, <1>2, PTL DEF CpuSpec

\* On any machine no kernel of a running batch starts more threads than the share
\* of its map, the shares of a worker's running batches fit its own, and those of
\* all stream workers the machine and four threads more.
THEOREM KernelsAlwaysWithinShare == CpuSpec => []KernelsWithinShare
<1>1. CpuInv => KernelsWithinShare
  <2> SUFFICES ASSUME CpuInv PROVE KernelsWithinShare
    OBVIOUS
  <2>1. ASSUME NEW r \in Running PROVE BudgetedWorkers <= call[r[1]].share
    <3>1. r[1] \in StreamWorkers /\ r[2] \in Batches /\ batch[r[1]][r[2]] = "running"
      BY DEF Running, Batches
    <3>2. ClaimStands(r[1]) /\ SharesFit(r[1])
      BY <3>1 DEF CpuInv, WorkerInv
    <3>3. call[r[1]].at \in Mapping
      BY <3>1, <3>2 DEF ClaimStands, Finished
    <3>4. claims[r[1]] = call[r[1]].share /\ call[r[1]].share >= 1
      BY <3>2, <3>3 DEF ClaimStands, SharesFit
    <3>5. call[r[1]].share \in Nat /\ r[1] \in Owners
      BY <3>1 DEF CpuInv, Types, Maps, Owners
    <3>6. native # 0 /\ native <= call[r[1]].share
      BY <3>4, <3>5 DEF CpuInv, BudgetTight
    <3>7. machine.total \in Nat /\ native \in Nat
      BY DEF CpuInv, Types
    <3>8. QED BY <3>5, <3>6, <3>7 DEF BudgetedWorkers, Smaller
  <2>2. ASSUME NEW w \in StreamWorkers
        PROVE  call[w].share * Cardinality({i \in 1..MaxItems : batch[w][i] = "running"}) <= Share
    <3> DEFINE running == {i \in 1..MaxItems : batch[w][i] = "running"}
    <3>1. /\ call[w].batches \in Nat /\ call[w].share \in Nat
          /\ call[w].share * call[w].batches <= Share /\ Share \in Nat
      <4>1. Share \in Nat
        BY MachineShared DEF CpuInv, Types, Share
      <4>2. QED BY <4>1 DEF CpuInv, WorkerInv, SharesFit, Types, Maps
    <3>2. running \subseteq 1..call[w].batches
      BY SubmittedFirst, CpuAssumption DEF Batches
    <3>3. IsFiniteSet(1..call[w].batches) /\ Cardinality(1..call[w].batches) = call[w].batches
      <4>1. ASSUME NEW n \in Nat PROVE IsFiniteSet(1..n) /\ Cardinality(1..n) = n
        BY FS_Interval
      <4>2. QED BY <3>1, <4>1
    <3>4. Cardinality(running) <= call[w].batches /\ Cardinality(running) \in Nat
      BY <3>2, <3>3, FS_Subset, FS_CardinalityType
    <3> HIDE DEF running
    <3>5. call[w].share * Cardinality(running) <= call[w].share * call[w].batches
      BY <3>1, <3>4
    <3>6. call[w].share * Cardinality(running) \in Nat /\ call[w].share * call[w].batches \in Nat
      BY <3>1, <3>4
    <3>7. call[w].share * Cardinality(running) <= Share
      BY <3>1, <3>5, <3>6
    <3>8. QED BY <3>7 DEF running
  <2>3. Outer(machine.total, machine.core) * Share <= machine.total + 4
    BY MachineShared DEF CpuInv, Types, Share
  <2>4. QED BY <2>1, <2>2, <2>3 DEF KernelsWithinShare
<1>2. QED BY <1>1, CpuInvariant, PTL

\* A map that returns has computed every batch it split its items into.
THEOREM MapsReturnWhole == CpuSpec => []ReturnsWhole
<1>1. CpuInv => ReturnsWhole
  BY DEF CpuInv, WorkerInv, ClaimStands, ReturnsWhole
<1>2. QED BY <1>1, CpuInvariant, PTL

-----------------------------------------------------------------------------
(* The runtime caches *)

Items == [name : Names, value : Outcomes]
Places == {"idle", "lookup", "wait", "build", "notify", "land", "pop", "done"}
Owning == {"build", "notify", "land", "pop"}
Calls == [at : Places, token : Tokens \cup {Nobody}, joined : Callers \cup {Nobody},
          answer : Outcomes \cup {Nobody}]

\* The state of get_or_compute: a call knows its key once it is open.
CallsTyped ==
    /\ caches \in [Kinds -> Seq(Items)]
    /\ inflight \in [Tokens -> Callers \cup {Nobody}]
    /\ verdict \in [Callers -> Outcomes \cup {Nobody}]
    /\ lookups \in [Callers -> Calls]
    /\ offers \in [Callers -> SUBSET Outcomes]
    /\ \A c \in Callers : LookupAt(c, "idle") <=> lookups[c].token = Nobody

\* A name is cached once.
Unrepeated(q) == \A i \in DOMAIN q, j \in DOMAIN q : q[i].name = q[j].name => i = j
NamesOnce == \A kind \in Kinds : Unrepeated(caches[kind])

\* A flight on record has an owner at work on that key, and an owner's flight
\* is the one on record.
FlightsOwned ==
    /\ \A token \in Tokens : inflight[token] # Nobody =>
           /\ lookups[inflight[token]].token = token
           /\ lookups[inflight[token]].at \in Owning
    /\ \A c \in Callers : lookups[c].at \in Owning => inflight[lookups[c].token] = c

\* A Future is decided when its owner is about to take the flight off record.
DecidedInTime ==
    \A c \in Callers :
        /\ lookups[c].at \notin {"pop", "done"} => verdict[c] = Nobody
        /\ LookupAt(c, "pop") => verdict[c] \in {Value(c), Failure(c)}

\* What is cached while a flight is on record can only be its value.
CachedByFlight ==
    \A token \in Tokens : inflight[token] # Nobody =>
        LET owner == inflight[token] IN
        IF LookupAt(owner, "build") \/ verdict[owner] = Failure(owner)
          THEN Cached(token) = {}
          ELSE Cached(token) \subseteq {Value(owner)}

\* An open call was offered the outcome in force, and a subscriber whatever
\* its flight has come to.
OffersHold ==
    \A c \in Callers, token \in Tokens :
        lookups[c].token = token /\ ~LookupAt(c, "done") =>
            InForce(token) \in offers[c] \cup {Nobody}

SubscribersServed ==
    \A c \in Callers : LookupAt(c, "wait") =>
        /\ lookups[c].joined \in Callers
        /\ lookups[lookups[c].joined].token = lookups[c].token
        /\ lookups[lookups[c].joined].at \in {"notify", "land"} =>
               Value(lookups[c].joined) \in offers[c]
        /\ verdict[lookups[c].joined] \in offers[c] \cup {Nobody}

CallInv ==
    /\ CallsTyped /\ NamesOnce /\ FlightsOwned /\ DecidedInTime
    /\ CachedByFlight /\ OffersHold /\ SubscribersServed

\* What a sequence of items holds under a name.
Under(q, n) == {q[i].value : i \in {j \in DOMAIN q : q[j].name = n}}

\* An item is under its name.
LEMMA UnderOf ==
    ASSUME NEW q \in Seq(Items), NEW n, NEW v
    PROVE  v \in Under(q, n) <=> \E i \in 1..Len(q) : q[i].name = n /\ q[i].value = v
<1> DOMAIN q = 1..Len(q)
  BY LenProperties
<1> QED
  BY DEF Under

\* A name that is there once holds one value.
LEMMA UnderOnce ==
    ASSUME NEW q \in Seq(Items), Unrepeated(q), NEW n,
           NEW v \in Under(q, n), NEW w \in Under(q, n)
    PROVE  v = w
<1>1. PICK i \in 1..Len(q) : q[i].name = n /\ q[i].value = v
  BY UnderOf
<1>2. PICK j \in 1..Len(q) : q[j].name = n /\ q[j].value = w
  BY UnderOf
<1>3. i = j
  BY <1>1, <1>2, LenProperties DEF Unrepeated
<1> QED
  BY <1>1, <1>2, <1>3

\* A sequence each of whose items stood in another one, at a place of its own,
\* holds nothing new.
LEMMA UnderFewer ==
    ASSUME NEW q \in Seq(Items), Unrepeated(q), NEW r \in Seq(Items), NEW g \in Nat,
           \A j \in 1..Len(r) : g + j \in 1..Len(q) /\ r[j] = q[g + j]
    PROVE  Unrepeated(r) /\ \A n : Under(r, n) \subseteq Under(q, n)
<1>0. DOMAIN q = 1..Len(q) /\ DOMAIN r = 1..Len(r) /\ Len(q) \in Nat /\ Len(r) \in Nat
  BY LenProperties
<1>1. Unrepeated(r)
  <2> SUFFICES ASSUME NEW i \in 1..Len(r), NEW j \in 1..Len(r), r[i].name = r[j].name PROVE i = j
    BY <1>0 DEF Unrepeated
  <2>0. /\ g + i \in DOMAIN q /\ g + j \in DOMAIN q
        /\ q[g + i].name = q[g + j].name
    BY <1>0
  <2>1. g + i = g + j
    BY <2>0 DEF Unrepeated
  <2> QED
    BY <1>0, <2>1
<1>2. ASSUME NEW n, NEW v \in Under(r, n) PROVE v \in Under(q, n)
  <2>1. PICK i \in 1..Len(r) : r[i].name = n /\ r[i].value = v
    BY UnderOf
  <2> QED
    BY <2>1, UnderOf
<1> QED
  BY <1>1, <1>2

\* The oldest item less, or the oldest of too many.
LEMMA UnderTrimmed ==
    ASSUME NEW q \in Seq(Items), Unrepeated(q)
    PROVE  /\ q # <<>> => /\ Tail(q) \in Seq(Items) /\ Unrepeated(Tail(q))
                          /\ \A n : Under(Tail(q), n) \subseteq Under(q, n)
           /\ \A limit \in Nat : /\ KeepNewest(q, limit) \in Seq(Items)
                                 /\ Unrepeated(KeepNewest(q, limit))
                                 /\ \A n : Under(KeepNewest(q, limit), n) \subseteq Under(q, n)
<1>0. Len(q) \in Nat
  BY LenProperties
<1>1. ASSUME q # <<>>
      PROVE  /\ Tail(q) \in Seq(Items) /\ Unrepeated(Tail(q))
             /\ \A n : Under(Tail(q), n) \subseteq Under(q, n)
  <2>1. /\ Tail(q) \in Seq(Items) /\ Len(Tail(q)) = Len(q) - 1
        /\ \A i \in 1..Len(Tail(q)) : Tail(q)[i] = q[i + 1]
    BY <1>1, HeadTailProperties
  <2>2. \A j \in 1..Len(Tail(q)) : 1 + j \in 1..Len(q) /\ Tail(q)[j] = q[1 + j]
    BY <1>0, <2>1
  <2> QED
    BY <2>1, <2>2, UnderFewer
<1>2. ASSUME NEW limit \in Nat
      PROVE  /\ KeepNewest(q, limit) \in Seq(Items)
             /\ Unrepeated(KeepNewest(q, limit))
             /\ \A n : Under(KeepNewest(q, limit), n) \subseteq Under(q, n)
  <2> DEFINE r == KeepNewest(q, limit)
             gone == IF Len(q) <= limit THEN 0 ELSE Len(q) - limit
  <2>1. /\ r \in Seq(Items)
        /\ Len(r) = Len(q) - gone
        /\ \A j \in 1..Len(r) : r[j] = q[gone + j]
    BY KeepNewestFacts
  <2>2. gone \in Nat /\ \A j \in 1..Len(r) : gone + j \in 1..Len(q)
    BY <1>0, <2>1
  <2> HIDE DEF r, gone
  <2> QED
    BY <2>1, <2>2, UnderFewer DEF r
<1> QED
  BY <1>1, <1>2

\* What is cached, for the sequences of the lemmas above.
LEMMA CachedIsUnder ==
    ASSUME NEW token
    PROVE  /\ Cached(token) = Under(caches[token[1]], token[2])
           /\ Cached(token)' = Under(caches'[token[1]], token[2])
<1> QED
  BY DEF Cached, Under

\* A key stored anew: nothing but its value changes, and its name is there once.
LEMMA NewestFacts ==
    ASSUME CallsTyped, NamesOnce, NEW token \in Tokens, NEW v \in Outcomes
    PROVE  /\ Newest(token, v) \in Seq(Items)
           /\ Unrepeated(Newest(token, v))
           /\ Under(Newest(token, v), token[2]) = {v}
           /\ \A n : n # token[2] =>
                  Under(Newest(token, v), n) = Under(caches[token[1]], n)
<1> DEFINE q == caches[token[1]]
           name == token[2]
           rest == Others(token)
           item == [name |-> name, value |-> v]
<1>0. /\ q \in Seq(Items) /\ Unrepeated(q) /\ name \in Names
      /\ Len(q) \in Nat /\ DOMAIN q = 1..Len(q) /\ item \in Items
  <2>1. token[1] \in Kinds /\ token[2] \in Names
    BY DEF Tokens
  <2>2. q \in Seq(Items) /\ Unrepeated(q)
    BY <2>1 DEF CallsTyped, NamesOnce
  <2>3. item \in Items
    BY <2>1 DEF Items
  <2> HIDE DEF q
  <2> QED
    BY <2>1, <2>2, <2>3, LenProperties
<1> HIDE DEF q
<1>1. /\ rest \in Seq(Items) /\ Unrepeated(rest) /\ Under(rest, name) = {}
      /\ \A n : n # name => Under(rest, n) = Under(q, n)
  <2>1. CASE \A i \in 1..Len(q) : q[i].name # name
    <3>1. rest = q
      BY <2>1 DEF Others, RemoveFirstMatch, q
    <3>2. Under(q, name) = {}
      BY <1>0, <2>1, UnderOf
    <3> QED
      BY <1>0, <3>1, <3>2
  <2>2. CASE \E i \in 1..Len(q) : q[i].name = name
    <3>1. PICK k \in 1..Len(q) : q[k].name = name
      BY <2>2
    <3> DEFINE I == {i \in 1..Len(q) : q[i].name = name}
    <3>2. k \in I /\ I \in SUBSET (1..Len(q)) /\ \A i \in I : i = k
      BY <1>0, <3>1 DEF Unrepeated
    <3>3. Min(I) = k
      <4> HIDE DEF I
      <4> QED
        BY <1>0, <3>2, OnlyPosition
    <3>4. SelectInSeq(q, LAMBDA x : x.name = name) = k
      BY <3>2, <3>3 DEF SelectInSeq
    <3>5. rest = RemoveAt(q, k)
      BY <2>2, <3>4 DEF Others, RemoveFirstMatch, q
    <3> HIDE DEF rest, I
    <3>6. /\ rest \in Seq(Items) /\ Len(rest) = Len(q) - 1
          /\ \A j \in 1..Len(q) - 1 : rest[j] = IF j < k THEN q[j] ELSE q[j + 1]
      BY <1>0, <3>5, RemoveAtFacts
    <3>7. DOMAIN rest = 1..Len(q) - 1
      BY <3>6, LenProperties
    <3> DEFINE at(j) == IF j < k THEN j ELSE j + 1
    <3>8. ASSUME NEW j \in 1..Len(q) - 1
          PROVE  at(j) \in 1..Len(q) /\ at(j) # k /\ rest[j] = q[at(j)]
      BY <1>0, <3>6
    <3>9. Unrepeated(rest)
      <4> SUFFICES ASSUME NEW i \in 1..Len(q) - 1, NEW j \in 1..Len(q) - 1,
                          rest[i].name = rest[j].name
                   PROVE  i = j
        BY <3>7 DEF Unrepeated
      <4>1. at(i) = at(j)
        <5> HIDE DEF at
        <5> QED
          BY <1>0, <3>8 DEF Unrepeated
      <4> QED
        BY <1>0, <4>1
    <3>10. Under(rest, name) = {}
      <4> SUFFICES ASSUME NEW j \in 1..Len(q) - 1, rest[j].name = name PROVE FALSE
        BY <3>6, UnderOf
      <4> HIDE DEF at
      <4> QED
        BY <1>0, <3>1, <3>8 DEF Unrepeated
    <3>11. ASSUME NEW n, n # name PROVE Under(rest, n) = Under(q, n)
      <4>1. ASSUME NEW x \in Under(rest, n) PROVE x \in Under(q, n)
        <5>1. PICK j \in 1..Len(q) - 1 : rest[j].name = n /\ rest[j].value = x
          BY <3>6, UnderOf
        <5> HIDE DEF at
        <5> QED
          BY <1>0, <3>8, <5>1, UnderOf
      <4>2. ASSUME NEW x \in Under(q, n) PROVE x \in Under(rest, n)
        <5>1. PICK i \in 1..Len(q) : q[i].name = n /\ q[i].value = x
          BY <1>0, UnderOf
        <5>2. i # k
          BY <3>1, <3>11, <5>1
        <5>3. CASE i < k
          <6>1. i \in 1..Len(q) - 1 /\ rest[i] = q[i]
            BY <1>0, <3>6, <5>3
          <6> QED
            BY <3>6, <5>1, <6>1, UnderOf
        <5>4. CASE i > k
          <6>1. i - 1 \in 1..Len(q) - 1 /\ ~(i - 1 < k) /\ (i - 1) + 1 = i
            BY <1>0, <5>4
          <6>2. rest[i - 1] = q[i]
            BY <3>6, <6>1
          <6> QED
            BY <3>6, <5>1, <6>1, <6>2, UnderOf
        <5> QED
          BY <1>0, <5>2, <5>3, <5>4
      <4> QED
        BY <4>1, <4>2
    <3> QED
      BY <3>6, <3>9, <3>10, <3>11
  <2> QED
    BY <2>1, <2>2
<1> DEFINE new == Newest(token, v)
<1>2. new = Append(rest, item)
  BY DEF Newest
<1> HIDE DEF rest, item, new
<1>3. /\ new \in Seq(Items) /\ Len(new) = Len(rest) + 1
      /\ \A i \in 1..Len(rest) : new[i] = rest[i]
      /\ new[Len(rest) + 1] = item
  BY <1>0, <1>1, <1>2, AppendProperties
<1>4. Len(rest) \in Nat /\ DOMAIN rest = 1..Len(rest) /\ DOMAIN new = 1..Len(rest) + 1
  BY <1>1, <1>3, LenProperties
<1>5. item.name = name /\ item.value = v
  BY DEF item
<1>6. \A i \in 1..Len(rest) : rest[i].name # name
  BY <1>1, UnderOf
<1>7. Unrepeated(new)
  <2> SUFFICES ASSUME NEW i \in 1..Len(rest) + 1, NEW j \in 1..Len(rest) + 1,
                      new[i].name = new[j].name
               PROVE  i = j
    BY <1>4 DEF Unrepeated
  <2> HIDE DEF name
  <2> QED
    BY <1>1, <1>3, <1>4, <1>5, <1>6 DEF Unrepeated
<1>8. Under(new, name) = {v}
  <2>1. ASSUME NEW x \in Under(new, name) PROVE x = v
    <3>1. PICK i \in 1..Len(rest) + 1 : new[i].name = name /\ new[i].value = x
      BY <1>3, UnderOf
    <3>2. i = Len(rest) + 1
      BY <1>3, <1>4, <1>6, <3>1
    <3> QED
      BY <1>3, <1>5, <3>1, <3>2
  <2>2. Len(rest) + 1 \in 1..Len(new)
    BY <1>3, <1>4
  <2>3. v \in Under(new, name)
    BY <1>3, <1>5, <2>2, UnderOf
  <2> QED
    BY <2>1, <2>3
<1>9. ASSUME NEW n, n # name PROVE Under(new, n) = Under(rest, n)
  <2>1. ASSUME NEW x \in Under(new, n) PROVE x \in Under(rest, n)
    <3>1. PICK i \in 1..Len(rest) + 1 : new[i].name = n /\ new[i].value = x
      BY <1>3, UnderOf
    <3>2. i \in 1..Len(rest)
      BY <1>3, <1>4, <1>5, <1>9, <3>1
    <3> QED
      BY <1>1, <1>3, <3>1, <3>2, UnderOf
  <2>2. ASSUME NEW x \in Under(rest, n) PROVE x \in Under(new, n)
    <3>1. PICK i \in 1..Len(rest) : rest[i].name = n /\ rest[i].value = x
      BY <1>1, UnderOf
    <3>2. i \in 1..Len(new) /\ new[i] = rest[i]
      BY <1>3, <1>4
    <3> QED
      BY <1>3, <3>1, <3>2, UnderOf
  <2> QED
    BY <2>1, <2>2
<1> QED
  BY <1>1, <1>3, <1>7, <1>8, <1>9 DEF new, q

\* Outcomes are told from each other and from none.
LEMMA OutcomesDiffer ==
    ASSUME NEW c \in Callers
    PROVE  /\ Value(c) \in Outcomes /\ Failure(c) \in Outcomes
           /\ Value(c) # Failure(c) /\ Value(c) # Nobody /\ Failure(c) # Nobody
<1> QED
  BY NobodyAssumption DEF Value, Failure, Outcomes

\* A call goes to another place, and the others stay.
LEMMA Gone ==
    ASSUME CallsTyped, NEW c \in Callers, NEW place \in Places, LookupGoto(c, place)
    PROVE  /\ lookups' \in [Callers -> Calls]
           /\ \A d \in Callers : d # c => lookups'[d] = lookups[d]
           /\ lookups'[c].at = place /\ lookups'[c].token = lookups[c].token
           /\ lookups'[c].joined = lookups[c].joined /\ lookups'[c].answer = lookups[c].answer
<1> QED
  BY DEF CallsTyped, Calls, LookupGoto

\* A call ends with an answer, and the others stay.
LEMMA Answered ==
    ASSUME CallsTyped, NEW c \in Callers, NEW v \in Outcomes,
           lookups' = [lookups EXCEPT ![c].at = "done", ![c].answer = v]
    PROVE  /\ lookups' \in [Callers -> Calls]
           /\ \A d \in Callers : d # c => lookups'[d] = lookups[d]
           /\ lookups'[c].at = "done" /\ lookups'[c].token = lookups[c].token
           /\ lookups'[c].joined = lookups[c].joined /\ lookups'[c].answer = v
<1> QED
  BY DEF CallsTyped, Calls, Places

\* What is in force for a key stays so, or is lost, while its flight is where it
\* was and nothing new is cached.
LEMMA ForceKept ==
    ASSUME CallsTyped, NamesOnce, NEW token \in Tokens,
           inflight'[token] = inflight[token],
           inflight[token] # Nobody =>
               /\ verdict'[inflight[token]] = verdict[inflight[token]]
               /\ \/ lookups'[inflight[token]].at = lookups[inflight[token]].at
                  \/ {lookups'[inflight[token]].at, lookups[inflight[token]].at}
                         \subseteq {"notify", "land"},
           Cached(token)' \subseteq Cached(token)
    PROVE  /\ InForce(token)' \in {InForce(token), Nobody}
           /\ Cached(token)' = Cached(token) => InForce(token)' = InForce(token)
<1> DEFINE o == inflight[token]
<1>1. CASE o # Nobody /\ (LookupAt(o, "notify") \/ LookupAt(o, "land"))
  BY <1>1 DEF InForce, LookupAt
<1>2. CASE o # Nobody /\ ~(LookupAt(o, "notify") \/ LookupAt(o, "land")) /\ verdict[o] # Nobody
  BY <1>2 DEF InForce, LookupAt
<1>3. CASE \/ o = Nobody
           \/ ~(LookupAt(o, "notify") \/ LookupAt(o, "land")) /\ verdict[o] = Nobody
  <2> DEFINE held == Cached(token)
             left == Cached(token)'
  <2>1. InForce(token) = IF held # {} THEN CHOOSE v \in held : TRUE ELSE Nobody
    BY <1>3 DEF InForce
  <2>2. InForce(token)' = IF left # {} THEN CHOOSE v \in left : TRUE ELSE Nobody
    BY <1>3 DEF InForce, LookupAt
  <2>3. left = {} \/ left = held
    <3>1. \A v \in held, w \in held : v = w
      <4>1. token[1] \in Kinds
        BY DEF Tokens
      <4>2. caches[token[1]] \in Seq(Items) /\ Unrepeated(caches[token[1]])
        BY <4>1 DEF CallsTyped, NamesOnce
      <4> HIDE DEF Tokens
      <4> QED
        BY <4>2, CachedIsUnder, UnderOnce
    <3> HIDE DEF held, left
    <3>2. left \subseteq held
      BY DEF held, left
    <3> QED
      BY <3>1, <3>2
  <2> HIDE DEF held, left
  <2>4. InForce(token)' \in {InForce(token), Nobody}
    BY <2>1, <2>2, <2>3
  <2>5. left = held => InForce(token)' = InForce(token)
    BY <2>1, <2>2
  <2> QED
    BY <2>4, <2>5 DEF held, left
<1> QED
  BY <1>1, <1>2, <1>3

\* What is cached is in force.
LEMMA CachedInForce ==
    ASSUME CallInv, NEW token \in Tokens, NEW v \in Cached(token)
    PROVE  InForce(token) = v
<1>1. \A w \in Cached(token) : w = v
  <2>1. token[1] \in Kinds
    BY DEF Tokens
  <2>2. caches[token[1]] \in Seq(Items) /\ Unrepeated(caches[token[1]])
    BY <2>1 DEF CallInv, CallsTyped, NamesOnce
  <2> QED
    BY <2>2, CachedIsUnder, UnderOnce
<1>2. (CHOOSE w \in Cached(token) : TRUE) = v /\ Cached(token) # {}
  BY <1>1
<1>3. CASE inflight[token] = Nobody
  BY <1>2, <1>3 DEF InForce
<1>4. CASE inflight[token] # Nobody
  <2> DEFINE o == inflight[token]
  <2>1. o \in Callers /\ lookups[o].at \in Owning /\ Cached(token) = {v}
    BY <1>1, <1>4 DEF CallInv, CallsTyped, FlightsOwned
  <2>2. ~LookupAt(o, "build") /\ verdict[o] # Failure(o) /\ v = Value(o)
    BY <1>4, <2>1 DEF CallInv, CachedByFlight
  <2>3. CASE LookupAt(o, "pop")
    <3>1. verdict[o] = Value(o)
      BY <2>1, <2>2, <2>3 DEF CallInv, DecidedInTime
    <3> QED
      BY <1>4, <2>1, <2>2, <2>3, <3>1, OutcomesDiffer DEF InForce, LookupAt
  <2>4. CASE LookupAt(o, "notify") \/ LookupAt(o, "land")
    BY <1>4, <2>2, <2>4 DEF InForce
  <2> QED
    BY <2>1, <2>2, <2>3, <2>4 DEF Owning, LookupAt
<1> QED
  BY <1>3, <1>4

\* An open call keeps what it was offered while no decision is made: what is in
\* force can only be lost.
LEMMA OffersKept ==
    ASSUME CallInv, offers' = offers,
           \A d \in Callers : /\ lookups'[d].token = lookups[d].token
                              /\ lookups'[d].at # "done" => lookups[d].at # "done",
           \A token \in Tokens : InForce(token)' \in {InForce(token), Nobody}
    PROVE  OffersHold'
<1> SUFFICES ASSUME NEW d \in Callers, NEW token \in Tokens,
                    lookups'[d].token = token, lookups'[d].at # "done"
             PROVE  InForce(token)' \in offers'[d] \cup {Nobody}
  BY DEF OffersHold, LookupAt
<1>1. InForce(token) \in offers[d] \cup {Nobody}
  BY DEF CallInv, OffersHold, LookupAt
<1> QED
  BY <1>1

\* A subscriber stays served while flights only move on.
LEMMA ServedKept ==
    ASSUME CallInv, \A d \in Callers : offers[d] \subseteq offers'[d],
           \A d \in Callers :
               /\ lookups'[d].token = lookups[d].token
               /\ lookups'[d].joined = lookups[d].joined
               /\ lookups'[d].at = "wait" => lookups[d].at = "wait"
               /\ \/ lookups'[d].at \in {"notify", "land"} => lookups[d].at \in {"notify", "land"}
                  \/ \A e \in Callers : lookups[e].at = "wait" /\ lookups[e].token = lookups[d].token =>
                         Value(d) \in offers'[e]
               /\ \/ verdict'[d] = verdict[d]
                  \/ verdict'[d] = Value(d) /\ lookups[d].at = "land"
                  \/ \A e \in Callers : lookups[e].at = "wait" /\ lookups[e].token = lookups[d].token =>
                         verdict'[d] \in offers'[e]
    PROVE  SubscribersServed'
<1> SUFFICES ASSUME NEW c \in Callers, lookups'[c].at = "wait"
             PROVE  /\ lookups'[c].joined \in Callers
                    /\ lookups'[lookups'[c].joined].token = lookups'[c].token
                    /\ lookups'[lookups'[c].joined].at \in {"notify", "land"} =>
                           Value(lookups'[c].joined) \in offers'[c]
                    /\ verdict'[lookups'[c].joined] \in offers'[c] \cup {Nobody}
  BY DEF SubscribersServed, LookupAt
<1> DEFINE j == lookups[c].joined
<1>1. lookups[c].at = "wait" /\ lookups'[c].joined = j /\ lookups'[c].token = lookups[c].token
  OBVIOUS
<1>2. /\ j \in Callers
      /\ lookups[j].token = lookups[c].token
      /\ lookups[j].at \in {"notify", "land"} => Value(j) \in offers[c]
      /\ verdict[j] \in offers[c] \cup {Nobody}
  BY <1>1 DEF CallInv, SubscribersServed, LookupAt
<1> HIDE DEF j
<1>3. lookups'[j].token = lookups[c].token
  BY <1>2
<1>4. lookups'[j].at \in {"notify", "land"} => Value(j) \in offers'[c]
  BY <1>1, <1>2
<1>5. verdict'[j] \in offers'[c] \cup {Nobody}
  BY <1>1, <1>2
<1> QED
  BY <1>1, <1>2, <1>3, <1>4, <1>5

\* What is in force is an outcome.
LEMMA ForceTyped ==
    ASSUME CallInv, NEW token \in Tokens
    PROVE  InForce(token) \in Outcomes \cup {Nobody}
<1>1. \A v \in Cached(token) : v \in Outcomes
  <2>1. token[1] \in Kinds
    BY DEF Tokens
  <2>2. caches[token[1]] \in Seq(Items)
    BY <2>1 DEF CallInv, CallsTyped
  <2>3. ASSUME NEW v \in Cached(token) PROVE v \in Outcomes
    <3>1. PICK i \in 1..Len(caches[token[1]]) : caches[token[1]][i].value = v
      BY <2>2, CachedIsUnder, UnderOf
    <3>2. caches[token[1]][i] \in Items
      BY <2>2, ElementOfSeq
    <3> QED
      BY <3>1, <3>2 DEF Items
  <2> QED
    BY <2>3
<1>2. Cached(token) # {} => (CHOOSE v \in Cached(token) : TRUE) \in Cached(token)
  OBVIOUS
<1>3. inflight[token] # Nobody => inflight[token] \in Callers
  BY DEF CallInv, CallsTyped
<1> QED
  BY <1>1, <1>2, <1>3, OutcomesDiffer DEF InForce, CallInv, CallsTyped

\* A step that leaves flights and their owners alone leaves what is known of them.
LEMMA FlightsQuiet ==
    ASSUME CallInv, inflight' = inflight, verdict' = verdict,
           \A d \in Callers :
               /\ lookups[d].at \in Owning \/ lookups'[d].at \in Owning => lookups'[d] = lookups[d]
               /\ lookups[d].at = "done" => lookups'[d].at = "done",
           \A token \in Tokens : Cached(token)' \subseteq Cached(token)
    PROVE  /\ FlightsOwned' /\ DecidedInTime' /\ CachedByFlight'
           /\ \A token \in Tokens :
                  /\ InForce(token)' \in {InForce(token), Nobody}
                  /\ Cached(token)' = Cached(token) => InForce(token)' = InForce(token)
<1>1. \A token \in Tokens : inflight[token] # Nobody =>
          inflight[token] \in Callers /\ lookups[inflight[token]].at \in Owning
                                      /\ lookups[inflight[token]].token = token
  BY DEF CallInv, CallsTyped, FlightsOwned
<1>2. FlightsOwned'
  <2>1. \A token \in Tokens : inflight'[token] # Nobody =>
           /\ lookups'[inflight'[token]].token = token
           /\ lookups'[inflight'[token]].at \in Owning
    BY <1>1
  <2>2. \A c \in Callers : lookups'[c].at \in Owning => inflight'[lookups'[c].token] = c
    BY DEF CallInv, FlightsOwned
  <2> QED
    BY <2>1, <2>2 DEF FlightsOwned
<1>3. DecidedInTime'
  <2> SUFFICES ASSUME NEW c \in Callers
               PROVE  /\ lookups'[c].at \notin {"pop", "done"} => verdict[c] = Nobody
                      /\ lookups'[c].at = "pop" => verdict[c] \in {Value(c), Failure(c)}
    BY DEF DecidedInTime, LookupAt, Value, Failure
  <2>1. CASE lookups'[c].at \in Owning
    BY <2>1 DEF CallInv, DecidedInTime, LookupAt
  <2>2. CASE lookups'[c].at \notin Owning
    <3>1. lookups'[c].at # "pop" /\ lookups[c].at # "pop"
      BY <2>2 DEF Owning
    <3> QED
      BY <3>1 DEF CallInv, DecidedInTime
  <2> QED
    BY <2>1, <2>2
<1>4. CachedByFlight'
  <2> SUFFICES ASSUME NEW token \in Tokens, inflight[token] # Nobody
               PROVE  IF lookups'[inflight[token]].at = "build"
                         \/ verdict[inflight[token]] = Failure(inflight[token])
                        THEN Cached(token)' = {}
                        ELSE Cached(token)' \subseteq {Value(inflight[token])}
    BY DEF CachedByFlight, LookupAt, Failure, Value
  <2>1. lookups'[inflight[token]] = lookups[inflight[token]]
    BY <1>1
  <2>2. Cached(token)' \subseteq Cached(token)
    OBVIOUS
  <2>3. IF lookups[inflight[token]].at = "build"
           \/ verdict[inflight[token]] = Failure(inflight[token])
          THEN Cached(token) = {}
          ELSE Cached(token) \subseteq {Value(inflight[token])}
    BY DEF CallInv, CachedByFlight, LookupAt
  <2> HIDE DEF Cached
  <2> QED
    BY <2>1, <2>2, <2>3
<1>5. ASSUME NEW token \in Tokens
      PROVE  /\ InForce(token)' \in {InForce(token), Nobody}
             /\ Cached(token)' = Cached(token) => InForce(token)' = InForce(token)
  <2>1. inflight[token] # Nobody => lookups'[inflight[token]] = lookups[inflight[token]]
    BY <1>1
  <2> QED
    BY <2>1, ForceKept DEF CallInv
<1> QED
  BY <1>2, <1>3, <1>4, <1>5

\* A call is opened: it may end with what is in force.
LEMMA EnterKeeps ==
    ASSUME CallInv, NEW c \in Callers, NEW token \in Tokens, Enter(c, token)
    PROVE  CallInv' /\ Promise!Open(c, token)
<1>1. /\ lookups' \in [Callers -> Calls]
      /\ \A d \in Callers : d # c => lookups'[d] = lookups[d]
      /\ lookups'[c].at = "lookup" /\ lookups'[c].token = token
      /\ lookups'[c].joined = lookups[c].joined /\ lookups'[c].answer = lookups[c].answer
  BY DEF Enter, CallInv, CallsTyped, Calls, Places
<1>2. /\ lookups[c].at = "idle" /\ lookups[c].token = Nobody
      /\ caches' = caches /\ inflight' = inflight /\ verdict' = verdict
  BY DEF Enter, CallInv, CallsTyped, LookupAt
<1>3. \A t \in Tokens : Cached(t)' = Cached(t)
  BY <1>2, CachedIsUnder
<1>4. /\ FlightsOwned' /\ DecidedInTime' /\ CachedByFlight'
      /\ \A t \in Tokens : InForce(t)' = InForce(t)
  BY <1>1, <1>2, <1>3, FlightsQuiet DEF Owning
<1>5. /\ offers' \in [Callers -> SUBSET Outcomes]
      /\ offers'[c] = {InForce(token)} \ {Nobody}
      /\ \A d \in Callers : d # c => offers'[d] = offers[d]
  <2> DEFINE offered == {InForce(token)} \ {Nobody}
  <2>1. offered \subseteq Outcomes
    BY ForceTyped
  <2>2. offers' = [offers EXCEPT ![c] = offered]
    BY DEF Enter
  <2> HIDE DEF offered
  <2>3. /\ offers' \in [Callers -> SUBSET Outcomes]
        /\ offers'[c] = offered
        /\ \A d \in Callers : d # c => offers'[d] = offers[d]
    BY <2>1, <2>2 DEF CallInv, CallsTyped
  <2> QED
    BY <2>3 DEF offered
<1>6. CallsTyped' /\ NamesOnce'
  <2>1. \A d \in Callers : lookups'[d].at = "idle" <=> lookups'[d].token = Nobody
    <3>1. token # Nobody
      BY NobodyAssumption DEF Tokens
    <3> QED
      BY <1>1, <1>2, <3>1 DEF CallInv, CallsTyped, LookupAt
  <2> QED
    BY <1>1, <1>2, <1>5, <2>1 DEF CallInv, CallsTyped, NamesOnce, LookupAt
<1>7. OffersHold'
  <2> SUFFICES ASSUME NEW d \in Callers, NEW t \in Tokens,
                      lookups'[d].token = t, lookups'[d].at # "done"
               PROVE  InForce(t)' \in offers'[d] \cup {Nobody}
    BY DEF OffersHold, LookupAt
  <2>1. InForce(t)' = InForce(t)
    BY <1>4
  <2>2. CASE d = c
    BY <1>1, <1>5, <2>1, <2>2
  <2>3. CASE d # c
    BY <1>1, <1>5, <2>1, <2>3 DEF CallInv, OffersHold, LookupAt
  <2> QED
    BY <2>2, <2>3
<1>8. SubscribersServed'
  <2> SUFFICES ASSUME NEW d \in Callers, lookups'[d].at = "wait"
               PROVE  /\ lookups'[d].joined \in Callers
                      /\ lookups'[lookups'[d].joined].token = lookups'[d].token
                      /\ lookups'[lookups'[d].joined].at \in {"notify", "land"} =>
                             Value(lookups'[d].joined) \in offers'[d]
                      /\ verdict'[lookups'[d].joined] \in offers'[d] \cup {Nobody}
    BY DEF SubscribersServed, LookupAt
  <2>1. d # c /\ lookups'[d] = lookups[d] /\ offers'[d] = offers[d]
    BY <1>1, <1>5
  <2>2. /\ lookups[d].joined \in Callers
        /\ lookups[lookups[d].joined].token = lookups[d].token
        /\ lookups[lookups[d].joined].at \in {"notify", "land"} =>
               Value(lookups[d].joined) \in offers[d]
        /\ verdict[lookups[d].joined] \in offers[d] \cup {Nobody}
    BY <2>1 DEF CallInv, SubscribersServed, LookupAt
  <2>3. lookups[d].token # Nobody
    BY <2>1 DEF CallInv, CallsTyped, LookupAt
  <2>4. lookups[d].joined # c
    BY <1>2, <2>2, <2>3
  <2> QED
    BY <1>1, <1>2, <2>1, <2>2, <2>4
<1>9. Promise!Open(c, token)
  <2>1. [d \in Callers |-> LookupPhase(d)]' = [[d \in Callers |-> LookupPhase(d)] EXCEPT ![c] = "open"]
    BY <1>1 DEF LookupPhase, LookupAt
  <2>2. [d \in Callers |-> lookups[d].token]' = [[d \in Callers |-> lookups[d].token] EXCEPT ![c] = token]
    BY <1>1
  <2>3. [d \in Callers |-> lookups[d].answer]' = [d \in Callers |-> lookups[d].answer]
    BY <1>1
  <2>4. [t \in Tokens |-> InForce(t)]' = [t \in Tokens |-> InForce(t)]
    BY <1>4
  <2>5. offers' = [offers EXCEPT ![c] = {[t \in Tokens |-> InForce(t)][token]} \ {Nobody}]
    BY DEF Enter
  <2>6. [d \in Callers |-> LookupPhase(d)][c] = "idle"
    BY <1>2 DEF LookupPhase, LookupAt
  <2> QED
    BY <2>1, <2>2, <2>3, <2>4, <2>5, <2>6 DEF Promise!Open
<1> QED
  BY <1>4, <1>6, <1>7, <1>8, <1>9 DEF CallInv

\* Values may be forgotten, and nothing else happens that callers can see.
LEMMA ForgetStep ==
    ASSUME \A d \in Callers : /\ lookups'[d].token = lookups[d].token
                              /\ lookups'[d].answer = lookups[d].answer
                              /\ LookupPhase(d)' = LookupPhase(d),
           offers' = offers,
           \A t \in Tokens : InForce(t)' \in {InForce(t), Nobody}
    PROVE  Promise!Forget
<1> DEFINE lost == {t \in Tokens : InForce(t)' = Nobody}
<1>1. lost \in SUBSET Tokens
  OBVIOUS
<1>2. [t \in Tokens |-> InForce(t)]' =
        [k \in Tokens |-> IF k \in lost THEN Nobody ELSE [t \in Tokens |-> InForce(t)][k]]
  OBVIOUS
<1>3. /\ [d \in Callers |-> LookupPhase(d)]' = [d \in Callers |-> LookupPhase(d)]
      /\ [d \in Callers |-> lookups[d].token]' = [d \in Callers |-> lookups[d].token]
      /\ [d \in Callers |-> lookups[d].answer]' = [d \in Callers |-> lookups[d].answer]
  OBVIOUS
<1> HIDE DEF lost
<1> QED
  BY <1>1, <1>2, <1>3 DEF Promise!Forget

\* A call ends with an outcome it was offered; a computation that ends with it
\* may take what is in force along.
LEMMA CloseStep ==
    ASSUME CallInv, NEW c \in Callers, NEW v \in offers[c],
           LookupPhase(c) \in {"open", "decided"},
           \A d \in Callers : d # c => lookups'[d] = lookups[d],
           lookups'[c].at = "done" /\ lookups'[c].token = lookups[c].token
                                   /\ lookups'[c].answer = v,
           offers' = offers,
           \A t \in Tokens : t # lookups[c].token => InForce(t)' = InForce(t),
           \A t \in Tokens : InForce(t)' = InForce(t) \/ (LookupPhase(c) = "decided" /\ InForce(t)' = Nobody)
    PROVE  Promise!Close(c)
<1>1. [d \in Callers |-> LookupPhase(d)]' = [[d \in Callers |-> LookupPhase(d)] EXCEPT ![c] = "closed"]
  BY DEF LookupPhase, LookupAt
<1>2. [d \in Callers |-> lookups[d].token]' = [d \in Callers |-> lookups[d].token]
  OBVIOUS
<1>3. [d \in Callers |-> lookups[d].answer]' = [[d \in Callers |-> lookups[d].answer] EXCEPT ![c] = v]
  OBVIOUS
<1>4. [d \in Callers |-> LookupPhase(d)][c] = LookupPhase(c)
  OBVIOUS
<1>5. CASE \A t \in Tokens : InForce(t)' = InForce(t)
  <2>1. [t \in Tokens |-> InForce(t)]' = [t \in Tokens |-> InForce(t)]
    BY <1>5
  <2> HIDE DEF LookupPhase
  <2> QED
    BY <1>1, <1>2, <1>3, <1>4, <2>1 DEF Promise!Close
<1>6. CASE ~(\A t \in Tokens : InForce(t)' = InForce(t))
  <2> DEFINE token == lookups[c].token
  <2>1. token \in Tokens /\ InForce(token)' = Nobody /\ LookupPhase(c) = "decided"
    BY <1>6
  <2>2. [t \in Tokens |-> InForce(t)]' =
          [[t \in Tokens |-> InForce(t)] EXCEPT ![[d \in Callers |-> lookups[d].token][c]] = Nobody]
    BY <2>1
  <2> HIDE DEF LookupPhase, token
  <2> QED
    BY <1>1, <1>2, <1>3, <1>4, <2>1, <2>2 DEF Promise!Close
<1> QED
  BY <1>5, <1>6

\* What is cached after a key was stored, trimmed or not.
LEMMA CachedAfter ==
    ASSUME CallsTyped, NamesOnce, NEW token \in Tokens, NEW v \in Outcomes,
           NEW q \in Seq(Items), Unrepeated(q),
           \A n : Under(q, n) \subseteq Under(Newest(token, v), n),
           caches' = [caches EXCEPT ![token[1]] = q]
    PROVE  /\ caches' \in [Kinds -> Seq(Items)] /\ NamesOnce'
           /\ Cached(token)' \subseteq {v}
           /\ \A t \in Tokens : t # token => Cached(t)' \subseteq Cached(t)
<1>0. token[1] \in Kinds /\ token[2] \in Names /\ token = <<token[1], token[2]>>
  BY DEF Tokens
<1>1. caches \in [Kinds -> Seq(Items)]
  BY DEF CallsTyped
<1>2. caches'[token[1]] = q /\ \A k \in Kinds : k # token[1] => caches'[k] = caches[k]
  BY <1>0, <1>1
<1>3. /\ Under(Newest(token, v), token[2]) = {v}
      /\ \A n : n # token[2] => Under(Newest(token, v), n) = Under(caches[token[1]], n)
  BY NewestFacts
<1> HIDE DEF Newest
<1>4. caches' \in [Kinds -> Seq(Items)]
  BY <1>0, <1>1
<1>5. NamesOnce'
  <2> SUFFICES ASSUME NEW k \in Kinds PROVE Unrepeated(caches'[k])
    BY DEF NamesOnce, Unrepeated
  <2> QED
    BY <1>2 DEF NamesOnce
<1>6. Cached(token)' \subseteq {v}
  <2>1. Cached(token)' = Under(q, token[2])
    BY <1>2, CachedIsUnder
  <2> QED
    BY <1>3, <2>1
<1>7. ASSUME NEW t \in Tokens, t # token PROVE Cached(t)' \subseteq Cached(t)
  <2>0. t[1] \in Kinds /\ t = <<t[1], t[2]>>
    BY DEF Tokens
  <2>1. Cached(t)' = Under(caches'[t[1]], t[2]) /\ Cached(t) = Under(caches[t[1]], t[2])
    BY CachedIsUnder
  <2>2. CASE t[1] # token[1]
    BY <1>2, <2>0, <2>1, <2>2
  <2>3. CASE t[1] = token[1]
    <3>1. t[2] # token[2]
      BY <1>0, <1>7, <2>0, <2>3
    <3>2. Under(q, t[2]) \subseteq Under(caches[token[1]], t[2])
      BY <1>3, <3>1
    <3> QED
      BY <1>2, <2>1, <2>3, <3>2
  <2> QED
    BY <2>2, <2>3
<1> QED
  BY <1>4, <1>5, <1>6, <1>7

\* A call that finds its key cached ends with it.
LEMMA HitKeeps ==
    ASSUME CallInv, NEW c \in Callers, LookupHit(c)
    PROVE  CallInv' /\ Promise!Close(c)
<1> DEFINE token == lookups[c].token
<1>0. /\ lookups[c].at = "lookup" /\ inflight' = inflight /\ verdict' = verdict /\ offers' = offers
  BY DEF LookupHit, LookupAt
<1>1. token \in Tokens
  BY <1>0 DEF CallInv, CallsTyped, Calls, LookupAt
<1>2. PICK v \in Cached(token) :
        /\ caches' = [caches EXCEPT ![token[1]] = Newest(token, v)]
        /\ lookups' = [lookups EXCEPT ![c].at = "done", ![c].answer = v]
  BY DEF LookupHit
<1> HIDE DEF token
<1>3. InForce(token) = v
  BY <1>1, CachedInForce
<1>4. v \in offers[c] /\ v \in Outcomes
  <2>1. v \in Outcomes \cup {Nobody} /\ InForce(token) \in offers[c] \cup {Nobody}
    BY <1>0, <1>1, <1>3, ForceTyped DEF CallInv, OffersHold, LookupAt, token
  <2>2. v # Nobody
    <3>1. token[1] \in Kinds
      BY <1>1 DEF Tokens
    <3>2. caches[token[1]] \in Seq(Items)
      BY <3>1 DEF CallInv, CallsTyped
    <3>3. PICK i \in 1..Len(caches[token[1]]) : caches[token[1]][i].value = v
      BY <3>2, CachedIsUnder, UnderOf
    <3>4. caches[token[1]][i] \in Items
      BY <3>2, ElementOfSeq
    <3> QED
      BY <3>3, <3>4, NobodyAssumption DEF Items, Outcomes
  <2> QED
    BY <1>3, <2>1, <2>2
<1>5. /\ lookups' \in [Callers -> Calls]
      /\ \A d \in Callers : d # c => lookups'[d] = lookups[d]
      /\ lookups'[c].at = "done" /\ lookups'[c].token = lookups[c].token
      /\ lookups'[c].joined = lookups[c].joined /\ lookups'[c].answer = v
  BY <1>2, <1>4, Answered DEF CallInv
<1>6. /\ Newest(token, v) \in Seq(Items) /\ Unrepeated(Newest(token, v))
      /\ Under(Newest(token, v), token[2]) = {v}
      /\ \A n : n # token[2] => Under(Newest(token, v), n) = Under(caches[token[1]], n)
  BY <1>1, <1>4, NewestFacts DEF CallInv
<1>7. caches' \in [Kinds -> Seq(Items)] /\ NamesOnce'
  BY <1>1, <1>2, <1>4, <1>6, CachedAfter DEF CallInv
<1>8. ASSUME NEW t \in Tokens PROVE Cached(t)' = Cached(t)
  <2>0. token[1] \in Kinds /\ t[1] \in Kinds /\ caches \in [Kinds -> Seq(Items)]
        /\ t = <<t[1], t[2]>> /\ token = <<token[1], token[2]>>
    BY <1>1 DEF Tokens, CallInv, CallsTyped
  <2>1. Cached(t)' = Under(caches'[t[1]], t[2]) /\ Cached(t) = Under(caches[t[1]], t[2])
    BY CachedIsUnder
  <2> HIDE DEF Cached, Newest
  <2>2. CASE t[1] # token[1]
    BY <1>2, <2>0, <2>1, <2>2
  <2>3. CASE t[1] = token[1]
    <3>1. caches'[t[1]] = Newest(token, v)
      BY <1>2, <2>0, <2>3
    <3>2. CASE t[2] = token[2]
      <4>1. t = token
        BY <2>0, <2>3, <3>2
      <4>2. \A w \in Cached(token) : w = v
        <5>1. caches[token[1]] \in Seq(Items) /\ Unrepeated(caches[token[1]])
          BY <2>0 DEF CallInv, NamesOnce
        <5> QED
          BY <2>1, <4>1, <5>1, UnderOnce
      <4>3. Cached(token) = {v}
        BY <4>2
      <4> QED
        BY <1>6, <2>1, <3>1, <4>1, <4>3
    <3>3. CASE t[2] # token[2]
      BY <1>6, <2>1, <2>3, <3>1, <3>3
    <3> QED
      BY <3>2, <3>3
  <2> QED
    BY <2>2, <2>3
<1>9. /\ FlightsOwned' /\ DecidedInTime' /\ CachedByFlight'
      /\ \A t \in Tokens : InForce(t)' = InForce(t)
  BY <1>0, <1>5, <1>8, FlightsQuiet DEF Owning
<1>10. CallsTyped'
  BY <1>0, <1>5, <1>7 DEF CallInv, CallsTyped, LookupAt
<1>11. OffersHold'
  BY <1>0, <1>5, <1>9, OffersKept
<1>12. SubscribersServed'
  BY <1>0, <1>5, ServedKept
<1>13. Promise!Close(c)
  <2>1. LookupPhase(c) \in {"open", "decided"}
    BY <1>0 DEF LookupPhase, LookupAt
  <2>2. /\ \A t \in Tokens : t # lookups[c].token => InForce(t)' = InForce(t)
        /\ \A t \in Tokens : InForce(t)' = InForce(t) \/ (LookupPhase(c) = "decided" /\ InForce(t)' = Nobody)
    BY <1>9
  <2> HIDE DEF LookupPhase, InForce
  <2>3. v \in offers[c]
    BY <1>4
  <2> QED
    BY <1>0, <1>5, <2>1, <2>2, <2>3, CloseStep
<1> QED
  BY <1>7, <1>9, <1>10, <1>11, <1>12, <1>13 DEF CallInv

\* A call that does not find its key computes it, or subscribes to who does.
LEMMA MissKeeps ==
    ASSUME CallInv, NEW c \in Callers, LookupMiss(c)
    PROVE  CallInv' /\ (Promise!Compute(c) \/ Promise!Forget)
<1> DEFINE token == lookups[c].token
<1>0. /\ lookups[c].at = "lookup" /\ verdict' = verdict /\ offers' = offers /\ caches' = caches
      /\ Cached(token) = {}
  BY DEF LookupMiss, LookupAt
<1>1. token \in Tokens
  BY <1>0 DEF CallInv, CallsTyped, Calls, LookupAt
<1>2. \A t \in Tokens : Cached(t)' = Cached(t)
  BY <1>0, CachedIsUnder
<1>3. CASE inflight[token] = Nobody
  <2>1. inflight' = [inflight EXCEPT ![token] = c] /\ LookupGoto(c, "build")
    BY <1>3 DEF LookupMiss
  <2>2. /\ lookups' \in [Callers -> Calls]
        /\ \A d \in Callers : d # c => lookups'[d] = lookups[d]
        /\ lookups'[c].at = "build" /\ lookups'[c].token = lookups[c].token
        /\ lookups'[c].joined = lookups[c].joined /\ lookups'[c].answer = lookups[c].answer
    <3>1. "build" \in Places
      BY DEF Places
    <3> QED
      BY <2>1, <3>1, Gone DEF CallInv
  <2>3. /\ inflight' \in [Tokens -> Callers \cup {Nobody}] /\ inflight'[token] = c
        /\ \A t \in Tokens : t # token => inflight'[t] = inflight[t]
    BY <1>1, <2>1 DEF CallInv, CallsTyped
  <2>4. verdict[c] = Nobody
    BY <1>0 DEF CallInv, DecidedInTime
  <2>5. \A d \in Callers : lookups[d].at \in Owning => lookups[d].token # token
    BY <1>3, NobodyAssumption DEF CallInv, FlightsOwned
  <2> HIDE DEF token
  <2>6. \A t \in Tokens : t # token /\ inflight[t] # Nobody =>
            /\ inflight[t] \in Callers /\ inflight[t] # c
            /\ lookups[inflight[t]].token = t /\ lookups[inflight[t]].at \in Owning
    BY <1>0 DEF CallInv, CallsTyped, FlightsOwned, Owning
  <2>7. CallsTyped' /\ NamesOnce'
    BY <1>0, <2>2, <2>3 DEF CallInv, CallsTyped, NamesOnce, LookupAt
  <2>8. FlightsOwned'
    <3>1. ASSUME NEW t \in Tokens, inflight'[t] # Nobody
          PROVE  lookups'[inflight'[t]].token = t /\ lookups'[inflight'[t]].at \in Owning
      BY <2>2, <2>3, <2>6, <3>1 DEF Owning, token
    <3>2. ASSUME NEW d \in Callers, lookups'[d].at \in Owning
          PROVE  inflight'[lookups'[d].token] = d
      <4>1. CASE d = c
        BY <2>2, <2>3, <4>1 DEF token
      <4>2. CASE d # c
        <5>1. lookups[d].at \in Owning /\ lookups'[d].token = lookups[d].token
          BY <2>2, <3>2, <4>2
        <5>2. lookups[d].token \in Tokens
          BY <5>1 DEF CallInv, CallsTyped, Calls, Owning, LookupAt
        <5> QED
          BY <2>3, <2>5, <5>1, <5>2 DEF CallInv, FlightsOwned
      <4> QED
        BY <4>1, <4>2
    <3> QED
      BY <3>1, <3>2 DEF FlightsOwned
  <2>9. DecidedInTime'
    <3> SUFFICES ASSUME NEW d \in Callers
                 PROVE  /\ lookups'[d].at \notin {"pop", "done"} => verdict[d] = Nobody
                        /\ lookups'[d].at = "pop" => verdict[d] \in {Value(d), Failure(d)}
      BY <1>0 DEF DecidedInTime, LookupAt, Value, Failure
    <3> QED
      BY <2>2, <2>4 DEF CallInv, DecidedInTime, LookupAt
  <2>10. CachedByFlight'
    <3> SUFFICES ASSUME NEW t \in Tokens, inflight'[t] # Nobody
                 PROVE  IF lookups'[inflight'[t]].at = "build"
                           \/ verdict'[inflight'[t]] = Failure(inflight'[t])
                          THEN Cached(t)' = {}
                          ELSE Cached(t)' \subseteq {Value(inflight'[t])}
      BY DEF CachedByFlight, LookupAt, Failure, Value
    <3>1. CASE t = token
      BY <1>0, <1>1, <1>2, <2>2, <2>3, <3>1 DEF token
    <3>2. CASE t # token
      <4>1. inflight'[t] = inflight[t] /\ inflight[t] # Nobody /\ lookups'[inflight[t]] = lookups[inflight[t]]
        BY <2>2, <2>3, <2>6, <3>2
      <4>2. Cached(t)' = Cached(t)
        BY <1>2
      <4>3. IF lookups[inflight[t]].at = "build" \/ verdict[inflight[t]] = Failure(inflight[t])
              THEN Cached(t) = {}
              ELSE Cached(t) \subseteq {Value(inflight[t])}
        BY <4>1 DEF CallInv, CachedByFlight, LookupAt
      <4> HIDE DEF Cached
      <4> QED
        BY <1>0, <4>1, <4>2, <4>3
    <3> QED
      BY <3>1, <3>2
  <2>11. ASSUME NEW t \in Tokens PROVE InForce(t)' = InForce(t)
    <3>1. CASE t = token
      <4>1. InForce(t) = Nobody
        BY <1>0, <1>3, <3>1 DEF InForce, token
      <4>2. Cached(t)' = {}
        BY <1>0, <1>2, <3>1 DEF token
      <4>3. inflight'[t] = c /\ c # Nobody
        BY <2>3, <3>1, NobodyAssumption
      <4>4. InForce(t)' = Nobody
        BY <1>0, <2>2, <2>4, <4>2, <4>3 DEF InForce, LookupAt
      <4> QED
        BY <4>1, <4>4
    <3>2. CASE t # token
      <4>1. inflight'[t] = inflight[t]
        BY <2>3, <3>2
      <4>2. inflight[t] # Nobody => lookups'[inflight[t]].at = lookups[inflight[t]].at
        BY <2>2, <2>6, <3>2
      <4>3. Cached(t)' = Cached(t)
        BY <1>2
      <4> QED
        BY <1>0, <4>1, <4>2, <4>3, ForceKept DEF CallInv
    <3> QED
      BY <3>1, <3>2
  <2>12. OffersHold'
    BY <1>0, <2>2, <2>11, OffersKept
  <2>13. SubscribersServed'
    BY <1>0, <2>2, ServedKept
  <2>14. Promise!Compute(c)
    <3>1. [d \in Callers |-> LookupPhase(d)]' =
            [[d \in Callers |-> LookupPhase(d)] EXCEPT ![c] = "computing"]
      BY <2>2 DEF LookupPhase, LookupAt
    <3>2. /\ [d \in Callers |-> lookups[d].token]' = [d \in Callers |-> lookups[d].token]
          /\ [d \in Callers |-> lookups[d].answer]' = [d \in Callers |-> lookups[d].answer]
      BY <2>2
    <3>3. [t \in Tokens |-> InForce(t)]' = [t \in Tokens |-> InForce(t)]
      BY <2>11
    <3>4. LookupPhase(c) = "open"
      BY <1>0 DEF LookupPhase, LookupAt
    <3>5. ASSUME NEW d \in Callers, lookups[d].token = token PROVE LookupPhase(d) # "computing"
      <4>1. lookups[d].at # "build"
        BY <2>5, <3>5 DEF Owning
      <4> QED
        BY <4>1 DEF LookupPhase, LookupAt
    <3> HIDE DEF LookupPhase, InForce
    <3>6. /\ [d \in Callers |-> LookupPhase(d)][c] = "open"
          /\ \A d \in Callers :
               [e \in Callers |-> lookups[e].token][d] = [e \in Callers |-> lookups[e].token][c] =>
                   [e \in Callers |-> LookupPhase(e)][d] # "computing"
      BY <3>4, <3>5 DEF token
    <3> QED
      BY <1>0, <3>1, <3>2, <3>3, <3>6 DEF Promise!Compute
  <2> QED
    BY <2>7, <2>8, <2>9, <2>10, <2>12, <2>13, <2>14 DEF CallInv
<1>4. CASE inflight[token] # Nobody
  <2> DEFINE j == inflight[token]
  <2>1. /\ lookups' = [lookups EXCEPT ![c].at = "wait", ![c].joined = j]
        /\ inflight' = inflight
    BY <1>4 DEF LookupMiss
  <2>2. j \in Callers /\ lookups[j].token = token /\ lookups[j].at \in Owning /\ j # c
    BY <1>0, <1>1, <1>4 DEF CallInv, CallsTyped, FlightsOwned, Owning
  <2> HIDE DEF j, token
  <2>3. /\ lookups' \in [Callers -> Calls]
        /\ \A d \in Callers : d # c => lookups'[d] = lookups[d]
        /\ lookups'[c].at = "wait" /\ lookups'[c].token = lookups[c].token
        /\ lookups'[c].joined = j /\ lookups'[c].answer = lookups[c].answer
    BY <2>1, <2>2 DEF CallInv, CallsTyped, Calls, Places
  <2>4. CallsTyped' /\ NamesOnce'
    BY <1>0, <2>1, <2>3 DEF CallInv, CallsTyped, NamesOnce, LookupAt
  <2>5. /\ FlightsOwned' /\ DecidedInTime' /\ CachedByFlight'
        /\ \A t \in Tokens : InForce(t)' = InForce(t)
    BY <1>0, <1>2, <2>1, <2>3, FlightsQuiet DEF Owning
  <2>6. OffersHold'
    BY <1>0, <2>3, <2>5, OffersKept
  <2>7. /\ lookups[j].at \in {"notify", "land"} => Value(j) \in offers[c]
        /\ verdict[j] \in offers[c] \cup {Nobody}
    <3>1. InForce(token) \in offers[c] \cup {Nobody}
      BY <1>0, <1>1 DEF CallInv, OffersHold, LookupAt, token
    <3>2. lookups[j].at \in {"notify", "land"} => InForce(token) = Value(j) /\ verdict[j] = Nobody
      BY <1>4, <2>2 DEF InForce, LookupAt, CallInv, DecidedInTime, j
    <3>3. lookups[j].at = "build" => verdict[j] = Nobody
      BY <2>2 DEF CallInv, DecidedInTime
    <3>4. lookups[j].at = "pop" => InForce(token) = verdict[j]
      <4>1. lookups[j].at = "pop" => verdict[j] # Nobody
        BY <2>2, OutcomesDiffer DEF CallInv, DecidedInTime, LookupAt
      <4> QED
        BY <1>4, <2>2, <4>1 DEF InForce, LookupAt, j
    <3> HIDE DEF InForce
    <3> QED
      BY <2>2, <3>1, <3>2, <3>3, <3>4, OutcomesDiffer DEF Owning
  <2>8. SubscribersServed'
    <3> SUFFICES ASSUME NEW d \in Callers, lookups'[d].at = "wait"
                 PROVE  /\ lookups'[d].joined \in Callers
                        /\ lookups'[lookups'[d].joined].token = lookups'[d].token
                        /\ lookups'[lookups'[d].joined].at \in {"notify", "land"} =>
                               Value(lookups'[d].joined) \in offers'[d]
                        /\ verdict'[lookups'[d].joined] \in offers'[d] \cup {Nobody}
      BY DEF SubscribersServed, LookupAt
    <3>1. CASE d = c
      BY <1>0, <2>2, <2>3, <2>7, <3>1 DEF token
    <3>2. CASE d # c
      <4>1. lookups[d].at = "wait" /\ lookups'[d] = lookups[d]
        BY <2>3, <3>2
      <4>2. /\ lookups[d].joined \in Callers
            /\ lookups[lookups[d].joined].token = lookups[d].token
            /\ lookups[lookups[d].joined].at \in {"notify", "land"} =>
                   Value(lookups[d].joined) \in offers[d]
            /\ verdict[lookups[d].joined] \in offers[d] \cup {Nobody}
        BY <4>1 DEF CallInv, SubscribersServed, LookupAt
      <4> DEFINE i == lookups[d].joined
      <4>3. lookups'[i].token = lookups[i].token
            /\ (lookups'[i].at \in {"notify", "land"} => lookups[i].at \in {"notify", "land"})
        BY <2>3, <4>2
      <4> QED
        BY <1>0, <4>1, <4>2, <4>3
    <3> QED
      BY <3>1, <3>2
  <2>9. Promise!Forget
    <3>1. \A d \in Callers : LookupPhase(d)' = LookupPhase(d)
      BY <1>0, <2>3 DEF LookupPhase, LookupAt
    <3> HIDE DEF InForce, LookupPhase
    <3>2. /\ \A d \in Callers : /\ lookups'[d].token = lookups[d].token
                                /\ lookups'[d].answer = lookups[d].answer
                                /\ LookupPhase(d)' = LookupPhase(d)
          /\ \A t \in Tokens : InForce(t)' \in {InForce(t), Nobody}
      BY <2>3, <2>5, <3>1
    <3> QED
      BY <1>0, <3>2, ForgetStep
  <2> QED
    BY <2>4, <2>5, <2>6, <2>8, <2>9 DEF CallInv
<1> QED
  BY <1>3, <1>4

\* A subscriber ends with what its flight has come to.
LEMMA WakeKeeps ==
    ASSUME CallInv, NEW c \in Callers, Wake(c)
    PROVE  CallInv' /\ Promise!Close(c)
<1> DEFINE v == verdict[lookups[c].joined]
<1>0. /\ lookups[c].at = "wait" /\ v # Nobody
      /\ inflight' = inflight /\ verdict' = verdict /\ offers' = offers /\ caches' = caches
      /\ lookups' = [lookups EXCEPT ![c].at = "done", ![c].answer = v]
  BY DEF Wake, LookupAt
<1>1. v \in offers[c] /\ v \in Outcomes
  BY <1>0 DEF CallInv, CallsTyped, SubscribersServed, LookupAt
<1> HIDE DEF v
<1>2. /\ lookups' \in [Callers -> Calls]
      /\ \A d \in Callers : d # c => lookups'[d] = lookups[d]
      /\ lookups'[c].at = "done" /\ lookups'[c].token = lookups[c].token
      /\ lookups'[c].joined = lookups[c].joined /\ lookups'[c].answer = v
  BY <1>0, <1>1, Answered DEF CallInv
<1>3. \A t \in Tokens : Cached(t)' = Cached(t)
  BY <1>0, CachedIsUnder
<1>4. /\ FlightsOwned' /\ DecidedInTime' /\ CachedByFlight'
      /\ \A t \in Tokens : InForce(t)' = InForce(t)
  BY <1>0, <1>2, <1>3, FlightsQuiet DEF Owning
<1>5. CallsTyped' /\ NamesOnce'
  BY <1>0, <1>2 DEF CallInv, CallsTyped, NamesOnce, LookupAt
<1>6. OffersHold'
  BY <1>0, <1>2, <1>4, OffersKept
<1>7. SubscribersServed'
  BY <1>0, <1>2, ServedKept
<1>8. Promise!Close(c)
  <2>1. LookupPhase(c) \in {"open", "decided"}
    BY <1>0 DEF LookupPhase, LookupAt
  <2>2. /\ \A t \in Tokens : t # lookups[c].token => InForce(t)' = InForce(t)
        /\ \A t \in Tokens : InForce(t)' = InForce(t) \/ (LookupPhase(c) = "decided" /\ InForce(t)' = Nobody)
    BY <1>4
  <2> HIDE DEF LookupPhase, InForce
  <2>3. v \in offers[c]
    BY <1>1
  <2> QED
    BY <1>0, <1>2, <2>1, <2>2, <2>3, CloseStep
<1> QED
  BY <1>4, <1>5, <1>6, <1>7, <1>8 DEF CallInv

\* An owner goes on to its next place: its flight stays the one on record, and
\* the other keys keep what they have in force, or lose it.
LEMMA OwnerMoves ==
    ASSUME CallInv, NEW c \in Callers, NEW token \in Tokens,
           lookups[c].token = token, lookups[c].at \in Owning,
           lookups'[c].token = token, lookups'[c].at \in Owning,
           \A d \in Callers : d # c => lookups'[d] = lookups[d] /\ verdict'[d] = verdict[d],
           inflight' = inflight,
           \A t \in Tokens : t # token => Cached(t)' \subseteq Cached(t),
           IF lookups'[c].at = "build" \/ verdict'[c] = Failure(c)
             THEN Cached(token)' = {}
             ELSE Cached(token)' \subseteq {Value(c)},
           lookups'[c].at # "pop" => verdict'[c] = Nobody,
           lookups'[c].at = "pop" => verdict'[c] \in {Value(c), Failure(c)}
    PROVE  /\ FlightsOwned' /\ DecidedInTime' /\ CachedByFlight'
           /\ inflight[token] = c
           /\ \A t \in Tokens : t # token => InForce(t)' \in {InForce(t), Nobody}
           /\ \A t \in Tokens : t # token /\ Cached(t)' = Cached(t) => InForce(t)' = InForce(t)
<1>1. inflight[token] = c /\ c # Nobody
  BY NobodyAssumption DEF CallInv, FlightsOwned
<1>2. \A t \in Tokens : t # token /\ inflight[t] # Nobody =>
        /\ inflight[t] \in Callers /\ inflight[t] # c
        /\ lookups[inflight[t]].token = t /\ lookups[inflight[t]].at \in Owning
  BY DEF CallInv, CallsTyped, FlightsOwned
<1>3. FlightsOwned'
  <2>1. ASSUME NEW t \in Tokens, inflight'[t] # Nobody
        PROVE  lookups'[inflight'[t]].token = t /\ lookups'[inflight'[t]].at \in Owning
    BY <1>1, <1>2, <2>1
  <2>2. ASSUME NEW d \in Callers, lookups'[d].at \in Owning
        PROVE  inflight'[lookups'[d].token] = d
    BY <1>1, <2>2 DEF CallInv, FlightsOwned
  <2> QED
    BY <2>1, <2>2 DEF FlightsOwned
<1>4. DecidedInTime'
  <2> SUFFICES ASSUME NEW d \in Callers
               PROVE  /\ lookups'[d].at \notin {"pop", "done"} => verdict'[d] = Nobody
                      /\ lookups'[d].at = "pop" => verdict'[d] \in {Value(d), Failure(d)}
    BY DEF DecidedInTime, LookupAt, Value, Failure
  <2> QED
    BY DEF CallInv, DecidedInTime, LookupAt
<1>5. CachedByFlight'
  <2> SUFFICES ASSUME NEW t \in Tokens, inflight[t] # Nobody
               PROVE  IF lookups'[inflight[t]].at = "build"
                         \/ verdict'[inflight[t]] = Failure(inflight[t])
                        THEN Cached(t)' = {}
                        ELSE Cached(t)' \subseteq {Value(inflight[t])}
    BY DEF CachedByFlight, LookupAt, Failure, Value
  <2>1. CASE t = token
    BY <1>1, <2>1
  <2>2. CASE t # token
    <3>1. /\ lookups'[inflight[t]] = lookups[inflight[t]]
          /\ verdict'[inflight[t]] = verdict[inflight[t]]
          /\ Cached(t)' \subseteq Cached(t)
      BY <1>2, <2>2
    <3>2. IF lookups[inflight[t]].at = "build" \/ verdict[inflight[t]] = Failure(inflight[t])
            THEN Cached(t) = {}
            ELSE Cached(t) \subseteq {Value(inflight[t])}
      BY DEF CallInv, CachedByFlight, LookupAt
    <3> HIDE DEF Cached
    <3> QED
      BY <3>1, <3>2
  <2> QED
    BY <2>1, <2>2
<1>6. ASSUME NEW t \in Tokens, t # token
      PROVE  /\ InForce(t)' \in {InForce(t), Nobody}
             /\ Cached(t)' = Cached(t) => InForce(t)' = InForce(t)
  <2>1. inflight[t] # Nobody => /\ lookups'[inflight[t]].at = lookups[inflight[t]].at
                                /\ verdict'[inflight[t]] = verdict[inflight[t]]
    BY <1>2, <1>6
  <2>2. Cached(t)' \subseteq Cached(t)
    BY <1>6
  <2> QED
    BY <2>1, <2>2, ForceKept DEF CallInv
<1> QED
  BY <1>1, <1>3, <1>4, <1>5, <1>6

\* A computation decides: the outcome is in force, and offered to every call
\* that is open.
LEMMA DecideStep ==
    ASSUME CallInv, NEW c \in Callers, NEW token \in Tokens, NEW o \in Outcomes,
           lookups[c].token = token, lookups[c].at = "build", lookups' \in [Callers -> Calls],
           \A d \in Callers : d # c => lookups'[d] = lookups[d],
           lookups'[c].token = token, lookups'[c].answer = lookups[c].answer,
           lookups'[c].joined = lookups[c].joined,
           lookups'[c].at \in {"notify", "pop"},
           Offer(token, o),
           InForce(token)' = o,
           \A t \in Tokens : t # token => InForce(t)' \in {InForce(t), Nobody},
           \A d \in Callers : d # c => verdict'[d] = verdict[d],
           verdict'[c] \in {Nobody, o}, lookups'[c].at = "notify" => o = Value(c)
    PROVE  /\ offers' \in [Callers -> SUBSET Outcomes]
           /\ OffersHold' /\ SubscribersServed'
           /\ Promise!Decide(c, o)
<1>0. offers \in [Callers -> SUBSET Outcomes]
  BY DEF CallInv, CallsTyped
<1>1. \A d \in Callers :
        offers'[d] = IF lookups[d].token = token /\ lookups[d].at # "done"
                       THEN offers[d] \cup {o} ELSE offers[d]
  BY DEF Offer, LookupAt
<1>2. offers' \in [Callers -> SUBSET Outcomes]
  BY <1>0 DEF Offer
<1>3. OffersHold'
  <2> SUFFICES ASSUME NEW d \in Callers, NEW t \in Tokens,
                      lookups'[d].token = t, lookups'[d].at # "done"
               PROVE  InForce(t)' \in offers'[d] \cup {Nobody}
    BY DEF OffersHold, LookupAt
  <2>1. lookups[d].token = t /\ lookups[d].at # "done"
    OBVIOUS
  <2>2. InForce(t) \in offers[d] \cup {Nobody}
    BY <2>1 DEF CallInv, OffersHold, LookupAt
  <2> HIDE DEF InForce
  <2> QED
    BY <1>1, <2>1, <2>2
<1>4. SubscribersServed'
  <2>1. \A d \in Callers : offers[d] \subseteq offers'[d]
    BY <1>1
  <2>2. \A e \in Callers : lookups[e].at = "wait" /\ lookups[e].token = lookups[c].token => o \in offers'[e]
    BY <1>1
  <2>3. /\ lookups'[c].at \in {"notify", "land"} => o = Value(c)
        /\ verdict[c] = Nobody
    BY DEF CallInv, DecidedInTime
  <2>4. ASSUME NEW d \in Callers
        PROVE  /\ lookups'[d].token = lookups[d].token
               /\ lookups'[d].joined = lookups[d].joined
               /\ lookups'[d].at = "wait" => lookups[d].at = "wait"
               /\ \/ lookups'[d].at \in {"notify", "land"} => lookups[d].at \in {"notify", "land"}
                  \/ \A e \in Callers : lookups[e].at = "wait" /\ lookups[e].token = lookups[d].token =>
                         Value(d) \in offers'[e]
               /\ \/ verdict'[d] = verdict[d]
                  \/ verdict'[d] = Value(d) /\ lookups[d].at = "land"
                  \/ \A e \in Callers : lookups[e].at = "wait" /\ lookups[e].token = lookups[d].token =>
                         verdict'[d] \in offers'[e]
    BY <2>2, <2>3
  <2> QED
    BY <2>1, <2>4, ServedKept
<1>5. Promise!Decide(c, o)
  <2> DEFINE lost == {t \in Tokens \ {token} : InForce(t)' = Nobody}
             phase == [d \in Callers |-> LookupPhase(d)]
             wanted == [d \in Callers |-> lookups[d].token]
             inForce == [t \in Tokens |-> InForce(t)]
  <2>1. lost \in SUBSET (Tokens \ {wanted[c]})
    OBVIOUS
  <2>2. inForce' = [k \in Tokens |-> IF k = wanted[c] THEN o
                                      ELSE IF k \in lost THEN Nobody ELSE inForce[k]]
    OBVIOUS
  <2>3. phase' = [phase EXCEPT ![c] = "decided"] /\ phase[c] = "computing"
    BY DEF LookupPhase, LookupAt
  <2>4. wanted' = wanted /\ [d \in Callers |-> lookups[d].answer]' = [d \in Callers |-> lookups[d].answer]
    OBVIOUS
  <2>5. offers' = [d \in Callers |-> IF wanted[d] = wanted[c] /\ phase[d] # "closed"
                                       THEN offers[d] \cup {o} ELSE offers[d]]
    <3>1. \A d \in Callers : phase[d] # "closed" <=> lookups[d].at # "done"
      BY DEF LookupPhase, LookupAt
    <3>2. offers' = [d \in Callers |-> IF lookups[d].token = token /\ lookups[d].at # "done"
                                         THEN offers[d] \cup {o} ELSE offers[d]]
      BY DEF Offer, LookupAt
    <3> HIDE DEF phase
    <3> QED
      BY <3>1, <3>2
  <2> HIDE DEF lost, LookupPhase, InForce
  <2> QED
    BY <2>1, <2>2, <2>3, <2>4, <2>5 DEF Promise!Decide
<1> QED
  BY <1>2, <1>3, <1>4, <1>5

\* A value is inserted: it is in force for its key, and may have displaced others.
LEMMA InsertKeeps ==
    ASSUME CallInv, NEW c \in Callers, Insert(c)
    PROVE  CallInv' /\ \E o \in Outcomes : Promise!Decide(c, o)
<1>1. PICK token \in Tokens : token = lookups[c].token
  BY DEF Insert, CallInv, CallsTyped, Calls, LookupAt
<1>2. /\ lookups[c].at = "build" /\ inflight' = inflight /\ verdict' = verdict
      /\ LookupGoto(c, "notify") /\ Offer(token, Value(c))
      /\ caches' = [caches EXCEPT ![token[1]] = KeepNewest(Newest(token, Value(c)), Limits[token[1]])]
  BY <1>1 DEF Insert, LookupAt
<1>3. /\ lookups' \in [Callers -> Calls]
      /\ \A d \in Callers : d # c => lookups'[d] = lookups[d]
      /\ lookups'[c].at = "notify" /\ lookups'[c].token = lookups[c].token
      /\ lookups'[c].joined = lookups[c].joined /\ lookups'[c].answer = lookups[c].answer
  <2>1. "notify" \in Places
    BY DEF Places
  <2> QED
    BY <1>2, <2>1, Gone DEF CallInv
<1>4. Value(c) \in Outcomes /\ Value(c) # Nobody /\ Failure(c) # Nobody /\ verdict[c] = Nobody
  BY <1>2, OutcomesDiffer DEF CallInv, DecidedInTime
<1>5. /\ caches' \in [Kinds -> Seq(Items)] /\ NamesOnce'
      /\ Cached(token)' \subseteq {Value(c)}
      /\ \A t \in Tokens : t # token => Cached(t)' \subseteq Cached(t)
  <2> DEFINE new == Newest(token, Value(c))
             q == KeepNewest(new, Limits[token[1]])
  <2>1. new \in Seq(Items) /\ Unrepeated(new)
    BY <1>4, NewestFacts DEF CallInv
  <2>2. Limits[token[1]] \in Nat
    BY LimitsAssumption DEF Tokens
  <2> HIDE DEF new
  <2>3. q \in Seq(Items) /\ Unrepeated(q) /\ \A n : Under(q, n) \subseteq Under(new, n)
    BY <2>1, <2>2, UnderTrimmed
  <2> HIDE DEF q
  <2>4. caches' = [caches EXCEPT ![token[1]] = q]
    BY <1>2 DEF q, new
  <2> QED
    BY <1>4, <2>3, <2>4, CachedAfter DEF new, CallInv
<1> HIDE DEF Cached
<1>6. /\ FlightsOwned' /\ DecidedInTime' /\ CachedByFlight' /\ inflight[token] = c
      /\ \A t \in Tokens : t # token => InForce(t)' \in {InForce(t), Nobody}
  BY <1>1, <1>2, <1>3, <1>4, <1>5, OwnerMoves DEF Owning
<1>7. InForce(token)' = Value(c)
  BY <1>2, <1>3, <1>6, NobodyAssumption DEF InForce, LookupAt
<1>8. /\ offers' \in [Callers -> SUBSET Outcomes]
      /\ OffersHold' /\ SubscribersServed'
      /\ Promise!Decide(c, Value(c))
  BY <1>1, <1>2, <1>3, <1>4, <1>6, <1>7, DecideStep
<1>9. CallsTyped'
  BY <1>2, <1>3, <1>5, <1>8 DEF CallInv, CallsTyped, LookupAt
<1> QED
  BY <1>4, <1>5, <1>6, <1>8, <1>9 DEF CallInv

\* A builder that raises decides its flight, and nothing is cached.
LEMMA RaiseKeeps ==
    ASSUME CallInv, NEW c \in Callers, BuilderRaises(c)
    PROVE  CallInv' /\ \E o \in Outcomes : Promise!Decide(c, o)
<1>1. PICK token \in Tokens : token = lookups[c].token
  BY DEF BuilderRaises, CallInv, CallsTyped, Calls, LookupAt
<1>2. /\ lookups[c].at = "build" /\ inflight' = inflight /\ caches' = caches
      /\ verdict' = [verdict EXCEPT ![c] = Failure(c)]
      /\ LookupGoto(c, "pop") /\ Offer(token, Failure(c))
  BY <1>1 DEF BuilderRaises, LookupAt
<1>3. /\ lookups' \in [Callers -> Calls]
      /\ \A d \in Callers : d # c => lookups'[d] = lookups[d]
      /\ lookups'[c].at = "pop" /\ lookups'[c].token = lookups[c].token
      /\ lookups'[c].joined = lookups[c].joined /\ lookups'[c].answer = lookups[c].answer
  <2>1. "pop" \in Places
    BY DEF Places
  <2> QED
    BY <1>2, <2>1, Gone DEF CallInv
<1>4. Failure(c) \in Outcomes /\ Failure(c) # Nobody
  BY OutcomesDiffer
<1>5. /\ verdict' \in [Callers -> Outcomes \cup {Nobody}] /\ verdict'[c] = Failure(c)
      /\ \A d \in Callers : d # c => verdict'[d] = verdict[d]
  BY <1>2, <1>4 DEF CallInv, CallsTyped
<1>6. \A t \in Tokens : Cached(t)' = Cached(t)
  BY <1>2, CachedIsUnder
<1>7. inflight[token] = c /\ c # Nobody /\ Cached(token) = {}
  BY <1>1, <1>2, NobodyAssumption DEF CallInv, FlightsOwned, CachedByFlight, Owning, LookupAt
<1> HIDE DEF Cached
<1>8. /\ FlightsOwned' /\ DecidedInTime' /\ CachedByFlight'
      /\ \A t \in Tokens : t # token => InForce(t)' \in {InForce(t), Nobody}
  BY <1>1, <1>2, <1>3, <1>5, <1>6, <1>7, OwnerMoves DEF Owning
<1>9. InForce(token)' = Failure(c)
  BY <1>2, <1>3, <1>4, <1>5, <1>7 DEF InForce, LookupAt
<1>10. /\ offers' \in [Callers -> SUBSET Outcomes]
       /\ OffersHold' /\ SubscribersServed'
       /\ Promise!Decide(c, Failure(c))
  BY <1>1, <1>2, <1>3, <1>4, <1>5, <1>8, <1>9, DecideStep
<1>11. CallsTyped' /\ NamesOnce'
  BY <1>2, <1>3, <1>5, <1>10 DEF CallInv, CallsTyped, NamesOnce, LookupAt
<1> QED
  BY <1>4, <1>8, <1>10, <1>11 DEF CallInv

\* An eviction only forgets.
LEMMA EvictFacts ==
    ASSUME CallInv, EvictRuntime
    PROVE  /\ caches' \in [Kinds -> Seq(Items)] /\ NamesOnce'
           /\ \A t \in Tokens : Cached(t)' \subseteq Cached(t)
<1>0. caches \in [Kinds -> Seq(Items)] /\ \A k \in Kinds : Unrepeated(caches[k])
  BY DEF CallInv, CallsTyped, NamesOnce
<1>1. \/ caches' = caches
      \/ \E kind \in Kinds : caches[kind] # <<>> /\ caches' = [caches EXCEPT ![kind] = Tail(caches[kind])]
  <2>1. PICK n \in DOMAIN EvictionOrder :
          IF EvictionOrder[n] = "pixel"
            THEN caches' = caches
            ELSE /\ caches[EvictionOrder[n]] # <<>>
                 /\ caches' = [caches EXCEPT ![EvictionOrder[n]] = Tail(caches[EvictionOrder[n]])]
    BY DEF EvictRuntime
  <2>2. CASE EvictionOrder[n] \in Kinds
    BY <2>1, <2>2
  <2>3. CASE EvictionOrder[n] \notin Kinds
    BY <1>0, <2>1, <2>3
  <2> QED
    BY <2>2, <2>3
<1>2. CASE caches' = caches
  <2>1. \A t \in Tokens : Cached(t)' = Cached(t)
    BY <1>2, CachedIsUnder
  <2>2. NamesOnce'
    BY <1>0, <1>2 DEF NamesOnce, Unrepeated
  <2> HIDE DEF Cached
  <2> QED
    BY <1>0, <1>2, <2>1, <2>2
<1>3. ASSUME NEW kind \in Kinds, caches[kind] # <<>>,
             caches' = [caches EXCEPT ![kind] = Tail(caches[kind])]
      PROVE  /\ caches' \in [Kinds -> Seq(Items)] /\ NamesOnce'
             /\ \A t \in Tokens : Cached(t)' \subseteq Cached(t)
  <2> DEFINE q == caches[kind]
  <2>1. /\ Tail(q) \in Seq(Items) /\ Unrepeated(Tail(q))
        /\ \A n : Under(Tail(q), n) \subseteq Under(q, n)
    BY <1>0, <1>3, UnderTrimmed
  <2>2. caches'[kind] = Tail(q) /\ \A k \in Kinds : k # kind => caches'[k] = caches[k]
    BY <1>0, <1>3
  <2>3. caches' \in [Kinds -> Seq(Items)]
    BY <1>0, <1>3, <2>1
  <2>4. NamesOnce'
    <3> SUFFICES ASSUME NEW k \in Kinds PROVE Unrepeated(caches'[k])
      BY DEF NamesOnce, Unrepeated
    <3> QED
      BY <1>0, <2>1, <2>2
  <2>5. ASSUME NEW t \in Tokens PROVE Cached(t)' \subseteq Cached(t)
    <3>1. t[1] \in Kinds
      BY DEF Tokens
    <3>2. Cached(t)' = Under(caches'[t[1]], t[2]) /\ Cached(t) = Under(caches[t[1]], t[2])
      BY CachedIsUnder
    <3> HIDE DEF Cached
    <3>3. CASE t[1] = kind
      BY <2>1, <2>2, <3>2, <3>3
    <3>4. CASE t[1] # kind
      BY <2>2, <3>1, <3>2, <3>4
    <3> QED
      BY <3>3, <3>4
  <2> QED
    BY <2>3, <2>4, <2>5
<1> QED
  BY <1>1, <1>2, <1>3

\* Caches that only lose something, while no call moves.
LEMMA QuietKeeps ==
    ASSUME CallInv, UNCHANGED <<inflight, verdict, lookups, offers>>,
           caches' \in [Kinds -> Seq(Items)], NamesOnce',
           \A t \in Tokens : Cached(t)' \subseteq Cached(t)
    PROVE  CallInv' /\ Promise!Forget
<1>1. /\ FlightsOwned' /\ DecidedInTime' /\ CachedByFlight'
      /\ \A t \in Tokens : InForce(t)' \in {InForce(t), Nobody}
  BY FlightsQuiet
<1>2. CallsTyped'
  BY DEF CallInv, CallsTyped, LookupAt
<1>3. OffersHold'
  BY <1>1, OffersKept
<1>4. SubscribersServed'
  BY ServedKept
<1>5. Promise!Forget
  <2>1. \A d \in Callers : LookupPhase(d)' = LookupPhase(d)
    BY DEF LookupPhase, LookupAt
  <2> HIDE DEF InForce, LookupPhase
  <2> QED
    BY <1>1, <2>1, ForgetStep
<1> QED
  BY <1>1, <1>2, <1>3, <1>4, <1>5 DEF CallInv

\* The store evicts while every call stands where it was.
LEMMA PressureKeeps ==
    ASSUME CallInv, StorePressure
    PROVE  CallInv' /\ Promise!Forget
<1>1. EvictRuntime /\ UNCHANGED <<inflight, verdict, lookups, offers>>
  BY DEF StorePressure
<1> QED
  BY <1>1, EvictFacts, QuietKeeps

\* An owner tells the store, which may evict: its value stays in force.
LEMMA NotifyKeeps ==
    ASSUME CallInv, NEW c \in Callers, Notify(c)
    PROVE  CallInv' /\ Promise!Forget
<1>1. PICK token \in Tokens : token = lookups[c].token
  BY DEF Notify, CallInv, CallsTyped, Calls, LookupAt
<1>2. /\ lookups[c].at = "notify" /\ inflight' = inflight /\ verdict' = verdict /\ offers' = offers
      /\ LookupGoto(c, "land")
  BY DEF Notify, LookupAt
<1>3. /\ lookups' \in [Callers -> Calls]
      /\ \A d \in Callers : d # c => lookups'[d] = lookups[d]
      /\ lookups'[c].at = "land" /\ lookups'[c].token = lookups[c].token
      /\ lookups'[c].joined = lookups[c].joined /\ lookups'[c].answer = lookups[c].answer
  <2>1. "land" \in Places
    BY DEF Places
  <2> QED
    BY <1>2, <2>1, Gone DEF CallInv
<1>4. /\ caches' \in [Kinds -> Seq(Items)] /\ NamesOnce'
      /\ \A t \in Tokens : Cached(t)' \subseteq Cached(t)
  <2>1. CASE EvictRuntime
    BY <2>1, EvictFacts
  <2>2. CASE caches' = caches
    <3>1. \A t \in Tokens : Cached(t)' = Cached(t)
      BY <2>2, CachedIsUnder
    <3>2. caches' \in [Kinds -> Seq(Items)] /\ NamesOnce'
      BY <2>2 DEF CallInv, CallsTyped, NamesOnce, Unrepeated
    <3> HIDE DEF Cached
    <3> QED
      BY <3>1, <3>2
  <2> QED
    BY <2>1, <2>2 DEF Notify
<1>5. verdict[c] = Nobody /\ Failure(c) # Nobody /\ Value(c) # Nobody
  BY <1>2, OutcomesDiffer DEF CallInv, DecidedInTime
<1>6. Cached(token) \subseteq {Value(c)} /\ inflight[token] = c /\ c # Nobody
  BY <1>1, <1>2, <1>5, NobodyAssumption DEF CallInv, FlightsOwned, CachedByFlight, Owning, LookupAt
<1> HIDE DEF Cached
<1>6a. Cached(token)' \subseteq {Value(c)}
  BY <1>4, <1>6
<1>7. /\ FlightsOwned' /\ DecidedInTime' /\ CachedByFlight'
      /\ \A t \in Tokens : t # token => InForce(t)' \in {InForce(t), Nobody}
  BY <1>1, <1>2, <1>3, <1>4, <1>5, <1>6a, OwnerMoves DEF Owning
<1>8. InForce(token)' = Value(c) /\ InForce(token) = Value(c)
  BY <1>2, <1>3, <1>6 DEF InForce, LookupAt
<1> HIDE DEF InForce
<1>9. \A t \in Tokens : InForce(t)' \in {InForce(t), Nobody}
  BY <1>7, <1>8
<1>10. CallsTyped'
  BY <1>2, <1>3, <1>4 DEF CallInv, CallsTyped, LookupAt
<1>11. OffersHold'
  BY <1>2, <1>3, <1>9, OffersKept
<1>12. SubscribersServed'
  BY <1>2, <1>3, ServedKept
<1>13. Promise!Forget
  <2>1. \A d \in Callers : LookupPhase(d)' = LookupPhase(d)
    BY <1>2, <1>3 DEF LookupPhase, LookupAt
  <2> HIDE DEF LookupPhase
  <2>2. \A d \in Callers : /\ lookups'[d].token = lookups[d].token
                           /\ lookups'[d].answer = lookups[d].answer
                           /\ LookupPhase(d)' = LookupPhase(d)
    BY <1>3, <2>1
  <2> QED
    BY <1>2, <1>9, <2>2, ForgetStep
<1> QED
  BY <1>4, <1>7, <1>10, <1>11, <1>12, <1>13 DEF CallInv

\* An owner gives its value to its subscribers.
LEMMA LandKeeps ==
    ASSUME CallInv, NEW c \in Callers, Land(c)
    PROVE  CallInv' /\ Promise!Forget
<1>1. PICK token \in Tokens : token = lookups[c].token
  BY DEF Land, CallInv, CallsTyped, Calls, LookupAt
<1>2. /\ lookups[c].at = "land" /\ inflight' = inflight /\ offers' = offers /\ caches' = caches
      /\ verdict' = [verdict EXCEPT ![c] = Value(c)]
      /\ LookupGoto(c, "pop")
  BY DEF Land, LookupAt
<1>3. /\ lookups' \in [Callers -> Calls]
      /\ \A d \in Callers : d # c => lookups'[d] = lookups[d]
      /\ lookups'[c].at = "pop" /\ lookups'[c].token = lookups[c].token
      /\ lookups'[c].joined = lookups[c].joined /\ lookups'[c].answer = lookups[c].answer
  <2>1. "pop" \in Places
    BY DEF Places
  <2> QED
    BY <1>2, <2>1, Gone DEF CallInv
<1>4. Value(c) \in Outcomes /\ Value(c) # Nobody /\ Failure(c) # Nobody /\ Value(c) # Failure(c)
      /\ verdict[c] = Nobody
  BY <1>2, OutcomesDiffer DEF CallInv, DecidedInTime
<1>5. /\ verdict' \in [Callers -> Outcomes \cup {Nobody}] /\ verdict'[c] = Value(c)
      /\ \A d \in Callers : d # c => verdict'[d] = verdict[d]
  BY <1>2, <1>4 DEF CallInv, CallsTyped
<1>6. \A t \in Tokens : Cached(t)' = Cached(t)
  BY <1>2, CachedIsUnder
<1>7. inflight[token] = c /\ c # Nobody /\ Cached(token) \subseteq {Value(c)}
  BY <1>1, <1>2, <1>4, NobodyAssumption DEF CallInv, FlightsOwned, CachedByFlight, Owning, LookupAt
<1> HIDE DEF Cached
<1>8. /\ FlightsOwned' /\ DecidedInTime' /\ CachedByFlight'
      /\ \A t \in Tokens : t # token => InForce(t)' \in {InForce(t), Nobody}
  <2>1. Cached(token)' \subseteq {Value(c)}
    BY <1>6, <1>7
  <2> QED
    BY <1>1, <1>2, <1>3, <1>4, <1>5, <1>6, <2>1, OwnerMoves DEF Owning
<1>9. InForce(token)' = Value(c) /\ InForce(token) = Value(c)
  BY <1>2, <1>3, <1>4, <1>5, <1>7 DEF InForce, LookupAt
<1> HIDE DEF InForce
<1>10. \A t \in Tokens : InForce(t)' \in {InForce(t), Nobody}
  BY <1>8, <1>9
<1>11. CallsTyped' /\ NamesOnce'
  BY <1>2, <1>3, <1>5 DEF CallInv, CallsTyped, NamesOnce, LookupAt
<1>12. OffersHold'
  BY <1>2, <1>3, <1>10, OffersKept
<1>13. SubscribersServed'
  BY <1>2, <1>3, <1>5, ServedKept
<1>14. Promise!Forget
  <2>1. \A d \in Callers : LookupPhase(d)' = LookupPhase(d)
    BY <1>2, <1>3 DEF LookupPhase, LookupAt
  <2> HIDE DEF LookupPhase
  <2>2. \A d \in Callers : /\ lookups'[d].token = lookups[d].token
                           /\ lookups'[d].answer = lookups[d].answer
                           /\ LookupPhase(d)' = LookupPhase(d)
    BY <1>3, <2>1
  <2> QED
    BY <1>2, <1>10, <2>2, ForgetStep
<1> QED
  BY <1>8, <1>11, <1>12, <1>13, <1>14 DEF CallInv

\* An owner ends with what it decided, and takes its flight off record.
LEMMA PopKeeps ==
    ASSUME CallInv, NEW c \in Callers, PopFlight(c)
    PROVE  CallInv' /\ Promise!Close(c)
<1>1. PICK token \in Tokens : token = lookups[c].token
  BY DEF PopFlight, CallInv, CallsTyped, Calls, LookupAt
<1> DEFINE v == verdict[c]
<1>2. /\ lookups[c].at = "pop" /\ verdict' = verdict /\ offers' = offers /\ caches' = caches
      /\ inflight' = [inflight EXCEPT ![token] = Nobody]
      /\ lookups' = [lookups EXCEPT ![c].at = "done", ![c].answer = v]
  BY <1>1 DEF PopFlight, LookupAt
<1>3. v \in {Value(c), Failure(c)} /\ v \in Outcomes /\ v # Nobody
  BY <1>2, OutcomesDiffer DEF CallInv, DecidedInTime, LookupAt
<1>4. inflight[token] = c /\ c # Nobody
  BY <1>1, <1>2, NobodyAssumption DEF CallInv, FlightsOwned, Owning
<1>5. InForce(token) = v
  BY <1>2, <1>3, <1>4 DEF InForce, LookupAt
<1> HIDE DEF v, InForce
<1>6. v \in offers[c]
  BY <1>1, <1>2, <1>3, <1>5 DEF CallInv, OffersHold, LookupAt
<1>7. /\ lookups' \in [Callers -> Calls]
      /\ \A d \in Callers : d # c => lookups'[d] = lookups[d]
      /\ lookups'[c].at = "done" /\ lookups'[c].token = lookups[c].token
      /\ lookups'[c].joined = lookups[c].joined /\ lookups'[c].answer = v
  BY <1>2, <1>3, Answered DEF CallInv
<1>8. /\ inflight' \in [Tokens -> Callers \cup {Nobody}] /\ inflight'[token] = Nobody
      /\ \A t \in Tokens : t # token => inflight'[t] = inflight[t]
  BY <1>2 DEF CallInv, CallsTyped
<1>9. \A t \in Tokens : Cached(t)' = Cached(t)
  BY <1>2, CachedIsUnder
<1> HIDE DEF Cached
<1>10. \A t \in Tokens : t # token /\ inflight[t] # Nobody =>
         /\ inflight[t] \in Callers /\ inflight[t] # c
         /\ lookups[inflight[t]].token = t /\ lookups[inflight[t]].at \in Owning
  BY <1>1 DEF CallInv, CallsTyped, FlightsOwned
<1>11. FlightsOwned'
  <2>1. ASSUME NEW t \in Tokens, inflight'[t] # Nobody
        PROVE  lookups'[inflight'[t]].token = t /\ lookups'[inflight'[t]].at \in Owning
    BY <1>7, <1>8, <1>10, <2>1
  <2>2. ASSUME NEW d \in Callers, lookups'[d].at \in Owning
        PROVE  inflight'[lookups'[d].token] = d
    <3>1. d # c /\ lookups'[d] = lookups[d]
      BY <1>7, <2>2 DEF Owning
    <3>2. inflight[lookups[d].token] = d
      BY <2>2, <3>1 DEF CallInv, FlightsOwned
    <3>3. lookups[d].token \in Tokens
      BY <2>2, <3>1 DEF CallInv, CallsTyped, Calls, Owning, LookupAt
    <3>4. lookups[d].token # token
      BY <1>4, <3>1, <3>2
    <3> QED
      BY <1>8, <3>1, <3>2, <3>3, <3>4
  <2> QED
    BY <2>1, <2>2 DEF FlightsOwned
<1>12. DecidedInTime'
  <2> SUFFICES ASSUME NEW d \in Callers
               PROVE  /\ lookups'[d].at \notin {"pop", "done"} => verdict[d] = Nobody
                      /\ lookups'[d].at = "pop" => verdict[d] \in {Value(d), Failure(d)}
    BY <1>2 DEF DecidedInTime, LookupAt, Value, Failure
  <2> QED
    BY <1>7 DEF CallInv, DecidedInTime, LookupAt
<1>13. CachedByFlight'
  <2> SUFFICES ASSUME NEW t \in Tokens, inflight'[t] # Nobody
               PROVE  IF lookups'[inflight'[t]].at = "build"
                         \/ verdict'[inflight'[t]] = Failure(inflight'[t])
                        THEN Cached(t)' = {}
                        ELSE Cached(t)' \subseteq {Value(inflight'[t])}
    BY DEF CachedByFlight, LookupAt, Failure, Value
  <2>1. /\ inflight'[t] = inflight[t] /\ inflight[t] # Nobody
        /\ lookups'[inflight[t]] = lookups[inflight[t]]
    BY <1>7, <1>8, <1>10
  <2>2. Cached(t)' = Cached(t)
    BY <1>9
  <2>3. IF lookups[inflight[t]].at = "build" \/ verdict[inflight[t]] = Failure(inflight[t])
          THEN Cached(t) = {}
          ELSE Cached(t) \subseteq {Value(inflight[t])}
    BY <2>1 DEF CallInv, CachedByFlight, LookupAt
  <2> QED
    BY <1>2, <2>1, <2>2, <2>3
<1>14. ASSUME NEW t \in Tokens, t # token PROVE InForce(t)' = InForce(t)
  <2>1. inflight'[t] = inflight[t]
    BY <1>8, <1>14
  <2>2. inflight[t] # Nobody => lookups'[inflight[t]].at = lookups[inflight[t]].at
    BY <1>7, <1>10, <1>14
  <2>3. Cached(t)' = Cached(t)
    BY <1>9
  <2> QED
    BY <1>2, <2>1, <2>2, <2>3, ForceKept DEF CallInv
<1>15. InForce(token)' \in {InForce(token), Nobody}
  <2> DEFINE held == Cached(token)
  <2>0. InForce(token)' =
          IF Cached(token)' # {} THEN CHOOSE w \in Cached(token)' : TRUE ELSE Nobody
    BY <1>8 DEF InForce
  <2>1. InForce(token)' = IF held # {} THEN CHOOSE w \in held : TRUE ELSE Nobody
    <3>1. Cached(token)' = held
      BY <1>9
    <3> HIDE DEF held
    <3> QED
      BY <2>0, <3>1
  <2>2. \A w \in held : InForce(token) = w
    BY CachedInForce
  <2>3. held # {} => (CHOOSE w \in held : TRUE) \in held
    OBVIOUS
  <2> HIDE DEF held
  <2> QED
    BY <2>1, <2>2, <2>3
<1>16. CallsTyped' /\ NamesOnce'
  BY <1>2, <1>7, <1>8 DEF CallInv, CallsTyped, NamesOnce, LookupAt
<1>17. OffersHold'
  BY <1>2, <1>7, <1>14, <1>15, OffersKept
<1>18. SubscribersServed'
  BY <1>2, <1>7, ServedKept
<1>19. Promise!Close(c)
  <2>1. LookupPhase(c) = "decided"
    BY <1>2 DEF LookupPhase, LookupAt
  <2>2. /\ \A t \in Tokens : t # lookups[c].token => InForce(t)' = InForce(t)
        /\ \A t \in Tokens : InForce(t)' = InForce(t) \/ (LookupPhase(c) = "decided" /\ InForce(t)' = Nobody)
    BY <1>1, <1>14, <1>15, <2>1
  <2>3. LookupPhase(c) \in {"open", "decided"}
    BY <2>1
  <2> HIDE DEF LookupPhase
  <2> QED
    BY <1>2, <1>6, <1>7, <2>2, <2>3, CloseStep
<1> QED
  BY <1>11, <1>12, <1>13, <1>16, <1>17, <1>18, <1>19 DEF CallInv

\* Nothing that calls can see happens when only rendered frames are looked at.
LEMMA UnseenKeeps ==
    ASSUME CallInv, UNCHANGED <<caches, inflight, verdict, lookups, offers>>
    PROVE  CallInv' /\ Promise!Forget
<1>1. \A t \in Tokens : Cached(t)' = Cached(t)
  BY CachedIsUnder
<1>2. caches' \in [Kinds -> Seq(Items)] /\ NamesOnce'
  BY DEF CallInv, CallsTyped, NamesOnce, Unrepeated
<1> HIDE DEF Cached
<1> QED
  BY <1>1, <1>2, QuietKeeps

\* Every call idle, nothing cached.
LEMMA CallsStart ==
    ASSUME CacheInit
    PROVE  CallInv /\ Promise!FlightInit
<1>1. /\ caches = [kind \in Kinds |-> <<>>]
      /\ inflight = [token \in Tokens |-> Nobody]
      /\ verdict = [c \in Callers |-> Nobody]
      /\ offers = [c \in Callers |-> {}]
      /\ \A c \in Callers : lookups[c].at = "idle" /\ lookups[c].token = Nobody
                                /\ lookups[c].joined = Nobody /\ lookups[c].answer = Nobody
  BY DEF CacheInit
<1>2. lookups \in [Callers -> Calls]
  BY DEF CacheInit, Calls, Places
<1>3. ASSUME NEW t \in Tokens PROVE Cached(t) = {}
  <2>1. t[1] \in Kinds
    BY DEF Tokens
  <2>2. caches[t[1]] = <<>>
    BY <1>1, <2>1
  <2> QED
    BY <2>2 DEF Cached
<1> HIDE DEF Cached
<1>4. \A t \in Tokens : inflight[t] = Nobody
  BY <1>1
<1>5. ASSUME NEW t \in Tokens PROVE InForce(t) = Nobody
  BY <1>3, <1>4 DEF InForce
<1>6. CallsTyped
  <2>1. caches \in [Kinds -> Seq(Items)]
    BY <1>1
  <2> QED
    BY <1>1, <1>2, <2>1 DEF CallsTyped, LookupAt
<1>7. NamesOnce
  BY <1>1 DEF NamesOnce, Unrepeated
<1>8. FlightsOwned /\ DecidedInTime /\ CachedByFlight /\ SubscribersServed
  BY <1>1, <1>4 DEF FlightsOwned, DecidedInTime, CachedByFlight, SubscribersServed, LookupAt, Owning
<1>9. OffersHold
  BY <1>5 DEF OffersHold
<1>10. Promise!FlightInit
  <2>1. [d \in Callers |-> LookupPhase(d)] = [d \in Callers |-> "idle"]
    BY <1>1 DEF LookupPhase
  <2>2. [t \in Tokens |-> InForce(t)] = [t \in Tokens |-> Nobody]
    BY <1>5
  <2>3. /\ [d \in Callers |-> lookups[d].token] = [d \in Callers |-> Nobody]
        /\ [d \in Callers |-> lookups[d].answer] = [d \in Callers |-> Nobody]
    BY <1>1
  <2> HIDE DEF LookupPhase, InForce
  <2> QED
    BY <1>1, <2>1, <2>2, <2>3 DEF Promise!FlightInit
<1> QED
  BY <1>6, <1>7, <1>8, <1>9, <1>10 DEF CallInv

\* Every step of the runtime caches keeps CallInv, and is a step of the promise
\* or one that callers cannot tell from none.
LEMMA PromiseStep ==
    ASSUME CallInv, [CacheNext]_cacheVars
    PROVE  CallInv' /\ [Promise!FlightNext]_(Promise!flightVars)
<1>1. ASSUME NEW c \in Callers, NEW token \in Tokens, Enter(c, token)
      PROVE  CallInv' /\ Promise!FlightNext
  BY <1>1, EnterKeeps DEF Promise!FlightNext
<1>2. ASSUME NEW c \in Callers, LookupHit(c) \/ Wake(c) \/ PopFlight(c)
      PROVE  CallInv' /\ Promise!FlightNext
  BY <1>2, HitKeeps, WakeKeeps, PopKeeps DEF Promise!FlightNext
<1>3. ASSUME NEW c \in Callers, LookupMiss(c)
      PROVE  CallInv' /\ Promise!FlightNext
  BY <1>3, MissKeeps DEF Promise!FlightNext
<1>4. ASSUME NEW c \in Callers, Insert(c) \/ BuilderRaises(c)
      PROVE  CallInv' /\ Promise!FlightNext
  BY <1>4, InsertKeeps, RaiseKeeps DEF Promise!FlightNext
<1>5. ASSUME NEW c \in Callers, Notify(c) \/ Land(c)
      PROVE  CallInv' /\ Promise!FlightNext
  BY <1>5, NotifyKeeps, LandKeeps DEF Promise!FlightNext
<1>6. CASE StorePressure
  BY <1>6, PressureKeeps DEF Promise!FlightNext
<1>7. CASE \/ \E p \in PixelKeys : PutPixels(p) \/ GetPixels(p)
           \/ AllDone \/ UNCHANGED cacheVars
  <2>1. UNCHANGED <<caches, inflight, verdict, lookups, offers>>
    BY <1>7 DEF PutPixels, GetPixels, AllDone, cacheVars
  <2> QED
    BY <2>1, UnseenKeeps DEF Promise!FlightNext
<1> QED
  BY <1>1, <1>2, <1>3, <1>4, <1>5, <1>6, <1>7 DEF CacheNext, CallStep

\* In every state of the runtime caches, flights, Futures and cached values
\* agree: one flight per key, decided once, and its value the only one cached.
THEOREM CallInvariant == CacheSpec => []CallInv
<1>1. CacheInit => CallInv
  BY CallsStart
<1>2. CallInv /\ [CacheNext]_cacheVars => CallInv'
  BY PromiseStep
<1> QED
  BY <1>1, <1>2, PTL DEF CacheSpec

\* get_or_compute implements SingleFlight: through eviction, failing builders
\* and late subscribers one caller computes a key at a time, and every call ends
\* with an outcome of its key that was in force while it was open.
THEOREM PromiseKept == CacheSpec => KeepsPromise
<1>1. CacheInit => Promise!FlightInit
  BY CallsStart
<1>2. CallInv /\ [CacheNext]_cacheVars => [Promise!FlightNext]_(Promise!flightVars)
  BY PromiseStep
<1> QED
  BY <1>1, <1>2, CallInvariant, PTL DEF CacheSpec, KeepsPromise, Promise!SingleFlightSpec

-----------------------------------------------------------------------------
(* Rendered frames *)

\* A frame is kept once, and a report is kept with its frame.
PixelInv ==
    /\ pixels \in Seq(PixelKeys) /\ IsInjective(pixels)
    /\ drawn \in [PixelKeys -> Nat] /\ reports \in [PixelKeys -> Nat] /\ renders \in Nat
    /\ ReportsOfTheirPixels

\* The oldest frame goes.
LEMMA TailFacts ==
    ASSUME NEW S, NEW q \in Seq(S), IsInjective(q), q # <<>>
    PROVE  /\ Tail(q) \in Seq(S) /\ IsInjective(Tail(q))
           /\ ToSet(q) \ {Head(q)} \subseteq ToSet(Tail(q))
<1>1. /\ Tail(q) \in Seq(S) /\ Len(Tail(q)) = Len(q) - 1 /\ Len(q) \in Nat
      /\ \A i \in 1..Len(q) - 1 : Tail(q)[i] = q[i + 1]
      /\ Head(q) = q[1]
  BY HeadTailProperties, LenProperties
<1>2. DOMAIN q = 1..Len(q) /\ DOMAIN Tail(q) = 1..Len(q) - 1
  BY <1>1, LenProperties
<1> DEFINE r == Tail(q)
<1> HIDE DEF r
<1>3. \A i \in 1..Len(q) - 1 : i + 1 \in 1..Len(q) /\ r[i] = q[i + 1]
  BY <1>1 DEF r
<1>4. IsInjective(r)
  <2> SUFFICES ASSUME NEW i \in 1..Len(q) - 1, NEW j \in 1..Len(q) - 1, r[i] = r[j] PROVE i = j
    BY <1>2 DEF IsInjective, r
  <2>1. i + 1 = j + 1
    BY <1>2, <1>3 DEF IsInjective
  <2> QED
    BY <1>1, <2>1
<1>5. ASSUME NEW x \in ToSet(q) \ {Head(q)} PROVE x \in ToSet(r)
  <2>1. PICK i \in 1..Len(q) : q[i] = x
    BY <1>2 DEF ToSet
  <2>2. i # 1
    BY <1>1, <1>5, <2>1
  <2>3. i - 1 \in 1..Len(q) - 1 /\ (i - 1) + 1 = i
    BY <1>1, <2>2
  <2>4. r[i - 1] = x
    BY <1>3, <2>1, <2>3
  <2> QED
    BY <1>2, <2>3, <2>4 DEF ToSet, r
<1> QED
  BY <1>1, <1>4, <1>5 DEF r

\* The frames kept are named once, and every report is of its frame.
LEMMA FramesKept == CacheSpec => []PixelInv
<1>1. CacheInit => PixelInv
  <2> SUFFICES ASSUME CacheInit PROVE PixelInv
    OBVIOUS
  <2>1. /\ pixels = <<>> /\ renders = 0
        /\ drawn = [p \in PixelKeys |-> 0] /\ reports = [p \in PixelKeys |-> 0]
    BY DEF CacheInit
  <2> QED
    BY <2>1 DEF PixelInv, ReportsOfTheirPixels, IsInjective
<1>2. PixelInv /\ [CacheNext]_cacheVars => PixelInv'
  <2> SUFFICES ASSUME PixelInv, [CacheNext]_cacheVars PROVE PixelInv'
    OBVIOUS
  <2>0. /\ pixels \in Seq(PixelKeys) /\ IsInjective(pixels) /\ renders \in Nat
        /\ drawn \in [PixelKeys -> Nat] /\ reports \in [PixelKeys -> Nat]
        /\ \A p \in PixelKeys : reports[p] # 0 => p \in ToSet(pixels) /\ reports[p] = drawn[p]
    BY DEF PixelInv, ReportsOfTheirPixels
  <2>1. CASE UNCHANGED frameVars /\ renders' = renders
    BY <2>0, <2>1 DEF PixelInv, ReportsOfTheirPixels, frameVars
  <2>2. CASE /\ pixels # <<>> /\ pixels' = Tail(pixels) /\ UNCHANGED <<drawn, renders>>
             /\ reports' = [reports EXCEPT ![Head(pixels)] = 0]
    <3>1. /\ Tail(pixels) \in Seq(PixelKeys) /\ IsInjective(Tail(pixels))
          /\ ToSet(pixels) \ {Head(pixels)} \subseteq ToSet(Tail(pixels))
      BY <2>0, <2>2, TailFacts
    <3>2. reports' \in [PixelKeys -> Nat]
      BY <2>0, <2>2
    <3>3. ASSUME NEW p \in PixelKeys, reports'[p] # 0
          PROVE  p # Head(pixels) /\ reports'[p] = reports[p]
      BY <2>0, <2>2, <3>3
    <3> QED
      BY <2>0, <2>2, <3>1, <3>2, <3>3 DEF PixelInv, ReportsOfTheirPixels
  <2>3. ASSUME EvictRuntime, renders' = renders PROVE PixelInv'
    BY <2>1, <2>2, <2>3 DEF EvictRuntime, frameVars
  <2>4. ASSUME NEW p \in PixelKeys, PutPixels(p) PROVE PixelInv'
    <3> DEFINE kept == KeptFrames(p)
    <3>1. /\ kept \in Seq(PixelKeys) /\ IsInjective(kept) /\ p \in ToSet(kept)
      BY <2>0, MovedIsKept, LimitsAssumption DEF KeptFrames
    <3>2. PICK report \in {0, renders'} : reports' = Reported(p, report)
      BY <2>4 DEF PutPixels
    <3>3. /\ pixels' = kept /\ renders' = renders + 1 /\ drawn' = [drawn EXCEPT ![p] = renders']
      BY <2>4 DEF PutPixels
    <3>4. reports' = [k \in PixelKeys |-> IF k = p THEN report
                                         ELSE IF k \in ToSet(pixels) \ ToSet(kept) THEN 0 ELSE reports[k]]
      BY <3>2 DEF Reported
    <3> HIDE DEF kept
    <3>5. /\ renders' \in Nat /\ drawn' \in [PixelKeys -> Nat] /\ reports' \in [PixelKeys -> Nat]
          /\ drawn'[p] = renders' /\ reports'[p] = report
          /\ \A k \in PixelKeys \ {p} : drawn'[k] = drawn[k]
      BY <2>0, <3>2, <3>3, <3>4
    <3>6. ASSUME NEW k \in PixelKeys, reports'[k] # 0
          PROVE  k \in ToSet(kept) /\ reports'[k] = drawn'[k]
      <4>1. CASE k = p
        BY <3>1, <3>2, <3>5, <3>6, <4>1
      <4>2. CASE k # p
        BY <2>0, <3>4, <3>5, <3>6, <4>2
      <4> QED
        BY <4>1, <4>2
    <3> QED
      BY <3>1, <3>3, <3>5, <3>6 DEF PixelInv, ReportsOfTheirPixels
  <2>5. ASSUME NEW p \in PixelKeys, GetPixels(p) PROVE PixelInv'
    <3>1. /\ MoveToEnd(pixels, p) \in Seq(PixelKeys) /\ IsInjective(MoveToEnd(pixels, p))
          /\ ToSet(MoveToEnd(pixels, p)) = ToSet(pixels) \cup {p}
      BY <2>0, MoveToEndFacts
    <3>2. pixels' = MoveToEnd(pixels, p) /\ UNCHANGED <<drawn, reports, renders>>
      BY <2>5 DEF GetPixels
    <3> QED
      BY <2>0, <3>1, <3>2 DEF PixelInv, ReportsOfTheirPixels
  <2>6. ASSUME NEW c \in Callers, CallStep(c) PROVE PixelInv'
    <3>1. CASE Notify(c)
      BY <2>1, <2>3, <3>1 DEF Notify
    <3> QED
      BY <2>1, <2>6, <3>1 DEF CallStep, LookupHit, LookupMiss, Wake, Insert, BuilderRaises,
                              Land, PopFlight
  <2>7. ASSUME NEW c \in Callers, NEW token \in Tokens, Enter(c, token) PROVE PixelInv'
    BY <2>1, <2>7 DEF Enter
  <2>8. CASE StorePressure
    BY <2>3, <2>8 DEF StorePressure
  <2>9. CASE AllDone \/ UNCHANGED cacheVars
    BY <2>1, <2>9 DEF AllDone, cacheVars
  <2> QED
    BY <2>4, <2>5, <2>6, <2>7, <2>8, <2>9 DEF CacheNext
<1> QED
  BY <1>1, <1>2, PTL DEF CacheSpec

\* A report is of the render whose pixels its key holds: put_pixels and
\* evict_runtime replace and drop the two together.
THEOREM ReportsAlwaysOfTheirPixels == CacheSpec => []ReportsOfTheirPixels
<1>1. PixelInv => ReportsOfTheirPixels
  BY DEF PixelInv
<1> QED
  BY <1>1, FramesKept, PTL

-----------------------------------------------------------------------------
(* Sums over finite sets

   What SumFunctionOnSet adds up in an order of its choice; the quotas of the
   uploads and of the disk writer are such sums. *)

\* A set of finite sets has a smallest one.
LEMMA SmallestSet ==
  ASSUME NEW B, B # {}, \A T \in B : IsFiniteSet(T)
  PROVE  \E T \in B : \A U \in B : Cardinality(T) <= Cardinality(U)
<1> DEFINE Sizes == {Cardinality(T) : T \in B}
<1>1. Sizes \in SUBSET Nat /\ Sizes # {}
  BY FS_CardinalityType
<1> HIDE DEF Sizes
<1>2. Min(Sizes) \in Sizes /\ \A n \in Sizes : Min(Sizes) <= n
  BY <1>1, LeastIsMin
<1>3. QED BY <1>2 DEF Sizes

\* A set less its chosen member is smaller.
LEMMA SetShrinks ==
  ASSUME NEW S, IsFiniteSet(S), NEW T \in SUBSET S, NEW x \in T
  PROVE  /\ IsFiniteSet(T) /\ T \ {x} \in SUBSET S /\ IsFiniteSet(T \ {x})
         /\ Cardinality(T) \in Nat /\ Cardinality(T \ {x}) = Cardinality(T) - 1
         /\ Cardinality(T) <= Cardinality(S) /\ Cardinality(T) >= 1
<1>1. IsFiniteSet(T) /\ Cardinality(T) <= Cardinality(S)
  BY FS_Subset
<1>2. IsFiniteSet(T \ {x}) /\ Cardinality(T \ {x}) = Cardinality(T) - 1
  BY <1>1, FS_RemoveElement
<1>3. Cardinality(T) \in Nat /\ Cardinality(T \ {x}) \in Nat
  BY <1>1, <1>2, FS_CardinalityType
<1>4. QED BY <1>1, <1>2, <1>3

Picked(s) == CHOOSE x \in s : TRUE
AddsUp(g, f, S) ==
  g = [s \in SUBSET S |-> IF s = {} THEN 0 ELSE f[Picked(s)] + g[s \ {Picked(s)}]]

\* There is a function that adds up over all subsets: it grows with the size of
\* the subsets it is defined for.
LEMMA AddingExists ==
  ASSUME NEW D, NEW f \in [D -> Nat], NEW S \in SUBSET D, IsFiniteSet(S)
  PROVE  \E g \in [SUBSET S -> Nat] : AddsUp(g, f, S)
<1> DEFINE Upto(n) == {T \in SUBSET S : Cardinality(T) <= n}
           Grown(n, g) == \A s \in Upto(n) : g[s] = IF s = {} THEN 0 ELSE f[Picked(s)] + g[s \ {Picked(s)}]
           Bad == {n \in Nat : \A g \in [Upto(n) -> Nat] : ~ Grown(n, g)}
<1>0. ASSUME NEW s \in SUBSET S, s # {}
      PROVE  /\ Picked(s) \in s /\ s \ {Picked(s)} \in SUBSET S /\ f[Picked(s)] \in Nat
             /\ Cardinality(s) \in Nat /\ Cardinality(s \ {Picked(s)}) = Cardinality(s) - 1
  <2>1. Picked(s) \in s
    BY <1>0 DEF Picked
  <2>2. QED BY <2>1, SetShrinks
<1>1. Bad = {}
  <2>1. SUFFICES ASSUME Bad # {} PROVE FALSE
    OBVIOUS
  <2>2. Bad \in SUBSET Nat
    OBVIOUS
  <2>3. PICK k \in Bad : \A j \in Bad : k <= j
    <3>1. Min(Bad) \in Bad /\ \A j \in Bad : Min(Bad) <= j
      <4> HIDE DEF Bad
      <4>1. QED BY <2>1, <2>2, LeastIsMin
    <3>2. QED BY <3>1
  <2>4. CASE k = 0
    <3> DEFINE g == [s \in Upto(0) |-> 0]
    <3>1. \A s \in Upto(0) : s = {}
      <4>1. SUFFICES ASSUME NEW s \in Upto(0), s # {} PROVE FALSE
        OBVIOUS
      <4>2. IsFiniteSet(s)
        BY FS_Subset
      <4>3. Cardinality(s) = 0
        BY <4>2, FS_CardinalityType
      <4>4. QED BY <4>1, <4>2, <4>3, FS_EmptySet
    <3>2. g \in [Upto(0) -> Nat] /\ Grown(0, g)
      BY <3>1
    <3>3. QED BY <2>3, <2>4, <3>2
  <2>5. CASE k # 0
    <3>1. k - 1 \in Nat /\ k - 1 \notin Bad /\ k \in Nat
      <4>1. k \in Nat
        BY <2>2
      <4>2. k - 1 \in Nat
        BY <2>5, <4>1
      <4>3. k - 1 \in Bad => k <= k - 1
        BY <2>3
      <4>4. QED BY <4>1, <4>2, <4>3
    <3>2. PICK g \in [Upto(k - 1) -> Nat] : Grown(k - 1, g)
      BY <3>1
    <3> DEFINE h == [s \in Upto(k) |-> IF s = {} THEN 0 ELSE f[Picked(s)] + g[s \ {Picked(s)}]]
    <3>3. ASSUME NEW s \in Upto(k), s # {} PROVE s \ {Picked(s)} \in Upto(k - 1)
      BY <1>0, <3>1, <3>3
    <3>4. h \in [Upto(k) -> Nat]
      BY <1>0, <3>2, <3>3
    <3>5. ASSUME NEW s \in Upto(k - 1) PROVE s \in Upto(k) /\ h[s] = g[s]
      <4>1. s \in Upto(k)
        <5>1. Cardinality(s) \in Nat
          BY FS_Subset, FS_CardinalityType
        <5>2. QED BY <3>1, <5>1
      <4>2. QED BY <3>2, <4>1
    <3>6. Grown(k, h)
      <4>1. SUFFICES ASSUME NEW s \in Upto(k), s # {} PROVE h[s] = f[Picked(s)] + h[s \ {Picked(s)}]
        OBVIOUS
      <4>2. h[s] = f[Picked(s)] + g[s \ {Picked(s)}]
        BY <4>1
      <4>3. h[s \ {Picked(s)}] = g[s \ {Picked(s)}]
        BY <3>3, <3>5, <4>1
      <4> HIDE DEF h
      <4>4. QED BY <4>2, <4>3
    <3> HIDE DEF h
    <3>7. QED BY <2>3, <3>4, <3>6
  <2>6. QED BY <2>4, <2>5
<1>2. PICK g \in [Upto(Cardinality(S)) -> Nat] : Grown(Cardinality(S), g)
  BY <1>1, FS_CardinalityType
<1>3. Upto(Cardinality(S)) = SUBSET S
  BY FS_Subset
<1> HIDE DEF Upto
<1>4. g \in [SUBSET S -> Nat]
  BY <1>2, <1>3
<1>5. AddsUp(g, f, S)
  BY <1>2, <1>3, <1>4 DEF AddsUp
<1>6. QED BY <1>4, <1>5

\* The function the fold chooses.
Sums(f, S) == CHOOSE g : AddsUp(g, f, S)

\* The fold is the value for the whole set.
LEMMA SumIsChosen ==
  ASSUME NEW f, NEW S
  PROVE  SumFunctionOnSet(f, S) = Sums(f, S)[S]
BY DEF SumFunctionOnSet, FoldFunctionOnSet, MapThenFoldSet, Sums, AddsUp, Picked

\* Two functions that add up agree wherever both do.
LEMMA SumsUnique ==
  ASSUME NEW D, NEW f \in [D -> Nat], NEW S \in SUBSET D, IsFiniteSet(S), NEW R \in SUBSET S,
         NEW g, AddsUp(g, f, S), NEW h, AddsUp(h, f, R)
  PROVE  \A T \in SUBSET R : g[T] = h[T]
<1> DEFINE Bad == {T \in SUBSET R : g[T] # h[T]}
<1>1. SUFFICES ASSUME Bad # {} PROVE FALSE
  OBVIOUS
<1>2. \A T \in Bad : IsFiniteSet(T)
  BY FS_Subset
<1>3. PICK T \in Bad : \A U \in Bad : Cardinality(T) <= Cardinality(U)
  <2> HIDE DEF Bad
  <2>1. QED BY <1>1, <1>2, SmallestSet
<1>4. T # {}
  BY <1>3 DEF AddsUp
<1> DEFINE x == Picked(T)
<1>5. x \in T
  BY <1>4 DEF Picked
<1>6. T \ {x} \in SUBSET R /\ Cardinality(T \ {x}) = Cardinality(T) - 1 /\ Cardinality(T) \in Nat
  <2> HIDE DEF x
  <2>1. QED BY <1>3, <1>5, SetShrinks
<1>7. T \ {x} \notin Bad
  <2> HIDE DEF Bad, x
  <2>1. SUFFICES ASSUME T \ {x} \in Bad PROVE FALSE
    OBVIOUS
  <2>2. Cardinality(T) <= Cardinality(T \ {x})
    BY <1>3, <2>1
  <2>3. QED BY <1>6, <2>2
<1>8. g[T \ {x}] = h[T \ {x}]
  BY <1>6, <1>7
<1>9. g[T] = f[x] + g[T \ {x}] /\ h[T] = f[x] + h[T \ {x}]
  BY <1>3, <1>4 DEF AddsUp
<1>10. QED BY <1>3, <1>8, <1>9

\* What the sum over a finite set is, in the order of the fold.
LEMMA SumBySteps ==
  ASSUME NEW D, NEW f \in [D -> Nat], NEW S \in SUBSET D, IsFiniteSet(S)
  PROVE  /\ SumFunctionOnSet(f, S) \in Nat
         /\ SumFunctionOnSet(f, S) =
              IF S = {} THEN 0 ELSE f[Picked(S)] + SumFunctionOnSet(f, S \ {Picked(S)})
<1>1. ASSUME NEW R \in SUBSET S
      PROVE  AddsUp(Sums(f, R), f, R) /\ SumFunctionOnSet(f, R) = Sums(f, R)[R]
             /\ SumFunctionOnSet(f, R) \in Nat
  <2>1. IsFiniteSet(R)
    BY FS_Subset
  <2>2. PICK g \in [SUBSET R -> Nat] : AddsUp(g, f, R)
    BY <2>1, AddingExists
  <2>3. AddsUp(Sums(f, R), f, R)
    BY <2>2 DEF Sums
  <2>4. Sums(f, R)[R] = g[R]
    <3>1. R \in SUBSET D /\ R \in SUBSET R
      OBVIOUS
    <3>2. \A T \in SUBSET R : Sums(f, R)[T] = g[T]
      BY <2>1, <2>2, <2>3, <3>1, SumsUnique
    <3>3. QED BY <3>1, <3>2
  <2>5. QED BY <2>2, <2>3, <2>4, SumIsChosen
<1>2. CASE S = {}
  BY <1>1, <1>2 DEF AddsUp
<1>3. CASE S # {}
  <2> DEFINE x == Picked(S)
             R == S \ {x}
  <2>1. Sums(f, S)[S] = f[x] + Sums(f, S)[R]
    <3>1. AddsUp(Sums(f, S), f, S)
      BY <1>1
    <3>2. QED BY <1>3, <3>1 DEF AddsUp
  <2>2. Sums(f, S)[R] = Sums(f, R)[R]
    <3> HIDE DEF x
    <3>1. AddsUp(Sums(f, S), f, S) /\ AddsUp(Sums(f, R), f, R)
      BY <1>1
    <3>2. QED BY <3>1, SumsUnique
  <2>3. QED BY <1>1, <1>3, <2>1, <2>2
<1>4. QED BY <1>2, <1>3

\* A sum is a number, and every member of the set adds its share, whichever is
\* taken out first.
LEMMA SumWithout ==
  ASSUME NEW D, NEW f \in [D -> Nat], NEW S \in SUBSET D, IsFiniteSet(S), NEW x \in S
  PROVE  SumFunctionOnSet(f, S) = f[x] + SumFunctionOnSet(f, S \ {x})
<1> DEFINE Sum(T) == SumFunctionOnSet(f, T)
           Bad == {T \in SUBSET S : \E y \in T : Sum(T) # f[y] + Sum(T \ {y})}
<1>1. SUFFICES Bad = {}
  BY <1>1
<1>2. SUFFICES ASSUME Bad # {} PROVE FALSE
  OBVIOUS
<1>3. PICK T \in Bad : \A U \in Bad : Cardinality(T) <= Cardinality(U)
  <2>1. \A T \in Bad : IsFiniteSet(T)
    BY FS_Subset
  <2> HIDE DEF Bad
  <2>2. QED BY <1>2, <2>1, SmallestSet
<1>4. PICK y \in T : Sum(T) # f[y] + Sum(T \ {y})
  BY <1>3
<1> DEFINE c == Picked(T)
<1>5. c \in T /\ Sum(T) = f[c] + Sum(T \ {c})
  <2>1. IsFiniteSet(T) /\ T # {} /\ T \in SUBSET D
    BY <1>3, <1>4, FS_Subset
  <2>2. QED BY <2>1, SumBySteps DEF Picked
<1> HIDE DEF c
<1>6. y # c
  BY <1>4, <1>5
<1>7. ASSUME NEW z \in T
      PROVE  T \ {z} \in SUBSET S /\ T \ {z} \notin Bad
  <2>1. T \ {z} \in SUBSET S /\ Cardinality(T \ {z}) = Cardinality(T) - 1 /\ Cardinality(T) \in Nat
    BY <1>3, SetShrinks
  <2>2. ASSUME T \ {z} \in Bad PROVE FALSE
    <3>1. Cardinality(T) <= Cardinality(T \ {z})
      <4> HIDE DEF Bad
      <4>1. QED BY <1>3, <2>2
    <3>2. QED BY <2>1, <3>1
  <2>3. QED BY <2>1, <2>2
<1>8. Sum(T \ {c}) = f[y] + Sum((T \ {c}) \ {y})
  BY <1>4, <1>5, <1>6, <1>7
<1>9. Sum(T \ {y}) = f[c] + Sum((T \ {y}) \ {c})
  BY <1>4, <1>5, <1>6, <1>7
<1>10. Sum((T \ {c}) \ {y}) = Sum((T \ {y}) \ {c})
  <2>1. (T \ {c}) \ {y} = (T \ {y}) \ {c}
    OBVIOUS
  <2>2. QED BY <2>1
<1>11. /\ f[c] \in Nat /\ f[y] \in Nat /\ Sum((T \ {y}) \ {c}) \in Nat
  <2>1. (T \ {y}) \ {c} \in SUBSET D /\ IsFiniteSet((T \ {y}) \ {c})
    BY <1>3, FS_Subset
  <2>2. QED BY <1>3, <1>4, <1>5, <2>1, SumBySteps
<1>12. Sum(T) = f[y] + Sum(T \ {y})
  <2> HIDE DEF Sum
  <2>1. QED BY <1>5, <1>8, <1>9, <1>10, <1>11
<1>13. QED BY <1>4, <1>12

\* Sums are natural numbers, and grow with what is added up.
LEMMA SumOrdered ==
  ASSUME NEW D, NEW f \in [D -> Nat], NEW E, NEW g \in [E -> Nat],
         NEW S \in SUBSET (D \cap E), IsFiniteSet(S), \A x \in S : f[x] <= g[x]
  PROVE  /\ SumFunctionOnSet(f, S) \in Nat /\ SumFunctionOnSet(g, S) \in Nat
         /\ SumFunctionOnSet(f, S) <= SumFunctionOnSet(g, S)
<1> DEFINE Fits(T) == SumFunctionOnSet(f, T) <= SumFunctionOnSet(g, T)
           Bad == {T \in SUBSET S : ~Fits(T)}
<1>1. ASSUME NEW T \in SUBSET S
      PROVE  SumFunctionOnSet(f, T) \in Nat /\ SumFunctionOnSet(g, T) \in Nat
  <2>1. T \in SUBSET D /\ T \in SUBSET E /\ IsFiniteSet(T)
    BY FS_Subset
  <2>2. QED BY <2>1, SumBySteps
<1>2. Bad = {}
  <2>1. SUFFICES ASSUME Bad # {} PROVE FALSE
    OBVIOUS
  <2>2. PICK T \in Bad : \A U \in Bad : Cardinality(T) <= Cardinality(U)
    <3>1. \A T \in Bad : IsFiniteSet(T)
      BY FS_Subset
    <3> HIDE DEF Bad
    <3>2. QED BY <2>1, <3>1, SmallestSet
  <2>3. T # {}
    <3>1. SumFunctionOnSet(f, {}) = 0 /\ SumFunctionOnSet(g, {}) = 0
      <4>1. {} \in SUBSET D /\ {} \in SUBSET E /\ IsFiniteSet({})
        BY FS_EmptySet
      <4>2. QED BY <4>1, SumBySteps
    <3>2. Fits({}) /\ ~Fits(T)
      BY <2>2, <3>1
    <3> HIDE DEF Fits
    <3>3. QED BY <3>2
  <2>4. PICK x \in T : TRUE
    BY <2>3
  <2>5. T \ {x} \in SUBSET S /\ Cardinality(T \ {x}) = Cardinality(T) - 1 /\ Cardinality(T) \in Nat
    BY <2>2, SetShrinks
  <2>6. Fits(T \ {x})
    <3>1. T \ {x} \in Bad => Cardinality(T) <= Cardinality(T \ {x})
      <4> HIDE DEF Bad
      <4>1. QED BY <2>2
    <3>2. T \ {x} \notin Bad
      BY <2>5, <3>1
    <3>3. QED BY <2>5, <3>2
  <2>7. /\ SumFunctionOnSet(f, T) = f[x] + SumFunctionOnSet(f, T \ {x})
        /\ SumFunctionOnSet(g, T) = g[x] + SumFunctionOnSet(g, T \ {x})
    <3>1. T \in SUBSET D /\ T \in SUBSET E /\ IsFiniteSet(T)
      BY <2>2, FS_Subset
    <3>2. QED BY <3>1, SumWithout
  <2>8. f[x] \in Nat /\ g[x] \in Nat /\ f[x] <= g[x]
    BY <2>2
  <2>9. ~Fits(T) /\ T \in SUBSET S
    BY <2>2
  <2>10. QED BY <1>1, <2>5, <2>6, <2>7, <2>8, <2>9
<1>3. QED BY <1>1, <1>2

\* Only the items of the set count.
LEMMA SumSame ==
  ASSUME NEW D, NEW f \in [D -> Nat], NEW E, NEW g \in [E -> Nat],
         NEW S \in SUBSET (D \cap E), IsFiniteSet(S), \A x \in S : f[x] = g[x]
  PROVE  SumFunctionOnSet(f, S) = SumFunctionOnSet(g, S)
<1>1. \A x \in S : f[x] \in Nat /\ f[x] <= g[x] /\ g[x] <= f[x]
  OBVIOUS
<1>2. S \in SUBSET (E \cap D)
  OBVIOUS
<1>3. /\ SumFunctionOnSet(f, S) \in Nat /\ SumFunctionOnSet(g, S) \in Nat
      /\ SumFunctionOnSet(f, S) <= SumFunctionOnSet(g, S)
  BY <1>1, SumOrdered
<1>4. SumFunctionOnSet(g, S) <= SumFunctionOnSet(f, S)
  BY <1>1, <1>2, SumOrdered
<1>5. QED BY <1>3, <1>4

\* The sum over two sets that share nothing.
LEMMA SumSplit ==
  ASSUME NEW D, NEW f \in [D -> Nat], NEW S \in SUBSET D, IsFiniteSet(S),
         NEW T \in SUBSET S
  PROVE  SumFunctionOnSet(f, S) = SumFunctionOnSet(f, T) + SumFunctionOnSet(f, S \ T)
<1> DEFINE Whole(U) == SumFunctionOnSet(f, U \cup (S \ T))
           Rest == SumFunctionOnSet(f, S \ T)
           Bad == {U \in SUBSET T : Whole(U) # SumFunctionOnSet(f, U) + Rest}
<1>1. ASSUME NEW U \in SUBSET T
      PROVE  /\ U \cup (S \ T) \in SUBSET D /\ IsFiniteSet(U \cup (S \ T))
             /\ U \in SUBSET D /\ IsFiniteSet(U)
  <2>1. U \cup (S \ T) \in SUBSET S /\ U \in SUBSET S
    OBVIOUS
  <2>2. QED BY <2>1, FS_Subset
<1>2. Rest \in Nat /\ SumFunctionOnSet(f, {}) = 0
  <2>1. IsFiniteSet(S \ T) /\ S \ T \in SUBSET D /\ {} \in SUBSET D /\ IsFiniteSet({})
    BY FS_Subset, FS_EmptySet
  <2>2. QED BY <2>1, SumBySteps
<1>3. Bad = {}
  <2>1. SUFFICES ASSUME Bad # {} PROVE FALSE
    OBVIOUS
  <2>2. PICK U \in Bad : \A V \in Bad : Cardinality(U) <= Cardinality(V)
    <3>1. \A U \in Bad : IsFiniteSet(U)
      BY <1>1
    <3> HIDE DEF Bad
    <3>2. QED BY <2>1, <3>1, SmallestSet
  <2>3. U # {}
    <3>1. {} \cup (S \ T) = S \ T
      OBVIOUS
    <3>2. Whole({}) = SumFunctionOnSet(f, {}) + Rest
      BY <1>2, <3>1
    <3>3. QED BY <2>2, <3>2
  <2>4. PICK x \in U : TRUE
    BY <2>3
  <2>5. IsFiniteSet(T) /\ U \in SUBSET T
    BY <1>1, <2>2
  <2>6. U \ {x} \in SUBSET T /\ Cardinality(U \ {x}) = Cardinality(U) - 1 /\ Cardinality(U) \in Nat
    BY <2>5, SetShrinks
  <2>7. Whole(U \ {x}) = SumFunctionOnSet(f, U \ {x}) + Rest
    <3>1. U \ {x} \in Bad => Cardinality(U) <= Cardinality(U \ {x})
      <4> HIDE DEF Bad
      <4>1. QED BY <2>2
    <3>2. U \ {x} \notin Bad
      BY <2>6, <3>1
    <3>3. QED BY <2>6, <3>2
  <2>8. SumFunctionOnSet(f, U) = f[x] + SumFunctionOnSet(f, U \ {x})
    BY <1>1, <2>5, SumWithout
  <2>9. Whole(U) = f[x] + Whole(U \ {x})
    <3>1. (U \cup (S \ T)) \ {x} = (U \ {x}) \cup (S \ T) /\ x \in U \cup (S \ T)
      BY <2>5
    <3>2. Whole(U) = f[x] + SumFunctionOnSet(f, (U \cup (S \ T)) \ {x})
      BY <1>1, <2>5, <3>1, SumWithout
    <3>3. QED BY <3>1, <3>2
  <2>10. f[x] \in Nat /\ SumFunctionOnSet(f, U \ {x}) \in Nat
    <3>1. x \in D
      BY <2>5
    <3>2. QED BY <1>1, <2>6, <3>1, SumBySteps
  <2>11. Whole(U) = SumFunctionOnSet(f, U) + Rest
    <3> HIDE DEF Whole, Rest
    <3>1. QED BY <1>2, <2>7, <2>8, <2>9, <2>10
  <2>12. QED BY <2>2, <2>11
<1>4. Whole(T) = SumFunctionOnSet(f, T) + Rest
  BY <1>3
<1>5. T \cup (S \ T) = S
  OBVIOUS
<1>6. QED BY <1>4, <1>5

\* Nothings add up to nothing.
LEMMA ZeroSum ==
  ASSUME NEW D, NEW S \in SUBSET D, IsFiniteSet(S)
  PROVE  SumFunctionOnSet([x \in D |-> 0], S) = 0
<1> DEFINE f == [x \in D |-> 0]
           Bad == {T \in SUBSET S : SumFunctionOnSet(f, T) # 0}
<1>0. f \in [D -> Nat]
  OBVIOUS
<1> SUFFICES ASSUME Bad # {} PROVE FALSE
  OBVIOUS
<1>1. \A T \in Bad : IsFiniteSet(T)
  BY FS_Subset
<1>2. PICK T \in Bad : \A U \in Bad : Cardinality(T) <= Cardinality(U)
  <2> HIDE DEF Bad
  <2>1. QED BY <1>1, SmallestSet
<1>3. IsFiniteSet(T) /\ T \in SUBSET D
  BY <1>1, <1>2
<1> HIDE DEF f
<1>4. T # {}
  <2>1. SumFunctionOnSet(f, {}) = 0
    BY <1>0, FS_EmptySet, SumBySteps
  <2>2. QED BY <1>2, <2>1
<1> DEFINE x == Picked(T)
<1>5. x \in T /\ SumFunctionOnSet(f, T) = f[x] + SumFunctionOnSet(f, T \ {x}) /\ f[x] = 0
  <2>1. x \in T
    BY <1>4 DEF Picked
  <2>2. QED BY <1>0, <1>3, <1>4, <2>1, SumBySteps DEF f
<1> HIDE DEF x
<1>6. T \ {x} \in SUBSET S /\ Cardinality(T \ {x}) = Cardinality(T) - 1 /\ Cardinality(T) \in Nat
  BY <1>2, <1>5, SetShrinks
<1>7. SumFunctionOnSet(f, T \ {x}) = 0
  <2>1. T \ {x} \in Bad => Cardinality(T) <= Cardinality(T \ {x})
    <3> HIDE DEF Bad
    <3>1. QED BY <1>2
  <2>2. T \ {x} \notin Bad
    BY <1>6, <2>1
  <2>3. QED BY <1>6, <2>2
<1>8. SumFunctionOnSet(f, T) = 0
  BY <1>5, <1>7
<1>9. QED BY <1>2, <1>8

-----------------------------------------------------------------------------
(* The uploads

   UploadInv says what the books add up to: the directory without the slots in
   progress and the lengths promised to those fit the quota, and a stream has
   written no more than it was promised. *)

Progress == [at : {"idle", "invalid", "refused", "streaming", "renamed", "returned", "aborted"},
             length : Nat, received : Nat]
InProgress == {u \in Uploads : upload[u].at \in {"streaming", "renamed"}}
Promised == [u \in Uploads |-> upload[u].length]
Received == [u \in Uploads |-> upload[u].received]

\* A file is in place once it is renamed, unless the user deleted it.
FilesInPlace ==
    \A u \in Uploads :
        /\ upload[u].at \in {"idle", "invalid", "refused", "streaming"} => stored[u] = 0
        /\ upload[u].at = "renamed" => stored[u] = upload[u].length
        /\ upload[u].received <= upload[u].length
        /\ upload[u].at = "idle" => upload[u].received = 0

UploadInv ==
    /\ upload \in [Uploads -> Progress]
    /\ stored \in [Uploads -> Nat]
    /\ reserved \in Nat /\ freeSlots \in Nat
    /\ activeSlots = InProgress
    /\ freeSlots + Cardinality(activeSlots) = UploadSlots
    /\ FilesInPlace
    /\ reserved = SumFunctionOnSet(Promised, InProgress)
    /\ Usage(InProgress) + reserved <= UploadTotal

\* The sums of the books are numbers.
LEMMA BooksAreNumbers ==
  ASSUME upload \in [Uploads -> Progress], stored \in [Uploads -> Nat], NEW S \in SUBSET Uploads
  PROVE  /\ IsFiniteSet(S) /\ IsFiniteSet(Uploads \ S)
         /\ Promised \in [Uploads -> Nat] /\ Received \in [Uploads -> Nat]
         /\ SumFunctionOnSet(Promised, S) \in Nat /\ SumFunctionOnSet(Received, S) \in Nat
         /\ SumFunctionOnSet(stored, S) \in Nat /\ Usage(S) \in Nat
<1>1. IsFiniteSet(Uploads) /\ IsFiniteSet(S) /\ IsFiniteSet(Uploads \ S)
  BY UploadAssumption, FS_Subset
<1>2. \A u \in Uploads : upload[u].length \in Nat /\ upload[u].received \in Nat
  BY DEF Progress
<1>3. Promised \in [Uploads -> Nat] /\ Received \in [Uploads -> Nat]
  BY <1>2 DEF Promised, Received
<1>4. /\ SumFunctionOnSet(Promised, S) \in Nat /\ SumFunctionOnSet(Received, S) \in Nat
      /\ SumFunctionOnSet(stored, S) \in Nat /\ SumFunctionOnSet(stored, Uploads \ S) \in Nat
  BY <1>1, <1>3, SumBySteps
<1>5. QED BY <1>1, <1>3, <1>4 DEF Usage

\* What is in place is what the directory shows besides the slots in progress,
\* and what has been renamed of those.
LEMMA InPlace ==
  ASSUME UploadInv
  PROVE  /\ SumFunction(stored) \in Nat
         /\ SumFunction(stored) + SumFunctionOnSet(Promised, Streaming) = Usage(InProgress) + reserved
         /\ SumFunctionOnSet(Received, Streaming) <= SumFunctionOnSet(Promised, Streaming)
         /\ SumFunctionOnSet(Received, Streaming) \in Nat
         /\ SumFunctionOnSet(Promised, Streaming) \in Nat
<1> DEFINE Renamed == InProgress \ Streaming
<1>0. /\ upload \in [Uploads -> Progress] /\ stored \in [Uploads -> Nat] /\ FilesInPlace
      /\ reserved = SumFunctionOnSet(Promised, InProgress)
  BY DEF UploadInv
<1>1. /\ InProgress \in SUBSET Uploads /\ Streaming \in SUBSET InProgress /\ Streaming \in SUBSET Uploads
      /\ Renamed \in SUBSET Uploads /\ Renamed \in SUBSET InProgress
  BY DEF InProgress, Streaming
<1>2. /\ IsFiniteSet(Uploads) /\ IsFiniteSet(InProgress) /\ IsFiniteSet(Streaming) /\ IsFiniteSet(Renamed)
      /\ Promised \in [Uploads -> Nat] /\ Received \in [Uploads -> Nat]
  BY <1>0, <1>1, UploadAssumption, FS_Subset, BooksAreNumbers
<1>3. SumFunction(stored) = SumFunctionOnSet(stored, Uploads)
  BY <1>0 DEF SumFunction
<1>4. SumFunctionOnSet(stored, Uploads) = SumFunctionOnSet(stored, InProgress) + Usage(InProgress)
  BY <1>0, <1>1, <1>2, SumSplit DEF Usage
<1>5. SumFunctionOnSet(stored, InProgress)
        = SumFunctionOnSet(stored, Streaming) + SumFunctionOnSet(stored, Renamed)
  BY <1>0, <1>1, <1>2, SumSplit
<1>6. reserved = SumFunctionOnSet(Promised, Streaming) + SumFunctionOnSet(Promised, Renamed)
  BY <1>0, <1>1, <1>2, SumSplit
<1>7. SumFunctionOnSet(stored, Renamed) = SumFunctionOnSet(Promised, Renamed)
  <2>1. \A u \in Renamed : stored[u] = Promised[u]
    BY <1>0 DEF Streaming, InProgress, FilesInPlace, Promised
  <2>2. QED BY <1>0, <1>1, <1>2, <2>1, SumSame
<1>8. SumFunctionOnSet(stored, Streaming) = 0
  <2> DEFINE zero == [u \in Uploads |-> 0]
  <2>1. \A u \in Streaming : stored[u] = zero[u]
    BY <1>0, <1>1 DEF Streaming, FilesInPlace
  <2>2. zero \in [Uploads -> Nat]
    OBVIOUS
  <2> HIDE DEF zero
  <2>3. SumFunctionOnSet(stored, Streaming) = SumFunctionOnSet(zero, Streaming)
    BY <1>0, <1>1, <1>2, <2>1, <2>2, SumSame
  <2>4. SumFunctionOnSet(zero, Streaming) = 0
    BY <1>1, <1>2, ZeroSum DEF zero
  <2>5. QED BY <2>3, <2>4
<1>9. SumFunctionOnSet(Received, Streaming) <= SumFunctionOnSet(Promised, Streaming)
  <2>1. \A u \in Streaming : Received[u] <= Promised[u]
    BY <1>0 DEF Streaming, FilesInPlace, Promised, Received
  <2>2. QED BY <1>1, <1>2, <2>1, SumOrdered
<1>10. /\ SumFunctionOnSet(stored, Renamed) \in Nat /\ SumFunctionOnSet(Promised, Renamed) \in Nat
       /\ SumFunctionOnSet(Received, Streaming) \in Nat
       /\ SumFunctionOnSet(Promised, Streaming) \in Nat /\ Usage(InProgress) \in Nat
  BY <1>0, <1>1, BooksAreNumbers
<1>11. QED BY <1>3, <1>4, <1>5, <1>6, <1>7, <1>8, <1>9, <1>10

\* A step that starts and ends no upload, and puts no bytes where no upload is
\* in progress, leaves the books right.
LEMMA BooksUndisturbed ==
  ASSUME UploadInv, upload' \in [Uploads -> Progress], stored' \in [Uploads -> Nat],
         InProgress' = InProgress, \A u \in InProgress : upload'[u].length = upload[u].length,
         \A u \in Uploads \ InProgress : stored'[u] <= stored[u],
         UNCHANGED <<reserved, activeSlots, freeSlots>>, FilesInPlace'
  PROVE  UploadInv'
<1>0. /\ upload \in [Uploads -> Progress] /\ stored \in [Uploads -> Nat]
      /\ InProgress \in SUBSET Uploads
  BY DEF UploadInv, InProgress
<1>1. /\ IsFiniteSet(InProgress) /\ IsFiniteSet(Uploads \ InProgress)
      /\ Promised \in [Uploads -> Nat] /\ Usage(InProgress) \in Nat
  BY <1>0, BooksAreNumbers
<1>2. Promised' \in [Uploads -> Nat] /\ \A u \in InProgress : Promised'[u] = Promised[u]
  <2>1. \A u \in Uploads : upload'[u].length \in Nat
    BY DEF Progress
  <2>2. QED BY <1>0, <2>1 DEF Promised
<1>3. SumFunctionOnSet(Promised, InProgress)' = SumFunctionOnSet(Promised, InProgress)
  <2>1. SumFunctionOnSet(Promised', InProgress) = SumFunctionOnSet(Promised, InProgress)
    <3> DEFINE later == Promised'
    <3>1. later \in [Uploads -> Nat] /\ \A u \in InProgress : later[u] = Promised[u]
      BY <1>2
    <3> HIDE DEF later
    <3>2. SumFunctionOnSet(later, InProgress) = SumFunctionOnSet(Promised, InProgress)
      BY <1>0, <1>1, <3>1, SumSame
    <3>3. QED BY <3>2 DEF later
  <2>2. QED BY <2>1
<1>4. Usage(InProgress)' \in Nat /\ Usage(InProgress)' <= Usage(InProgress)
  <2> DEFINE later == stored'
  <2>1. later \in [Uploads -> Nat] /\ \A u \in Uploads \ InProgress : later[u] <= stored[u]
    OBVIOUS
  <2> HIDE DEF later
  <2>2. Uploads \ InProgress \in SUBSET (Uploads \cap Uploads)
    OBVIOUS
  <2>3. /\ SumFunctionOnSet(later, Uploads \ InProgress) \in Nat
        /\ SumFunctionOnSet(later, Uploads \ InProgress) <= SumFunctionOnSet(stored, Uploads \ InProgress)
    BY <1>0, <1>1, <2>1, <2>2, SumOrdered
  <2>4. Usage(InProgress)' = SumFunctionOnSet(later, Uploads \ InProgress)
    BY DEF Usage, later
  <2>5. QED BY <2>3, <2>4 DEF Usage
<1>5. Usage(InProgress)' + reserved' <= UploadTotal
  <2>1. Usage(InProgress) + reserved <= UploadTotal /\ reserved \in Nat /\ reserved' = reserved
    BY DEF UploadInv
  <2>2. UploadTotal \in Nat
    BY UploadAssumption
  <2>3. QED BY <1>1, <1>4, <2>1, <2>2
<1>6. QED BY <1>3, <1>5 DEF UploadInv

\* A reservation, refused or granted, keeps the books.
LEMMA ReserveKeeps ==
  ASSUME UploadInv, NEW u \in Uploads, upload[u].at = "idle", NEW length \in Nat,
         freeSlots > 0, Reserve(u, length), UNCHANGED stored
  PROVE  UploadInv'
<1>0. /\ upload \in [Uploads -> Progress] /\ stored \in [Uploads -> Nat] /\ FilesInPlace
      /\ InProgress \in SUBSET Uploads /\ activeSlots = InProgress /\ u \notin InProgress
      /\ reserved \in Nat /\ freeSlots \in Nat /\ freeSlots + Cardinality(activeSlots) = UploadSlots
  BY DEF UploadInv, InProgress
<1>1. upload[u] \in Progress /\ stored[u] = 0 /\ upload[u].received = 0
  BY <1>0 DEF FilesInPlace
<1>2. CASE committed' + reserved + length > UploadTotal
  <2>1. /\ upload' = [upload EXCEPT ![u].at = "refused", ![u].length = length]
        /\ UNCHANGED <<reserved, activeSlots, freeSlots>>
    BY <1>2 DEF Reserve, Refused
  <2>2. /\ upload' \in [Uploads -> Progress]
        /\ \A v \in Uploads : v # u => upload'[v] = upload[v]
        /\ upload'[u].at = "refused" /\ upload'[u].length = length /\ upload'[u].received = 0
    BY <1>0, <1>1, <2>1 DEF Progress
  <2>3. InProgress' = InProgress
    BY <1>0, <2>2 DEF InProgress
  <2>4. \A v \in InProgress : upload'[v].length = upload[v].length
    BY <1>0, <2>2
  <2>5. FilesInPlace'
    BY <1>0, <1>1, <2>2 DEF FilesInPlace
  <2>6. stored' \in [Uploads -> Nat] /\ \A v \in Uploads \ InProgress : stored'[v] <= stored[v]
    BY <1>0
  <2>7. QED BY <2>1, <2>2, <2>3, <2>4, <2>5, <2>6, BooksUndisturbed
<1>3. CASE ~(committed' + reserved + length > UploadTotal)
  <2>1. /\ upload' = [upload EXCEPT ![u].at = "streaming", ![u].length = length]
        /\ reserved' = reserved + length
        /\ activeSlots' = activeSlots \cup {u} /\ freeSlots' = freeSlots - 1
    BY <1>3 DEF Reserve
  <2>2. /\ upload' \in [Uploads -> Progress]
        /\ \A v \in Uploads : v # u => upload'[v] = upload[v]
        /\ upload'[u].at = "streaming" /\ upload'[u].length = length /\ upload'[u].received = 0
    BY <1>0, <1>1, <2>1 DEF Progress
  <2>3. InProgress' = InProgress \cup {u}
    BY <1>0, <2>2 DEF InProgress
  <2>4. FilesInPlace'
    BY <1>0, <1>1, <2>2 DEF FilesInPlace
  <2>5. SumFunctionOnSet(Promised, InProgress)' = reserved'
    <3> DEFINE later == Promised'
    <3>1. later \in [Uploads -> Nat] /\ later[u] = length
          /\ \A v \in InProgress : later[v] = Promised[v]
      <4>1. \A v \in Uploads : upload'[v].length \in Nat
        BY <2>2 DEF Progress
      <4>2. QED BY <1>0, <2>2, <4>1 DEF Promised
    <3> HIDE DEF later
    <3>2. IsFiniteSet(InProgress) /\ IsFiniteSet(InProgress \cup {u}) /\ Promised \in [Uploads -> Nat]
      <4>1. InProgress \cup {u} \in SUBSET Uploads
        BY <1>0
      <4>2. QED BY <1>0, <4>1, BooksAreNumbers
    <3>3. (InProgress \cup {u}) \ {u} = InProgress
      BY <1>0
    <3>4. SumFunctionOnSet(later, InProgress \cup {u}) = length + SumFunctionOnSet(later, InProgress)
      BY <1>0, <3>1, <3>2, <3>3, SumWithout
    <3>5. SumFunctionOnSet(later, InProgress) = SumFunctionOnSet(Promised, InProgress)
      BY <1>0, <3>1, <3>2, SumSame
    <3>6. SumFunctionOnSet(Promised, InProgress) = reserved
      BY DEF UploadInv
    <3>7. SumFunctionOnSet(Promised, InProgress)' = SumFunctionOnSet(later, InProgress \cup {u})
      BY <2>3 DEF later
    <3>8. QED BY <1>0, <2>1, <3>4, <3>5, <3>6, <3>7
  <2>6. Usage(InProgress)' = Usage(InProgress) /\ Usage(InProgress) \in Nat
    <3>1. /\ IsFiniteSet(Uploads \ InProgress) /\ Uploads \ InProgress \in SUBSET Uploads
          /\ u \in Uploads \ InProgress
          /\ Uploads \ (InProgress \cup {u}) = (Uploads \ InProgress) \ {u}
          /\ (Uploads \ InProgress) \ {u} \in SUBSET Uploads /\ IsFiniteSet((Uploads \ InProgress) \ {u})
      <4>1. IsFiniteSet(Uploads \ InProgress)
        BY <1>0, BooksAreNumbers
      <4>2. IsFiniteSet((Uploads \ InProgress) \ {u})
        BY <4>1, FS_Subset
      <4>3. QED BY <1>0, <4>1, <4>2
    <3>2. SumFunctionOnSet(stored, Uploads \ InProgress)
            = stored[u] + SumFunctionOnSet(stored, (Uploads \ InProgress) \ {u})
      BY <1>0, <3>1, SumWithout
    <3>3. SumFunctionOnSet(stored, (Uploads \ InProgress) \ {u}) \in Nat
      BY <1>0, <3>1, SumBySteps
    <3>4. Usage(InProgress)' = SumFunctionOnSet(stored, (Uploads \ InProgress) \ {u})
      BY <2>3, <3>1 DEF Usage
    <3>5. Usage(InProgress) = SumFunctionOnSet(stored, Uploads \ InProgress)
      BY DEF Usage
    <3>6. QED BY <1>1, <3>2, <3>3, <3>4, <3>5
  <2>7. Usage(InProgress)' + reserved' <= UploadTotal
    <3>1. committed' = Usage(InProgress) /\ UploadTotal \in Nat
      BY <1>0, UploadAssumption DEF Reserve
    <3>2. QED BY <1>0, <1>3, <2>1, <2>6, <3>1
  <2>8. freeSlots' \in Nat /\ freeSlots' + Cardinality(activeSlots') = UploadSlots
    <3>1. IsFiniteSet(InProgress)
      BY <1>0, BooksAreNumbers
    <3>2. Cardinality(InProgress) \in Nat /\ Cardinality(InProgress \cup {u}) = Cardinality(InProgress) + 1
      BY <1>0, <3>1, FS_CardinalityType, FS_AddElement
    <3>3. QED BY <1>0, <2>1, <3>2
  <2>9. stored' \in [Uploads -> Nat] /\ reserved' \in Nat /\ activeSlots' = InProgress'
    BY <1>0, <2>1, <2>3
  <2>10. QED BY <2>2, <2>4, <2>5, <2>7, <2>8, <2>9 DEF UploadInv
<1>4. QED BY <1>2, <1>3

\* The end of an upload moves its bytes from the reservation to the directory,
\* or gives them back.
LEMMA EndKeeps ==
  ASSUME UploadInv, NEW u \in InProgress, NEW isCommitted \in BOOLEAN, EndUpload(u, isCommitted),
         NEW place \in {"returned", "aborted"}, Goes(u, place), UNCHANGED stored
  PROVE  UploadInv'
<1>0. /\ upload \in [Uploads -> Progress] /\ stored \in [Uploads -> Nat] /\ FilesInPlace
      /\ InProgress \in SUBSET Uploads /\ activeSlots = InProgress /\ u \in Uploads
      /\ reserved \in Nat /\ freeSlots \in Nat /\ freeSlots + Cardinality(activeSlots) = UploadSlots
  BY DEF UploadInv, InProgress
<1>1. /\ upload[u] \in Progress /\ stored[u] \in Nat /\ upload[u].length \in Nat
      /\ stored[u] <= upload[u].length
  BY <1>0 DEF FilesInPlace, InProgress, Progress
<1>2. /\ upload' \in [Uploads -> Progress]
      /\ \A v \in Uploads : v # u => upload'[v] = upload[v]
      /\ upload'[u].at = place /\ upload'[u].length = upload[u].length
      /\ upload'[u].received = upload[u].received
  BY <1>0, <1>1 DEF Goes, Progress
<1>3. InProgress' = InProgress \ {u}
  BY <1>0, <1>2 DEF InProgress
<1>4. FilesInPlace'
  BY <1>0, <1>2 DEF FilesInPlace
<1>5. Promised' = Promised
  BY <1>0, <1>2 DEF Promised
<1>6. /\ reserved' = reserved - upload[u].length
      /\ activeSlots' = activeSlots \ {u} /\ freeSlots' = freeSlots + 1
  BY DEF EndUpload
<1>7. /\ IsFiniteSet(InProgress) /\ Promised \in [Uploads -> Nat]
      /\ SumFunctionOnSet(Promised, InProgress \ {u}) \in Nat /\ Usage(InProgress) \in Nat
  <2>1. InProgress \ {u} \in SUBSET Uploads
    BY <1>0
  <2>2. QED BY <1>0, <2>1, BooksAreNumbers
<1>8. reserved' = SumFunctionOnSet(Promised, InProgress)' /\ reserved' \in Nat
  <2>1. SumFunctionOnSet(Promised, InProgress) = Promised[u] + SumFunctionOnSet(Promised, InProgress \ {u})
    BY <1>0, <1>7, SumWithout
  <2>2. Promised[u] = upload[u].length
    BY <1>0 DEF Promised
  <2>3. reserved = SumFunctionOnSet(Promised, InProgress)
    BY DEF UploadInv
  <2>4. SumFunctionOnSet(Promised, InProgress)' = SumFunctionOnSet(Promised, InProgress \ {u})
    BY <1>3, <1>5
  <2>5. QED BY <1>1, <1>6, <1>7, <2>1, <2>2, <2>3, <2>4
<1>9. Usage(InProgress)' = stored[u] + Usage(InProgress)
  <2>1. /\ IsFiniteSet(Uploads \ (InProgress \ {u})) /\ Uploads \ (InProgress \ {u}) \in SUBSET Uploads
        /\ u \in Uploads \ (InProgress \ {u})
        /\ (Uploads \ (InProgress \ {u})) \ {u} = Uploads \ InProgress
    BY <1>0, UploadAssumption, FS_Subset
  <2>2. SumFunctionOnSet(stored, Uploads \ (InProgress \ {u}))
          = stored[u] + SumFunctionOnSet(stored, Uploads \ InProgress)
    BY <1>0, <2>1, SumWithout
  <2>3. Usage(InProgress)' = SumFunctionOnSet(stored, Uploads \ (InProgress \ {u}))
    BY <1>3 DEF Usage
  <2>4. QED BY <2>2, <2>3 DEF Usage
<1>10. Usage(InProgress)' + reserved' <= UploadTotal
  <2>1. Usage(InProgress) + reserved <= UploadTotal /\ UploadTotal \in Nat
    BY UploadAssumption DEF UploadInv
  <2>2. QED BY <1>0, <1>1, <1>6, <1>7, <1>9, <2>1
<1>11. freeSlots' \in Nat /\ freeSlots' + Cardinality(activeSlots') = UploadSlots
  <2>1. Cardinality(InProgress) \in Nat /\ Cardinality(InProgress \ {u}) = Cardinality(InProgress) - 1
    BY <1>7, FS_CardinalityType, FS_RemoveElement
  <2>2. QED BY <1>0, <1>6, <2>1
<1>12. stored' \in [Uploads -> Nat] /\ activeSlots' = InProgress'
  BY <1>0, <1>3, <1>6
<1>13. QED BY <1>2, <1>4, <1>8, <1>10, <1>11, <1>12 DEF UploadInv

\* Every step keeps the books.
LEMMA UploadStep ==
  ASSUME UploadInv, [UploadNext]_uploadVars
  PROVE  UploadInv'
<1>0. /\ upload \in [Uploads -> Progress] /\ stored \in [Uploads -> Nat] /\ FilesInPlace
      /\ InProgress \in SUBSET Uploads /\ activeSlots = InProgress /\ Lengths \subseteq Nat
  BY UploadAssumption DEF UploadInv, InProgress
<1>1. ASSUME NEW u \in Uploads, BeginUpload(u) PROVE UploadInv'
  <2>1. PICK length \in Lengths :
           IF freeSlots > 0 /\ length \in 1..UploadMax THEN Reserve(u, length)
           ELSE Goes(u, "invalid") /\ UNCHANGED <<reserved, committed, activeSlots, freeSlots>>
    BY <1>1 DEF BeginUpload
  <2>2. upload[u].at = "idle" /\ stored' = stored /\ length \in Nat /\ upload[u] \in Progress
    BY <1>0, <1>1 DEF BeginUpload
  <2>3. CASE freeSlots > 0 /\ length \in 1..UploadMax
    BY <2>1, <2>2, <2>3, ReserveKeeps
  <2>4. CASE ~(freeSlots > 0 /\ length \in 1..UploadMax)
    <3>1. Goes(u, "invalid") /\ UNCHANGED <<reserved, committed, activeSlots, freeSlots>>
      BY <2>1, <2>4
    <3>2. /\ upload' \in [Uploads -> Progress]
          /\ \A v \in Uploads : v # u => upload'[v] = upload[v]
          /\ upload'[u].at = "invalid" /\ upload'[u].length = upload[u].length
          /\ upload'[u].received = upload[u].received
      BY <1>0, <2>2, <3>1 DEF Goes, Progress
    <3>3. InProgress' = InProgress /\ FilesInPlace'
      BY <1>0, <2>2, <3>2 DEF InProgress, FilesInPlace
    <3>4. \A v \in InProgress : upload'[v].length = upload[v].length
      BY <1>0, <3>2
    <3>5. stored' \in [Uploads -> Nat] /\ \A v \in Uploads \ InProgress : stored'[v] <= stored[v]
      BY <1>0, <2>2
    <3>6. QED BY <3>1, <3>2, <3>3, <3>4, <3>5, BooksUndisturbed
  <2>5. QED BY <2>3, <2>4
<1>2. ASSUME NEW u \in Uploads, ReceiveChunk(u) PROVE UploadInv'
  <2>1. /\ upload[u].at = "streaming" /\ upload[u].received < upload[u].length
        /\ upload' = [upload EXCEPT ![u].received = @ + 1]
        /\ UNCHANGED <<stored, reserved, activeSlots, freeSlots>> /\ upload[u] \in Progress
    BY <1>0, <1>2 DEF ReceiveChunk
  <2>2. upload[u].received \in Nat /\ upload[u].length \in Nat
    BY <2>1 DEF Progress
  <2> DEFINE received == upload[u].received + 1
  <2>3. received \in Nat /\ received <= upload[u].length /\ upload' = [upload EXCEPT ![u].received = received]
    BY <2>1, <2>2
  <2> HIDE DEF received
  <2>4. /\ upload' \in [Uploads -> Progress]
        /\ \A v \in Uploads : v # u => upload'[v] = upload[v]
        /\ upload'[u].at = upload[u].at /\ upload'[u].length = upload[u].length
        /\ upload'[u].received = received
    BY <1>0, <2>1, <2>3 DEF Progress
  <2>5. InProgress' = InProgress /\ \A v \in InProgress : upload'[v].length = upload[v].length
    BY <1>0, <2>4 DEF InProgress
  <2>6. FilesInPlace'
    BY <1>0, <2>1, <2>3, <2>4 DEF FilesInPlace
  <2>7. stored' \in [Uploads -> Nat] /\ \A v \in Uploads \ InProgress : stored'[v] <= stored[v]
    BY <1>0, <2>1
  <2>8. QED BY <2>1, <2>4, <2>5, <2>6, <2>7, BooksUndisturbed
<1>3. ASSUME NEW u \in Uploads, RenameUpload(u) PROVE UploadInv'
  <2>1. /\ upload[u].at = "streaming" /\ upload' = [upload EXCEPT ![u].at = "renamed"]
        /\ stored' = [stored EXCEPT ![u] = upload[u].length]
        /\ UNCHANGED <<reserved, activeSlots, freeSlots>> /\ upload[u] \in Progress
    BY <1>0, <1>3 DEF RenameUpload, Goes
  <2>2. /\ upload' \in [Uploads -> Progress]
        /\ \A v \in Uploads : v # u => upload'[v] = upload[v]
        /\ upload'[u].at = "renamed" /\ upload'[u].length = upload[u].length
        /\ upload'[u].received = upload[u].received
    BY <1>0, <2>1 DEF Progress
  <2>3. /\ stored' \in [Uploads -> Nat] /\ stored'[u] = upload[u].length
        /\ \A v \in Uploads : v # u => stored'[v] = stored[v]
    <3>1. upload[u].length \in Nat
      BY <2>1 DEF Progress
    <3>2. QED BY <1>0, <2>1, <3>1
  <2>4. InProgress' = InProgress /\ u \in InProgress
    BY <1>0, <2>1, <2>2 DEF InProgress
  <2>5. \A v \in InProgress : upload'[v].length = upload[v].length
    BY <1>0, <2>2
  <2>6. FilesInPlace'
    BY <1>0, <2>1, <2>2, <2>3 DEF FilesInPlace
  <2>7. \A v \in Uploads \ InProgress : stored'[v] <= stored[v]
    BY <1>0, <2>3, <2>4
  <2>8. QED BY <2>1, <2>2, <2>3, <2>4, <2>5, <2>6, <2>7, BooksUndisturbed
<1>4. ASSUME NEW u \in Uploads, ReturnUpload(u) PROVE UploadInv'
  <2>1. u \in InProgress /\ Goes(u, "returned") /\ EndUpload(u, TRUE) /\ UNCHANGED stored
    BY <1>4 DEF ReturnUpload, InProgress
  <2>2. QED BY <2>1, EndKeeps
<1>5. ASSUME NEW u \in Uploads, AbortUpload(u) PROVE UploadInv'
  <2>1. u \in InProgress /\ Goes(u, "aborted") /\ EndUpload(u, FALSE) /\ UNCHANGED stored
    BY <1>5 DEF AbortUpload, InProgress
  <2>2. QED BY <2>1, EndKeeps
<1>6. ASSUME NEW u \in Uploads, RemoveUpload(u) PROVE UploadInv'
  <2>1. /\ u \notin InProgress /\ stored' = [stored EXCEPT ![u] = 0]
        /\ UNCHANGED <<upload, reserved, activeSlots, freeSlots>>
    BY <1>0, <1>6 DEF RemoveUpload
  <2>2. /\ stored' \in [Uploads -> Nat] /\ stored'[u] = 0
        /\ \A v \in Uploads : v # u => stored'[v] = stored[v]
    BY <1>0, <2>1
  <2>3. upload' \in [Uploads -> Progress] /\ InProgress' = InProgress
        /\ \A v \in InProgress : upload'[v].length = upload[v].length
    BY <1>0, <2>1 DEF InProgress
  <2>4. \A v \in Uploads \ InProgress : stored'[v] <= stored[v]
    <3>1. \A v \in Uploads : stored[v] \in Nat
      BY <1>0
    <3>2. QED BY <2>2, <3>1
  <2>5. FilesInPlace'
    <3>1. upload[u].at # "renamed"
      BY <2>1 DEF InProgress
    <3>2. QED BY <1>0, <2>1, <2>2, <3>1 DEF FilesInPlace
  <2>6. QED BY <2>1, <2>2, <2>3, <2>4, <2>5, BooksUndisturbed
<1>7. CASE UNCHANGED uploadVars
  BY <1>7 DEF uploadVars, UploadInv, FilesInPlace, InProgress, Promised, Usage
<1>8. QED BY <1>1, <1>2, <1>3, <1>4, <1>5, <1>6, <1>7 DEF UploadNext

\* The books are right to begin with.
LEMMA UploadsStart ==
  ASSUME UploadInit PROVE UploadInv
<1>1. upload \in [Uploads -> Progress] /\ stored \in [Uploads -> Nat] /\ InProgress = {} /\ FilesInPlace
  BY DEF UploadInit, Progress, InProgress, FilesInPlace
<1>2. Cardinality({}) = 0 /\ UploadSlots \in Nat /\ UploadTotal \in Nat
  BY FS_EmptySet, UploadAssumption
<1>3. SumFunctionOnSet(Promised, {}) = 0
  <2>1. Promised \in [Uploads -> Nat]
    BY <1>1 DEF Promised, Progress
  <2>2. QED BY <2>1, FS_EmptySet, SumBySteps
<1>4. Usage({}) = 0
  <2>1. Usage({}) = SumFunctionOnSet([u \in Uploads |-> 0], Uploads)
    BY DEF UploadInit, Usage
  <2>2. QED BY <2>1, UploadAssumption, ZeroSum
<1>5. QED BY <1>1, <1>2, <1>3, <1>4 DEF UploadInit, UploadInv

\* The inductive invariant of the upload store: what is on disk besides the
\* uploads in progress and what those were promised fit the quota together.
THEOREM UploadInvariant == UploadSpec => []UploadInv
<1>1. UploadInit => UploadInv
  BY UploadsStart
<1>2. UploadInv /\ [UploadNext]_uploadVars => UploadInv'
  BY UploadStep
<1>3. QED BY <1>1, <1>2, PTL DEF UploadSpec

\* However uploads overlap, are cancelled and deleted behind the store: the
\* directory keeps its quota, and nobody is refused space that is free.
THEOREM UploadsAlwaysAccounted == UploadSpec => UploadsAccounted
<1>1. UploadInv => QuotaHolds
  <2>1. SUFFICES ASSUME UploadInv PROVE QuotaHolds
    OBVIOUS
  <2>2. /\ reserved \in Nat /\ UploadTotal \in Nat /\ Usage(InProgress) + reserved <= UploadTotal
    BY <2>1, UploadAssumption DEF UploadInv
  <2>3. SumFunctionOnSet([u \in Uploads |-> upload[u].received], Streaming) = SumFunctionOnSet(Received, Streaming)
    BY DEF Received
  <2>4. Usage(InProgress) \in Nat
    BY <2>1, BooksAreNumbers DEF UploadInv, InProgress
  <2>5. QED BY <2>1, <2>2, <2>3, <2>4, InPlace DEF QuotaHolds
<1>2. ASSUME UploadInv, UploadNext, NEW u \in Uploads, upload[u].at = "idle", upload'[u].at = "refused"
      PROVE  SumFunction(stored) + SumFunctionOnSet([v \in Uploads |-> upload[v].length], Streaming)
               + upload'[u].length > UploadTotal
  <2>1. upload \in [Uploads -> Progress]
    BY <1>2 DEF UploadInv
  <2>2. PICK v \in Uploads : \/ BeginUpload(v) \/ ReceiveChunk(v) \/ RenameUpload(v) \/ ReturnUpload(v)
                             \/ AbortUpload(v) \/ RemoveUpload(v)
    BY <1>2 DEF UploadNext
  <2>3. BeginUpload(v) /\ v = u
    BY <1>2, <2>1, <2>2 DEF BeginUpload, ReceiveChunk, RenameUpload, ReturnUpload, AbortUpload,
                            RemoveUpload, Goes, Refused, Reserve, Progress
  <2>4. PICK length \in Lengths :
           IF freeSlots > 0 /\ length \in 1..UploadMax THEN Reserve(u, length)
           ELSE Goes(u, "invalid") /\ UNCHANGED <<reserved, committed, activeSlots, freeSlots>>
    BY <2>3 DEF BeginUpload
  <2>5. upload[u] \in Progress
    BY <2>1
  <2>6. Reserve(u, length)
    <3>1. Goes(u, "invalid") => upload'[u].at = "invalid"
      BY <2>1, <2>5 DEF Goes, Progress
    <3>2. QED BY <1>2, <2>4, <3>1
  <2>7. Refused(u, length) /\ committed' + reserved + length > UploadTotal
    <3>1. upload' = [upload EXCEPT ![u].at = "streaming", ![u].length = length] => upload'[u].at = "streaming"
      BY <2>1, <2>5 DEF Progress
    <3>2. QED BY <1>2, <2>6, <3>1 DEF Reserve
  <2>8. upload'[u].length = length
    BY <2>1, <2>5, <2>7 DEF Refused, Progress
  <2>9. committed' = Usage(InProgress)
    BY <1>2, <2>6 DEF Reserve, UploadInv
  <2>10. SumFunctionOnSet([w \in Uploads |-> upload[w].length], Streaming) = SumFunctionOnSet(Promised, Streaming)
    BY DEF Promised
  <2>11. length \in Nat /\ reserved \in Nat /\ Usage(InProgress) \in Nat /\ UploadTotal \in Nat
    BY <1>2, UploadAssumption, BooksAreNumbers DEF UploadInv, InProgress
  <2>12. /\ SumFunction(stored) \in Nat /\ SumFunctionOnSet(Promised, Streaming) \in Nat
         /\ SumFunction(stored) + SumFunctionOnSet(Promised, Streaming) = Usage(InProgress) + reserved
    BY <1>2, InPlace
  <2>13. QED BY <2>7, <2>8, <2>9, <2>10, <2>11, <2>12
<1>3. UploadInv /\ [UploadNext]_uploadVars =>
        [\A u \in Uploads : upload[u].at = "idle" /\ upload'[u].at = "refused" =>
           SumFunction(stored) + SumFunctionOnSet([v \in Uploads |-> upload[v].length], Streaming)
             + upload'[u].length > UploadTotal]_uploadVars
  BY <1>2
<1>4. QED BY <1>1, <1>3, UploadInvariant, PTL DEF UploadSpec, UploadsAccounted, RefusedOnlyIfFull

-----------------------------------------------------------------------------
(* The disk writer

   The newest snapshot of a path is queued, in the writer's hands, or in its file,
   and what is older stands only behind it; nothing else of the path is queued. *)

Jobs == [path : Paths, entry : UNION {Snapshots(n) : n \in 1..MaxSubmissions}]
JobsOf(q, p) == {job \in ToSet(q) : job.path = p}
PathsOnce(q) == \A i \in DOMAIN q, j \in DOMAIN q : q[i].path = q[j].path => i = j

HasNewest(q, p) == \E job \in JobsOf(q, p) : job.entry.version = newest[p]
NothingOlder(q, p) == \A job \in JobsOf(q, p) : job.entry.version = newest[p]

DiskTypes ==
    /\ pending \in Seq(Jobs) /\ writing \in Seq(Jobs) /\ files \in Seq(Jobs)
    /\ Len(writing) <= 1
    /\ PathsOnce(pending) /\ PathsOnce(files)
    /\ newest \in [Paths -> Nat] /\ mishap \subseteq Paths /\ submissions \in Nat

\* A version is submitted once, for one path.
VersionsTold ==
    /\ \A p \in Paths : newest[p] <= submissions
    /\ \A job \in ToSet(pending) : job.entry.version <= submissions
    /\ \A job \in ToSet(pending), p \in Paths : job.entry.version = newest[p] => job.path = p

\* Where the newest snapshot of a path is.
OnItsWay(p) ==
    /\ NothingOlder(pending, p)
    /\ \/ HasNewest(pending, p)
       \/ NothingOlder(writing, p) /\ (HasNewest(writing, p) \/ NothingOlder(files, p))

DiskInv ==
    /\ DiskTypes /\ QueueBounded /\ VersionsTold
    /\ \A p \in Paths \ mishap : OnItsWay(p)

\* A run of items in their order holds what was there, each path once.
LEMMA RunFacts ==
  ASSUME NEW q \in Seq(Jobs), NEW r \in Seq(Jobs), NEW k \in Nat,
         \A j \in 1..Len(r) : k + j \in 1..Len(q) /\ r[j] = q[k + j]
  PROVE  ToSet(r) \subseteq ToSet(q) /\ (PathsOnce(q) => PathsOnce(r))
<1>1. DOMAIN q = 1..Len(q) /\ DOMAIN r = 1..Len(r) /\ Len(q) \in Nat /\ Len(r) \in Nat
  BY LenProperties
<1>2. ToSet(r) \subseteq ToSet(q)
  BY <1>1 DEF ToSet
<1>3. ASSUME PathsOnce(q), NEW i \in 1..Len(r), NEW j \in 1..Len(r), r[i].path = r[j].path PROVE i = j
  <2>1. k + i \in DOMAIN q /\ k + j \in DOMAIN q /\ q[k + i].path = q[k + j].path
    BY <1>1, <1>3
  <2>2. k + i = k + j
    BY <1>3, <2>1 DEF PathsOnce
  <2>3. QED BY <2>2
<1>4. QED BY <1>1, <1>2, <1>3 DEF PathsOnce

\* The queue without a path: the others, each once.
LEMMA OthersFacts ==
  ASSUME NEW q \in Seq(Jobs), PathsOnce(q), NEW p \in Paths
  PROVE  /\ OtherPaths(q, p) \in Seq(Jobs) /\ PathsOnce(OtherPaths(q, p))
         /\ ToSet(OtherPaths(q, p)) = ToSet(q) \ JobsOf(q, p)
<1>0. DOMAIN q = 1..Len(q) /\ Len(q) \in Nat /\ ToSet(q) = {q[i] : i \in 1..Len(q)}
  BY LenProperties DEF ToSet
<1> DEFINE I == {i \in 1..Len(q) : q[i].path = p}
           r == OtherPaths(q, p)
<1>1. CASE I = {}
  <2>1. r = q
    BY <1>1 DEF OtherPaths, RemoveFirstMatch
  <2>2. JobsOf(q, p) = {}
    BY <1>0, <1>1 DEF JobsOf
  <2>3. QED BY <2>1, <2>2
<1>2. CASE I # {}
  <2>1. PICK k \in I : TRUE
    BY <1>2
  <2>2. \A i \in I : i = k
    BY <1>0, <2>1 DEF PathsOnce
  <2>3. Min(I) = k
    <3> HIDE DEF I
    <3>1. I \in SUBSET (1..Len(q))
      BY DEF I
    <3>2. QED BY <1>0, <2>1, <2>2, <3>1, OnlyPosition
  <2>4. SelectInSeq(q, LAMBDA job : job.path = p) = k
    BY <1>2, <2>3 DEF SelectInSeq
  <2>5. r = RemoveAt(q, k)
    BY <1>2, <2>4 DEF OtherPaths, RemoveFirstMatch
  <2>6. /\ r \in Seq(Jobs) /\ Len(r) = Len(q) - 1
        /\ \A j \in 1..Len(q) - 1 : r[j] = IF j < k THEN q[j] ELSE q[j + 1]
    BY <2>1, <2>5, RemoveAtFacts
  <2> HIDE DEF r
  <2>7. DOMAIN r = 1..Len(q) - 1 /\ k \in 1..Len(q)
    BY <2>1, <2>6, LenProperties
  <2>8. ASSUME NEW j \in 1..Len(q) - 1
        PROVE  \E i \in 1..Len(q) : i # k /\ r[j] = q[i] /\ i = IF j < k THEN j ELSE j + 1
    <3>1. CASE j < k
      <4>1. j \in 1..Len(q) /\ j # k
        BY <1>0, <2>7, <3>1
      <4>2. QED BY <2>6, <3>1, <4>1
    <3>2. CASE ~(j < k)
      <4>1. j + 1 \in 1..Len(q) /\ j + 1 # k
        BY <1>0, <2>7, <3>2
      <4>2. QED BY <2>6, <3>2, <4>1
    <3>3. QED BY <3>1, <3>2
  <2>9. ASSUME NEW i \in 1..Len(q), i # k
        PROVE  \E j \in 1..Len(q) - 1 : r[j] = q[i]
    <3>1. CASE i < k
      <4>1. i \in 1..Len(q) - 1
        BY <1>0, <2>7, <3>1
      <4>2. QED BY <2>6, <3>1, <4>1
    <3>2. CASE i > k
      <4>1. i - 1 \in 1..Len(q) - 1 /\ ~(i - 1 < k) /\ (i - 1) + 1 = i
        BY <1>0, <2>7, <3>2
      <4>2. QED BY <2>6, <4>1
    <3>3. QED BY <1>0, <2>7, <2>9, <3>1, <3>2
  <2>10. PathsOnce(r)
    <3>1. SUFFICES ASSUME NEW i \in 1..Len(q) - 1, NEW j \in 1..Len(q) - 1, r[i].path = r[j].path
                   PROVE  i = j
      BY <2>7 DEF PathsOnce
    <3>2. PICK m \in 1..Len(q) : m # k /\ r[i] = q[m] /\ m = IF i < k THEN i ELSE i + 1
      BY <2>8
    <3>3. PICK n \in 1..Len(q) : n # k /\ r[j] = q[n] /\ n = IF j < k THEN j ELSE j + 1
      BY <2>8
    <3>4. m = n
      BY <1>0, <3>1, <3>2, <3>3 DEF PathsOnce
    <3>5. QED BY <1>0, <2>7, <3>2, <3>3, <3>4
  <2>11. ToSet(r) = ToSet(q) \ JobsOf(q, p)
    <3>1. ToSet(r) = {r[j] : j \in 1..Len(q) - 1}
      BY <2>7 DEF ToSet
    <3>2. \A i \in 1..Len(q) : i = k <=> q[i].path = p
      BY <2>1, <2>2
    <3>3. ASSUME NEW x \in ToSet(r) PROVE x \in ToSet(q) \ JobsOf(q, p)
      <4>1. PICK j \in 1..Len(q) - 1 : x = r[j]
        BY <3>1
      <4>2. PICK i \in 1..Len(q) : i # k /\ r[j] = q[i]
        BY <2>8
      <4>3. QED BY <1>0, <3>2, <4>1, <4>2 DEF JobsOf
    <3>4. ASSUME NEW x \in ToSet(q) \ JobsOf(q, p) PROVE x \in ToSet(r)
      <4>1. PICK i \in 1..Len(q) : x = q[i]
        BY <1>0
      <4>2. i # k
        BY <1>0, <3>2, <3>4, <4>1 DEF JobsOf
      <4>3. QED BY <2>9, <3>1, <4>1, <4>2
    <3>5. QED BY <3>3, <3>4
  <2>12. QED BY <2>6, <2>10, <2>11 DEF r
<1>3. QED BY <1>1, <1>2

\* The submission goes to the end of the queue.
LEMMA AppendedFacts ==
  ASSUME NEW q \in Seq(Jobs), PathsOnce(q), NEW job \in Jobs, JobsOf(q, job.path) = {}
  PROVE  /\ Append(q, job) \in Seq(Jobs) /\ PathsOnce(Append(q, job))
         /\ ToSet(Append(q, job)) = ToSet(q) \cup {job}
         /\ Len(Append(q, job)) \in Nat \ {0} /\ Append(q, job)[Len(Append(q, job))] = job
<1> DEFINE r == Append(q, job)
<1>0. DOMAIN q = 1..Len(q) /\ Len(q) \in Nat /\ ToSet(q) = {q[i] : i \in 1..Len(q)}
  BY LenProperties DEF ToSet
<1>1. r \in Seq(Jobs) /\ Len(r) = Len(q) + 1 /\ r[Len(q) + 1] = job /\ \A i \in 1..Len(q) : r[i] = q[i]
  BY AppendProperties
<1> HIDE DEF r
<1>2. DOMAIN r = 1..Len(q) + 1
  BY <1>1, LenProperties
<1>3. \A i \in 1..Len(q) : q[i].path # job.path
  BY <1>0 DEF JobsOf
<1>4. PathsOnce(r)
  <2>1. SUFFICES ASSUME NEW i \in 1..Len(q) + 1, NEW j \in 1..Len(q) + 1, r[i].path = r[j].path
                 PROVE  i = j
    BY <1>2 DEF PathsOnce
  <2>2. QED BY <1>0, <1>1, <1>3, <2>1 DEF PathsOnce
<1>5. ToSet(r) = ToSet(q) \cup {job}
  <2>1. ToSet(r) = {r[i] : i \in 1..Len(q) + 1}
    BY <1>2 DEF ToSet
  <2>2. QED BY <1>0, <1>1, <2>1
<1>6. QED BY <1>0, <1>1, <1>4, <1>5 DEF r

\* The bytes of a queue are a number.
LEMMA BytesAreNumbers ==
  ASSUME NEW q \in Seq(Jobs)
  PROVE  /\ [i \in DOMAIN q |-> EntryBytes(q[i].entry)] \in [1..Len(q) -> Nat]
         /\ TotalBytes(q) = SumFunctionOnSet([i \in DOMAIN q |-> EntryBytes(q[i].entry)], 1..Len(q))
         /\ TotalBytes(q) \in Nat /\ IsFiniteSet(1..Len(q))
<1> DEFINE bytes == [i \in DOMAIN q |-> EntryBytes(q[i].entry)]
<1>1. DOMAIN q = 1..Len(q) /\ Len(q) \in Nat /\ \A i \in 1..Len(q) : q[i] \in Jobs
  BY LenProperties, ElementOfSeq
<1>2. \A job \in Jobs : EntryBytes(job.entry) \in Nat
  BY SnapshotsAssumption DEF Jobs
<1>3. bytes \in [1..Len(q) -> Nat]
  BY <1>1, <1>2
<1>4. IsFiniteSet(1..Len(q))
  BY <1>1, FS_Interval
<1>5. TotalBytes(q) = SumFunctionOnSet(bytes, 1..Len(q))
  BY <1>1 DEF TotalBytes, SumFunction
<1> HIDE DEF bytes
<1>6. SumFunctionOnSet(bytes, 1..Len(q)) \in Nat
  BY <1>3, <1>4, SumBySteps
<1>7. QED BY <1>3, <1>4, <1>5, <1>6 DEF bytes

\* What fits alone.
LEMMA AloneFits ==
  ASSUME NEW q \in Seq(Jobs), Len(q) = 1, EntryBytes(q[1].entry) <= MaxPendingBytes
  PROVE  PendingFits(q)
<1> DEFINE bytes == [i \in DOMAIN q |-> EntryBytes(q[i].entry)]
<1>1. /\ bytes \in [1..Len(q) -> Nat] /\ IsFiniteSet(1..Len(q))
      /\ TotalBytes(q) = SumFunctionOnSet(bytes, 1..Len(q))
  BY BytesAreNumbers
<1>2. 1..Len(q) = {1} /\ {1} \ {1} = {} /\ 1 \in DOMAIN q
  BY LenProperties
<1>3. bytes[1] = EntryBytes(q[1].entry)
  BY <1>2
<1> HIDE DEF bytes
<1>4. SumFunctionOnSet(bytes, {1}) = bytes[1] + SumFunctionOnSet(bytes, {})
  <2>1. bytes \in [{1} -> Nat] /\ IsFiniteSet({1})
    BY <1>1, <1>2
  <2>2. SumFunctionOnSet(bytes, {1}) = bytes[1] + SumFunctionOnSet(bytes, {1} \ {1})
    BY <2>1, SumWithout
  <2>3. QED BY <1>2, <2>2
<1>5. SumFunctionOnSet(bytes, {}) = 0
  BY <1>1, FS_EmptySet, SumBySteps
<1>6. MaxPending \in Nat \ {0} /\ MaxPendingBytes \in Nat /\ bytes[1] \in Nat
  BY <1>1, <1>2, DiskAssumption
<1>7. TotalBytes(q) = EntryBytes(q[1].entry)
  BY <1>1, <1>2, <1>3, <1>4, <1>5, <1>6
<1>8. QED BY <1>6, <1>7 DEF PendingFits


\* What NewestFitting keeps: a run up to the last submission, within the limits.
LEMMA FittingFacts ==
  ASSUME NEW q \in Seq(Jobs), PathsOnce(q), Len(q) # 0,
         EntryBytes(q[Len(q)].entry) <= MaxPendingBytes
  PROVE  LET r == NewestFitting(q) IN
         /\ r \in Seq(Jobs) /\ PathsOnce(r) /\ PendingFits(r)
         /\ ToSet(r) \subseteq ToSet(q) /\ q[Len(q)] \in ToSet(r)
<1> DEFINE n == Len(q)
           run(i) == SubSeq(q, i, n)
           fitting == {i \in 1..n + 1 : PendingFits(run(i))}
           first == CHOOSE i \in fitting : \A j \in fitting : i <= j
<1>1. n \in Nat \ {0} /\ \A i \in 1..n : q[i] \in Jobs
  BY LenProperties, ElementOfSeq
<1>2. ASSUME NEW i \in 1..n
      PROVE  /\ run(i) \in Seq(Jobs) /\ Len(run(i)) = n - i + 1
             /\ \A j \in 1..n - i + 1 : run(i)[j] = q[i + j - 1]
  <2>1. i \in Int /\ n \in Int /\ i <= n /\ \A j \in i..n : q[j] \in Jobs
    BY <1>1
  <2> HIDE DEF n
  <2>2. /\ SubSeq(q, i, n) \in Seq(Jobs)
        /\ Len(SubSeq(q, i, n)) = IF i <= n THEN n - i + 1 ELSE 0
        /\ \A j \in 1..n - i + 1 : SubSeq(q, i, n)[j] = q[i + j - 1]
    BY <2>1, SubSeqProperties
  <2>3. QED BY <2>1, <2>2
<1>3. n \in fitting
  <2>1. n \in 1..n /\ n - n + 1 = 1 /\ 1 \in 1..1 /\ n + 1 - 1 = n
    BY <1>1
  <2>2. run(n) \in Seq(Jobs) /\ Len(run(n)) = 1 /\ run(n)[1] = q[n]
    <3> HIDE DEF run, n
    <3>1. QED BY <1>2, <2>1
  <2>3. PendingFits(run(n))
    <3> HIDE DEF run
    <3>1. QED BY <2>2, AloneFits
  <2>4. QED BY <1>1, <2>3
<1>4. first \in fitting /\ first <= n /\ first \in 1..n
  <2>1. fitting \in SUBSET Nat /\ fitting # {}
    BY <1>1, <1>3
  <2> HIDE DEF fitting
  <2>2. Min(fitting) \in fitting /\ \A j \in fitting : Min(fitting) <= j
    BY <2>1, LeastIsMin
  <2>3. first \in fitting /\ \A j \in fitting : first <= j
    BY <2>2
  <2> HIDE DEF first
  <2>4. first <= n
    BY <1>3, <2>3
  <2>5. first \in 1..n + 1
    BY <2>3 DEF fitting
  <2>6. QED BY <1>1, <2>3, <2>4, <2>5
<1>5. NewestFitting(q) = run(first)
  BY DEF NewestFitting
<1>6. PendingFits(run(first))
  BY <1>4
<1> HIDE DEF first, fitting
<1> DEFINE r == run(first)
           k == first - 1
<1>7. /\ r \in Seq(Jobs) /\ Len(r) = n - k /\ k \in Nat /\ k < n
      /\ \A j \in 1..Len(r) : k + j \in 1..n /\ r[j] = q[k + j]
  <2>1. r \in Seq(Jobs) /\ Len(r) = n - first + 1 /\ \A j \in 1..n - first + 1 : r[j] = q[first + j - 1]
    BY <1>2, <1>4
  <2> HIDE DEF r, n
  <2>2. n - first + 1 = n - k /\ k \in Nat /\ k < n /\ \A j \in 1..n - k : k + j \in 1..n /\ first + j - 1 = k + j
    BY <1>1, <1>4
  <2> HIDE DEF k
  <2>3. QED BY <2>1, <2>2
<1> HIDE DEF r, k
<1>8. ToSet(r) \subseteq ToSet(q) /\ PathsOnce(r)
  BY <1>7, RunFacts
<1>9. q[n] \in ToSet(r)
  <2>1. Len(r) \in 1..Len(r) /\ k + Len(r) = n
    BY <1>1, <1>7
  <2>2. r[Len(r)] = q[n] /\ DOMAIN r = 1..Len(r)
    BY <1>7, <2>1, LenProperties
  <2>3. QED BY <2>1, <2>2 DEF ToSet
<1>10. QED BY <1>5, <1>6, <1>7, <1>8, <1>9 DEF r

\* A sum over an interval, its last summand apart.
LEMMA SumOfInterval ==
  ASSUME NEW n \in Nat, NEW f \in [1..n -> Nat], NEW k \in 1..n
  PROVE  SumFunctionOnSet(f, 1..k) = f[k] + SumFunctionOnSet(f, 1..k - 1)
<1> DEFINE D == 1..n
           T == 1..k
<1>1. k \in Nat /\ T \in SUBSET D /\ k \in T /\ T \ {k} = 1..k - 1
  OBVIOUS
<1>2. IsFiniteSet(T)
  BY <1>1, FS_Interval
<1>3. f \in [D -> Nat]
  OBVIOUS
<1> HIDE DEF D, T
<1>4. SumFunctionOnSet(f, T) = f[k] + SumFunctionOnSet(f, T \ {k})
  BY <1>1, <1>2, <1>3, SumWithout
<1>5. SumFunctionOnSet(f, T) = f[k] + SumFunctionOnSet(f, 1..k - 1)
  BY <1>1, <1>4, Zenon
<1>6. QED BY <1>5 DEF T

\* Without its first job a queue has no more bytes.
LEMMA TailBytes ==
  ASSUME NEW q \in Seq(Jobs), q # <<>>
  PROVE  TotalBytes(Tail(q)) <= TotalBytes(q)
<1> DEFINE n == Len(q)
           t == Tail(q)
           a == [i \in DOMAIN q |-> EntryBytes(q[i].entry)]
           b == [i \in DOMAIN t |-> EntryBytes(t[i].entry)]
           Shifted(k) == SumFunctionOnSet(a, 1..k + 1) = a[1] + SumFunctionOnSet(b, 1..k)
           Bad == {k \in 0..n - 1 : ~Shifted(k)}
<1>1. /\ t \in Seq(Jobs) /\ Len(t) = n - 1 /\ n \in Nat \ {0}
      /\ \A i \in 1..n - 1 : t[i] = q[i + 1]
  BY HeadTailProperties, LenProperties, EmptySeq
<1>2. DOMAIN q = 1..n /\ DOMAIN t = 1..n - 1
  BY <1>1, LenProperties
<1>3. /\ a \in [1..n -> Nat] /\ TotalBytes(q) = SumFunctionOnSet(a, 1..n)
      /\ b \in [1..n - 1 -> Nat] /\ TotalBytes(t) = SumFunctionOnSet(b, 1..n - 1)
  <2> HIDE DEF t
  <2>1. QED BY <1>1, BytesAreNumbers
<1>4. \A i \in 1..n - 1 : b[i] = a[i + 1]
  <2>1. SUFFICES ASSUME NEW i \in 1..n - 1 PROVE b[i] = a[i + 1]
    OBVIOUS
  <2>2. i + 1 \in 1..n /\ t[i] = q[i + 1]
    BY <1>1
  <2>3. QED BY <1>2, <2>2
<1> HIDE DEF a, b, t, n
<1>5. ASSUME NEW k \in Nat
      PROVE  /\ IsFiniteSet(1..k) /\ (1..k + 1) \ {k + 1} = 1..k /\ k + 1 \in 1..k + 1
  <2>1. IsFiniteSet(1..k)
    BY FS_Interval
  <2>2. QED BY <2>1
<1>6. ASSUME NEW k \in 0..n - 1
      PROVE  /\ SumFunctionOnSet(b, 1..k) \in Nat
             /\ SumFunctionOnSet(a, 1..k + 1) = a[k + 1] + SumFunctionOnSet(a, 1..k)
             /\ k # 0 => SumFunctionOnSet(b, 1..k) = b[k] + SumFunctionOnSet(b, 1..k - 1)
  <2>1. k \in Nat /\ k + 1 \in Nat /\ 1..k \in SUBSET (1..n - 1) /\ 1..k + 1 \in SUBSET (1..n)
    BY <1>1
  <2>2. IsFiniteSet(1..k) /\ IsFiniteSet(1..k + 1)
    BY <1>5, <2>1
  <2>3. SumFunctionOnSet(b, 1..k) \in Nat
    BY <1>3, <2>1, <2>2, SumBySteps
  <2>4. SumFunctionOnSet(a, 1..k + 1) = a[k + 1] + SumFunctionOnSet(a, 1..k)
    <3>1. k + 1 \in 1..n /\ (k + 1) - 1 = k
      BY <1>1, <2>1
    <3>2. SumFunctionOnSet(a, 1..k + 1) = a[k + 1] + SumFunctionOnSet(a, 1..(k + 1) - 1)
      BY <1>1, <1>3, <3>1, SumOfInterval
    <3>3. QED BY <3>1, <3>2, Zenon
  <2>5. ASSUME k # 0
        PROVE  SumFunctionOnSet(b, 1..k) = b[k] + SumFunctionOnSet(b, 1..k - 1)
    <3>1. n - 1 \in Nat /\ k \in 1..n - 1
      BY <1>1, <2>5
    <3>2. QED BY <1>3, <3>1, SumOfInterval
  <2>6. QED BY <2>3, <2>4, <2>5
<1>7. Bad = {}
  <2>1. SUFFICES ASSUME Bad # {} PROVE FALSE
    OBVIOUS
  <2>2. Bad \in SUBSET Nat
    BY <1>1
  <2>3. PICK k \in Bad : \A j \in Bad : k <= j
    <3>1. Min(Bad) \in Bad /\ \A j \in Bad : Min(Bad) <= j
      <4> HIDE DEF Bad
      <4>1. QED BY <2>1, <2>2, LeastIsMin
    <3>2. QED BY <3>1
  <2>4. k \in 0..n - 1 /\ ~Shifted(k)
    BY <2>3
  <2>5. CASE k = 0
    <3>1. 1..0 = {}
      OBVIOUS
    <3>2. SumFunctionOnSet(a, {}) = 0 /\ SumFunctionOnSet(b, {}) = 0
      BY <1>3, FS_EmptySet, SumBySteps
    <3>3. SumFunctionOnSet(a, 1..0 + 1) = a[0 + 1] + SumFunctionOnSet(a, 1..0)
      BY <1>6, <2>4, <2>5
    <3>4. Shifted(0)
      BY <3>1, <3>2, <3>3
    <3>5. QED BY <2>4, <2>5, <3>4
  <2>6. CASE k # 0
    <3>1. k - 1 \in 0..n - 1 /\ k - 1 \in Nat /\ k \in 1..n - 1 /\ (k - 1) + 1 = k
      BY <1>1, <2>4, <2>6
    <3>2. Shifted(k - 1)
      <4>1. k - 1 \in Bad => k <= k - 1
        BY <2>3
      <4>2. k - 1 \notin Bad
        BY <3>1, <4>1
      <4> HIDE DEF Shifted
      <4>3. QED BY <3>1, <4>2
    <3>3. SumFunctionOnSet(a, 1..k) = a[1] + SumFunctionOnSet(b, 1..k - 1)
      BY <3>1, <3>2
    <3>4. /\ SumFunctionOnSet(a, 1..k + 1) = a[k + 1] + SumFunctionOnSet(a, 1..k)
          /\ SumFunctionOnSet(b, 1..k) = b[k] + SumFunctionOnSet(b, 1..k - 1)
          /\ SumFunctionOnSet(b, 1..k - 1) \in Nat
      BY <1>6, <2>4, <2>6, <3>1
    <3>5. b[k] = a[k + 1] /\ a[k + 1] \in Nat /\ a[1] \in Nat
      <4>1. k + 1 \in 1..n /\ 1 \in 1..n
        BY <1>1, <3>1
      <4>2. QED BY <1>3, <1>4, <3>1, <4>1
    <3>6. Shifted(k)
      BY <3>3, <3>4, <3>5
    <3>7. QED BY <2>4, <3>6
  <2>7. QED BY <2>5, <2>6
<1>8. n - 1 \in 0..n - 1 /\ (n - 1) + 1 = n /\ 1 \in 1..n
  BY <1>1
<1>9. Shifted(n - 1)
  <2> HIDE DEF Shifted
  <2>1. QED BY <1>7, <1>8
<1>10. SumFunctionOnSet(a, 1..n) = a[1] + SumFunctionOnSet(b, 1..n - 1)
  BY <1>8, <1>9
<1>11. a[1] \in Nat /\ SumFunctionOnSet(b, 1..n - 1) \in Nat
  BY <1>3, <1>6, <1>8
<1>12. QED BY <1>3, <1>10, <1>11 DEF t


\* The versions of a queue are those of its jobs.
LEMMA VersionsAre ==
  ASSUME NEW q, NEW v
  PROVE  v \in Versions(q) <=> \E job \in ToSet(q) : job.entry.version = v
BY DEF Versions, ToSet

\* A job's version is a number.
LEMMA JobVersions ==
  ASSUME NEW job \in Jobs
  PROVE  job.path \in Paths /\ job.entry.version \in Nat
<1>1. job.path \in Paths /\ job.entry \in UNION {Snapshots(n) : n \in 1..MaxSubmissions}
  BY DEF Jobs
<1>2. PICK n \in 1..MaxSubmissions : job.entry \in Snapshots(n)
  BY <1>1
<1>3. job.entry.version = n
  BY <1>2 DEF Snapshots
<1>4. QED BY <1>1, <1>2, <1>3, SnapshotsAssumption

\* What a sequence of jobs holds are jobs.
LEMMA SequenceJobs ==
  ASSUME NEW q \in Seq(Jobs)
  PROVE  ToSet(q) \subseteq Jobs
BY LenProperties, ElementOfSeq DEF ToSet

\* What is queued are jobs.
LEMMA PendingJobs ==
  ASSUME DiskTypes
  PROVE  ToSet(pending) \subseteq Jobs
BY SequenceJobs DEF DiskTypes


\* A submission replaces what was queued for its path, and what the limits drop is told.
LEMMA SubmitKeeps ==
  ASSUME DiskInv, NEW p \in Paths, SubmitSnapshot(p)
  PROVE  DiskInv'
<1>0. DiskTypes /\ QueueBounded /\ VersionsTold /\ \A x \in Paths \ mishap : OnItsWay(x)
  BY DEF DiskInv
<1> DEFINE n == submissions + 1
<1>1. PICK e \in Snapshots(n) :
         /\ Submit(p, e)
         /\ newest' = [newest EXCEPT ![p] = e.version]
         /\ mishap' = (IF EntryBytes(e) > MaxPendingBytes THEN mishap \cup {p} ELSE mishap \ {p})
                        \cup Dropped(pending, pending')
  BY DEF SubmitSnapshot
<1>2. /\ submissions < MaxSubmissions /\ submissions' = n
      /\ writing' = writing /\ files' = files
  BY <1>1 DEF SubmitSnapshot, Submit
<1>3. /\ submissions \in Nat /\ n \in Nat /\ n \in 1..MaxSubmissions /\ e.version = n
      /\ EntryBytes(e) \in Nat /\ Job(p, e) \in Jobs /\ Job(p, e).path = p /\ Job(p, e).entry = e
  <2>1. submissions \in Nat /\ MaxSubmissions \in Nat
    BY <1>0, SnapshotsAssumption DEF DiskTypes
  <2>2. n \in 1..MaxSubmissions /\ n \in Nat
    BY <1>2, <2>1
  <2>3. EntryBytes(e) \in Nat
    BY <2>2, SnapshotsAssumption
  <2> HIDE DEF n
  <2>4. e.version = n
    BY DEF Snapshots
  <2>5. Job(p, e) \in Jobs
    BY <2>2 DEF Job, Jobs
  <2>6. QED BY <2>1, <2>2, <2>3, <2>4, <2>5 DEF Job
<1> HIDE DEF n
<1>4. /\ newest' \in [Paths -> Nat] /\ newest'[p] = n
      /\ \A x \in Paths : x # p => newest'[x] = newest[x]
  BY <1>0, <1>1, <1>3 DEF DiskTypes
<1>5. \A x \in Paths : newest[x] <= submissions /\ newest[x] \in Nat
  BY <1>0 DEF VersionsTold, DiskTypes
<1>6. \A x \in Paths : newest'[x] <= submissions'
  BY <1>2, <1>3, <1>4, <1>5 DEF n
<1>7. mishap' \subseteq Paths
  BY <1>0, <1>1 DEF DiskTypes, Dropped
<1>8. \A x \in Paths \ mishap' : newest'[x] \in Versions(pending) => newest'[x] \in Versions(pending')
  BY <1>1 DEF Dropped
<1>9. CASE EntryBytes(e) > MaxPendingBytes
  <2>1. pending' = pending /\ mishap \subseteq mishap' /\ p \in mishap'
    BY <1>1, <1>9 DEF Submit
  <2>2. DiskTypes'
    BY <1>0, <1>2, <1>3, <1>4, <1>7, <2>1 DEF DiskTypes
  <2>3. VersionsTold'
    <3>1. \A job \in ToSet(pending) : job.entry.version <= submissions' /\ job.entry.version # n
      <4>1. ASSUME NEW job \in ToSet(pending)
            PROVE  job.entry.version <= n /\ job.entry.version # n
        <5>1. job.entry.version <= submissions /\ job.entry.version \in Nat
          <6>1. job \in Jobs
            BY <1>0, PendingJobs
          <6>2. QED BY <1>0, <6>1, JobVersions DEF VersionsTold
        <5>2. QED BY <1>3, <5>1 DEF n
      <4>2. QED BY <1>2, <4>1
    <3>2. \A job \in ToSet(pending), x \in Paths : job.entry.version = newest'[x] => job.path = x
      BY <1>0, <1>4, <3>1 DEF VersionsTold
    <3>3. QED BY <1>6, <2>1, <3>1, <3>2 DEF VersionsTold
  <2>4. ASSUME NEW x \in Paths \ mishap' PROVE OnItsWay(x)'
    <3>1. x # p /\ x \in Paths \ mishap /\ newest'[x] = newest[x] /\ OnItsWay(x)
      BY <1>0, <1>4, <2>1
    <3>2. QED BY <1>2, <2>1, <3>1 DEF OnItsWay, HasNewest, NothingOlder
  <2>5. QED BY <1>0, <2>1, <2>2, <2>3, <2>4 DEF DiskInv, QueueBounded
<1>10. CASE ~(EntryBytes(e) > MaxPendingBytes)
  <2> DEFINE others == OtherPaths(pending, p)
             queue == Append(others, Job(p, e))
  <2>1. pending' = NewestFitting(queue) /\ mishap \subseteq mishap' \cup {p}
    BY <1>1, <1>10 DEF Submit
  <2>2. others \in Seq(Jobs) /\ PathsOnce(others) /\ ToSet(others) = ToSet(pending) \ JobsOf(pending, p)
    BY <1>0, OthersFacts DEF DiskTypes
  <2>3. /\ queue \in Seq(Jobs) /\ PathsOnce(queue) /\ ToSet(queue) = ToSet(others) \cup {Job(p, e)}
        /\ Len(queue) # 0 /\ queue[Len(queue)] = Job(p, e)
    <3> HIDE DEF others
    <3>1. JobsOf(others, p) = {}
      BY <2>2 DEF JobsOf
    <3>2. QED BY <1>3, <2>2, <3>1, AppendedFacts
  <2> HIDE DEF others, queue
  <2>4. /\ pending' \in Seq(Jobs) /\ PathsOnce(pending') /\ PendingFits(pending')
        /\ ToSet(pending') \subseteq ToSet(queue) /\ Job(p, e) \in ToSet(pending')
    <3>1. EntryBytes(queue[Len(queue)].entry) <= MaxPendingBytes
      BY <1>3, <1>10, <2>3, DiskAssumption
    <3>2. QED BY <2>1, <2>3, <3>1, FittingFacts
  <2>5. \A job \in ToSet(pending') : job = Job(p, e) \/ (job \in ToSet(pending) /\ job.path # p)
    BY <2>2, <2>3, <2>4 DEF JobsOf
  <2>6. DiskTypes' /\ QueueBounded'
    BY <1>0, <1>2, <1>3, <1>4, <1>7, <2>4 DEF DiskTypes, QueueBounded, PendingFits
  <2>7. \A job \in ToSet(pending) : job.entry.version <= submissions /\ job.entry.version \in Nat
    BY <1>0, PendingJobs, JobVersions DEF VersionsTold
  <2>8. VersionsTold'
    <3>1. ASSUME NEW job \in ToSet(pending') PROVE job.entry.version <= submissions'
      BY <1>2, <1>3, <2>5, <2>7 DEF n
    <3>2. ASSUME NEW job \in ToSet(pending'), NEW x \in Paths, job.entry.version = newest'[x]
          PROVE  job.path = x
      <4>1. CASE job = Job(p, e)
        <5>1. newest'[x] = n
          BY <1>3, <3>2, <4>1
        <5>2. x = p
          BY <1>3, <1>4, <1>5, <5>1 DEF n
        <5>3. QED BY <1>3, <4>1, <5>2
      <4>2. CASE job \in ToSet(pending) /\ job.path # p
        <5>1. x # p
          BY <1>3, <1>4, <2>7, <3>2, <4>2 DEF n
        <5>2. QED BY <1>0, <1>4, <3>2, <4>2, <5>1 DEF VersionsTold
      <4>3. QED BY <2>5, <4>1, <4>2
    <3>3. QED BY <1>6, <3>1, <3>2 DEF VersionsTold
  <2>9. ASSUME NEW x \in Paths \ mishap' PROVE OnItsWay(x)'
    <3>1. CASE x = p
      <4>1. \A job \in JobsOf(pending', p) : job = Job(p, e)
        BY <2>5 DEF JobsOf
      <4>2. Job(p, e) \in JobsOf(pending', p) /\ Job(p, e).entry.version = newest'[p]
        BY <1>3, <1>4, <2>4 DEF JobsOf
      <4>3. NothingOlder(pending, p)' /\ HasNewest(pending, p)'
        BY <4>1, <4>2 DEF NothingOlder, HasNewest
      <4>4. QED BY <3>1, <4>3 DEF OnItsWay
    <3>2. CASE x # p
      <4>1. x \in Paths \ mishap /\ newest'[x] = newest[x] /\ OnItsWay(x)
        BY <1>0, <1>4, <2>1, <3>2
      <4>2. JobsOf(pending', x) \subseteq JobsOf(pending, x)
        BY <1>3, <2>5, <3>2 DEF JobsOf
      <4>3. NothingOlder(pending, x)'
        BY <4>1, <4>2 DEF OnItsWay, NothingOlder
      <4>4. HasNewest(pending, x) => HasNewest(pending, x)'
        <5>1. SUFFICES ASSUME HasNewest(pending, x) PROVE HasNewest(pending, x)'
          OBVIOUS
        <5>2. newest'[x] \in Versions(pending)
          BY <4>1, <5>1, VersionsAre DEF HasNewest, JobsOf
        <5>3. newest'[x] \in Versions(pending')
          BY <1>8, <5>2
        <5>4. PICK job \in ToSet(pending') : job.entry.version = newest'[x]
          BY <5>3, VersionsAre
        <5>5. job.path = x
          BY <2>8, <5>4 DEF VersionsTold
        <5>6. QED BY <5>4, <5>5 DEF HasNewest, JobsOf
      <4>5. /\ NothingOlder(writing, x)' = NothingOlder(writing, x)
            /\ HasNewest(writing, x)' = HasNewest(writing, x)
            /\ NothingOlder(files, x)' = NothingOlder(files, x)
        BY <1>2, <4>1 DEF HasNewest, NothingOlder
      <4>6. QED BY <4>1, <4>3, <4>4, <4>5 DEF OnItsWay
    <3>3. QED BY <3>1, <3>2
  <2>10. QED BY <2>6, <2>8, <2>9 DEF DiskInv
<1>11. QED BY <1>9, <1>10


\* The writer takes the oldest job.
LEMMA TakeKeeps ==
  ASSUME DiskInv, TakeJob
  PROVE  DiskInv'
<1>0. DiskTypes /\ QueueBounded /\ VersionsTold /\ \A x \in Paths \ mishap : OnItsWay(x)
  BY DEF DiskInv
<1>1. /\ pending # <<>> /\ writing = <<>> /\ writing' = <<Head(pending)>> /\ pending' = Tail(pending)
      /\ UNCHANGED <<files, newest, mishap, submissions>>
  BY DEF TakeJob, WriterTakes
<1>2. /\ Tail(pending) \in Seq(Jobs) /\ Len(Tail(pending)) = Len(pending) - 1
      /\ Len(pending) \in Nat \ {0} /\ Head(pending) = pending[1] /\ Head(pending) \in Jobs
      /\ \A i \in 1..Len(pending) - 1 : Tail(pending)[i] = pending[i + 1]
  BY <1>0, <1>1, HeadTailProperties, LenProperties, EmptySeq DEF DiskTypes
<1>3. ToSet(pending') \subseteq ToSet(pending) /\ PathsOnce(pending')
  <2>1. \A j \in 1..Len(Tail(pending)) : 1 + j \in 1..Len(pending) /\ Tail(pending)[j] = pending[1 + j]
    BY <1>2
  <2>2. pending \in Seq(Jobs) /\ PathsOnce(pending)
    BY <1>0 DEF DiskTypes
  <2>3. QED BY <1>1, <1>2, <2>1, <2>2, RunFacts
<1>4. ToSet(pending) = ToSet(pending') \cup {Head(pending)}
  <2>1. pending \in Seq(Jobs)
    BY <1>0 DEF DiskTypes
  <2>2. DOMAIN pending = 1..Len(pending) /\ DOMAIN pending' = 1..Len(pending) - 1
    BY <1>1, <1>2, <2>1, LenProperties
  <2>3. ASSUME NEW i \in 1..Len(pending), i # 1 PROVE pending[i] \in ToSet(pending')
    <3>1. i - 1 \in 1..Len(pending) - 1 /\ (i - 1) + 1 = i
      BY <1>2, <2>3
    <3>2. pending'[i - 1] = pending[i]
      BY <1>1, <1>2, <3>1
    <3>3. QED BY <2>2, <3>1, <3>2 DEF ToSet
  <2>4. Head(pending) \in ToSet(pending)
    BY <1>2, <2>2 DEF ToSet
  <2>5. \A x \in ToSet(pending) : x \in ToSet(pending') \/ x = Head(pending)
    BY <1>2, <2>2, <2>3 DEF ToSet
  <2>6. QED BY <1>3, <2>4, <2>5
<1>5. ToSet(writing') = {Head(pending)} /\ writing' \in Seq(Jobs) /\ Len(writing') <= 1
  BY <1>1, <1>2 DEF ToSet
<1>6. DiskTypes'
  BY <1>0, <1>1, <1>2, <1>3, <1>5 DEF DiskTypes
<1>7. QueueBounded'
  <2>1. TotalBytes(Tail(pending)) <= TotalBytes(pending) /\ TotalBytes(pending) \in Nat
        /\ TotalBytes(Tail(pending)) \in Nat
    BY <1>0, <1>1, <1>2, TailBytes, BytesAreNumbers DEF DiskTypes
  <2>2. MaxPending \in Nat /\ MaxPendingBytes \in Nat
    BY DiskAssumption
  <2>3. QED BY <1>0, <1>1, <1>2, <2>1, <2>2 DEF QueueBounded
<1>8. VersionsTold'
  BY <1>0, <1>1, <1>3 DEF VersionsTold
<1>9. ASSUME NEW x \in Paths \ mishap' PROVE OnItsWay(x)'
  <2>1. x \in Paths \ mishap /\ OnItsWay(x)
    BY <1>0, <1>1, <1>9
  <2>2. NothingOlder(pending, x)'
    BY <1>1, <1>3, <2>1 DEF OnItsWay, NothingOlder, JobsOf
  <2>3. CASE HasNewest(pending, x)
    <3>1. PICK job \in JobsOf(pending, x) : job.entry.version = newest[x]
      BY <2>3 DEF HasNewest
    <3>2. CASE job \in ToSet(pending')
      <4>1. HasNewest(pending, x)'
        BY <1>1, <3>1, <3>2 DEF HasNewest, JobsOf
      <4>2. QED BY <2>2, <4>1 DEF OnItsWay
    <3>3. CASE job = Head(pending)
      <4>1. NothingOlder(writing, x)' /\ HasNewest(writing, x)'
        BY <1>1, <1>5, <3>1, <3>3 DEF NothingOlder, HasNewest, JobsOf
      <4>2. QED BY <2>2, <4>1 DEF OnItsWay
    <3>4. QED BY <1>4, <3>1, <3>2, <3>3 DEF JobsOf
  <2>4. CASE ~HasNewest(pending, x)
    <3>1. ~HasNewest(writing, x)
      BY <1>1 DEF HasNewest, JobsOf, ToSet
    <3>2. NothingOlder(files, x)'
      BY <1>1, <2>1, <2>4, <3>1 DEF OnItsWay, NothingOlder
    <3>3. NothingOlder(writing, x)'
      <4>1. Head(pending).path # x
        BY <1>4, <2>1, <2>4 DEF OnItsWay, NothingOlder, HasNewest, JobsOf
      <4>2. QED BY <1>5, <4>1 DEF NothingOlder, JobsOf
    <3>4. QED BY <2>2, <3>2, <3>3 DEF OnItsWay
  <2>5. QED BY <2>3, <2>4
<1>10. QED BY <1>6, <1>7, <1>8, <1>9 DEF DiskInv

\* The job in the writer's hands becomes its file, or is given up.
LEMMA WriteKeeps ==
  ASSUME DiskInv, ReplaceFile \/ SkipJob
  PROVE  DiskInv'
<1>0. DiskTypes /\ QueueBounded /\ VersionsTold /\ \A x \in Paths \ mishap : OnItsWay(x)
  BY DEF DiskInv
<1>1. /\ writing # <<>> /\ writing' = <<>> /\ UNCHANGED <<pending, newest, submissions>>
  BY DEF ReplaceFile, SkipJob, WriterReplaces, WriterSkips
<1>2. /\ writing[1] \in Jobs /\ ToSet(writing) = {writing[1]} /\ ToSet(writing') = {}
      /\ writing' \in Seq(Jobs) /\ Len(writing') = 0
  <2>1. writing \in Seq(Jobs) /\ Len(writing) <= 1
    BY <1>0 DEF DiskTypes
  <2>2. Len(writing) = 1 /\ DOMAIN writing = {1}
    <3>1. Len(writing) \in Nat \ {0} /\ DOMAIN writing = 1..Len(writing)
      BY <1>1, <2>1, LenProperties, EmptySeq
    <3>2. QED BY <2>1, <3>1
  <2>3. writing[1] \in Jobs
    BY <2>1, <2>2, ElementOfSeq
  <2>4. ToSet(writing) = {writing[1]}
    BY <2>2 DEF ToSet
  <2>5. ToSet(<<>>) = {} /\ <<>> \in Seq(Jobs) /\ Len(<<>>) = 0
    BY DEF ToSet
  <2>6. QED BY <1>1, <2>3, <2>4, <2>5
<1> DEFINE job == writing[1]
           p == job.path
<1>3. QueueBounded' /\ VersionsTold'
  BY <1>0, <1>1 DEF QueueBounded, VersionsTold
<1>4. ASSUME NEW x \in Paths
      PROVE  NothingOlder(writing, x)' /\ ~HasNewest(writing, x)'
             /\ NothingOlder(pending, x)' = NothingOlder(pending, x)
             /\ HasNewest(pending, x)' = HasNewest(pending, x)
  BY <1>1, <1>2 DEF NothingOlder, HasNewest, JobsOf
<1>5. CASE ReplaceFile
  <2> DEFINE others == OtherPaths(files, p)
             all == Append(others, job)
  <2>1. files' = KeepNewest(all, MaxFiles) /\ mishap' = mishap
    BY <1>5 DEF ReplaceFile, WriterReplaces
  <2>2. p \in Paths /\ files \in Seq(Jobs) /\ PathsOnce(files) /\ MaxFiles \in Nat
    BY <1>0, <1>2, JobVersions, DiskAssumption DEF DiskTypes
  <2>3. others \in Seq(Jobs) /\ PathsOnce(others) /\ ToSet(others) = ToSet(files) \ JobsOf(files, p)
    BY <2>2, OthersFacts
  <2>4. all \in Seq(Jobs) /\ PathsOnce(all) /\ ToSet(all) = ToSet(others) \cup {job}
    <3> HIDE DEF others, job
    <3>1. JobsOf(others, p) = {}
      BY <2>3 DEF JobsOf
    <3>2. QED BY <1>2, <2>3, <3>1, AppendedFacts DEF job
  <2> HIDE DEF all
  <2>5. files' \in Seq(Jobs) /\ ToSet(files') \subseteq ToSet(all) /\ PathsOnce(files')
    <3> DEFINE r == KeepNewest(all, MaxFiles)
               gone == IF Len(all) <= MaxFiles THEN 0 ELSE Len(all) - MaxFiles
    <3>1. /\ r \in Seq(Jobs) /\ Len(r) = Len(all) - gone /\ \A j \in 1..Len(r) : r[j] = all[gone + j]
      BY <2>2, <2>4, KeepNewestFacts
    <3>2. Len(all) \in Nat
      BY <2>4, LenProperties
    <3>3. gone \in Nat
      BY <2>2, <3>2
    <3> HIDE DEF r, gone
    <3>4. \A j \in 1..Len(r) : gone + j \in 1..Len(all) /\ r[j] = all[gone + j]
      BY <3>1, <3>2, <3>3
    <3>5. ToSet(r) \subseteq ToSet(all) /\ (PathsOnce(all) => PathsOnce(r))
      BY <2>4, <3>1, <3>3, <3>4, RunFacts
    <3>6. QED BY <2>1, <2>4, <3>1, <3>5 DEF r
  <2>6. DiskTypes'
    BY <1>0, <1>1, <1>2, <2>1, <2>5 DEF DiskTypes
  <2>7. ASSUME NEW x \in Paths \ mishap' PROVE OnItsWay(x)'
    <3>1. x \in Paths \ mishap /\ OnItsWay(x)
      BY <1>0, <2>1, <2>7
    <3>2. ASSUME ~HasNewest(pending, x) PROVE NothingOlder(files, x)'
      <4>1. NothingOlder(writing, x) /\ (HasNewest(writing, x) \/ NothingOlder(files, x))
        BY <3>1, <3>2 DEF OnItsWay
      <4>2. SUFFICES ASSUME NEW f \in ToSet(files'), f.path = x PROVE f.entry.version = newest[x]
        BY <1>1 DEF NothingOlder, JobsOf
      <4>3. CASE f = job
        BY <1>2, <4>1, <4>2, <4>3 DEF NothingOlder, JobsOf
      <4>4. CASE f # job
        <5>1. f \in ToSet(files) /\ f.path # p
          BY <2>3, <2>4, <2>5, <4>4 DEF JobsOf
        <5>2. ~HasNewest(writing, x)
          BY <1>2, <4>2, <5>1 DEF HasNewest, JobsOf
        <5>3. QED BY <4>1, <4>2, <5>1, <5>2 DEF NothingOlder, JobsOf
      <4>5. QED BY <4>3, <4>4
    <3>3. QED BY <1>4, <3>1, <3>2 DEF OnItsWay
  <2>8. QED BY <1>3, <2>6, <2>7 DEF DiskInv
<1>6. CASE SkipJob
  <2>1. files' = files /\ mishap' = mishap \cup Dropped(writing, <<>>) /\ newest' = newest
    BY <1>6 DEF SkipJob, WriterSkips
  <2>2. DiskTypes'
    BY <1>0, <1>1, <1>2, <2>1 DEF DiskTypes, Dropped
  <2>3. ASSUME NEW x \in Paths \ mishap' PROVE OnItsWay(x)'
    <3>1. x \in Paths \ mishap /\ OnItsWay(x)
      BY <1>0, <2>1, <2>3
    <3>2. ~HasNewest(writing, x)
      <4>1. SUFFICES ASSUME HasNewest(writing, x) PROVE FALSE
        OBVIOUS
      <4>2. newest'[x] \in Versions(writing)
        BY <2>1, <4>1, VersionsAre DEF HasNewest, JobsOf
      <4>3. newest'[x] \notin Versions(<<>>)
        BY DEF Versions
      <4>4. QED BY <2>1, <2>3, <4>2, <4>3 DEF Dropped
    <3>3. ~HasNewest(pending, x) => NothingOlder(files, x)'
      BY <2>1, <3>1, <3>2 DEF OnItsWay, NothingOlder
    <3>4. QED BY <1>4, <3>1, <3>3 DEF OnItsWay
  <2>4. QED BY <1>3, <2>2, <2>3 DEF DiskInv
<1>7. QED BY <1>5, <1>6

\* A reader removes a file it cannot read.
LEMMA UnlinkKeeps ==
  ASSUME DiskInv, NEW p \in Paths, UnlinkFile(p)
  PROVE  DiskInv'
<1>0. DiskTypes /\ QueueBounded /\ VersionsTold /\ \A x \in Paths \ mishap : OnItsWay(x)
  BY DEF DiskInv
<1>1. files' = OtherPaths(files, p) /\ UNCHANGED <<pending, writing, newest, mishap, submissions>>
  BY DEF UnlinkFile, Unlink
<1>2. files' \in Seq(Jobs) /\ PathsOnce(files') /\ ToSet(files') \subseteq ToSet(files)
  BY <1>0, <1>1, OthersFacts DEF DiskTypes
<1>3. DiskTypes' /\ QueueBounded' /\ VersionsTold'
  BY <1>0, <1>1, <1>2 DEF DiskTypes, QueueBounded, VersionsTold
<1>4. ASSUME NEW x \in Paths \ mishap' PROVE OnItsWay(x)'
  <2>1. OnItsWay(x)
    BY <1>0, <1>1, <1>4
  <2>2. NothingOlder(files, x) => NothingOlder(files, x)'
    BY <1>1, <1>2 DEF NothingOlder, JobsOf
  <2>3. QED BY <1>1, <2>1, <2>2 DEF OnItsWay, NothingOlder, HasNewest
<1>5. QED BY <1>3, <1>4 DEF DiskInv

\* The writer starts with nothing.
LEMMA DiskStart ==
  ASSUME MCInit PROVE DiskInv
<1>1. pending = <<>> /\ writing = <<>> /\ files = <<>> /\ newest = [p \in Paths |-> 0]
      /\ mishap = {} /\ submissions = 0
  BY DEF MCInit, DiskInit
<1>2. <<>> \in Seq(Jobs) /\ Len(<<>>) = 0 /\ PathsOnce(<<>>) /\ ToSet(<<>>) = {}
  BY DEF PathsOnce, ToSet
<1>3. DiskTypes
  BY <1>1, <1>2 DEF DiskTypes
<1>4. QueueBounded
  <2> DEFINE none == [i \in DOMAIN pending |-> EntryBytes(pending[i].entry)]
  <2>1. none \in [1..0 -> Nat] /\ TotalBytes(pending) = SumFunctionOnSet(none, 1..0)
    BY <1>1, <1>2, BytesAreNumbers
  <2> HIDE DEF none
  <2>2. SumFunctionOnSet(none, {}) = 0
    BY <2>1, FS_EmptySet, SumBySteps
  <2>3. 1..0 = {}
    OBVIOUS
  <2>4. TotalBytes(pending) = 0
    BY <2>1, <2>2, <2>3
  <2>5. QED BY <1>1, <1>2, <2>4, DiskAssumption DEF QueueBounded
<1>5. VersionsTold
  BY <1>1, <1>2 DEF VersionsTold
<1>6. \A p \in Paths : OnItsWay(p)
  BY <1>1, <1>2 DEF OnItsWay, NothingOlder, JobsOf
<1>7. QED BY <1>3, <1>4, <1>5, <1>6 DEF DiskInv

\* Every step keeps what is known of the writer.
LEMMA DiskStep ==
  ASSUME DiskInv, [MCNext]_mcVars
  PROVE  DiskInv'
<1>1. CASE UNCHANGED mcVars
  BY <1>1 DEF mcVars, DiskInv, DiskTypes, QueueBounded, VersionsTold, OnItsWay, NothingOlder, HasNewest
<1>2. QED BY <1>1, SubmitKeeps, TakeKeeps, WriteKeeps, UnlinkKeeps DEF MCNext

-----------------------------------------------------------------------------
(* The limits of the caches *)

\* A sequence with one item more.
LEMMA AppendLength ==
  ASSUME NEW S, NEW q \in Seq(S), NEW x
  PROVE  Len(Append(q, x)) = Len(q) + 1
OBVIOUS

\* A call that is open knows its key.
LEMMA OpenHasToken ==
  ASSUME CallsTyped, NEW c \in Callers, lookups[c].at # "idle"
  PROVE  lookups[c].token \in Tokens
BY DEF CallsTyped, Calls, LookupAt

\* A key that was cached takes its place at the end.
LEMMA HitLength ==
  ASSUME CallsTyped, NEW token \in Tokens, Cached(token) # {}, NEW v
  PROVE  Len(Newest(token, v)) = Len(caches[token[1]])
<1> DEFINE q == caches[token[1]]
           I == {i \in 1..Len(q) : q[i].name = token[2]}
<1>1. q \in Seq(Items) /\ Len(q) \in Nat /\ DOMAIN q = 1..Len(q)
  <2>1. token[1] \in Kinds
    BY DEF Tokens
  <2>2. q \in Seq(Items)
    BY <2>1 DEF CallsTyped
  <2> HIDE DEF q
  <2>3. QED BY <2>2, LenProperties
<1>2. I # {}
  BY <1>1 DEF Cached
<1>3. I \in SUBSET Nat /\ I \subseteq 1..Len(q)
  BY <1>1
<1> HIDE DEF q
<1>4. Min(I) \in I
  <2> HIDE DEF I
  <2>1. QED BY <1>2, <1>3, LeastIsMin
<1> DEFINE k == SelectInSeq(q, LAMBDA item : item.name = token[2])
<1>5. k = Min(I) /\ k \in 1..Len(q)
  BY <1>2, <1>3, <1>4 DEF SelectInSeq
<1>6. Others(token) = RemoveAt(q, k)
  BY <1>2 DEF Others, RemoveFirstMatch, q
<1> HIDE DEF k
<1>7. Others(token) \in Seq(Items) /\ Len(Others(token)) = Len(q) - 1
  BY <1>1, <1>5, <1>6, RemoveAtFacts
<1>8. Len(Append(Others(token), [name |-> token[2], value |-> v])) = Len(q)
  <2> DEFINE rest == Others(token)
             item == [name |-> token[2], value |-> v]
  <2>1. rest \in Seq(Items) /\ Len(rest) = Len(q) - 1
    BY <1>7
  <2> HIDE DEF rest, item
  <2>2. Len(Append(rest, item)) = Len(rest) + 1
    BY <2>1, AppendLength
  <2>3. Len(Append(rest, item)) = Len(q)
    BY <1>1, <2>1, <2>2
  <2>4. QED BY <2>3 DEF rest, item
<1>9. QED BY <1>8 DEF Newest, q

CachesBounded ==
    /\ \A kind \in Kinds : Len(caches[kind]) <= Limits[kind]
    /\ Len(pixels) <= PixelLimit

\* No cache outgrows its limit.
LEMMA BoundKept ==
  ASSUME CachesBounded, CallInv, PixelInv, [CacheNext]_cacheVars
  PROVE  CachesBounded'
<1>0. /\ caches \in [Kinds -> Seq(Items)] /\ pixels \in Seq(PixelKeys) /\ IsInjective(pixels)
      /\ CallsTyped /\ NamesOnce /\ Limits \in [Kinds -> Nat \ {0}] /\ PixelLimit \in Nat \ {0}
      /\ Len(pixels) <= PixelLimit /\ \A kind \in Kinds : Len(caches[kind]) <= Limits[kind]
  BY LimitsAssumption DEF CallInv, CallsTyped, PixelInv, CachesBounded
<1>1. CASE UNCHANGED <<caches, pixels>>
  BY <1>1 DEF CachesBounded
<1>2. ASSUME NEW kind \in Kinds, NEW q, Len(q) <= Limits[kind],
             caches' = [caches EXCEPT ![kind] = q], pixels' = pixels
      PROVE  CachesBounded'
  <2>1. \A k \in Kinds : caches'[k] = IF k = kind THEN q ELSE caches[k]
    BY <1>0, <1>2
  <2>2. QED BY <1>0, <1>2, <2>1 DEF CachesBounded
<1>3. ASSUME EvictRuntime PROVE CachesBounded'
  <2>1. PICK n \in DOMAIN EvictionOrder :
           LET kind == EvictionOrder[n]
               Empty(k) == IF k = "pixel" THEN pixels = <<>> ELSE caches[k] = <<>>
           IN  /\ ~Empty(kind)
               /\ IF kind = "pixel"
                    THEN pixels' = Tail(pixels) /\ UNCHANGED caches
                    ELSE caches' = [caches EXCEPT ![kind] = Tail(@)] /\ UNCHANGED pixels
    BY <1>3 DEF EvictRuntime, frameVars
  <2> DEFINE kind == EvictionOrder[n]
  <2>2. CASE kind = "pixel"
    <3>1. pixels # <<>> /\ pixels' = Tail(pixels) /\ caches' = caches
      BY <2>1, <2>2
    <3>2. Len(Tail(pixels)) = Len(pixels) - 1 /\ Len(pixels) \in Nat
      BY <1>0, <3>1, HeadTailProperties, LenProperties
    <3>3. QED BY <1>0, <3>1, <3>2 DEF CachesBounded
  <2>3. CASE kind # "pixel"
    <3>1. caches[kind] # <<>> /\ caches' = [caches EXCEPT ![kind] = Tail(caches[kind])] /\ pixels' = pixels
      BY <2>1, <2>3
    <3> HIDE DEF kind
    <3>2. CASE kind \in Kinds
      <4>1. Len(Tail(caches[kind])) = Len(caches[kind]) - 1 /\ Len(caches[kind]) \in Nat
        BY <1>0, <3>1, <3>2, HeadTailProperties, LenProperties
      <4>2. Len(Tail(caches[kind])) <= Limits[kind]
        BY <1>0, <3>2, <4>1
      <4>3. QED BY <1>2, <3>1, <3>2, <4>2
    <3>3. CASE kind \notin Kinds
      <4>1. caches' = caches
        BY <1>0, <3>1, <3>3
      <4>2. QED BY <1>1, <3>1, <4>1
    <3>4. QED BY <3>2, <3>3
  <2>4. QED BY <2>2, <2>3
<1>4. ASSUME NEW c \in Callers, LookupHit(c) PROVE CachesBounded'
  <2> DEFINE token == lookups[c].token
  <2>1. PICK v \in Cached(token) : caches' = [caches EXCEPT ![token[1]] = Newest(token, v)]
    BY <1>4 DEF LookupHit
  <2>2. token \in Tokens
    BY <1>0, <1>4, OpenHasToken DEF LookupHit, LookupAt
  <2>3. token[1] \in Kinds
    BY <2>2 DEF Tokens
  <2>4. pixels' = pixels
    BY <1>4 DEF LookupHit, frameVars
  <2> HIDE DEF token
  <2>5. Len(Newest(token, v)) <= Limits[token[1]]
    BY <1>0, <2>1, <2>2, <2>3, HitLength
  <2>6. QED BY <1>2, <2>1, <2>3, <2>4, <2>5
<1>5. ASSUME NEW c \in Callers, Insert(c) PROVE CachesBounded'
  <2> DEFINE token == lookups[c].token
  <2>1. /\ caches' = [caches EXCEPT ![token[1]] = KeepNewest(Newest(token, Value(c)), Limits[token[1]])]
        /\ pixels' = pixels
    BY <1>5 DEF Insert, frameVars
  <2>2. token \in Tokens
    BY <1>0, <1>5, OpenHasToken DEF Insert, LookupAt
  <2>3. token[1] \in Kinds
    BY <2>2 DEF Tokens
  <2> HIDE DEF token
  <2>4. Newest(token, Value(c)) \in Seq(Items) /\ Limits[token[1]] \in Nat
    <3>1. Value(c) \in Outcomes
      BY DEF Outcomes, Value
    <3>2. QED BY <1>0, <2>2, <2>3, <3>1, NewestFacts
  <2>5. Len(KeepNewest(Newest(token, Value(c)), Limits[token[1]])) <= Limits[token[1]]
    <3> DEFINE q == Newest(token, Value(c))
               limit == Limits[token[1]]
    <3>1. q \in Seq(Items) /\ limit \in Nat
      BY <2>4
    <3> HIDE DEF q, limit
    <3>2. Len(q) \in Nat
      BY <3>1, LenProperties
    <3>3. Len(KeepNewest(q, limit)) = Len(q) - (IF Len(q) <= limit THEN 0 ELSE Len(q) - limit)
      BY <3>1, KeepNewestFacts
    <3>4. Len(KeepNewest(q, limit)) <= limit
      BY <3>1, <3>2, <3>3
    <3>5. QED BY <3>4 DEF q, limit
  <2>6. QED BY <1>2, <2>1, <2>3, <2>5
<1>6. ASSUME NEW c \in Callers, Notify(c) PROVE CachesBounded'
  BY <1>1, <1>3, <1>6 DEF Notify, frameVars
<1>7. ASSUME NEW c \in Callers,
             LookupMiss(c) \/ Wake(c) \/ BuilderRaises(c) \/ Land(c) \/ PopFlight(c)
      PROVE  CachesBounded'
  BY <1>1, <1>7 DEF LookupMiss, Wake, BuilderRaises, Land, PopFlight, frameVars
<1>8. ASSUME NEW c \in Callers, NEW token \in Tokens, Enter(c, token) PROVE CachesBounded'
  BY <1>1, <1>8 DEF Enter, frameVars
<1>9. ASSUME NEW p \in PixelKeys, PutPixels(p) PROVE CachesBounded'
  <2> DEFINE moved == MoveToEnd(pixels, p)
  <2>1. moved \in Seq(PixelKeys) /\ IsInjective(moved)
    BY <1>0, MoveToEndFacts
  <2>2. pixels' = KeepNewest(moved, PixelLimit) /\ caches' = caches
    BY <1>9 DEF PutPixels, KeptFrames
  <2> HIDE DEF moved
  <2>3. Len(KeepNewest(moved, PixelLimit)) <= PixelLimit
    BY <1>0, <2>1, KeptFacts
  <2>4. QED BY <1>0, <2>2, <2>3 DEF CachesBounded
<1>10. ASSUME NEW p \in PixelKeys, GetPixels(p) PROVE CachesBounded'
  <2>1. p \in ToSet(pixels) /\ pixels' = MoveToEnd(pixels, p) /\ caches' = caches
    BY <1>10 DEF GetPixels
  <2>2. PICK k \in 1..Len(pixels) : pixels[k] = p
    BY <1>0, <2>1, LenProperties DEF ToSet
  <2>3. Len(MoveToEnd(pixels, p)) = Len(pixels)
    BY <1>0, <2>2, MovedKnown
  <2>4. QED BY <1>0, <2>1, <2>3 DEF CachesBounded
<1>11. ASSUME StorePressure PROVE CachesBounded'
  BY <1>3, <1>11 DEF StorePressure
<1>12. CASE AllDone \/ UNCHANGED cacheVars
  BY <1>1, <1>12 DEF AllDone, cacheVars, frameVars
<1>13. QED BY <1>4, <1>5, <1>6, <1>7, <1>8, <1>9, <1>10, <1>11, <1>12 DEF CacheNext, CallStep

-----------------------------------------------------------------------------
(* The parts side by side

   Every part moves by its own steps while the others stand still, so that what
   is proved of each holds of them together. *)

\* The inductive invariant of the disk writer: within its limits, and the newest
\* snapshot of a path is queued, at hand or in the file.
THEOREM DiskInvariant == Spec => []DiskInv
<1>1. Init => DiskInv
  BY DiskStart DEF Init
<1>2. DiskInv /\ [Next]_guiVars => DiskInv'
  BY DiskStep DEF Next, guiVars
<1>3. QED BY <1>1, <1>2, PTL DEF Spec

\* Once the writer is idle, a file holds the newest snapshot submitted for it,
\* unless that one was dropped for space or could not be written.
THEOREM NewestAlwaysPersisted == Spec => []NewestPersisted
<1>1. DiskInv => NewestPersisted
  <2>1. SUFFICES ASSUME DiskInv, Idle, NEW p \in Paths \ mishap, NEW e \in OnDisk(p)
                 PROVE  e.version = newest[p]
    BY DEF NewestPersisted
  <2>2. OnItsWay(p)
    BY <2>1 DEF DiskInv
  <2>3. ToSet(pending) = {} /\ ToSet(writing) = {}
    BY <2>1 DEF Idle, ToSet
  <2>4. NothingOlder(files, p)
    BY <2>2, <2>3 DEF OnItsWay, HasNewest, JobsOf
  <2>5. PICK i \in DOMAIN files : files[i].path = p /\ e = files[i].entry
    BY <2>1 DEF OnDisk
  <2>6. files[i] \in JobsOf(files, p)
    BY <2>5 DEF JobsOf, ToSet
  <2>7. QED BY <2>4, <2>5, <2>6 DEF NothingOlder
<1>2. QED BY <1>1, DiskInvariant, PTL

\* No cache ever outgrows its limit.
LEMMA CachesAlwaysBounded == CacheSpec => []CachesBounded
<1>1. CacheInit => CachesBounded
  <2>1. SUFFICES ASSUME CacheInit PROVE CachesBounded
    OBVIOUS
  <2>2. pixels = <<>> /\ \A kind \in Kinds : caches[kind] = <<>>
    BY <2>1 DEF CacheInit
  <2>3. Len(<<>>) = 0
    OBVIOUS
  <2>4. PixelLimit \in Nat /\ \A kind \in Kinds : Limits[kind] \in Nat
    BY LimitsAssumption
  <2>5. QED BY <2>2, <2>3, <2>4 DEF CachesBounded
<1>2. CachesBounded /\ CallInv /\ PixelInv /\ [CacheNext]_cacheVars => CachesBounded'
  BY BoundKept
<1>3. QED BY <1>1, <1>2, CallInvariant, FramesKept, PTL DEF CacheSpec

\* The whole starts as its parts do, and each part moves by its own steps only.
LEMMA PartsOfTheWhole == Spec => CoordinatorSpec /\ UploadSpec /\ CpuSpec /\ CacheSpec
<1>1. Init => CoordinatorInit /\ UploadInit /\ CpuInit /\ CacheInit
  BY DEF Init
<1>2. [Next]_guiVars => [CoordinatorNext]_coordinatorVars
  BY DEF Next, guiVars
<1>3. [Next]_guiVars => [UploadNext]_uploadVars
  BY DEF Next, guiVars
<1>4. [Next]_guiVars => [CpuNext]_cpuVars
  BY DEF Next, guiVars
<1>5. [Next]_guiVars => [CacheNext]_cacheVars
  BY DEF Next, guiVars
<1>6. QED
  BY <1>1, <1>2, <1>3, <1>4, <1>5, PTL DEF Spec, CoordinatorSpec, UploadSpec, CpuSpec, CacheSpec

\* In every state of the GUI's own parts the registries name the sessions of their
\* order, the writer's queue keeps both its limits, the upload slots and promises
\* are within theirs, a map that returned computed every batch, and no cache
\* outgrows its limit.
THEOREM GuiTypesAlwaysOK == Spec => []GuiTypeOK
<1>1. RegistryInv => CoordinatorTypeOK /\ RegistryConsistent /\ RecentSessionsKept
  BY DEF RegistryInv
<1>2. DiskInv => DiskTypeOK /\ QueueBounded
  <2>1. SUFFICES ASSUME DiskInv PROVE DiskTypeOK
    BY DEF DiskInv
  <2>2. ASSUME NEW q \in Seq(Jobs), NEW i \in DOMAIN q PROVE q[i].path \in Paths
    <3>1. q[i] \in Jobs
      BY <2>2, LenProperties, ElementOfSeq
    <3>2. QED BY <3>1 DEF Jobs
  <2>3. /\ pending \in Seq(Jobs) /\ writing \in Seq(Jobs) /\ files \in Seq(Jobs)
        /\ Len(writing) <= 1 /\ mishap \subseteq Paths
    BY <2>1 DEF DiskInv, DiskTypes
  <2>4. QED BY <2>2, <2>3 DEF DiskTypeOK
<1>3. UploadInv => UploadTypeOK
  <2>1. SUFFICES ASSUME UploadInv PROVE UploadTypeOK
    OBVIOUS
  <2>2. Usage(InProgress) \in Nat
    BY <2>1, BooksAreNumbers DEF UploadInv, InProgress
  <2>3. reserved \in Nat /\ UploadTotal \in Nat /\ Usage(InProgress) + reserved <= UploadTotal
    BY <2>1, UploadAssumption DEF UploadInv
  <2>4. reserved \in 0..UploadTotal
    BY <2>2, <2>3
  <2>5. QED BY <2>1, <2>4 DEF UploadInv, UploadTypeOK, InProgress
<1>4. CpuInv => CpuTypeOK
  BY DEF CpuInv, Types, WorkerInv, SharesFit, ClaimStands, CpuTypeOK, Mapping
<1>5. CallInv /\ CachesBounded => CacheTypeOK
  <2>1. SUFFICES ASSUME CallInv, CachesBounded PROVE CacheTypeOK
    OBVIOUS
  <2>2. CallsTyped
    BY <2>1 DEF CallInv
  <2>3. \A c \in Callers : lookups[c].at \in Places
    BY <2>2 DEF CallsTyped, Calls
  <2>4. QED BY <2>1, <2>2, <2>3 DEF CallsTyped, CachesBounded, CacheTypeOK, Places
<1>6. RegistryInv /\ DiskInv /\ UploadInv /\ CpuInv /\ ReturnsWhole /\ CallInv /\ CachesBounded => GuiTypeOK
  BY <1>1, <1>2, <1>3, <1>4, <1>5 DEF GuiTypeOK
<1>7. QED
  BY <1>6, PartsOfTheWhole, RegistryInvariant, DiskInvariant, UploadInvariant, CpuInvariant,
     MapsReturnWhole, CallInvariant, CachesAlwaysBounded, PTL

\* What is proved of the parts holds of the GUI they make up.
COROLLARY PartsKeepTheirPromises ==
  Spec => /\ NeverRevived /\ UploadsAccounted /\ KeepsPromise
          /\ []KernelsWithinShare /\ []ReportsOfTheirPixels
<1>1. QED
  BY PartsOfTheWhole, NothingRevived, UploadsAlwaysAccounted, PromiseKept,
     KernelsAlwaysWithinShare, ReportsAlwaysOfTheirPixels, PTL
=============================================================================
