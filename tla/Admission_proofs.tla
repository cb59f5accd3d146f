-------------------------- MODULE Admission_proofs --------------------------
(***************************************************************************)
(* Proofs about the parts MCAdmission puts side by side: RenderScheduler,  *)
(* for any number of threads, any set of slot categories and any quotas;   *)
(* PreviewStore, for any finite set of requests, any files, calibrations,  *)
(* quotas and bounds.                                                      *)
(***************************************************************************)
EXTENDS RenderScheduler, PreviewStore, FiniteSetTheorems, TLAPS

\* Adding or removing one element changes a cardinality by what the element
\* was and becomes.
LEMMA CountOne ==
    ASSUME NEW S, NEW T, NEW x, IsFiniteSet(S), T \ {x} = S \ {x}
    PROVE  /\ IsFiniteSet(T)
           /\ Cardinality(S) \in Nat /\ Cardinality(T) \in Nat
           /\ Cardinality(T) = Cardinality(S) + (IF x \in T THEN 1 ELSE 0)
                                              - (IF x \in S THEN 1 ELSE 0)
<1> DEFINE R == S \ {x}
<1>1. /\ IsFiniteSet(R) /\ Cardinality(R) \in Nat
      /\ Cardinality(S) \in Nat
      /\ Cardinality(R) = IF x \in S THEN Cardinality(S) - 1 ELSE Cardinality(S)
  BY FS_RemoveElement, FS_CardinalityType
<1>2. CASE x \in T
  <2>1. T = R \cup {x} /\ x \notin R
    BY <1>2
  <2>2. IsFiniteSet(T) /\ Cardinality(T) = Cardinality(R) + 1
    BY <1>1, <2>1, FS_AddElement
  <2> QED
    BY <1>1, <1>2, <2>2
<1>3. CASE x \notin T
  <2>1. T = R
    BY <1>3
  <2> QED
    BY <1>1, <1>3, <2>1
<1> QED
  BY <1>2, <1>3

-----------------------------------------------------------------------------
(* Render slots

   No property is inductive alone.  The quota bound needs that permits and
   owners add up, which needs a thread to have one lease at a time: with two,
   leaving one slot would not say which permit comes back. *)

\* The published count is the number of admitted requests.
ActiveCounted == \A k \in Kinds : active[k] = Cardinality(Members(k))

\* A thread has a lease of at most one kind (slot() borrows or refuses).
OneLease ==
    \A t \in Threads : \A j, k \in Kinds :
        lease[t][j] # "none" /\ lease[t][k] # "none" => j = k

IInv ==
    /\ TypeOK
    /\ permits \in [Kinds -> Nat]
    /\ PermitsConserved
    /\ ActiveCounted
    /\ OneLease

\* A step of one thread's lease of one kind.
SetLease(t, k, s) == lease' = [lease EXCEPT ![t][k] = s]

Weight(status, class) == IF status \in class THEN 1 ELSE 0

-----------------------------------------------------------------------------
(* Steps of one lease *)

\* What one step of a thread's lease of one kind does to owners and members.
LEMMA LeaseStep ==
    ASSUME TypeOK, NEW t \in Threads, NEW k \in Kinds, NEW s \in Status,
           SetLease(t, k, s)
    PROVE  /\ lease' \in [Threads -> [Kinds -> Status]]
           /\ lease'[t][k] = s
           /\ \A u \in Threads : \A j \in Kinds :
                 u # t \/ j # k => lease'[u][j] = lease[u][j]
           /\ \A j \in Kinds : j # k => Owners(j)' = Owners(j) /\ Members(j)' = Members(j)
           /\ Cardinality(Owners(k)) \in Nat /\ Cardinality(Members(k)) \in Nat
           /\ Cardinality(Owners(k)') =
                Cardinality(Owners(k)) + Weight(s, Owning) - Weight(lease[t][k], Owning)
           /\ Cardinality(Members(k)') =
                Cardinality(Members(k)) + Weight(s, Accounted) - Weight(lease[t][k], Accounted)
<1>1. lease \in [Threads -> [Kinds -> Status]]
  BY DEF TypeOK
<1>2. /\ lease' \in [Threads -> [Kinds -> Status]]
      /\ lease'[t][k] = s
      /\ \A u \in Threads : \A j \in Kinds :
            u # t \/ j # k => lease'[u][j] = lease[u][j]
  BY <1>1 DEF SetLease
<1>3. \A j \in Kinds : j # k => Owners(j)' = Owners(j) /\ Members(j)' = Members(j)
  BY <1>2 DEF Owners, Members
<1>4. /\ Cardinality(Owners(k)) \in Nat
      /\ Cardinality(Owners(k)') =
           Cardinality(Owners(k)) + Weight(s, Owning) - Weight(lease[t][k], Owning)
  <2>1. IsFiniteSet(Owners(k))
    BY ThreadsAssumption, FS_Subset DEF Owners
  <2>2. Owners(k)' \ {t} = Owners(k) \ {t}
    BY <1>2 DEF Owners
  <2>3. (t \in Owners(k)' <=> s \in Owning) /\ (t \in Owners(k) <=> lease[t][k] \in Owning)
    BY <1>2 DEF Owners
  <2> QED
    BY <2>1, <2>2, <2>3, CountOne DEF Weight
<1>5. /\ Cardinality(Members(k)) \in Nat
      /\ Cardinality(Members(k)') =
           Cardinality(Members(k)) + Weight(s, Accounted) - Weight(lease[t][k], Accounted)
  <2>1. IsFiniteSet(Members(k))
    BY ThreadsAssumption, FS_Subset DEF Members
  <2>2. Members(k)' \ {t} = Members(k) \ {t}
    BY <1>2 DEF Members
  <2>3. (t \in Members(k)' <=> s \in Accounted) /\ (t \in Members(k) <=> lease[t][k] \in Accounted)
    BY <1>2 DEF Members
  <2> QED
    BY <2>1, <2>2, <2>3, CountOne DEF Weight
<1> QED
  BY <1>2, <1>3, <1>4, <1>5

\* IInv without the types of the variables a thread keeps for itself.
Core ==
    /\ lease \in [Threads -> [Kinds -> Status]]
    /\ permits \in [Kinds -> Nat]
    /\ active \in [Kinds -> Int]
    /\ PermitsConserved
    /\ ActiveCounted
    /\ OneLease

\* A step of one lease that moves the permit and the accounting with the
\* status keeps the core, if a new lease is only opened by an idle thread.
LEMMA BalancedStep ==
    ASSUME IInv, NEW t \in Threads, NEW k \in Kinds, NEW s \in Status,
           SetLease(t, k, s),
           lease[t][k] # "none" \/ Idle(t),
           permits' \in [Kinds -> Int], active' \in [Kinds -> Int],
           \A j \in Kinds : j # k => permits'[j] = permits[j] /\ active'[j] = active[j],
           permits'[k] = permits[k] + Weight(lease[t][k], Owning) - Weight(s, Owning),
           active'[k] = active[k] + Weight(s, Accounted) - Weight(lease[t][k], Accounted),
           permits'[k] >= 0
    PROVE  Core'
<1>1. /\ TypeOK /\ permits \in [Kinds -> Nat] /\ active \in [Kinds -> Int]
      /\ PermitsConserved /\ ActiveCounted /\ OneLease
  BY DEF IInv, TypeOK
<1>2. /\ lease' \in [Threads -> [Kinds -> Status]]
      /\ lease'[t][k] = s
      /\ \A u \in Threads : \A j \in Kinds :
           u # t \/ j # k => lease'[u][j] = lease[u][j]
      /\ \A j \in Kinds : j # k => Owners(j)' = Owners(j) /\ Members(j)' = Members(j)
      /\ Cardinality(Owners(k)) \in Nat /\ Cardinality(Members(k)) \in Nat
      /\ Cardinality(Owners(k)') =
           Cardinality(Owners(k)) + Weight(s, Owning) - Weight(lease[t][k], Owning)
      /\ Cardinality(Members(k)') =
           Cardinality(Members(k)) + Weight(s, Accounted) - Weight(lease[t][k], Accounted)
  BY <1>1, LeaseStep
<1>3. permits' \in [Kinds -> Nat]
  <2>1. \A j \in Kinds : permits'[j] \in Nat
    BY <1>1
  <2> QED
    BY <2>1
<1>4. PermitsConserved'
  <2> SUFFICES ASSUME NEW j \in Kinds
               PROVE  permits'[j] + Cardinality(Owners(j)') = Quotas[j]
    BY DEF PermitsConserved
  <2>1. permits[j] + Cardinality(Owners(j)) = Quotas[j]
    BY <1>1 DEF PermitsConserved
  <2>2. CASE j = k
    <3>1. permits[k] \in Nat
      BY <1>1
    <3>2. Weight(s, Owning) \in Int /\ Weight(lease[t][k], Owning) \in Int
      BY DEF Weight
    <3> QED
      BY <1>2, <2>1, <2>2, <3>1, <3>2
  <2>3. CASE j # k
    BY <1>2, <2>1, <2>3
  <2> QED
    BY <2>2, <2>3
<1>5. ActiveCounted'
  <2> SUFFICES ASSUME NEW j \in Kinds
               PROVE  active'[j] = Cardinality(Members(j)')
    BY DEF ActiveCounted
  <2>1. active[j] = Cardinality(Members(j))
    BY <1>1 DEF ActiveCounted
  <2>2. CASE j = k
    BY <1>2, <2>1, <2>2
  <2>3. CASE j # k
    BY <1>2, <2>1, <2>3
  <2> QED
    BY <2>2, <2>3
<1>6. OneLease'
  BY <1>1, <1>2 DEF OneLease, Idle
<1> QED
  BY <1>2, <1>3, <1>4, <1>5, <1>6 DEF Core

\* A step that leaves leases, permits and accounting alone keeps the core.
LEMMA UntouchedStep ==
    ASSUME IInv, UNCHANGED <<permits, active, lease>>
    PROVE  Core'
BY DEF IInv, TypeOK, Core, PermitsConserved, ActiveCounted, OneLease, Owners, Members

-----------------------------------------------------------------------------
(* The inductive invariant *)

\* Nobody owns anything when the scheduler is created (__init__).
LEMMA InitInv == Init => IInv
<1> SUFFICES ASSUME Init PROVE IInv
  OBVIOUS
<1>1. TypeOK /\ permits \in [Kinds -> Nat] /\ OneLease
  BY QuotasAssumption, BoundsAssumption DEF Init, TypeOK, Status, OneLease
<1>2. \A k \in Kinds : Owners(k) = {} /\ Members(k) = {}
  BY DEF Init, Owners, Members, Owning, Accounted
<1>3. \A k \in Kinds : Cardinality(Owners(k)) = 0 /\ Cardinality(Members(k)) = 0
  BY <1>2, FS_EmptySet
<1>4. PermitsConserved /\ ActiveCounted
  BY <1>3, QuotasAssumption DEF PermitsConserved, ActiveCounted, Init
<1> QED
  BY <1>1, <1>4 DEF IInv

\* Every action keeps permits, admissions and leases in step: one case each.
LEMMA CoreStep == IInv /\ [Next]_vars => Core'
<1> SUFFICES ASSUME IInv, [Next]_vars PROVE Core'
  OBVIOUS
<1>t. /\ lease \in [Threads -> [Kinds -> Status]]
      /\ permits \in [Kinds -> Nat] /\ active \in [Kinds -> Int]
  BY DEF IInv, TypeOK
<1>1. ASSUME NEW t \in Threads, NEW k \in Kinds, SlotEnter(t, k) PROVE Core'
  <2>1. SetLease(t, k, "queued") /\ "queued" \in Status
    BY <1>1 DEF SlotEnter, SetLease, Status
  <2>2. /\ lease[t][k] # "none" \/ Idle(t)
        /\ permits' \in [Kinds -> Int] /\ active' \in [Kinds -> Int]
        /\ \A j \in Kinds : j # k => permits'[j] = permits[j] /\ active'[j] = active[j]
        /\ permits'[k] = permits[k] + Weight(lease[t][k], Owning) - Weight("queued", Owning)
        /\ active'[k] = active[k] + Weight("queued", Accounted) - Weight(lease[t][k], Accounted)
        /\ permits'[k] >= 0
    BY <1>t, <1>1 DEF SlotEnter, Idle, Weight, Owning, Accounted
  <2> QED
    BY <2>1, <2>2, BalancedStep
<1>2. ASSUME NEW t \in Threads, NEW k \in Kinds, AcquirePermit(t, k) PROVE Core'
  <2>1. SetLease(t, k, "taken") /\ "taken" \in Status
    BY <1>2 DEF AcquirePermit, SetLease, Status
  <2>2. /\ lease[t][k] # "none" \/ Idle(t)
        /\ permits' \in [Kinds -> Int] /\ active' \in [Kinds -> Int]
        /\ \A j \in Kinds : j # k => permits'[j] = permits[j] /\ active'[j] = active[j]
        /\ permits'[k] = permits[k] + Weight(lease[t][k], Owning) - Weight("taken", Owning)
        /\ active'[k] = active[k] + Weight("taken", Accounted) - Weight(lease[t][k], Accounted)
        /\ permits'[k] >= 0
    BY <1>t, <1>2 DEF AcquirePermit, Idle, Weight, Owning, Accounted
  <2> QED
    BY <2>1, <2>2, BalancedStep
<1>3. ASSUME NEW t \in Threads, NEW k \in Kinds, RegisterAdmission(t, k) PROVE Core'
  <2>1. SetLease(t, k, "counted") /\ "counted" \in Status
    BY <1>3 DEF RegisterAdmission, SetLease, Status
  <2>2. /\ lease[t][k] # "none" \/ Idle(t)
        /\ permits' \in [Kinds -> Int] /\ active' \in [Kinds -> Int]
        /\ \A j \in Kinds : j # k => permits'[j] = permits[j] /\ active'[j] = active[j]
        /\ permits'[k] = permits[k] + Weight(lease[t][k], Owning) - Weight("counted", Owning)
        /\ active'[k] = active[k] + Weight("counted", Accounted) - Weight(lease[t][k], Accounted)
        /\ permits'[k] >= 0
    BY <1>t, <1>3 DEF RegisterAdmission, Idle, Weight, Owning, Accounted
  <2> QED
    BY <2>1, <2>2, BalancedStep
<1>4. ASSUME NEW t \in Threads, NEW k \in Kinds, AcquireReturns(t, k) PROVE Core'
  <2>1. SetLease(t, k, "held") /\ "held" \in Status
    BY <1>4 DEF AcquireReturns, SetLease, Status
  <2>2. /\ lease[t][k] # "none" \/ Idle(t)
        /\ permits' \in [Kinds -> Int] /\ active' \in [Kinds -> Int]
        /\ \A j \in Kinds : j # k => permits'[j] = permits[j] /\ active'[j] = active[j]
        /\ permits'[k] = permits[k] + Weight(lease[t][k], Owning) - Weight("held", Owning)
        /\ active'[k] = active[k] + Weight("held", Accounted) - Weight(lease[t][k], Accounted)
        /\ permits'[k] >= 0
    BY <1>t, <1>4 DEF AcquireReturns, Idle, Weight, Owning, Accounted
  <2> QED
    BY <2>1, <2>2, BalancedStep
<1>5. ASSUME NEW t \in Threads, NEW k \in Kinds, InterruptRegistration(t, k) PROVE Core'
  <2>1. SetLease(t, k, "aborting") /\ "aborting" \in Status
    BY <1>5 DEF InterruptRegistration, SetLease, Status
  <2>2. /\ lease[t][k] # "none" \/ Idle(t)
        /\ permits' \in [Kinds -> Int] /\ active' \in [Kinds -> Int]
        /\ \A j \in Kinds : j # k => permits'[j] = permits[j] /\ active'[j] = active[j]
        /\ permits'[k] = permits[k] + Weight(lease[t][k], Owning) - Weight("aborting", Owning)
        /\ active'[k] = active[k] + Weight("aborting", Accounted) - Weight(lease[t][k], Accounted)
        /\ permits'[k] >= 0
    BY <1>t, <1>5 DEF InterruptRegistration, Idle, Weight, Owning, Accounted
  <2> QED
    BY <2>1, <2>2, BalancedStep
<1>6. ASSUME NEW t \in Threads, NEW k \in Kinds, ReleaseForWait(t, k) PROVE Core'
  <2>1. SetLease(t, k, "paused") /\ "paused" \in Status
    BY <1>6 DEF ReleaseForWait, SetLease, Status
  <2>2. /\ lease[t][k] # "none" \/ Idle(t)
        /\ permits' \in [Kinds -> Int] /\ active' \in [Kinds -> Int]
        /\ \A j \in Kinds : j # k => permits'[j] = permits[j] /\ active'[j] = active[j]
        /\ permits'[k] = permits[k] + Weight(lease[t][k], Owning) - Weight("paused", Owning)
        /\ active'[k] = active[k] + Weight("paused", Accounted) - Weight(lease[t][k], Accounted)
        /\ permits'[k] >= 0
    BY <1>t, <1>6 DEF ReleaseForWait, Idle, Weight, Owning, Accounted
  <2> QED
    BY <2>1, <2>2, BalancedStep
<1>7. ASSUME NEW t \in Threads, NEW k \in Kinds, ResumeLease(t, k) PROVE Core'
  <2>1. SetLease(t, k, "queued") /\ "queued" \in Status
    BY <1>7 DEF ResumeLease, SetLease, Status
  <2>2. /\ lease[t][k] # "none" \/ Idle(t)
        /\ permits' \in [Kinds -> Int] /\ active' \in [Kinds -> Int]
        /\ \A j \in Kinds : j # k => permits'[j] = permits[j] /\ active'[j] = active[j]
        /\ permits'[k] = permits[k] + Weight(lease[t][k], Owning) - Weight("queued", Owning)
        /\ active'[k] = active[k] + Weight("queued", Accounted) - Weight(lease[t][k], Accounted)
        /\ permits'[k] >= 0
    BY <1>t, <1>7 DEF ResumeLease, Idle, Weight, Owning, Accounted
  <2> QED
    BY <2>1, <2>2, BalancedStep
<1>8. ASSUME NEW t \in Threads, NEW k \in Kinds, FinishLease(t, k) PROVE Core'
  <2>1. SetLease(t, k, "closing") /\ "closing" \in Status
    BY <1>8 DEF FinishLease, SetLease, Status
  <2>2. /\ lease[t][k] # "none" \/ Idle(t)
        /\ permits' \in [Kinds -> Int] /\ active' \in [Kinds -> Int]
        /\ \A j \in Kinds : j # k => permits'[j] = permits[j] /\ active'[j] = active[j]
        /\ permits'[k] = permits[k] + Weight(lease[t][k], Owning) - Weight("closing", Owning)
        /\ active'[k] = active[k] + Weight("closing", Accounted) - Weight(lease[t][k], Accounted)
        /\ permits'[k] >= 0
    BY <1>t, <1>8 DEF FinishLease, Idle, Weight, Owning, Accounted
  <2> QED
    BY <2>1, <2>2, BalancedStep
<1>9. ASSUME NEW t \in Threads, NEW k \in Kinds, ReleaseSlot(t, k) PROVE Core'
  <2>1. SetLease(t, k, "none") /\ "none" \in Status
    BY <1>9 DEF ReleaseSlot, SetLease, Status
  <2>2. /\ lease[t][k] # "none" \/ Idle(t)
        /\ permits' \in [Kinds -> Int] /\ active' \in [Kinds -> Int]
        /\ \A j \in Kinds : j # k => permits'[j] = permits[j] /\ active'[j] = active[j]
        /\ permits'[k] = permits[k] + Weight(lease[t][k], Owning) - Weight("none", Owning)
        /\ active'[k] = active[k] + Weight("none", Accounted) - Weight(lease[t][k], Accounted)
        /\ permits'[k] >= 0
    BY <1>t, <1>9 DEF ReleaseSlot, Idle, Weight, Owning, Accounted
  <2> QED
    BY <2>1, <2>2, BalancedStep
<1>10. ASSUME NEW t \in Threads, NEW k \in Kinds, InterruptQueued(t, k) PROVE Core'
  <2>1. CASE waiting[t]
    BY <1>10, <2>1, UntouchedStep DEF InterruptQueued
  <2>2. CASE ~waiting[t]
    <3>1. SetLease(t, k, "none") /\ "none" \in Status
      BY <1>10, <2>2 DEF InterruptQueued, SetLease, Status
    <3>2. /\ lease[t][k] = "queued" /\ UNCHANGED <<permits, active>>
      BY <1>10 DEF InterruptQueued
    <3>3. /\ Weight("queued", Owning) = 0 /\ Weight("none", Owning) = 0
          /\ Weight("queued", Accounted) = 0 /\ Weight("none", Accounted) = 0
      BY DEF Weight, Owning, Accounted
    <3>4. /\ permits'[k] = permits[k] + Weight(lease[t][k], Owning) - Weight("none", Owning)
          /\ active'[k] = active[k] + Weight("none", Accounted) - Weight(lease[t][k], Accounted)
          /\ permits'[k] >= 0
      BY <1>t, <3>2, <3>3
    <3>5. /\ lease[t][k] # "none"
          /\ permits' \in [Kinds -> Int] /\ active' \in [Kinds -> Int]
          /\ \A j \in Kinds : j # k => permits'[j] = permits[j] /\ active'[j] = active[j]
      BY <1>t, <3>2
    <3> QED
      BY <3>1, <3>4, <3>5, BalancedStep
  <2> QED
    BY <2>1, <2>2
<1>11. ASSUME NEW t \in Threads, NEW k \in Kinds, NEW s \in {"none", "queued"},
              s = IF waiting[t] THEN "queued" ELSE "none", ReleaseAborted(t, k)
       PROVE  Core'
  <2>1. SetLease(t, k, s) /\ s \in Status
    BY <1>11 DEF ReleaseAborted, SetLease, Status
  <2>2. /\ lease[t][k] = "aborting" /\ active' = active
        /\ permits' = [permits EXCEPT ![k] = @ + 1]
    BY <1>11 DEF ReleaseAborted
  <2>3. /\ Weight("aborting", Owning) = 1 /\ Weight(s, Owning) = 0
        /\ Weight("aborting", Accounted) = 0 /\ Weight(s, Accounted) = 0
    BY <1>11 DEF Weight, Owning, Accounted
  <2>4. /\ permits'[k] = permits[k] + Weight(lease[t][k], Owning) - Weight(s, Owning)
        /\ active'[k] = active[k] + Weight(s, Accounted) - Weight(lease[t][k], Accounted)
        /\ permits'[k] >= 0
    BY <1>t, <2>2, <2>3
  <2>5. /\ lease[t][k] # "none"
        /\ permits' \in [Kinds -> Int] /\ active' \in [Kinds -> Int]
        /\ \A j \in Kinds : j # k => permits'[j] = permits[j] /\ active'[j] = active[j]
    BY <1>t, <2>2
  <2> QED
    BY <2>1, <2>4, <2>5, BalancedStep
<1>12. ASSUME NEW t \in Threads, BeginSharedWait(t) PROVE Core'
  <2>1. PICK k \in Kinds : lease[t][k] = "held"
    BY <1>12 DEF BeginSharedWait, InBody
  <2>2. \A j \in Kinds : j # k => lease[t][j] = "none"
    BY <2>1 DEF IInv, OneLease
  <2>3. permits' = permits
    BY <1>12 DEF BeginSharedWait
  <2>4. CASE k \in Interactive
    <3>1. SetLease(t, k, "pausing")
      <4>1. [j \in Kinds |-> IF j \in Interactive /\ lease[t][j] = "held"
                               THEN "pausing" ELSE lease[t][j]]
              = [lease[t] EXCEPT ![k] = "pausing"]
        BY <1>t, <2>1, <2>2, <2>4
      <4> QED
        BY <1>t, <1>12, <4>1 DEF BeginSharedWait, SetLease
    <3>2. /\ active' \in [Kinds -> Int]
          /\ \A j \in Kinds : j # k => active'[j] = active[j]
          /\ active'[k] = active[k] - 1
      BY <1>t, <1>12, <2>1, <2>2, <2>4 DEF BeginSharedWait
    <3>3. /\ Weight("held", Owning) = 1 /\ Weight("pausing", Owning) = 1
          /\ Weight("held", Accounted) = 1 /\ Weight("pausing", Accounted) = 0
      BY DEF Weight, Owning, Accounted
    <3>4. /\ permits'[k] = permits[k] + Weight(lease[t][k], Owning) - Weight("pausing", Owning)
          /\ active'[k] = active[k] + Weight("pausing", Accounted) - Weight(lease[t][k], Accounted)
          /\ permits'[k] >= 0
      BY <1>t, <2>1, <2>3, <3>2, <3>3
    <3>5. "pausing" \in Status
      BY DEF Status
    <3>6. /\ lease[t][k] # "none" /\ permits' \in [Kinds -> Int]
          /\ \A j \in Kinds : j # k => permits'[j] = permits[j] /\ active'[j] = active[j]
      BY <1>t, <2>1, <2>3, <3>2
    <3> QED
      BY <3>1, <3>2, <3>4, <3>5, <3>6, BalancedStep
  <2>5. CASE k \notin Interactive
    <3>1. lease' = lease
      <4>1. [j \in Kinds |-> IF j \in Interactive /\ lease[t][j] = "held"
                               THEN "pausing" ELSE lease[t][j]] = lease[t]
        BY <1>t, <2>1, <2>2, <2>5
      <4> QED
        BY <1>t, <1>12, <4>1 DEF BeginSharedWait
    <3>2. active' = active
      BY <1>t, <1>12, <2>1, <2>2, <2>5 DEF BeginSharedWait
    <3> QED
      BY <2>3, <3>1, <3>2, UntouchedStep
  <2> QED
    BY <2>4, <2>5
<1>13. ASSUME NEW t \in Threads, NEW k \in Kinds, SlotBorrow(t, k) \/ SlotReject(t, k)
       PROVE  Core'
  BY <1>13, UntouchedStep DEF SlotBorrow, SlotReject
<1>14. ASSUME NEW t \in Threads, EndPlainWait(t) \/ CatchInBody(t) \/ ExitBorrowed(t)
       PROVE  Core'
  BY <1>14, UntouchedStep DEF EndPlainWait, CatchInBody, ExitBorrowed
<1>15. CASE Quiet \/ UNCHANGED vars
  BY <1>15, UntouchedStep DEF Quiet, vars
<1> QED
  BY <1>1, <1>2, <1>3, <1>4, <1>5, <1>6, <1>7, <1>8, <1>9, <1>10, <1>11, <1>12,
     <1>13, <1>14, <1>15
  DEF Next, Progress, Request

\* The variables a thread keeps for itself stay in their types.
LEMMA TypeStep == IInv /\ Core' /\ [Next]_vars => TypeOK'
<1> SUFFICES ASSUME IInv, Core', [Next]_vars PROVE TypeOK'
  OBVIOUS
<1> DEFINE Counters ==
      /\ depth' \in [Threads -> 0..MaxDepth]
      /\ calls' \in [Threads -> 0..MaxCalls]
      /\ interrupts' \in 0..MaxInterrupts
<1> DEFINE Flags ==
      /\ waiting' \in [Threads -> BOOLEAN]
      /\ pending' \in [Threads -> BOOLEAN]
      /\ raised' \in [Threads -> BOOLEAN]
<1>n. /\ MaxDepth \in Nat /\ MaxCalls \in Nat /\ MaxInterrupts \in Nat
      /\ depth \in [Threads -> 0..MaxDepth]
      /\ calls \in [Threads -> 0..MaxCalls]
      /\ interrupts \in 0..MaxInterrupts
  BY BoundsAssumption DEF IInv, TypeOK
<1>b. /\ waiting \in [Threads -> BOOLEAN]
      /\ pending \in [Threads -> BOOLEAN]
      /\ raised \in [Threads -> BOOLEAN]
  BY DEF IInv, TypeOK
<1>1. ASSUME NEW t \in Threads, NEW k \in Kinds,
             SlotEnter(t, k) \/ SlotBorrow(t, k) \/ SlotReject(t, k)
      PROVE  Counters /\ Flags
  <2>1. Counters
    BY <1>n, <1>1 DEF SlotEnter, SlotBorrow, SlotReject, Call
  <2>2. Flags
    BY <1>b, <1>1 DEF SlotEnter, SlotBorrow, SlotReject
  <2> QED
    BY <2>1, <2>2
<1>2. ASSUME NEW t \in Threads, NEW k \in Kinds,
             AcquirePermit(t, k) \/ RegisterAdmission(t, k) \/ AcquireReturns(t, k)
      PROVE  Counters /\ Flags
  <2>1. Counters
    BY <1>n, <1>2 DEF AcquirePermit, RegisterAdmission, AcquireReturns
  <2>2. Flags
    BY <1>b, <1>2 DEF AcquirePermit, RegisterAdmission, AcquireReturns
  <2> QED
    BY <2>1, <2>2
<1>3. ASSUME NEW t \in Threads, NEW k \in Kinds,
             \/ InterruptQueued(t, k) \/ InterruptRegistration(t, k)
             \/ ReleaseAborted(t, k)
      PROVE  Counters /\ Flags
  <2>1. Counters
    BY <1>n, <1>3 DEF InterruptQueued, InterruptRegistration, ReleaseAborted
  <2>2. Flags
    BY <1>b, <1>3 DEF InterruptQueued, InterruptRegistration, ReleaseAborted
  <2> QED
    BY <2>1, <2>2
<1>4. ASSUME NEW t \in Threads, NEW k \in Kinds,
             \/ ReleaseForWait(t, k) \/ ResumeLease(t, k)
             \/ FinishLease(t, k) \/ ReleaseSlot(t, k)
      PROVE  Counters /\ Flags
  <2>1. Counters
    BY <1>n, <1>4 DEF ReleaseForWait, ResumeLease, FinishLease, ReleaseSlot
  <2>2. Flags
    BY <1>b, <1>4 DEF ReleaseForWait, ResumeLease, FinishLease, ReleaseSlot
  <2> QED
    BY <2>1, <2>2
<1>5. ASSUME NEW t \in Threads,
             \/ BeginSharedWait(t) \/ EndPlainWait(t)
             \/ CatchInBody(t) \/ ExitBorrowed(t)
      PROVE  Counters /\ Flags
  <2>1. Counters
    BY <1>n, <1>5 DEF BeginSharedWait, EndPlainWait, CatchInBody, ExitBorrowed, Call
  <2>2. Flags
    BY <1>b, <1>5 DEF BeginSharedWait, EndPlainWait, CatchInBody, ExitBorrowed
  <2> QED
    BY <2>1, <2>2
<1>6. ASSUME Quiet \/ UNCHANGED vars
      PROVE  Counters /\ Flags
  BY <1>n, <1>b, <1>6 DEF Quiet, vars
<1>7. Counters /\ Flags
  <2> HIDE DEF Counters, Flags
  <2> QED
    BY <1>1, <1>2, <1>3, <1>4, <1>5, <1>6 DEF Next, Progress, Request
<1>8. permits' \in [Kinds -> Int] /\ active' \in [Kinds -> Int]
  BY DEF Core
<1> QED
  BY <1>7, <1>8 DEF TypeOK, Core

\* The inductive invariant holds in every behaviour: one lease per thread, and
\* permits and admissions that add up across acquire, pause, rollback, release.
THEOREM Invariance == Spec => []IInv
<1>1. IInv /\ [Next]_vars => IInv'
  BY CoreStep, TypeStep DEF IInv, Core
<1> QED
  BY InitInv, <1>1, PTL DEF Spec

-----------------------------------------------------------------------------
(* The properties *)

\* The variables keep their types whatever the threads do.
THEOREM TypeCorrectness == Spec => []TypeOK
BY Invariance, PTL DEF IInv

\* Permits and owners add up to the quota (acquire, resume, finish).
THEOREM PermitsNeverLost == Spec => []PermitsConserved
BY Invariance, PTL DEF IInv

\* Owners never outnumber the quota, so neither do those that compute.
LEMMA OwnersBounded ==
    ASSUME IInv, NEW k \in Kinds
    PROVE  /\ IsFiniteSet(Owners(k))
           /\ Cardinality(Owners(k)) \in Nat
           /\ Cardinality(Owners(k)) <= Quotas[k]
<1>1. IsFiniteSet(Owners(k))
  BY ThreadsAssumption, FS_Subset DEF Owners
<1>2. Cardinality(Owners(k)) \in Nat
  BY <1>1, FS_CardinalityType
<1>3. permits[k] \in Nat /\ permits[k] + Cardinality(Owners(k)) = Quotas[k]
  BY DEF IInv, PermitsConserved
<1> QED
  BY <1>1, <1>2, <1>3, QuotasAssumption

\* "The class quotas are the memory contract": for any number of requests, no
\* more of them compute in a slot of one kind than scheduler.py allows.
THEOREM QuotaAlwaysRespected == Spec => []QuotaRespected
<1>1. IInv => QuotaRespected
  <2> SUFFICES ASSUME IInv, NEW k \in Kinds
               PROVE  Cardinality(Computing(k)) <= Quotas[k]
    BY DEF QuotaRespected
  <2>1. Computing(k) \subseteq Owners(k)
    BY DEF Computing, Owners, Owning
  <2>2. /\ IsFiniteSet(Owners(k)) /\ Cardinality(Owners(k)) \in Nat
        /\ Cardinality(Owners(k)) <= Quotas[k]
    BY OwnersBounded
  <2>3. /\ IsFiniteSet(Computing(k))
        /\ Cardinality(Computing(k)) <= Cardinality(Owners(k))
    BY <2>1, <2>2, FS_Subset
  <2> QED
    BY <2>2, <2>3, FS_CardinalityType, QuotasAssumption
<1> QED
  BY Invariance, <1>1, PTL

\* The count the GUI publishes is the number of admitted requests.
THEOREM ActiveAlwaysTruthful == Spec => []ActiveTruthful
<1>1. IInv => ActiveTruthful
  <2> SUFFICES ASSUME IInv, NEW k \in Kinds
               PROVE  active[k] = Cardinality(Members(k)) /\ active[k] <= Quotas[k]
    BY DEF ActiveTruthful
  <2>1. Members(k) \subseteq Owners(k)
    BY DEF Members, Owners, Owning, Accounted
  <2>2. /\ IsFiniteSet(Owners(k)) /\ Cardinality(Owners(k)) \in Nat
        /\ Cardinality(Owners(k)) <= Quotas[k]
    BY OwnersBounded
  <2>3. /\ IsFiniteSet(Members(k))
        /\ Cardinality(Members(k)) <= Cardinality(Owners(k))
    BY <2>1, <2>2, FS_Subset
  <2>4. active[k] = Cardinality(Members(k))
    BY DEF IInv, ActiveCounted
  <2> QED
    BY <2>2, <2>3, <2>4, FS_CardinalityType, QuotasAssumption
<1> QED
  BY Invariance, <1>1, PTL

\* Permits, owners and the published count agree with the quota and with each
\* other at every moment (acquire, resume, finish, snapshot).
THEOREM SlotsAlwaysAccounted == Spec => []SlotsAccounted
BY PermitsNeverLost, QuotaAlwaysRespected, ActiveAlwaysTruthful, PTL DEF SlotsAccounted

\* A thread that queues for a slot or waits for a flight with its slot given
\* back owns no other slot, so no cycle of waiting threads can form.
THEOREM NeverHoldAndWait == Spec => []NoHoldAndWait
<1>1. IInv => NoHoldAndWait
  <2> SUFFICES ASSUME IInv, NEW t \in Threads, NEW k \in Kinds,
                      lease[t][k] \in {"queued", "paused"}, NEW j \in Kinds
               PROVE  lease[t][j] \notin Owning
    BY DEF NoHoldAndWait
  <2>1. lease[t][j] # "none" => j = k
    BY DEF IInv, OneLease
  <2> QED
    BY <2>1 DEF Owning
<1> QED
  BY Invariance, <1>1, PTL

\* shared_flight_wait ends only with the slot it gave back owned again, after
\* an interrupt or a failed flight as well.
THEOREM AdmissionAlwaysRestored == Spec => AdmissionRestored
<1> DEFINE Restored ==
      \A t \in Threads : (waiting[t] /\ ~waiting'[t]) =>
        \E k \in Kinds : lease[t][k] # "none" /\ lease'[t][k] = "held"
<1>1. IInv /\ [Next]_vars => [Restored]_vars
  <2> SUFFICES ASSUME IInv, Next, NEW u \in Threads, waiting[u], ~waiting'[u]
               PROVE  \E k \in Kinds : lease[u][k] # "none" /\ lease'[u][k] = "held"
    OBVIOUS
  <2>t. /\ lease \in [Threads -> [Kinds -> Status]]
        /\ waiting \in [Threads -> BOOLEAN]
    BY DEF IInv, TypeOK
  <2>1. ASSUME NEW t \in Threads, NEW k \in Kinds, AcquireReturns(t, k)
        PROVE  \E j \in Kinds : lease[u][j] # "none" /\ lease'[u][j] = "held"
    <3>1. u = t
      BY <2>t, <2>1 DEF AcquireReturns
    <3>2. lease[u][k] = "counted" /\ lease'[u][k] = "held"
      BY <2>t, <2>1, <3>1 DEF AcquireReturns
    <3> QED
      BY <3>2
  <2>2. ASSUME NEW t \in Threads, EndPlainWait(t)
        PROVE  \E j \in Kinds : lease[u][j] # "none" /\ lease'[u][j] = "held"
    <3>1. u = t
      BY <2>t, <2>2 DEF EndPlainWait
    <3> QED
      BY <2>2, <3>1 DEF EndPlainWait
  <2>3. ASSUME NEW t \in Threads, BeginSharedWait(t)
        PROVE  FALSE
    BY <2>t, <2>3 DEF BeginSharedWait
  <2>4. UNCHANGED waiting => FALSE
    OBVIOUS
  <2>5. ASSUME NEW t \in Threads, NEW k \in Kinds,
               \/ SlotEnter(t, k) \/ SlotBorrow(t, k) \/ SlotReject(t, k)
               \/ AcquirePermit(t, k) \/ RegisterAdmission(t, k)
               \/ InterruptQueued(t, k) \/ InterruptRegistration(t, k)
               \/ ReleaseAborted(t, k) \/ ReleaseForWait(t, k) \/ ResumeLease(t, k)
               \/ FinishLease(t, k) \/ ReleaseSlot(t, k)
        PROVE  FALSE
    BY <2>4, <2>5 DEF SlotEnter, SlotBorrow, SlotReject, AcquirePermit, RegisterAdmission,
       InterruptQueued, InterruptRegistration, ReleaseAborted, ReleaseForWait, ResumeLease,
       FinishLease, ReleaseSlot
  <2>6. ASSUME NEW t \in Threads, CatchInBody(t) \/ ExitBorrowed(t)
        PROVE  FALSE
    BY <2>4, <2>6 DEF CatchInBody, ExitBorrowed
  <2>7. Quiet => FALSE
    BY <2>4 DEF Quiet, vars
  <2> QED
    BY <2>1, <2>2, <2>3, <2>5, <2>6, <2>7 DEF Next, Progress, Request
<1>2. [][Restored]_vars => AdmissionRestored
  BY PTL DEF AdmissionRestored
<1> QED
  BY Invariance, <1>1, <1>2, PTL DEF Spec

-----------------------------------------------------------------------------
(* The preview store

   The properties speak of answers; what makes them hold is who owns and who
   joined a flight while it runs, which StoreInv records. *)

\* The local state of a request, field by field.
Local(a, k, g, j, p, s, e) ==
    [at |-> a, key |-> k, guidance |-> g, joined |-> j, polled |-> p, stage |-> s, entry |-> e]

RequestShape ==
    /\ req = [r \in Requests |-> req[r]]
    /\ \A r \in Requests :
         req[r] = Local(req[r].at, req[r].key, req[r].guidance, req[r].joined,
                        req[r].polled, req[r].stage, req[r].entry)

Types ==
    /\ \A r \in Requests :
         /\ req[r].at \in Places
         /\ req[r].polled \in SUBSET Requests
         /\ req[r].stage \in 1..3
    /\ inflight \in [CacheKeys -> Requests \cup {Nobody}]
    /\ flight \in [Requests -> [interests : SUBSET Requests, landed : BOOLEAN,
                                error : {"none", "superseded", "failed"}]]
    /\ current \in [Requests -> BOOLEAN]
    /\ calibration \in Calibrations
    /\ editing \in {"idle", "written", "cleared"}

\* A request has its key before it looks for an entry.
KeysKnown ==
    \A r \in Requests :
        /\ req[r].at = "identify" => req[r].key[1] \in Files
        /\ req[r].at \notin {"new", "identify", "superseded"} => req[r].key \in CacheKeys

\* The work of a flight, before its finally block.
Running == HoldingFlight \ {"release"}

\* A running flight is the one on record for its key, and a flight on record
\* has an owner and has not been given up.
FlightsKnown ==
    /\ \A r \in Requests : req[r].at \in Running => inflight[req[r].key] = r
    /\ \A k \in CacheKeys : inflight[k] # Nobody =>
         /\ req[inflight[k]].at \in HoldingFlight
         /\ req[inflight[k]].key = k
         /\ flight[inflight[k]].error # "superseded"

\* A waiting request counts among those interested in a flight that will wake
\* it, as the owner does.
InterestKept ==
    \A r \in Requests :
        /\ req[r].at = "wait" =>
             /\ req[r].joined \in Requests
             /\ r \in flight[req[r].joined].interests
             /\ flight[req[r].joined].landed \/ req[req[r].joined].at \in HoldingFlight
        /\ req[r].at \in HoldingFlight => r \in flight[r].interests

\* A flight has an outcome only when its work is over, and one given up is of
\* interest to nobody that is still current.
OutcomeLast ==
    \A r \in Requests :
        /\ flight[r].landed => req[r].at \in {"submit", "release", "final"} \cup Answered
        /\ flight[r].error # "none" => req[r].at \in {"release"} \cup Answered
        /\ req[r].at = "abandon" => \A i \in req[r].polled : ~current[i]
        /\ flight[r].error = "superseded" => \A i \in flight[r].interests : ~current[i]

\* From the moment a request has an entry, it is one with the guidance asked
\* for, if the file can have it.
GuidanceKept ==
    \A r \in Requests :
        \/ req[r].at \in {"install", "trim", "land", "submit", "final", "served"}
        \/ req[r].at = "release" /\ flight[r].error = "none"
        => Suffices(req[r].entry, r) \/ req[r].key[1] \notin Measurable

\* The requests that hold a build slot; with the free ones they are all.
Builders == {r \in Requests : req[r].at \in Building}
SlotsKept == buildSlots \in Nat /\ buildSlots + Cardinality(Builders) = MaxBuilds

\* All that holds of the flights and their requests.
FlightInv ==
    /\ Types /\ KeysKnown /\ FlightsKnown /\ InterestKept /\ OutcomeLast
    /\ GuidanceKept

StoreInv == RequestShape /\ FlightInv /\ SlotsKept

-----------------------------------------------------------------------------
(* Steps of one request *)

\* Whatever the values of its fields, a request is a record of them.
LEMMA RequestRecords ==
    ASSUME RequestShape
    PROVE  \E A, K, G, J, P, S, E :
             req \in [Requests -> [at : A, key : K, guidance : G, joined : J,
                                   polled : P, stage : S, entry : E]]
<1> DEFINE A == {req[r].at : r \in Requests}
           K == {req[r].key : r \in Requests}
           G == {req[r].guidance : r \in Requests}
           J == {req[r].joined : r \in Requests}
           P == {req[r].polled : r \in Requests}
           S == {req[r].stage : r \in Requests}
           E == {req[r].entry : r \in Requests}
<1>1. ASSUME NEW r \in Requests
      PROVE  req[r] \in [at : A, key : K, guidance : G, joined : J,
                         polled : P, stage : S, entry : E]
  <2>1. /\ req[r].at \in A /\ req[r].key \in K /\ req[r].guidance \in G
        /\ req[r].joined \in J /\ req[r].polled \in P /\ req[r].stage \in S
        /\ req[r].entry \in E
    OBVIOUS
  <2> HIDE DEF A, K, G, J, P, S, E
  <2> QED
    BY <2>1 DEF RequestShape, Local
<1> HIDE DEF A, K, G, J, P, S, E
<1>2. req \in [Requests -> [at : A, key : K, guidance : G, joined : J,
                            polled : P, stage : S, entry : E]]
  BY <1>1 DEF RequestShape
<1> QED
  BY <1>2

\* Request r has a new local state, the others keep theirs.
Becomes(r, local) ==
    /\ req' = [q \in Requests |-> req'[q]]
    /\ req'[r] = local
    /\ \A q \in Requests : q # r => req'[q] = req[q]

\* The records keep their shape in such a step.
LEMMA ShapeKept ==
    ASSUME RequestShape, NEW r \in Requests,
           NEW a, NEW k, NEW g, NEW j, NEW p, NEW s, NEW e,
           Becomes(r, Local(a, k, g, j, p, s, e))
    PROVE  RequestShape'
BY DEF RequestShape, Local, Becomes

\* r keeps all but its place.
Moved(r, a) ==
    Local(a, req[r].key, req[r].guidance, req[r].joined, req[r].polled, req[r].stage, req[r].entry)

\* The updates the actions make, each a record of new fields and old ones.
LEMMA Updates ==
    ASSUME RequestShape, NEW r \in Requests, NEW a, NEW x, NEW y
    PROVE  /\ req' = [req EXCEPT ![r].at = a] => Becomes(r, Moved(r, a))
           /\ req' = [req EXCEPT ![r].at = a, ![r].guidance = x, ![r].key = y]
                => Becomes(r, Local(a, y, x, req[r].joined, req[r].polled, req[r].stage, req[r].entry))
           /\ req' = [req EXCEPT ![r].at = a, ![r].key = x]
                => Becomes(r, Local(a, x, req[r].guidance, req[r].joined, req[r].polled, req[r].stage, req[r].entry))
           /\ req' = [req EXCEPT ![r].at = a, ![r].entry = x]
                => Becomes(r, Local(a, req[r].key, req[r].guidance, req[r].joined, req[r].polled, req[r].stage, x))
           /\ req' = [req EXCEPT ![r].at = a, ![r].joined = x]
                => Becomes(r, Local(a, req[r].key, req[r].guidance, x, req[r].polled, req[r].stage, req[r].entry))
           /\ req' = [req EXCEPT ![r].at = a, ![r].polled = x]
                => Becomes(r, Local(a, req[r].key, req[r].guidance, req[r].joined, x, req[r].stage, req[r].entry))
           /\ req' = [req EXCEPT ![r].at = a, ![r].stage = x]
                => Becomes(r, Local(a, req[r].key, req[r].guidance, req[r].joined, req[r].polled, x, req[r].entry))
           /\ req' = [req EXCEPT ![r].at = a, ![r].stage = x, ![r].entry = y]
                => Becomes(r, Local(a, req[r].key, req[r].guidance, req[r].joined, req[r].polled, x, y))
<1>0. PICK A, K, G, J, P, S, E :
        req \in [Requests -> [at : A, key : K, guidance : G, joined : J,
                              polled : P, stage : S, entry : E]]
  BY RequestRecords
<1>1. req' = [req EXCEPT ![r].at = a] => Becomes(r, Moved(r, a))
  BY <1>0 DEF Becomes, Local, Moved
<1>2. ASSUME req' = [req EXCEPT ![r].at = a, ![r].guidance = x, ![r].key = y]
      PROVE  Becomes(r, Local(a, y, x, req[r].joined, req[r].polled, req[r].stage, req[r].entry))
  <2> DEFINE asked == [req EXCEPT ![r].at = a, ![r].guidance = x]
  <2>1. /\ asked \in [Requests -> [at : A \cup {a}, key : K, guidance : G \cup {x}, joined : J,
                                   polled : P, stage : S, entry : E]]
        /\ asked[r] = Local(a, req[r].key, x, req[r].joined, req[r].polled, req[r].stage,
                            req[r].entry)
        /\ \A q \in Requests : q # r => asked[q] = req[q]
    BY <1>0 DEF Local
  <2>2. req' = [asked EXCEPT ![r].key = y]
    BY <1>2
  <2> HIDE DEF asked
  <2>3. req'[r] = [asked[r] EXCEPT !.key = y]
    BY <2>1, <2>2
  <2>4. req'[r] = Local(a, y, x, req[r].joined, req[r].polled, req[r].stage, req[r].entry)
    BY <2>1, <2>3 DEF Local
  <2> QED
    BY <2>1, <2>2, <2>4 DEF Becomes
<1>3. req' = [req EXCEPT ![r].at = a, ![r].key = x]
        => Becomes(r, Local(a, x, req[r].guidance, req[r].joined, req[r].polled, req[r].stage, req[r].entry))
  BY <1>0 DEF Becomes, Local
<1>4. req' = [req EXCEPT ![r].at = a, ![r].entry = x]
        => Becomes(r, Local(a, req[r].key, req[r].guidance, req[r].joined, req[r].polled, req[r].stage, x))
  BY <1>0 DEF Becomes, Local
<1>5. req' = [req EXCEPT ![r].at = a, ![r].joined = x]
        => Becomes(r, Local(a, req[r].key, req[r].guidance, x, req[r].polled, req[r].stage, req[r].entry))
  BY <1>0 DEF Becomes, Local
<1>6. req' = [req EXCEPT ![r].at = a, ![r].polled = x]
        => Becomes(r, Local(a, req[r].key, req[r].guidance, req[r].joined, x, req[r].stage, req[r].entry))
  BY <1>0 DEF Becomes, Local
<1>7. req' = [req EXCEPT ![r].at = a, ![r].stage = x]
        => Becomes(r, Local(a, req[r].key, req[r].guidance, req[r].joined, req[r].polled, x, req[r].entry))
  BY <1>0 DEF Becomes, Local
<1>8. req' = [req EXCEPT ![r].at = a, ![r].stage = x, ![r].entry = y]
        => Becomes(r, Local(a, req[r].key, req[r].guidance, req[r].joined, req[r].polled, x, y))
  BY <1>0 DEF Becomes, Local
<1> QED
  BY <1>1, <1>2, <1>3, <1>4, <1>5, <1>6, <1>7, <1>8

\* The build slots a request holds in a place.
Slot(place) == IF place \in Building THEN 1 ELSE 0

\* A step of one request that takes or returns a build slot as it begins or
\* ends a build keeps the slots in step.
LEMMA SlotsStep ==
    ASSUME SlotsKept, NEW r \in Requests, NEW a, NEW k, NEW g, NEW j, NEW p, NEW s, NEW e,
           Becomes(r, Local(a, k, g, j, p, s, e)),
           buildSlots' = buildSlots + Slot(req[r].at) - Slot(a), buildSlots' >= 0
    PROVE  SlotsKept'
<1>1. IsFiniteSet(Builders)
  BY RequestsAssumption, FS_Subset DEF Builders
<1>2. Builders' \ {r} = Builders \ {r}
  BY DEF Builders, Becomes
<1>3. (r \in Builders' <=> a \in Building) /\ (r \in Builders <=> req[r].at \in Building)
  BY DEF Builders, Becomes, Local
<1>4. /\ Cardinality(Builders) \in Nat /\ Cardinality(Builders') \in Nat
      /\ Cardinality(Builders') = Cardinality(Builders) + Slot(a) - Slot(req[r].at)
  BY <1>1, <1>2, <1>3, CountOne DEF Slot
<1>5. Slot(a) \in {0, 1} /\ Slot(req[r].at) \in {0, 1}
  BY DEF Slot
<1> QED
  BY <1>4, <1>5 DEF SlotsKept

\* The owner of a running flight goes on with it.
LEMMA OwnerStep ==
    ASSUME FlightInv, NEW r \in Requests, req[r].at \in Running \ {"submit"},
           NEW a \in Running, NEW p \in SUBSET Requests, NEW s \in 1..3, NEW e,
           Becomes(r, Local(a, req[r].key, req[r].guidance, req[r].joined, p, s, e)),
           UNCHANGED <<inflight, flight, current, calibration, editing>>,
           a = "abandon" => \A i \in p : ~current[i],
           a \in {"install", "trim", "land", "submit"} /\ req[r].guidance
             => e.guided \/ req[r].key[1] \notin Measurable
    PROVE  FlightInv'
<1> USE DEF Becomes, Local
<1>t. /\ req'[r].at = a /\ req'[r].key = req[r].key /\ req'[r].polled = p
      /\ \A q \in Requests : q # r => req'[q] = req[q]
  OBVIOUS
<1>1. Types'
  BY DEF FlightInv, Types, Running, HoldingFlight, Building, Places
<1>2. KeysKnown'
  BY DEF FlightInv, KeysKnown, Running, HoldingFlight, Building, CacheKeys
<1>3. FlightsKnown'
  <2>1. ASSUME NEW q \in Requests, req'[q].at \in Running
        PROVE  inflight[req'[q].key] = q
    BY <2>1, <1>t DEF FlightInv, FlightsKnown
  <2>2. ASSUME NEW k \in CacheKeys, inflight[k] # Nobody
        PROVE  req'[inflight[k]].at \in HoldingFlight /\ req'[inflight[k]].key = k
    <3>1. inflight[k] \in Requests
      BY <2>2 DEF FlightInv, Types
    <3> QED
      BY <2>2, <3>1, <1>t DEF FlightInv, FlightsKnown, Running
  <2> QED
    BY <2>1, <2>2 DEF FlightInv, FlightsKnown
<1>4. InterestKept'
  <2>1. ASSUME NEW q \in Requests
        PROVE  /\ req'[q].at = "wait" => req[q].at = "wait" /\ req'[q].joined = req[q].joined
               /\ req'[q].at \in HoldingFlight <=> req[q].at \in HoldingFlight
    BY <1>t DEF Running, HoldingFlight, Building
  <2> QED
    BY <2>1 DEF FlightInv, InterestKept
<1>5. OutcomeLast'
  <2>1. ASSUME NEW q \in Requests, q # r
        PROVE  req'[q] = req[q]
    BY <2>1
  <2>2. ~flight[r].landed /\ flight[r].error = "none"
    BY DEF FlightInv, OutcomeLast, Types, Running, HoldingFlight, Building, Answered
  <2> QED
    BY <2>1, <2>2 DEF FlightInv, OutcomeLast
<1>6. GuidanceKept'
  BY DEF FlightInv, GuidanceKept, Running, HoldingFlight, Building, Suffices
<1> QED
  BY <1>1, <1>2, <1>3, <1>4, <1>5, <1>6 DEF FlightInv

\* A request without a flight moves on, and neither joins nor starts one.
LEMMA OutsideStep ==
    ASSUME FlightInv, NEW r \in Requests, req[r].at \notin HoldingFlight \cup Answered,
           NEW a \in (Places \ HoldingFlight) \ {"new", "wait"},
           req[r].at = "final" => a \in Answered,
           NEW k, NEW g, NEW j, NEW p \in SUBSET Requests, NEW s \in 1..3, NEW e,
           Becomes(r, Local(a, k, g, j, p, s, e)),
           UNCHANGED <<inflight, flight, current, calibration, editing>>,
           a = "identify" => k[1] \in Files,
           a \notin {"identify", "superseded"} => k \in CacheKeys,
           a \in {"final", "served"} => ~g \/ e.guided \/ k[1] \notin Measurable
    PROVE  FlightInv'
<1>t. /\ req'[r].at = a /\ req'[r].key = k /\ req'[r].guidance = g /\ req'[r].polled = p
      /\ req'[r].stage = s /\ req'[r].entry = e
      /\ \A q \in Requests : q # r => req'[q] = req[q]
  BY DEF Becomes, Local
<1>1. Types'
  BY <1>t DEF FlightInv, Types
<1>2. KeysKnown'
  BY <1>t DEF FlightInv, KeysKnown, CacheKeys
<1>3. FlightsKnown'
  <2>1. ASSUME NEW q \in Requests, req'[q].at \in Running
        PROVE  inflight[req'[q].key] = q
    BY <2>1, <1>t DEF FlightInv, FlightsKnown, Running
  <2>2. ASSUME NEW c \in CacheKeys, inflight[c] # Nobody
        PROVE  req'[inflight[c]].at \in HoldingFlight /\ req'[inflight[c]].key = c
    <3>1. inflight[c] \in Requests
      BY <2>2 DEF FlightInv, Types
    <3> QED
      BY <2>2, <3>1, <1>t DEF FlightInv, FlightsKnown
  <2> QED
    BY <2>1, <2>2 DEF FlightInv, FlightsKnown
<1>4. InterestKept'
  BY <1>t DEF FlightInv, InterestKept
<1>5. OutcomeLast'
  <2>1. req[r].at # "final" => ~flight[r].landed /\ flight[r].error = "none"
    BY DEF FlightInv, OutcomeLast, Types, HoldingFlight
  <2>2. a # "abandon"
    BY DEF HoldingFlight, Building
  <2> QED
    BY <2>1, <2>2, <1>t DEF FlightInv, OutcomeLast
<1>6. GuidanceKept'
  BY <1>t DEF FlightInv, GuidanceKept, HoldingFlight, Suffices
<1> QED
  BY <1>1, <1>2, <1>3, <1>4, <1>5, <1>6 DEF FlightInv

\* r leaves the record of flights, if it is there.
Detached(r) == [k \in CacheKeys |-> IF inflight[k] = r THEN Nobody ELSE inflight[k]]

\* Flight r may have an outcome now, the others are as they were.
Concludes(r, landed, error) ==
    /\ flight' \in [Requests -> [interests : SUBSET Requests, landed : BOOLEAN,
                                 error : {"none", "superseded", "failed"}]]
    /\ flight'[r].interests = flight[r].interests
    /\ flight'[r].landed = landed
    /\ flight'[r].error = error
    /\ \A q \in Requests : q # r => flight'[q] = flight[q]

\* The owner of a flight ends it, or takes a step of the ending.
LEMMA EndingStep ==
    ASSUME FlightInv, NEW r \in Requests, req[r].at \in HoldingFlight,
           NEW a \in {"submit", "release", "final", "superseded", "failed"},
           Becomes(r, Moved(r, a)),
           NEW landed, NEW error, Concludes(r, landed, error),
           UNCHANGED <<current, calibration, editing>>,
           inflight' \in {inflight, Detached(r)},
           a = "submit" => inflight' = inflight /\ req[r].at # "release",
           error = "superseded" \/ a \notin HoldingFlight => inflight' = Detached(r),
           flight[r].landed \/ a \notin HoldingFlight => landed,
           error # "none" => a \in {"release", "superseded", "failed"},
           error = "superseded" => \A i \in flight[r].interests : ~current[i],
           a \in {"submit", "final"} \/ (a = "release" /\ error = "none")
             => Suffices(req[r].entry, r) \/ req[r].key[1] \notin Measurable
    PROVE  FlightInv'
<1>t. /\ req'[r].at = a /\ req'[r].key = req[r].key /\ req'[r].guidance = req[r].guidance
      /\ req'[r].joined = req[r].joined /\ req'[r].polled = req[r].polled
      /\ req'[r].stage = req[r].stage /\ req'[r].entry = req[r].entry
      /\ \A q \in Requests : q # r => req'[q] = req[q]
  BY DEF Becomes, Local, Moved
<1>i. \A k \in CacheKeys : inflight'[k] = inflight[k] \/ (inflight[k] = r /\ inflight'[k] = Nobody)
  BY DEF Detached
<1>d. inflight' = Detached(r) => \A k \in CacheKeys : inflight'[k] # r
  BY NobodyAssumption DEF Detached
<1>1. Types'
  <2>1. inflight' \in [CacheKeys -> Requests \cup {Nobody}]
    BY DEF FlightInv, Types, Detached
  <2>2. a \in Places
    BY DEF Places, HoldingFlight, Building, Answered
  <2> QED
    BY <2>1, <2>2, <1>t DEF FlightInv, Types, Concludes
<1>k. req[r].key \in CacheKeys
  BY DEF FlightInv, KeysKnown, HoldingFlight, Building
<1>2. KeysKnown'
  BY <1>t, <1>k DEF FlightInv, KeysKnown
<1>3. FlightsKnown'
  <2>1. ASSUME NEW q \in Requests, req'[q].at \in Running
        PROVE  inflight'[req'[q].key] = q
    <3>1. CASE q = r
      <4>1. a = "submit" /\ req[r].at \in Running
        BY <2>1, <3>1, <1>t DEF Running, HoldingFlight, Building
      <4> QED
        BY <4>1, <3>1, <1>t DEF FlightInv, FlightsKnown
    <3>2. CASE q # r
      <4>1. req'[q] = req[q] /\ inflight[req[q].key] = q /\ req[q].key \in CacheKeys
        BY <2>1, <3>2, <1>t DEF FlightInv, FlightsKnown, KeysKnown, Running, HoldingFlight, Building
      <4> QED
        BY <4>1, <3>2, <1>i
    <3> QED
      BY <3>1, <3>2
  <2>2. ASSUME NEW c \in CacheKeys, inflight'[c] # Nobody
        PROVE  /\ req'[inflight'[c]].at \in HoldingFlight
               /\ req'[inflight'[c]].key = c
               /\ flight'[inflight'[c]].error # "superseded"
    <3>1. inflight'[c] = inflight[c] /\ inflight[c] \in Requests
      BY <2>2, <1>i DEF FlightInv, Types
    <3>2. CASE inflight[c] = r
      BY <3>1, <3>2, <1>t, <1>d, <2>2 DEF FlightInv, FlightsKnown, Concludes
    <3>3. CASE inflight[c] # r
      BY <3>1, <3>3, <1>t, <2>2 DEF FlightInv, FlightsKnown, Concludes
    <3> QED
      BY <3>2, <3>3
  <2> QED
    BY <2>1, <2>2 DEF FlightsKnown
<1>4. InterestKept'
  <2>1. ASSUME NEW q \in Requests, req'[q].at = "wait"
        PROVE  /\ req'[q].joined \in Requests
               /\ q \in flight'[req'[q].joined].interests
               /\ \/ flight'[req'[q].joined].landed
                  \/ req'[req'[q].joined].at \in HoldingFlight
    <3>1. req'[q] = req[q]
      BY <2>1, <1>t
    <3>2. CASE req[q].joined = r
      BY <2>1, <3>1, <3>2, <1>t DEF FlightInv, InterestKept, Concludes
    <3>3. CASE req[q].joined # r
      BY <2>1, <3>1, <3>3, <1>t DEF FlightInv, InterestKept, Concludes
    <3> QED
      BY <3>2, <3>3
  <2>2. ASSUME NEW q \in Requests, req'[q].at \in HoldingFlight
        PROVE  q \in flight'[q].interests
    BY <2>2, <1>t DEF FlightInv, InterestKept, Concludes
  <2> QED
    BY <2>1, <2>2 DEF InterestKept
<1>5. OutcomeLast'
  <2>1. ASSUME NEW q \in Requests, q # r
        PROVE  req'[q] = req[q] /\ flight'[q] = flight[q]
    BY <2>1, <1>t DEF Concludes
  <2>2. /\ a \in {"submit", "release", "final"} \cup Answered
        /\ error # "none" => a \in {"release"} \cup Answered
        /\ a # "abandon"
    BY DEF Answered
  <2>3. flight'[r].error = error /\ flight'[r].interests = flight[r].interests
    BY DEF Concludes
  <2> QED
    BY <2>1, <2>2, <2>3, <1>t DEF FlightInv, OutcomeLast
<1>6. GuidanceKept'
  <2>1. ASSUME NEW q \in Requests, q # r
        PROVE  req'[q] = req[q] /\ flight'[q] = flight[q]
    BY <2>1, <1>t DEF Concludes
  <2>2. flight'[r].error = error
    BY DEF Concludes
  <2> QED
    BY <2>1, <2>2, <1>t DEF FlightInv, GuidanceKept, Suffices
<1> QED
  BY <1>1, <1>2, <1>3, <1>4, <1>5, <1>6 DEF FlightInv

\* Nothing but the freshness of requests and the calibrations changes.
LEMMA SurroundingStep ==
    ASSUME FlightInv, UNCHANGED <<req, inflight, flight>>,
           current' \in [Requests -> BOOLEAN],
           \A r \in Requests : current'[r] => current[r],
           calibration' \in Calibrations, editing' \in {"idle", "written", "cleared"}
    PROVE  FlightInv'
<1>1. Types' /\ KeysKnown' /\ FlightsKnown' /\ InterestKept'
  BY DEF FlightInv, Types, KeysKnown, FlightsKnown, InterestKept
<1>2. OutcomeLast'
  <2>1. \A r \in Requests : flight[r].interests \subseteq Requests /\ req[r].polled \subseteq Requests
    BY DEF FlightInv, Types
  <2> QED
    BY <2>1 DEF FlightInv, OutcomeLast
<1>3. GuidanceKept'
  BY DEF FlightInv, GuidanceKept, Suffices
<1> QED
  BY <1>1, <1>2, <1>3 DEF FlightInv

-----------------------------------------------------------------------------
(* Each action of a request *)

\* No request becomes obsolete and the calibrations stay.
Calm == UNCHANGED <<current, calibration, editing>>

\* Requests that wait for no flight and own none: they only move.
LEMMA Outsiders ==
    ASSUME StoreInv, NEW r \in Requests,
           Arrive(r) \/ Identify(r) \/ Wake(r) \/ Final(r)
    PROVE  StoreInv'
<1> USE DEF StoreInv
<1>p. /\ req[r].polled \in SUBSET Requests /\ req[r].stage \in 1..3 /\ current[r] \in BOOLEAN
      /\ \A q \in Requests : flight[q].error \in {"none", "superseded", "failed"}
  BY DEF FlightInv, Types
<1>1. CASE Arrive(r)
  <2>1. PICK f \in Files, g \in BOOLEAN :
          req' = [req EXCEPT ![r].at = "identify", ![r].guidance = g, ![r].key = <<f>>]
    BY <1>1 DEF Arrive
  <2>2. Becomes(r, Local("identify", <<f>>, g, req[r].joined, req[r].polled, req[r].stage,
                         req[r].entry))
    BY <2>1, Updates
  <2>3. req[r].at = "new" /\ UNCHANGED <<inflight, flight, buildSlots, current, calibration, editing>>
    BY <1>1 DEF Arrive, At, serviceVars
  <2>4. FlightInv'
    <3>1. /\ req[r].at \notin HoldingFlight \cup Answered
          /\ "identify" \in (Places \ HoldingFlight) \ {"new", "wait"}
          /\ <<f>>[1] \in Files
      BY <2>3 DEF HoldingFlight, Building, Answered, Places
    <3> QED
      BY <2>2, <2>3, <3>1, <1>p, OutsideStep
  <2>5. SlotsKept'
    BY <2>2, <2>3, SlotsStep DEF Slot, Building, SlotsKept
  <2> QED
    BY <2>2, <2>4, <2>5, ShapeKept
<1>2. CASE Identify(r)
  <2>1. req[r].at = "identify" /\ UNCHANGED <<inflight, flight, buildSlots, current, calibration, editing>>
    BY <1>2 DEF Identify, At, serviceVars
  <2>2. PICK a, k :
          /\ Becomes(r, Local(a, k, req[r].guidance, req[r].joined, req[r].polled, req[r].stage,
                              req[r].entry))
          /\ a \in {"lookup", "superseded"}
          /\ a = "lookup" => k \in CacheKeys
    <3>1. CASE current[r]
      <4> DEFINE k == <<req[r].key[1], calibration>>
      <4>1. req' = [req EXCEPT ![r].at = "lookup", ![r].key = k]
        BY <1>2, <3>1, RequestRecords DEF Identify
      <4>2. k \in CacheKeys
        BY <2>1 DEF FlightInv, KeysKnown, Types, CacheKeys
      <4>3. Becomes(r, Local("lookup", k, req[r].guidance, req[r].joined, req[r].polled,
                             req[r].stage, req[r].entry))
        BY <4>1, Updates
      <4> HIDE DEF k
      <4> QED
        BY <4>2, <4>3
    <3>2. CASE ~current[r]
      <4>1. req' = [req EXCEPT ![r].at = "superseded", ![r].key = req[r].key]
        BY <1>2, <3>2, RequestRecords DEF Identify
      <4>2. Becomes(r, Local("superseded", req[r].key, req[r].guidance, req[r].joined,
                             req[r].polled, req[r].stage, req[r].entry))
        BY <4>1, Updates
      <4> QED
        BY <4>2
    <3> QED
      BY <3>1, <3>2
  <2>3. a \in (Places \ HoldingFlight) \ {"new", "wait"}
    BY <2>2 DEF HoldingFlight, Building, Answered, Places
  <2>4. FlightInv'
    BY <2>1, <2>2, <2>3, <1>p, OutsideStep DEF HoldingFlight, Building, Answered
  <2>5. SlotsKept'
    BY <2>1, <2>2, SlotsStep DEF Slot, Building, SlotsKept
  <2> QED
    BY <2>2, <2>4, <2>5, ShapeKept
<1>3. CASE Wake(r)
  <2> DEFINE f == req[r].joined
  <2>1. /\ req[r].at = "wait" /\ flight[f].landed
        /\ UNCHANGED <<inflight, flight, buildSlots, current, calibration, editing>>
    BY <1>3 DEF Wake, At, serviceVars
  <2>2. f \in Requests /\ req[r].key \in CacheKeys
    BY <2>1 DEF FlightInv, InterestKept, KeysKnown
  <2>3. PICK a, e :
          /\ Becomes(r, Local(a, req[r].key, req[r].guidance, req[r].joined, req[r].polled,
                              req[r].stage, e))
          /\ a \in {"final", "lookup", "superseded", "failed"}
          /\ a = "final" => ~req[r].guidance \/ e.guided
    <3>1. CASE flight[f].error # "none"
      <4>1. Becomes(r, Moved(r, flight[f].error))
        BY <1>3, <3>1, Updates DEF Wake, Goto
      <4>2. flight[f].error \in {"superseded", "failed"}
        BY <3>1, <2>2, <1>p
      <4> QED
        BY <4>1, <4>2 DEF Moved
    <3>2. CASE flight[f].error = "none" /\ Suffices(req[f].entry, r)
      <4>1. req' = [req EXCEPT ![r].at = "final", ![r].entry = req[f].entry]
        BY <1>3, <3>2 DEF Wake
      <4>2. Becomes(r, Local("final", req[r].key, req[r].guidance, req[r].joined,
                             req[r].polled, req[r].stage, req[f].entry))
        BY <4>1, Updates
      <4> QED
        BY <3>2, <4>2 DEF Suffices
    <3>3. CASE flight[f].error = "none" /\ ~Suffices(req[f].entry, r)
      <4>1. Becomes(r, Moved(r, "lookup"))
        BY <1>3, <3>3, Updates DEF Wake, Goto
      <4> QED
        BY <4>1 DEF Moved
    <3> QED
      BY <3>1, <3>2, <3>3
  <2>4. a \in (Places \ HoldingFlight) \ {"new", "wait"}
    BY <2>3 DEF HoldingFlight, Building, Answered, Places
  <2>5. FlightInv'
    <3>1. req[r].at \notin HoldingFlight \cup Answered
      BY <2>1 DEF HoldingFlight, Building, Answered
    <3> QED
      BY <2>1, <2>2, <2>3, <2>4, <3>1, <1>p, OutsideStep
  <2>6. SlotsKept'
    BY <2>1, <2>3, SlotsStep DEF Slot, Building, SlotsKept
  <2> QED
    BY <2>3, <2>5, <2>6, ShapeKept
<1>4. CASE Final(r)
  <2>1. req[r].at = "final" /\ UNCHANGED <<inflight, flight, buildSlots, current, calibration, editing>>
    BY <1>4 DEF Final, At, serviceVars
  <2>2. PICK a \in {"served", "superseded"} : Becomes(r, Moved(r, a))
    BY <1>4, Updates DEF Final, Goto
  <2>3. a \in (Places \ HoldingFlight) \ {"new", "wait"} /\ a \in Answered
    BY <2>2 DEF HoldingFlight, Building, Answered, Places
  <2>4. /\ req[r].key \in CacheKeys /\ req[r].at \notin HoldingFlight \cup Answered
        /\ ~req[r].guidance \/ req[r].entry.guided \/ req[r].key[1] \notin Measurable
    BY <2>1 DEF FlightInv, KeysKnown, GuidanceKept, Suffices, HoldingFlight, Building, Answered
  <2>5. FlightInv'
    BY <2>1, <2>2, <2>3, <2>4, <1>p, OutsideStep DEF Moved
  <2>6. SlotsKept'
    BY <2>1, <2>2, SlotsStep DEF Slot, Building, SlotsKept, Moved
  <2> QED
    BY <2>2, <2>5, <2>6, ShapeKept DEF Moved
<1> QED
  BY <1>1, <1>2, <1>3, <1>4

\* An owner that goes on with its build keeps StoreInv.
LEMMA OwnerGoesOn ==
    ASSUME StoreInv, NEW r \in Requests, req[r].at \in Running \ {"submit"},
           NEW a \in Running, NEW p \in SUBSET Requests, NEW s \in 1..3, NEW e,
           Becomes(r, Local(a, req[r].key, req[r].guidance, req[r].joined, p, s, e)),
           UNCHANGED <<inflight, flight, current, calibration, editing>>,
           a = "abandon" => \A i \in p : ~current[i],
           a \in {"install", "trim", "land", "submit"} /\ req[r].guidance
             => e.guided \/ req[r].key[1] \notin Measurable,
           buildSlots' = buildSlots + Slot(req[r].at) - Slot(a), buildSlots' >= 0
    PROVE  StoreInv'
<1>1. FlightInv'
  BY OwnerStep DEF StoreInv
<1>2. SlotsKept'
  BY SlotsStep DEF StoreInv
<1>3. RequestShape'
  BY ShapeKept DEF StoreInv
<1> QED
  BY <1>1, <1>2, <1>3 DEF StoreInv

\* The steps of an owner before its flight has an outcome.
LEMMA OwnersFound ==
    ASSUME StoreInv, NEW r \in Requests,
           \/ TakeBuildSlot(r) \/ Poll(r) \/ ReadDisk(r) \/ UnlinkUnreadable(r)
           \/ Decode(r) \/ Analyze(r) \/ Install(r) \/ Trim(r)
    PROVE  StoreInv'
<1>p. /\ req[r].polled \in SUBSET Requests /\ req[r].stage \in 1..3
      /\ flight[r].interests \in SUBSET Requests
      /\ buildSlots \in Nat /\ RequestShape
  BY DEF StoreInv, FlightInv, Types, SlotsKept
<1>q. req[r].at \in {"install", "trim", "land"} /\ req[r].guidance
        => req[r].entry.guided \/ req[r].key[1] \notin Measurable
  BY DEF StoreInv, FlightInv, GuidanceKept, Suffices
<1>1. CASE TakeBuildSlot(r)
  <2>1. Becomes(r, Moved(r, "poll"))
    BY <1>1, <1>p, Updates DEF TakeBuildSlot, Goto
  <2>2. /\ req[r].at = "queued" /\ buildSlots' = buildSlots - 1 /\ buildSlots' >= 0
        /\ UNCHANGED <<inflight, flight, current, calibration, editing>>
    BY <1>1, <1>p DEF TakeBuildSlot, At, serviceVars
  <2>3. Slot("queued") = 0 /\ Slot("poll") = 1
    BY DEF Slot, Building
  <2>4. "queued" \in Running \ {"submit"} /\ "poll" \in Running
    BY DEF Running, HoldingFlight, Building
  <2>5. buildSlots' = buildSlots + Slot(req[r].at) - Slot("poll")
    BY <2>2, <2>3, <1>p
  <2> QED
    BY <2>1, <2>2, <2>4, <2>5, <1>p, OwnerGoesOn DEF Moved
<1>2. CASE Poll(r)
  <2> DEFINE cares == \E i \in flight[r].interests : current[i]
             a == IF cares THEN <<"disk", "decode", "analyze">>[req[r].stage] ELSE "abandon"
             p == IF cares THEN {} ELSE flight[r].interests
  <2>1. req' = [req EXCEPT ![r].at = a, ![r].polled = p]
    BY <1>2 DEF Poll
  <2>2. /\ req[r].at = "poll" /\ buildSlots' = buildSlots
        /\ UNCHANGED <<inflight, flight, current, calibration, editing>>
    BY <1>2 DEF Poll, At, serviceVars
  <2>3. a \in {"disk", "decode", "analyze", "abandon"}
    BY <1>p
  <2>4. p \in SUBSET Requests /\ (a = "abandon" => \A i \in p : ~current[i])
    BY <1>p
  <2> HIDE DEF a, p, cares
  <2>5. Becomes(r, Local(a, req[r].key, req[r].guidance, req[r].joined, p, req[r].stage, req[r].entry))
    BY <2>1, <1>p, Updates
  <2>6. Slot(req[r].at) = 1 /\ Slot(a) = 1
    BY <2>2, <2>3 DEF Slot, Building
  <2>7. req[r].at \in Running \ {"submit"} /\ a \in Running /\ a \notin {"install", "trim", "land", "submit"}
    BY <2>2, <2>3 DEF Running, HoldingFlight, Building
  <2>8. buildSlots' = buildSlots + Slot(req[r].at) - Slot(a) /\ buildSlots' >= 0
    BY <2>2, <2>6, <1>p
  <2> QED
    BY <2>2, <2>4, <2>5, <2>7, <2>8, <1>p, OwnerGoesOn
<1>3. CASE ReadDisk(r)
  <2>1. /\ req[r].at = "disk"
        /\ UNCHANGED <<inflight, flight, current, calibration, editing>>
    BY <1>3 DEF ReadDisk, At, serviceVars
  <2>2. req[r].at \in Running \ {"submit"} /\ Slot(req[r].at) = 1
    BY <2>1 DEF Running, HoldingFlight, Building, Slot
  <2>3. ASSUME NEW e, Suffices(e, r),
               req' = [req EXCEPT ![r].at = "install", ![r].stage = 1, ![r].entry = e],
               buildSlots' = buildSlots + 1
        PROVE  StoreInv'
    <3>1. Becomes(r, Local("install", req[r].key, req[r].guidance, req[r].joined,
                           req[r].polled, 1, e))
      BY <2>3, <1>p, Updates
    <3>2. "install" \in Running /\ Slot("install") = 0 /\ 1 \in 1..3 /\ "install" # "abandon"
      BY DEF Running, HoldingFlight, Building, Slot
    <3>3. buildSlots' = buildSlots + Slot(req[r].at) - Slot("install") /\ buildSlots' >= 0
      BY <2>2, <2>3, <3>2, <1>p
    <3>4. req[r].guidance => e.guided
      BY <2>3 DEF Suffices
    <3> QED
      BY <2>1, <2>2, <3>1, <3>2, <3>3, <3>4, <1>p, OwnerGoesOn
  <2>4. ASSUME req' = [req EXCEPT ![r].at = "poll", ![r].stage = 2], buildSlots' = buildSlots
        PROVE  StoreInv'
    <3>1. Becomes(r, Local("poll", req[r].key, req[r].guidance, req[r].joined,
                           req[r].polled, 2, req[r].entry))
      BY <2>4, <1>p, Updates
    <3>2. "poll" \in Running /\ Slot("poll") = 1 /\ 2 \in 1..3
      BY DEF Running, HoldingFlight, Building, Slot
    <3>3. buildSlots' = buildSlots + Slot(req[r].at) - Slot("poll") /\ buildSlots' >= 0
      BY <2>2, <2>4, <3>2, <1>p
    <3> QED
      BY <2>1, <2>2, <3>1, <3>2, <3>3, <1>p, OwnerGoesOn
  <2>5. ASSUME Goto(r, "unlink"), buildSlots' = buildSlots
        PROVE  StoreInv'
    <3>1. Becomes(r, Moved(r, "unlink"))
      BY <2>5, <1>p, Updates DEF Goto
    <3>2. "unlink" \in Running /\ Slot("unlink") = 1
      BY DEF Running, HoldingFlight, Building, Slot
    <3>3. buildSlots' = buildSlots + Slot(req[r].at) - Slot("unlink") /\ buildSlots' >= 0
      BY <2>2, <2>5, <3>2, <1>p
    <3> QED
      BY <2>1, <2>2, <3>1, <3>2, <3>3, <1>p, OwnerGoesOn DEF Moved
  <2> QED
    BY <1>3, <2>3, <2>4, <2>5 DEF ReadDisk
<1>4. CASE UnlinkUnreadable(r) \/ Decode(r)
  <2>1. /\ req[r].at \in {"unlink", "decode"} /\ buildSlots' = buildSlots
        /\ UNCHANGED <<inflight, flight, current, calibration, editing>>
    BY <1>4 DEF UnlinkUnreadable, Decode, At, serviceVars
  <2>2. PICK s \in 1..3 : req' = [req EXCEPT ![r].at = "poll", ![r].stage = s]
    BY <1>4 DEF UnlinkUnreadable, Decode
  <2>3. Becomes(r, Local("poll", req[r].key, req[r].guidance, req[r].joined,
                         req[r].polled, s, req[r].entry))
    BY <2>2, <1>p, Updates
  <2>4. /\ req[r].at \in Running \ {"submit"} /\ "poll" \in Running
        /\ Slot(req[r].at) = 1 /\ Slot("poll") = 1
    BY <2>1 DEF Running, HoldingFlight, Building, Slot
  <2>5. buildSlots' = buildSlots + Slot(req[r].at) - Slot("poll") /\ buildSlots' >= 0
    BY <2>1, <2>4, <1>p
  <2> QED
    BY <2>1, <2>3, <2>4, <2>5, <1>p, OwnerGoesOn
<1>5. CASE Analyze(r)
  <2>1. /\ req[r].at = "analyze" /\ buildSlots' = buildSlots + 1
        /\ UNCHANGED <<inflight, flight, current, calibration, editing>>
    BY <1>5 DEF Analyze, At, serviceVars
  <2>2. PICK fallback \in BOOLEAN :
          req' = [req EXCEPT ![r].at = "install",
                    ![r].entry = Entry(req[r].key, req[r].guidance /\ req[r].key[1] \in Measurable,
                                       calibration, fallback)]
    BY <1>5 DEF Analyze
  <2> DEFINE e == Entry(req[r].key, req[r].guidance /\ req[r].key[1] \in Measurable,
                        calibration, fallback)
  <2>3. req[r].guidance => e.guided \/ req[r].key[1] \notin Measurable
    BY DEF Entry
  <2> HIDE DEF e
  <2>4. Becomes(r, Local("install", req[r].key, req[r].guidance, req[r].joined,
                         req[r].polled, req[r].stage, e))
    BY <2>2, <1>p, Updates DEF e
  <2>5. /\ req[r].at \in Running \ {"submit"} /\ "install" \in Running
        /\ Slot(req[r].at) = 1 /\ Slot("install") = 0
    BY <2>1 DEF Running, HoldingFlight, Building, Slot
  <2>6. buildSlots' = buildSlots + Slot(req[r].at) - Slot("install") /\ buildSlots' >= 0
    BY <2>1, <2>5, <1>p
  <2> QED
    BY <2>1, <2>3, <2>4, <2>5, <2>6, <1>p, OwnerGoesOn
<1>6. CASE Install(r) \/ Trim(r)
  <2>1. /\ req[r].at \in {"install", "trim"} /\ buildSlots' = buildSlots
        /\ UNCHANGED <<inflight, flight, current, calibration, editing>>
    BY <1>6 DEF Install, Trim, At, serviceVars
  <2>2. PICK a \in {"trim", "land"} : Goto(r, a)
    BY <1>6 DEF Install, Trim
  <2>3. Becomes(r, Moved(r, a))
    BY <2>2, <1>p, Updates DEF Goto
  <2>4. /\ req[r].at \in Running \ {"submit"} /\ a \in Running
        /\ Slot(req[r].at) = 0 /\ Slot(a) = 0
    BY <2>1 DEF Running, HoldingFlight, Building, Slot
  <2>5. buildSlots' = buildSlots + Slot(req[r].at) - Slot(a) /\ buildSlots' >= 0
    BY <2>1, <2>4, <1>p
  <2>6. a # "abandon"
    OBVIOUS
  <2> QED
    BY <2>1, <2>3, <2>4, <2>5, <2>6, <1>p, <1>q, OwnerGoesOn DEF Moved
<1> QED
  BY <1>1, <1>2, <1>3, <1>4, <1>5, <1>6

\* A request that finds neither entry nor flight starts a flight of its own.
LEMMA FlightStarts ==
    ASSUME FlightInv, NEW r \in Requests, req[r].at = "lookup",
           inflight[req[r].key] = Nobody,
           inflight' = [inflight EXCEPT ![req[r].key] = r],
           flight' = [flight EXCEPT ![r].interests = {r}],
           Becomes(r, Moved(r, "queued")), Calm
    PROVE  FlightInv'
<1>t. /\ req'[r].at = "queued" /\ req'[r].key = req[r].key /\ req'[r].guidance = req[r].guidance
      /\ req'[r].joined = req[r].joined /\ req'[r].polled = req[r].polled
      /\ req'[r].stage = req[r].stage /\ req'[r].entry = req[r].entry
      /\ \A q \in Requests : q # r => req'[q] = req[q]
  BY DEF Becomes, Local, Moved
<1>k. req[r].key \in CacheKeys
  BY DEF FlightInv, KeysKnown
<1>c. ~flight[r].landed /\ flight[r].error = "none"
  BY DEF FlightInv, OutcomeLast, Types, Answered
<1>f. /\ flight'[r].interests = {r} /\ ~flight'[r].landed /\ flight'[r].error = "none"
      /\ \A q \in Requests : q # r => flight'[q] = flight[q]
  BY <1>c DEF FlightInv, Types
<1>i. /\ inflight'[req[r].key] = r
      /\ \A k \in CacheKeys : k # req[r].key => inflight'[k] = inflight[k]
  BY <1>k DEF FlightInv, Types
<1>1. Types'
  <2>1. "queued" \in Places
    BY DEF Places, HoldingFlight
  <2>2. flight' \in [Requests -> [interests : SUBSET Requests, landed : BOOLEAN,
                                  error : {"none", "superseded", "failed"}]]
    BY DEF FlightInv, Types
  <2>3. inflight' \in [CacheKeys -> Requests \cup {Nobody}]
    BY <1>k DEF FlightInv, Types
  <2> QED
    BY <2>1, <2>2, <2>3, <1>t DEF FlightInv, Types, Calm
<1>2. KeysKnown'
  BY <1>t, <1>k DEF FlightInv, KeysKnown
<1>3. FlightsKnown'
  <2>1. ASSUME NEW q \in Requests, req'[q].at \in Running
        PROVE  inflight'[req'[q].key] = q
    <3>1. CASE q = r
      BY <3>1, <1>t, <1>i
    <3>2. CASE q # r
      <4>1. inflight[req[q].key] = q /\ req[q].key \in CacheKeys /\ req'[q] = req[q]
        BY <2>1, <3>2, <1>t DEF FlightInv, FlightsKnown, KeysKnown, Running, HoldingFlight, Building
      <4>2. req[q].key # req[r].key
        BY <4>1, NobodyAssumption
      <4> QED
        BY <4>1, <4>2, <1>i
    <3> QED
      BY <3>1, <3>2
  <2>2. ASSUME NEW c \in CacheKeys, inflight'[c] # Nobody
        PROVE  /\ req'[inflight'[c]].at \in HoldingFlight
               /\ req'[inflight'[c]].key = c
               /\ flight'[inflight'[c]].error # "superseded"
    <3>1. CASE c = req[r].key
      BY <3>1, <1>t, <1>i, <1>f DEF HoldingFlight
    <3>2. CASE c # req[r].key
      <4>1. inflight'[c] = inflight[c] /\ inflight[c] \in Requests
        BY <3>2, <2>2, <1>i DEF FlightInv, Types
      <4>2. inflight[c] # r
        BY <4>1, <2>2 DEF FlightInv, FlightsKnown, HoldingFlight, Building
      <4> QED
        BY <4>1, <4>2, <2>2, <1>t, <1>f DEF FlightInv, FlightsKnown
    <3> QED
      BY <3>1, <3>2
  <2> QED
    BY <2>1, <2>2 DEF FlightsKnown
<1>4. InterestKept'
  <2>1. ASSUME NEW q \in Requests, req'[q].at = "wait"
        PROVE  /\ req'[q].joined \in Requests
               /\ q \in flight'[req'[q].joined].interests
               /\ \/ flight'[req'[q].joined].landed
                  \/ req'[req'[q].joined].at \in HoldingFlight
    <3>1. req'[q] = req[q]
      BY <2>1, <1>t
    <3>2. req[q].joined # r
      BY <2>1, <3>1, <1>c DEF FlightInv, InterestKept, HoldingFlight, Building
    <3> QED
      BY <2>1, <3>1, <3>2, <1>t, <1>f DEF FlightInv, InterestKept
  <2>2. ASSUME NEW q \in Requests, req'[q].at \in HoldingFlight
        PROVE  q \in flight'[q].interests
    BY <2>2, <1>t, <1>f DEF FlightInv, InterestKept
  <2> QED
    BY <2>1, <2>2 DEF InterestKept
<1>5. OutcomeLast'
  BY <1>t, <1>f DEF FlightInv, OutcomeLast, Calm
<1>6. GuidanceKept'
  BY <1>t, <1>f DEF FlightInv, GuidanceKept, Suffices
<1> QED
  BY <1>1, <1>2, <1>3, <1>4, <1>5, <1>6 DEF FlightInv

\* A request that finds the flight of another joins it.
LEMMA FlightJoined ==
    ASSUME FlightInv, NEW r \in Requests, req[r].at = "lookup",
           NEW o \in Requests, inflight[req[r].key] = o,
           flight' = [flight EXCEPT ![o].interests = @ \cup {r}],
           Becomes(r, Local("wait", req[r].key, req[r].guidance, o, req[r].polled, req[r].stage,
                            req[r].entry)),
           inflight' = inflight, Calm
    PROVE  FlightInv'
<1>t. /\ req'[r].at = "wait" /\ req'[r].key = req[r].key /\ req'[r].guidance = req[r].guidance
      /\ req'[r].joined = o /\ req'[r].polled = req[r].polled
      /\ req'[r].stage = req[r].stage /\ req'[r].entry = req[r].entry
      /\ \A q \in Requests : q # r => req'[q] = req[q]
  BY DEF Becomes, Local
<1>k. req[r].key \in CacheKeys
  BY DEF FlightInv, KeysKnown
<1>o. req[o].at \in HoldingFlight /\ flight[o].error # "superseded" /\ o # r
  BY <1>k, NobodyAssumption DEF FlightInv, FlightsKnown, HoldingFlight, Building
<1>f. /\ flight'[o].interests = flight[o].interests \cup {r}
      /\ \A q \in Requests :
           /\ flight'[q].landed = flight[q].landed /\ flight'[q].error = flight[q].error
           /\ q # o => flight'[q] = flight[q]
  BY DEF FlightInv, Types
<1>1. Types'
  <2>1. "wait" \in Places
    BY DEF Places
  <2>2. flight' \in [Requests -> [interests : SUBSET Requests, landed : BOOLEAN,
                                  error : {"none", "superseded", "failed"}]]
    BY DEF FlightInv, Types
  <2>3. \A q \in Requests : /\ req'[q].at \in Places
                            /\ req'[q].polled \in SUBSET Requests
                            /\ req'[q].stage \in 1..3
    BY <2>1, <1>t DEF FlightInv, Types
  <2> QED
    BY <2>2, <2>3 DEF FlightInv, Types, Calm
<1>2. KeysKnown'
  BY <1>t, <1>k DEF FlightInv, KeysKnown
<1>3. FlightsKnown'
  <2>1. ASSUME NEW q \in Requests, req'[q].at \in Running
        PROVE  inflight[req'[q].key] = q
    BY <2>1, <1>t DEF FlightInv, FlightsKnown, Running, HoldingFlight, Building
  <2>2. ASSUME NEW c \in CacheKeys, inflight[c] # Nobody
        PROVE  /\ req'[inflight[c]].at \in HoldingFlight
               /\ req'[inflight[c]].key = c
               /\ flight'[inflight[c]].error # "superseded"
    <3>1. inflight[c] \in Requests
      BY <2>2 DEF FlightInv, Types
    <3>2. req[inflight[c]].at \in HoldingFlight
      BY <2>2 DEF FlightInv, FlightsKnown
    <3>3. inflight[c] # r
      BY <3>2 DEF HoldingFlight, Building
    <3> QED
      BY <2>2, <3>1, <3>2, <3>3, <1>t, <1>f DEF FlightInv, FlightsKnown
  <2> QED
    BY <2>1, <2>2 DEF FlightsKnown
<1>4. InterestKept'
  <2>1. ASSUME NEW q \in Requests, req'[q].at = "wait"
        PROVE  /\ req'[q].joined \in Requests
               /\ q \in flight'[req'[q].joined].interests
               /\ \/ flight'[req'[q].joined].landed
                  \/ req'[req'[q].joined].at \in HoldingFlight
    <3>1. CASE q = r
      BY <3>1, <1>t, <1>o, <1>f
    <3>2. CASE q # r
      <4>1. /\ req'[q] = req[q] /\ req[q].joined \in Requests
            /\ q \in flight[req[q].joined].interests
            /\ flight[req[q].joined].landed \/ req[req[q].joined].at \in HoldingFlight
        BY <2>1, <3>2, <1>t DEF FlightInv, InterestKept
      <4>2. req[r].at \notin HoldingFlight
        BY DEF HoldingFlight, Building
      <4> QED
        BY <4>1, <4>2, <1>t, <1>f
    <3> QED
      BY <3>1, <3>2
  <2>2. ASSUME NEW q \in Requests, req'[q].at \in HoldingFlight
        PROVE  q \in flight'[q].interests
    <3>1. q # r
      BY <2>2, <1>t DEF HoldingFlight, Building
    <3> QED
      BY <2>2, <3>1, <1>t, <1>f DEF FlightInv, InterestKept
  <2> QED
    BY <2>1, <2>2 DEF InterestKept
<1>5. OutcomeLast'
  <2>1. ~flight[r].landed /\ flight[r].error = "none"
    BY DEF FlightInv, OutcomeLast, Types, Answered
  <2> QED
    BY <2>1, <1>t, <1>f, <1>o DEF FlightInv, OutcomeLast, Calm
<1>6. GuidanceKept'
  BY <1>t, <1>f DEF FlightInv, GuidanceKept, Suffices
<1> QED
  BY <1>1, <1>2, <1>3, <1>4, <1>5, <1>6 DEF FlightInv

\* A lookup hits, starts a flight or joins one.
LEMMA Lookups ==
    ASSUME StoreInv, NEW r \in Requests, Lookup(r)
    PROVE  StoreInv'
<1> DEFINE hit == {e \in {x \in Find(req[r].key) : ~x.expired} : Suffices(e, r)}
           o == inflight[req[r].key]
<1>1. req[r].at = "lookup" /\ UNCHANGED <<buildSlots, current, calibration, editing>>
  BY DEF Lookup, At, serviceVars
<1>2. /\ RequestShape /\ FlightInv /\ SlotsKept
      /\ req[r].polled \in SUBSET Requests /\ req[r].stage \in 1..3
      /\ req[r].key \in CacheKeys
  BY <1>1 DEF StoreInv, FlightInv, Types, KeysKnown
<1>3. CASE hit # {}
  <2> DEFINE e == CHOOSE x \in hit : TRUE
  <2>1. /\ req' = [req EXCEPT ![r].at = "final", ![r].entry = e]
        /\ UNCHANGED <<inflight, flight>>
    BY <1>3 DEF Lookup
  <2>2. Suffices(e, r)
    BY <1>3
  <2> HIDE DEF e, hit
  <2>3. Becomes(r, Local("final", req[r].key, req[r].guidance, req[r].joined, req[r].polled,
                         req[r].stage, e))
    BY <2>1, <1>2, Updates
  <2>4. /\ req[r].at \notin HoldingFlight \cup Answered
        /\ "final" \in (Places \ HoldingFlight) \ {"new", "wait"}
    BY <1>1 DEF HoldingFlight, Building, Answered, Places
  <2>5. FlightInv'
    BY <1>1, <1>2, <2>1, <2>2, <2>3, <2>4, OutsideStep DEF Suffices
  <2>6. SlotsKept'
    BY <1>1, <1>2, <2>3, SlotsStep DEF Slot, Building, SlotsKept
  <2> QED
    BY <2>3, <2>5, <2>6, <1>2, ShapeKept DEF StoreInv
<1>4. CASE hit = {} /\ o = Nobody
  <2>1. /\ Goto(r, "queued")
        /\ inflight' = [inflight EXCEPT ![req[r].key] = r]
        /\ flight' = [flight EXCEPT ![r].interests = {r}]
    BY <1>4 DEF Lookup
  <2>2. Becomes(r, Moved(r, "queued"))
    BY <2>1, <1>2, Updates DEF Goto
  <2>3. FlightInv'
    BY <1>1, <1>2, <1>4, <2>1, <2>2, FlightStarts DEF Calm
  <2>4. SlotsKept'
    BY <1>1, <1>2, <2>2, SlotsStep DEF Slot, Building, SlotsKept, Moved
  <2> QED
    BY <2>2, <2>3, <2>4, <1>2, ShapeKept DEF StoreInv, Moved
<1>5. CASE hit = {} /\ o # Nobody
  <2>1. /\ req' = [req EXCEPT ![r].at = "wait", ![r].joined = o]
        /\ flight' = [flight EXCEPT ![o].interests = @ \cup {r}]
        /\ inflight' = inflight
    BY <1>5 DEF Lookup
  <2>2. o \in Requests
    BY <1>2, <1>5 DEF FlightInv, Types
  <2> HIDE DEF o
  <2>3. Becomes(r, Local("wait", req[r].key, req[r].guidance, o, req[r].polled,
                         req[r].stage, req[r].entry))
    BY <2>1, <1>2, Updates
  <2>4. FlightInv'
    BY <1>1, <1>2, <2>1, <2>2, <2>3, FlightJoined DEF Calm, o
  <2>5. SlotsKept'
    BY <1>1, <1>2, <2>3, SlotsStep DEF Slot, Building, SlotsKept
  <2> QED
    BY <2>3, <2>4, <2>5, <1>2, ShapeKept DEF StoreInv
<1> QED
  BY <1>3, <1>4, <1>5

\* A flight that ends keeps StoreInv.
LEMMA FlightEnds ==
    ASSUME StoreInv, NEW r \in Requests, req[r].at \in HoldingFlight,
           NEW a \in {"submit", "release", "final", "superseded", "failed"},
           Goto(r, a), NEW landed, NEW error, Concludes(r, landed, error), Calm,
           inflight' \in {inflight, Detached(r)},
           a = "submit" => inflight' = inflight /\ req[r].at # "release",
           error = "superseded" \/ a \notin HoldingFlight => inflight' = Detached(r),
           flight[r].landed \/ a \notin HoldingFlight => landed,
           error # "none" => a \in {"release", "superseded", "failed"},
           error = "superseded" => \A i \in flight[r].interests : ~current[i],
           a \in {"submit", "final"} \/ (a = "release" /\ error = "none")
             => Suffices(req[r].entry, r) \/ req[r].key[1] \notin Measurable,
           buildSlots' = buildSlots + Slot(req[r].at)
    PROVE  StoreInv'
<1>1. Becomes(r, Moved(r, a)) /\ RequestShape /\ FlightInv /\ SlotsKept
  BY Updates DEF StoreInv, Goto
<1>2. FlightInv'
  BY <1>1, EndingStep DEF Calm
<1>3. Slot(a) = 0 /\ Slot(req[r].at) \in {0, 1}
  BY DEF Slot, Building
<1>4. buildSlots' = buildSlots + Slot(req[r].at) - Slot(a) /\ buildSlots' >= 0
  BY <1>1, <1>3 DEF SlotsKept
<1>5. SlotsKept'
  BY <1>1, <1>4, SlotsStep DEF Moved
<1>6. RequestShape'
  BY <1>1, ShapeKept DEF Moved
<1> QED
  BY <1>2, <1>5, <1>6 DEF StoreInv

\* The steps by which a flight lands, fails, is given up or leaves the record.
LEMMA Endings ==
    ASSUME StoreInv, NEW r \in Requests,
           Abandon(r) \/ BuildFails(r) \/ Land(r) \/ SubmitToDisk(r) \/ ReleaseFlight(r)
    PROVE  StoreInv'
<1>p. /\ req[r].polled \in SUBSET Requests /\ req[r].stage \in 1..3
      /\ flight \in [Requests -> [interests : SUBSET Requests, landed : BOOLEAN,
                                  error : {"none", "superseded", "failed"}]]
      /\ buildSlots \in Nat /\ RequestShape
  BY DEF StoreInv, FlightInv, Types, SlotsKept
<1>q. req[r].at \in {"land", "submit"} \/ (req[r].at = "release" /\ flight[r].error = "none")
        => Suffices(req[r].entry, r) \/ req[r].key[1] \notin Measurable
  BY DEF StoreInv, FlightInv, GuidanceKept
<1>o. /\ req[r].at \in Running \ {"submit"} => ~flight[r].landed
      /\ req[r].at \in Running => flight[r].error = "none"
      /\ req[r].at = "abandon" => \A i \in req[r].polled : ~current[i]
      /\ flight[r].error = "superseded" => \A i \in flight[r].interests : ~current[i]
  BY <1>p DEF StoreInv, FlightInv, OutcomeLast, Running, HoldingFlight, Building, Answered
<1>1. CASE Abandon(r)
  <2>1. req[r].at = "abandon" /\ Calm
    BY <1>1 DEF Abandon, At, serviceVars, Calm
  <2>2. /\ req[r].at \in Running \ {"submit"} /\ "poll" \in Running /\ "release" \in HoldingFlight
        /\ Slot(req[r].at) = 1 /\ Slot("poll") = 1
    BY <2>1 DEF Running, HoldingFlight, Building, Slot
  <2>3. CASE flight[r].interests # req[r].polled
    <3>1. /\ Goto(r, "poll") /\ UNCHANGED <<inflight, flight, buildSlots>>
      BY <1>1, <2>3 DEF Abandon
    <3>2. Becomes(r, Moved(r, "poll"))
      BY <3>1, <1>p, Updates DEF Goto
    <3>3. buildSlots' = buildSlots + Slot(req[r].at) - Slot("poll") /\ buildSlots' >= 0
      BY <2>2, <3>1, <1>p
    <3> QED
      BY <2>1, <2>2, <3>1, <3>2, <3>3, <1>p, OwnerGoesOn DEF Moved, Calm
  <2>4. CASE flight[r].interests = req[r].polled
    <3>1. /\ Goto(r, "release") /\ inflight' = Detached(r)
          /\ flight' = [flight EXCEPT ![r].error = "superseded"]
          /\ buildSlots' = buildSlots + 1
      BY <1>1, <2>4 DEF Abandon, Detached
    <3>2. Concludes(r, flight[r].landed, "superseded")
      BY <3>1, <1>p DEF Concludes
    <3>3. buildSlots' = buildSlots + Slot(req[r].at)
      BY <3>1, <2>2
    <3>4. \A i \in flight[r].interests : ~current[i]
      BY <1>o, <2>1, <2>4
    <3>5. ~flight[r].landed /\ req[r].at \in HoldingFlight
      BY <1>o, <2>2 DEF Running
    <3> QED
      BY <2>1, <2>2, <3>1, <3>2, <3>3, <3>4, <3>5, <1>p, FlightEnds
  <2> QED
    BY <2>3, <2>4
<1>2. CASE BuildFails(r)
  <2>1. /\ req[r].at \in {"decode", "analyze"} /\ Calm /\ Goto(r, "release")
        /\ flight' = [flight EXCEPT ![r].error = "failed"]
        /\ buildSlots' = buildSlots + 1 /\ inflight' = inflight
    BY <1>2 DEF BuildFails, At, serviceVars, Calm
  <2>2. /\ req[r].at \in HoldingFlight /\ "release" \in HoldingFlight /\ Slot(req[r].at) = 1
    BY <2>1 DEF HoldingFlight, Building, Slot
  <2>3. Concludes(r, flight[r].landed, "failed")
    BY <2>1, <1>p DEF Concludes
  <2> QED
    BY <2>1, <2>2, <2>3, FlightEnds
<1>3. CASE Land(r)
  <2>1. /\ req[r].at = "land" /\ Calm
        /\ flight' = [flight EXCEPT ![r].landed = TRUE]
        /\ buildSlots' = buildSlots /\ inflight' = inflight
    BY <1>3 DEF Land, At, serviceVars, Calm
  <2>2. PICK a \in {"submit", "release"} : Goto(r, a)
    BY <1>3 DEF Land
  <2>3. /\ req[r].at \in HoldingFlight /\ a \in HoldingFlight /\ Slot(req[r].at) = 0
        /\ flight[r].error = "none"
    BY <2>1, <1>o DEF Running, HoldingFlight, Building, Slot
  <2>4. Concludes(r, TRUE, "none")
    BY <2>1, <2>3, <1>p DEF Concludes
  <2>5. buildSlots' = buildSlots + Slot(req[r].at)
    BY <2>1, <2>3, <1>p
  <2> QED
    BY <2>1, <2>2, <2>3, <2>4, <2>5, <1>q, FlightEnds
<1>4. CASE SubmitToDisk(r)
  <2>1. /\ req[r].at = "submit" /\ Calm /\ Goto(r, "release")
        /\ UNCHANGED <<inflight, flight, buildSlots>>
    BY <1>4 DEF SubmitToDisk, At, serviceVars, Calm
  <2>2. /\ req[r].at \in HoldingFlight /\ "release" \in HoldingFlight /\ Slot(req[r].at) = 0
        /\ flight[r].error = "none"
    BY <2>1, <1>o DEF Running, HoldingFlight, Building, Slot
  <2>3. Concludes(r, flight[r].landed, "none")
    BY <2>1, <2>2, <1>p DEF Concludes
  <2>4. buildSlots' = buildSlots + Slot(req[r].at)
    BY <2>1, <2>2, <1>p
  <2> QED
    BY <2>1, <2>2, <2>3, <2>4, <1>q, FlightEnds
<1>5. CASE ReleaseFlight(r)
  <2> DEFINE a == IF flight[r].error = "none" THEN "final" ELSE flight[r].error
  <2>1. /\ req[r].at = "release" /\ Calm /\ Goto(r, a) /\ inflight' = Detached(r)
        /\ flight' = [flight EXCEPT ![r].landed = TRUE]
        /\ buildSlots' = buildSlots
    BY <1>5 DEF ReleaseFlight, At, serviceVars, Calm, Detached
  <2>2. /\ a \in {"final", "superseded", "failed"}
        /\ a = "final" <=> flight[r].error = "none"
    BY <1>p
  <2> HIDE DEF a
  <2>3. req[r].at \in HoldingFlight /\ Slot(req[r].at) = 0
    BY <2>1 DEF HoldingFlight, Building, Slot
  <2>4. Concludes(r, TRUE, flight[r].error)
    <3> DEFINE ends == [flight[r] EXCEPT !.landed = TRUE]
    <3>1. /\ ends \in [interests : SUBSET Requests, landed : BOOLEAN,
                       error : {"none", "superseded", "failed"}]
          /\ ends.interests = flight[r].interests /\ ends.landed = TRUE
          /\ ends.error = flight[r].error
      BY <1>p
    <3>2. flight' = [flight EXCEPT ![r] = ends]
      BY <2>1
    <3> HIDE DEF ends
    <3> QED
      BY <3>1, <3>2, <1>p DEF Concludes
  <2>5. buildSlots' = buildSlots + Slot(req[r].at)
    BY <2>1, <2>3, <1>p
  <2> QED
    BY <2>1, <2>2, <2>3, <2>4, <2>5, <1>o, <1>q, FlightEnds
<1> QED
  BY <1>1, <1>2, <1>3, <1>4, <1>5

\* What goes on around the store.
LEMMA Surroundings ==
    ASSUME StoreInv,
           \/ \E r \in Requests : Supersede(r)
           \/ MemoryPressure \/ FallbackExpires
           \/ EditCalibration \/ ClearGenerations \/ ClearMemory
           \/ DiskWrite \/ UNCHANGED proxyVars
    PROVE  StoreInv'
<1>t. current \in [Requests -> BOOLEAN] /\ calibration \in Calibrations
      /\ editing \in {"idle", "written", "cleared"}
  BY DEF StoreInv, FlightInv, Types
<1>1. ASSUME NEW r \in Requests, Supersede(r)
      PROVE  /\ UNCHANGED <<req, inflight, flight, buildSlots, calibration, editing>>
             /\ current' \in [Requests -> BOOLEAN]
             /\ \A q \in Requests : current'[q] => current[q]
  BY <1>1, <1>t DEF Supersede, serviceVars
<1>2. ASSUME ClearGenerations
      PROVE  /\ UNCHANGED <<req, inflight, flight, buildSlots, calibration>>
             /\ editing' = "cleared"
             /\ current' \in [Requests -> BOOLEAN]
             /\ \A q \in Requests : current'[q] => current[q]
  BY <1>2, <1>t DEF ClearGenerations
<1>3. ASSUME EditCalibration \/ ClearMemory
      PROVE  /\ UNCHANGED <<req, inflight, flight, buildSlots, current>>
             /\ calibration' \in Calibrations /\ editing' \in {"idle", "written"}
  BY <1>3, <1>t DEF EditCalibration, ClearMemory, storeVars
<1>4. ASSUME MemoryPressure \/ FallbackExpires \/ DiskWrite \/ UNCHANGED proxyVars
      PROVE  UNCHANGED <<req, inflight, flight, buildSlots, current, calibration, editing>>
  BY <1>4 DEF MemoryPressure, FallbackExpires, DiskWrite, proxyVars, storeVars, serviceVars
<1>5. /\ UNCHANGED <<req, inflight, flight, buildSlots>>
      /\ current' \in [Requests -> BOOLEAN]
      /\ \A r \in Requests : current'[r] => current[r]
      /\ calibration' \in Calibrations /\ editing' \in {"idle", "written", "cleared"}
  BY <1>1, <1>2, <1>3, <1>4, <1>t
<1>6. FlightInv'
  BY <1>5, SurroundingStep DEF StoreInv
<1>7. RequestShape' /\ SlotsKept'
  BY <1>5 DEF StoreInv, RequestShape, SlotsKept, Builders
<1> QED
  BY <1>6, <1>7 DEF StoreInv

-----------------------------------------------------------------------------
(* The store's properties *)

\* No request has begun.
LEMMA StoreInvInit == ProxyInit => StoreInv
<1> SUFFICES ASSUME ProxyInit PROVE StoreInv
  OBVIOUS
<1> DEFINE start == Local("new", <<>>, FALSE, Nobody, {}, 1, NoEntry)
<1>1. req = [r \in Requests |-> start]
  BY DEF ProxyInit, Local
<1>2. RequestShape
  BY <1>1 DEF RequestShape, Local
<1>3. \A r \in Requests : req[r].at = "new" /\ req[r].polled = {} /\ req[r].stage = 1
  BY <1>1 DEF Local
<1>4. Types
  BY <1>3 DEF ProxyInit, Types, Places
<1>5. KeysKnown /\ FlightsKnown /\ InterestKept /\ OutcomeLast /\ GuidanceKept
  BY <1>3 DEF ProxyInit, KeysKnown, FlightsKnown, InterestKept, OutcomeLast, GuidanceKept,
              Running, HoldingFlight, Building
<1>6. SlotsKept
  <2>1. Builders = {}
    BY <1>3 DEF Builders, Building
  <2> QED
    BY <2>1, FS_EmptySet, QuotaAssumption DEF ProxyInit, SlotsKept
<1> QED
  BY <1>2, <1>4, <1>5, <1>6 DEF StoreInv, FlightInv

\* Every step keeps StoreInv.
LEMMA StoreInvNext == StoreInv /\ [ProxyNext]_proxyVars => StoreInv'
<1> SUFFICES ASSUME StoreInv, [ProxyNext]_proxyVars PROVE StoreInv'
  OBVIOUS
<1>1. ASSUME NEW r \in Requests, Arrive(r) \/ RequestStep(r) \/ Supersede(r)
      PROVE  StoreInv'
  <2>1. CASE Arrive(r) \/ Identify(r) \/ Wake(r) \/ Final(r)
    BY <2>1, Outsiders
  <2>2. CASE Lookup(r)
    BY <2>2, Lookups
  <2>3. CASE \/ TakeBuildSlot(r) \/ Poll(r) \/ ReadDisk(r) \/ UnlinkUnreadable(r)
             \/ Decode(r) \/ Analyze(r) \/ Install(r) \/ Trim(r)
    BY <2>3, OwnersFound
  <2>4. CASE Abandon(r) \/ BuildFails(r) \/ Land(r) \/ SubmitToDisk(r) \/ ReleaseFlight(r)
    BY <2>4, Endings
  <2>5. CASE Supersede(r)
    BY <2>5, Surroundings
  <2> QED
    BY <1>1, <2>1, <2>2, <2>3, <2>4, <2>5 DEF RequestStep
<1>2. CASE \/ MemoryPressure \/ FallbackExpires
           \/ EditCalibration \/ ClearGenerations \/ ClearMemory
           \/ DiskWrite \/ AllAnswered \/ UNCHANGED proxyVars
  BY <1>2, Surroundings DEF AllAnswered
<1> QED
  BY <1>1, <1>2 DEF ProxyNext

\* The flights, the requests that joined them and the build slots stay in step.
THEOREM StoreInvariant == ProxySpec => []StoreInv
<1> QED
  BY StoreInvInit, StoreInvNext, PTL DEF ProxySpec

\* FlightsAccounted, for any number of requests, files and build slots: a key
\* is built by one request at a time, every build slot comes back, and no
\* request waits for a flight nobody will end.
THEOREM FlightsAlwaysAccounted == ProxySpec => []FlightsAccounted
<1>1. StoreInv => FlightsAccounted
  <2> SUFFICES ASSUME StoreInv PROVE FlightsAccounted
    OBVIOUS
  <2> USE DEF StoreInv, FlightInv
  <2>1. Cardinality(Builders) \in Nat
    BY RequestsAssumption, FS_Subset, FS_CardinalityType DEF Builders
  <2>2. buildSlots \in 0..MaxBuilds
    BY <2>1, QuotaAssumption DEF SlotsKept
  <2>3. ProxyTypeOK
    BY <2>2 DEF ProxyTypeOK, Types
  <2>4. OneBuildPerKey
    BY DEF OneBuildPerKey, FlightsKnown, Running
  <2>5. BuildSlotsConserved
    BY DEF BuildSlotsConserved, SlotsKept, Builders
  <2>6. FlightsOwned
    BY DEF FlightsOwned, FlightsKnown, InterestKept, At
  <2> QED
    BY <2>3, <2>4, <2>5, <2>6 DEF FlightsAccounted, BuildsBounded
<1> QED
  BY <1>1, StoreInvariant, PTL

\* GuidanceHonoured, whichever way a proxy reached the request that needs the
\* guidance maps: from memory, from another's flight, from disk or built.
THEOREM GuidanceAlwaysHonoured == ProxySpec => []GuidanceHonoured
<1>1. StoreInv => GuidanceHonoured
  BY DEF StoreInv, FlightInv, GuidanceKept, GuidanceHonoured, Suffices, At
<1> QED
  BY <1>1, StoreInvariant, PTL

\* A request keeps its answer, is superseded when it is obsolete and served
\* when it is not.
AnswersInPlace(r) ==
    /\ \A q \in Requests : q # r => req'[q] = req[q]
    /\ req'[r].at = "superseded" => ~current[r]
    /\ req'[r].at = "served" => current[r]

\* Only Identify, Final, Wake and ReleaseFlight answer a request.
LEMMA AnswersStep ==
    ASSUME StoreInv, NEW r \in Requests, Arrive(r) \/ RequestStep(r)
    PROVE  AnswersInPlace(r)
<1>0. PICK A, K, G, J, P, S, E :
        req \in [Requests -> [at : A, key : K, guidance : G, joined : J,
                              polled : P, stage : S, entry : E]]
  BY RequestRecords DEF StoreInv
<1>p. /\ req[r].stage \in 1..3
      /\ flight \in [Requests -> [interests : SUBSET Requests, landed : BOOLEAN,
                                  error : {"none", "superseded", "failed"}]]
  BY DEF StoreInv, FlightInv, Types
<1>1. ASSUME \/ Arrive(r) \/ Lookup(r) \/ TakeBuildSlot(r) \/ ReadDisk(r) \/ UnlinkUnreadable(r)
             \/ Decode(r) \/ Analyze(r) \/ BuildFails(r) \/ Abandon(r)
             \/ Install(r) \/ Trim(r) \/ Land(r) \/ SubmitToDisk(r)
      PROVE  /\ \A q \in Requests : q # r => req'[q] = req[q]
             /\ req'[r].at \notin {"served", "superseded"}
  <2>0. CASE Arrive(r)
    <3>1. PICK f \in Files, g \in BOOLEAN :
            req' = [req EXCEPT ![r].at = "identify", ![r].guidance = g, ![r].key = <<f>>]
      BY <2>0 DEF Arrive
    <3>2. Becomes(r, Local("identify", <<f>>, g, req[r].joined, req[r].polled, req[r].stage,
                           req[r].entry))
      BY <3>1, Updates DEF StoreInv
    <3> QED
      BY <3>2 DEF Becomes, Local
  <2>1. CASE Lookup(r)
    BY <1>0, <2>1 DEF Lookup, Goto
  <2>2. CASE TakeBuildSlot(r) \/ Abandon(r) \/ BuildFails(r)
    BY <1>0, <2>2 DEF TakeBuildSlot, Abandon, BuildFails, Goto
  <2>3. CASE ReadDisk(r) \/ UnlinkUnreadable(r) \/ Decode(r) \/ Analyze(r)
    BY <1>0, <2>3 DEF ReadDisk, UnlinkUnreadable, Decode, Analyze, Goto
  <2>4. CASE Install(r) \/ Trim(r) \/ Land(r) \/ SubmitToDisk(r)
    BY <1>0, <2>4 DEF Install, Trim, Land, SubmitToDisk, Goto
  <2> QED
    BY <1>1, <2>0, <2>1, <2>2, <2>3, <2>4
<1>2. CASE Identify(r) \/ Final(r)
  BY <1>0, <1>2 DEF Identify, Final, Goto, AnswersInPlace
<1>3. CASE Poll(r)
  <2>1. req'[r].at \in {"disk", "decode", "analyze", "abandon"}
    BY <1>0, <1>3, <1>p DEF Poll
  <2> QED
    BY <1>0, <1>3, <2>1 DEF Poll, AnswersInPlace
<1>4. CASE Wake(r)
  <2> DEFINE f == req[r].joined
  <2>1. f \in Requests /\ r \in flight[f].interests
    BY <1>4 DEF Wake, At, StoreInv, FlightInv, InterestKept
  <2>2. flight[f].error = "superseded" => ~current[r]
    BY <2>1 DEF StoreInv, FlightInv, OutcomeLast
  <2>3. req'[r].at \in {"final", "lookup", flight[f].error}
    BY <1>0, <1>4 DEF Wake, Goto
  <2>4. flight[f].error \in {"none", "superseded", "failed"}
    BY <1>p, <2>1
  <2>5. \A q \in Requests : q # r => req'[q] = req[q]
    BY <1>0, <1>4 DEF Wake, Goto
  <2> QED
    BY <2>2, <2>3, <2>4, <2>5 DEF AnswersInPlace
<1>5. CASE ReleaseFlight(r)
  <2>1. r \in flight[r].interests
    BY <1>5 DEF ReleaseFlight, At, StoreInv, FlightInv, InterestKept, HoldingFlight
  <2>2. flight[r].error = "superseded" => ~current[r]
    BY <2>1 DEF StoreInv, FlightInv, OutcomeLast
  <2>3. req'[r].at \in {"final", flight[r].error} /\ flight[r].error # "served"
    BY <1>0, <1>5, <1>p DEF ReleaseFlight, Goto
  <2>4. \A q \in Requests : q # r => req'[q] = req[q]
    BY <1>0, <1>5 DEF ReleaseFlight, Goto
  <2> QED
    BY <2>2, <2>3, <2>4 DEF AnswersInPlace
<1> QED
  BY <1>1, <1>2, <1>3, <1>4, <1>5 DEF RequestStep, AnswersInPlace

\* ServedIfCurrent: a request that is still wanted is never answered
\* "superseded" by what happened to a flight it joined, and one that became
\* obsolete is not served any more.
THEOREM ServedOnlyIfCurrent == ProxySpec => ServedIfCurrent
<1>1. ASSUME StoreInv, [ProxyNext]_proxyVars, NEW r \in Requests
      PROVE  /\ current[r] /\ ~At(r, "superseded") => req'[r].at # "superseded"
             /\ ~current[r] /\ req'[r].at = "served" => At(r, "served")
  <2>1. CASE \E q \in Requests : Arrive(q) \/ RequestStep(q)
    <3>1. PICK q \in Requests : AnswersInPlace(q)
      BY <1>1, <2>1, AnswersStep
    <3> QED
      BY <3>1 DEF AnswersInPlace, At
  <2>2. CASE req' = req
    BY <2>2 DEF At
  <2>3. \/ \E q \in Requests : Arrive(q) \/ RequestStep(q)
        \/ req' = req
    BY <1>1 DEF ProxyNext, Supersede, MemoryPressure, FallbackExpires, EditCalibration,
                ClearGenerations, ClearMemory, DiskWrite, AllAnswered, proxyVars, storeVars
  <2> QED
    BY <2>1, <2>2, <2>3
<1>2. StoreInv /\ [ProxyNext]_proxyVars
        => /\ [\A r \in Requests : current[r] /\ ~At(r, "superseded")
                                     => req'[r].at # "superseded"]_proxyVars
           /\ [\A r \in Requests : ~current[r] /\ req'[r].at = "served" => At(r, "served")]_proxyVars
  BY <1>1
<1> QED
  BY <1>2, StoreInvariant, PTL DEF ProxySpec, ServedIfCurrent, CurrentNeverSuperseded,
                                   ObsoleteNeverServed
=============================================================================
