--------------------------- MODULE RenderScheduler ---------------------------
(***************************************************************************)
(* gui/scheduler.py: the single owner of render concurrency in the GUI.    *)
(*                                                                         *)
(* A request runs on a thread of its own, enters a slot of one kind        *)
(* (slot(kind)), computes, may borrow the slot again in helpers, and may   *)
(* give it back while it waits for a computation another request already   *)
(* started (shared_flight_wait).  One action per critical section or       *)
(* semaphore operation of _SlotLease; an interrupt (KeyboardInterrupt,     *)
(* InterruptedError, SystemExit) can hit every point the code guards.      *)
(*                                                                         *)
(* Left out: the *_seconds and completed counters and note_dropped, which  *)
(* no decision reads.                                                      *)
(***************************************************************************)
EXTENDS Integers, FiniteSets

CONSTANTS
    Threads,        \* request handler threads
    Kinds,          \* slot categories: preview, prepare, export
    Interactive,    \* the categories shared_flight_wait gives back
    Quotas,         \* _QUOTAS
    MaxCalls,       \* bound: scheduler calls one thread makes
    MaxInterrupts,  \* bound: interrupts delivered in a behaviour
    MaxDepth        \* bound: nesting of slot() on one thread

ASSUME ThreadsAssumption == IsFiniteSet(Threads)
ASSUME InteractiveAssumption == Interactive \subseteq Kinds
ASSUME QuotasAssumption == Quotas \in [Kinds -> Nat]
ASSUME BoundsAssumption == MaxCalls \in Nat /\ MaxInterrupts \in Nat /\ MaxDepth \in Nat

VARIABLES
    permits,     \* value of the BoundedSemaphore of each kind
    active,      \* RenderScheduler.active
    lease,       \* status of each thread's lease of each kind
    depth,       \* open slot() blocks of the thread
    waiting,     \* the thread is inside shared_flight_wait
    pending,     \* an exception propagates once admission is restored
    raised,      \* an exception is visible to the body of the slot
    calls,       \* scheduler calls the thread has made
    interrupts   \* interrupts delivered so far

vars == <<permits, active, lease, depth, waiting, pending, raised, calls, interrupts>>

\* "queued"   blocked in sem.acquire
\* "taken"    owns a permit, not accounted for yet
\* "counted"  accounted for, acquire() has not returned yet
\* "held"     lease.held, the body of the slot runs
\* "pausing", "closing", "aborting"  accounting undone, permit still owned
\* "paused"   permit returned for the duration of a shared-flight wait
Status == {"none", "queued", "taken", "counted", "held",
           "pausing", "paused", "closing", "aborting"}
Owning == {"taken", "counted", "held", "pausing", "closing", "aborting"}
Accounted == {"counted", "held"}

TypeOK ==
    /\ permits \in [Kinds -> Int]
    /\ active \in [Kinds -> Int]
    /\ lease \in [Threads -> [Kinds -> Status]]
    /\ depth \in [Threads -> 0..MaxDepth]
    /\ waiting \in [Threads -> BOOLEAN]
    /\ pending \in [Threads -> BOOLEAN]
    /\ raised \in [Threads -> BOOLEAN]
    /\ calls \in [Threads -> 0..MaxCalls]
    /\ interrupts \in 0..MaxInterrupts

Init ==
    /\ permits = Quotas
    /\ active = [k \in Kinds |-> 0]
    /\ lease = [t \in Threads |-> [k \in Kinds |-> "none"]]
    /\ depth = [t \in Threads |-> 0]
    /\ waiting = [t \in Threads |-> FALSE]
    /\ pending = [t \in Threads |-> FALSE]
    /\ raised = [t \in Threads |-> FALSE]
    /\ calls = [t \in Threads |-> 0]
    /\ interrupts = 0

Idle(t) == \A k \in Kinds : lease[t][k] = "none"

\* The thread runs the body of its slot: no scheduler call is in progress.
InBody(t) == ~waiting[t] /\ \E k \in Kinds : lease[t][k] = "held"

Call(t) == calls[t] < MaxCalls /\ calls' = [calls EXCEPT ![t] = @ + 1]

-----------------------------------------------------------------------------
(* slot(kind) on entry *)

\* No lease on this thread: a fresh lease queues on the semaphore.
SlotEnter(t, k) ==
    /\ Idle(t)
    /\ MaxDepth > 0
    /\ Call(t)
    /\ lease' = [lease EXCEPT ![t][k] = "queued"]
    /\ depth' = [depth EXCEPT ![t] = 1]
    /\ UNCHANGED <<permits, active, waiting, pending, raised, interrupts>>

\* A reentrant helper borrows the admission this request already has.
SlotBorrow(t, k) ==
    /\ InBody(t)
    /\ ~raised[t]
    /\ lease[t][k] = "held"
    /\ depth[t] < MaxDepth
    /\ Call(t)
    /\ depth' = [depth EXCEPT ![t] = @ + 1]
    /\ UNCHANGED <<permits, active, lease, waiting, pending, raised, interrupts>>

\* Mutant of SlotReject: a nested slot of another kind queues as well.
SlotNests(t, k) ==
    /\ InBody(t)
    /\ ~raised[t]
    /\ lease[t][k] = "none"
    /\ Call(t)
    /\ lease' = [lease EXCEPT ![t][k] = "queued"]
    /\ UNCHANGED <<permits, active, depth, waiting, pending, raised, interrupts>>

\* A slot of another kind inside a slot raises before acquiring anything.
SlotReject(t, k) ==
    /\ InBody(t)
    /\ ~raised[t]
    /\ lease[t][k] = "none"
    /\ Call(t)
    /\ raised' = [raised EXCEPT ![t] = TRUE]
    /\ UNCHANGED <<permits, active, lease, depth, waiting, pending, interrupts>>

-----------------------------------------------------------------------------
(* _SlotLease.acquire: on entry, and again from resume() *)

\* Mutant of AcquirePermit: resume() takes its slot back without waiting.
ResumeTakesPermit(t, k) ==
    /\ lease[t][k] = "queued"
    /\ permits[k] > 0 \/ waiting[t]
    /\ permits' = [permits EXCEPT ![k] = @ - 1]
    /\ lease' = [lease EXCEPT ![t][k] = "taken"]
    /\ UNCHANGED <<active, depth, waiting, pending, raised, calls, interrupts>>

AcquirePermit(t, k) ==
    /\ lease[t][k] = "queued"
    /\ permits[k] > 0
    /\ permits' = [permits EXCEPT ![k] = @ - 1]
    /\ lease' = [lease EXCEPT ![t][k] = "taken"]
    /\ UNCHANGED <<active, depth, waiting, pending, raised, calls, interrupts>>

RegisterAdmission(t, k) ==
    /\ lease[t][k] = "taken"
    /\ active' = [active EXCEPT ![k] = @ + 1]
    /\ lease' = [lease EXCEPT ![t][k] = "counted"]
    /\ UNCHANGED <<permits, depth, waiting, pending, raised, calls, interrupts>>

\* acquire() returns.  On entry the body starts; out of resume() the shared
\* wait is over and an interrupt or a flight's failure now propagates.
AcquireReturns(t, k) ==
    /\ lease[t][k] = "counted"
    /\ lease' = [lease EXCEPT ![t][k] = "held"]
    /\ waiting' = [waiting EXCEPT ![t] = FALSE]
    /\ raised' = [raised EXCEPT ![t] = pending[t]]
    /\ pending' = [pending EXCEPT ![t] = FALSE]
    /\ UNCHANGED <<permits, active, depth, calls, interrupts>>

\* Mutant of InterruptQueued: an interrupt ends resume() as well.
InterruptEndsResume(t, k) ==
    /\ lease[t][k] = "queued"
    /\ interrupts < MaxInterrupts
    /\ interrupts' = interrupts + 1
    /\ lease' = [lease EXCEPT ![t][k] = "none"]
    /\ depth' = [depth EXCEPT ![t] = 0]
    /\ waiting' = [waiting EXCEPT ![t] = FALSE]
    /\ UNCHANGED <<permits, active, pending, raised, calls>>

\* An interrupt ends the wait for the semaphore: the entering request fails
\* with nothing held, resume() remembers it and waits again.
InterruptQueued(t, k) ==
    /\ lease[t][k] = "queued"
    /\ interrupts < MaxInterrupts
    /\ interrupts' = interrupts + 1
    /\ IF waiting[t]
         THEN /\ pending' = [pending EXCEPT ![t] = TRUE]
              /\ UNCHANGED <<lease, depth>>
         ELSE /\ lease' = [lease EXCEPT ![t][k] = "none"]
              /\ depth' = [depth EXCEPT ![t] = 0]
              /\ UNCHANGED pending
    /\ UNCHANGED <<permits, active, waiting, raised, calls>>

\* An interrupt between the semaphore and acquire()'s return: the accounting
\* is rolled back if it was done.
InterruptRegistration(t, k) ==
    /\ lease[t][k] \in {"taken", "counted"}
    /\ interrupts < MaxInterrupts
    /\ interrupts' = interrupts + 1
    /\ active' = [active EXCEPT ![k] = IF lease[t][k] = "counted" THEN @ - 1 ELSE @]
    /\ lease' = [lease EXCEPT ![t][k] = "aborting"]
    /\ UNCHANGED <<permits, depth, waiting, pending, raised, calls>>

\* Mutant of ReleaseAborted: the permit stays out.
AbortLeaksPermit(t, k) ==
    /\ lease[t][k] = "aborting"
    /\ lease' = [lease EXCEPT ![t][k] = IF waiting[t] THEN "queued" ELSE "none"]
    /\ depth' = [depth EXCEPT ![t] = IF waiting[t] THEN @ ELSE 0]
    /\ pending' = [pending EXCEPT ![t] = waiting[t]]
    /\ UNCHANGED <<permits, active, waiting, raised, calls, interrupts>>

\* ... and the permit goes back before the exception leaves acquire().
ReleaseAborted(t, k) ==
    /\ lease[t][k] = "aborting"
    /\ permits' = [permits EXCEPT ![k] = @ + 1]
    /\ lease' = [lease EXCEPT ![t][k] = IF waiting[t] THEN "queued" ELSE "none"]
    /\ depth' = [depth EXCEPT ![t] = IF waiting[t] THEN @ ELSE 0]
    /\ pending' = [pending EXCEPT ![t] = waiting[t]]
    /\ UNCHANGED <<active, waiting, raised, calls, interrupts>>

-----------------------------------------------------------------------------
(* shared_flight_wait *)

\* Every interactive lease in hand is released (first its accounting); a
\* thread whose slot is not interactive keeps it and just waits.
BeginSharedWait(t) ==
    /\ InBody(t)
    /\ ~raised[t]
    /\ Call(t)
    /\ waiting' = [waiting EXCEPT ![t] = TRUE]
    /\ active' = [k \in Kinds |->
                    IF k \in Interactive /\ lease[t][k] = "held" THEN active[k] - 1 ELSE active[k]]
    /\ lease' = [lease EXCEPT ![t] = [k \in Kinds |->
                    IF k \in Interactive /\ @[k] = "held" THEN "pausing" ELSE @[k]]]
    /\ UNCHANGED <<permits, depth, pending, raised, interrupts>>

ReleaseForWait(t, k) ==
    /\ lease[t][k] = "pausing"
    /\ permits' = [permits EXCEPT ![k] = @ + 1]
    /\ lease' = [lease EXCEPT ![t][k] = "paused"]
    /\ UNCHANGED <<active, depth, waiting, pending, raised, calls, interrupts>>

\* The flight ends, with a value or with its owner's exception, and resume()
\* queues for the slot again.
ResumeLease(t, k) ==
    /\ lease[t][k] = "paused"
    /\ lease' = [lease EXCEPT ![t][k] = "queued"]
    /\ \E failed \in BOOLEAN : pending' = [pending EXCEPT ![t] = failed]
    /\ UNCHANGED <<permits, active, depth, waiting, raised, calls, interrupts>>

\* The same for a thread that gave nothing back.
EndPlainWait(t) ==
    /\ waiting[t]
    /\ \E k \in Kinds \ Interactive : lease[t][k] = "held"
    /\ waiting' = [waiting EXCEPT ![t] = FALSE]
    /\ \E failed \in BOOLEAN : raised' = [raised EXCEPT ![t] = failed]
    /\ UNCHANGED <<permits, active, lease, depth, pending, calls, interrupts>>

-----------------------------------------------------------------------------
(* leaving slot(kind) *)

\* A handler inside the slot catches the exception and keeps working.
CatchInBody(t) ==
    /\ InBody(t)
    /\ raised[t]
    /\ raised' = [raised EXCEPT ![t] = FALSE]
    /\ UNCHANGED <<permits, active, lease, depth, waiting, pending, calls, interrupts>>

\* Mutant of ExitBorrowed: the outermost block is taken for a borrowed one.
ExitAnyBlock(t) ==
    /\ InBody(t)
    /\ depth' = [depth EXCEPT ![t] = @ - 1]
    /\ UNCHANGED <<permits, active, lease, waiting, pending, raised, calls, interrupts>>

ExitBorrowed(t) ==
    /\ InBody(t)
    /\ depth[t] > 1
    /\ depth' = [depth EXCEPT ![t] = @ - 1]
    /\ UNCHANGED <<permits, active, lease, waiting, pending, raised, calls, interrupts>>

\* finish(): the accounting of the outermost block.
FinishLease(t, k) ==
    /\ InBody(t)
    /\ lease[t][k] = "held"
    /\ depth[t] = 1
    /\ active' = [active EXCEPT ![k] = @ - 1]
    /\ lease' = [lease EXCEPT ![t][k] = "closing"]
    /\ UNCHANGED <<permits, depth, waiting, pending, raised, calls, interrupts>>

\* ... then the semaphore, and the lease leaves the thread's list.
ReleaseSlot(t, k) ==
    /\ lease[t][k] = "closing"
    /\ permits' = [permits EXCEPT ![k] = @ + 1]
    /\ lease' = [lease EXCEPT ![t][k] = "none"]
    /\ depth' = [depth EXCEPT ![t] = 0]
    /\ raised' = [raised EXCEPT ![t] = FALSE]
    /\ UNCHANGED <<active, waiting, pending, calls, interrupts>>

\* No thread is in a slot and none will call again.
Quiet == /\ \A t \in Threads : Idle(t) /\ calls[t] = MaxCalls
         /\ UNCHANGED vars

-----------------------------------------------------------------------------
\* Steps a thread takes by itself once its computation or its flight is done.
Progress(t) ==
    \/ \E k \in Kinds :
         \/ AcquirePermit(t, k) \/ RegisterAdmission(t, k) \/ AcquireReturns(t, k)
         \/ ReleaseAborted(t, k) \/ ReleaseForWait(t, k) \/ ResumeLease(t, k)
         \/ FinishLease(t, k) \/ ReleaseSlot(t, k)
    \/ EndPlainWait(t)
    \/ ExitBorrowed(t)

\* Steps that depend on what the request does or on the environment.
Request(t) ==
    \/ \E k \in Kinds :
         \/ SlotEnter(t, k) \/ SlotBorrow(t, k) \/ SlotReject(t, k)
         \/ InterruptQueued(t, k) \/ InterruptRegistration(t, k)
    \/ BeginSharedWait(t)
    \/ CatchInBody(t)

Next == (\E t \in Threads : Progress(t) \/ Request(t)) \/ Quiet

Spec == Init /\ [][Next]_vars

\* A thread is scheduled, a computation and a flight end.
FairSpec == Spec /\ \A t \in Threads : WF_vars(Progress(t))

-----------------------------------------------------------------------------
Owners(k) == {t \in Threads : lease[t][k] \in Owning}
Members(k) == {t \in Threads : lease[t][k] \in Accounted}
Computing(k) == {t \in Threads : lease[t][k] = "held" /\ ~waiting[t]}

\* The class quotas are the memory contract for concurrent renders (lines
\* 17-18): never more requests computing in a slot of a kind than its quota.
QuotaRespected == \A k \in Kinds : Cardinality(Computing(k)) <= Quotas[k]

\* Through pauses, interrupts and rollbacks no permit is lost and none is
\* returned twice (a BoundedSemaphore would raise and the lease would leak).
PermitsConserved == \A k \in Kinds : permits[k] + Cardinality(Owners(k)) = Quotas[k]

\* The published active count is the number of admitted requests, so it never
\* shows more than the quota, whichever half of acquire or release has run.
ActiveTruthful == \A k \in Kinds : /\ active[k] = Cardinality(Members(k))
                                   /\ active[k] <= Quotas[k]

\* The slots add up: quotas hold, no permit and no admission is lost or counted
\* twice, whichever half of acquire or release has run.
SlotsAccounted == QuotaRespected /\ PermitsConserved /\ ActiveTruthful

\* A thread that waits for a permit or for an interactive flight owns no slot:
\* the ABBA wait cycle the comment at lines 166-168 speaks of cannot form.
NoHoldAndWait ==
    \A t \in Threads : \A k \in Kinds :
        lease[t][k] \in {"queued", "paused"} => \A j \in Kinds : lease[t][j] \notin Owning

\* A shared wait ends, normally, by interrupt or by the flight's failure, only
\* with the admission it gave back restored (lines 100-102, 131-133).
AdmissionRestored ==
    [][\A t \in Threads : (waiting[t] /\ ~waiting'[t]) =>
            \E k \in Kinds : lease[t][k] # "none" /\ lease'[t][k] = "held"]_vars

\* No combination of slots, waits and interrupts leaves a request stuck.
EveryRequestLeaves == \A t \in Threads : ~Idle(t) ~> Idle(t)

=============================================================================
