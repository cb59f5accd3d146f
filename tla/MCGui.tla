------------------------------- MODULE MCGui -------------------------------
(***************************************************************************)
(* The parts of the GUI that share no state: the registry of preview       *)
(* sessions, the disk writer, the upload store, the CPU budget and the     *)
(* caches of an open proxy, each explored on its own.                      *)
(***************************************************************************)
EXTENDS DiskWriter, PreviewCoordinator, UploadStore, CpuBudget, RuntimeCache, TLC

-----------------------------------------------------------------------------
(* The disk writer, driven by flights that submit numbered snapshots of a few paths
   and by readers that unlink what they cannot read *)

CONSTANTS
    MaxSubmissions,   \* bound: snapshots submitted
    MaxUnlinks        \* bound: unreadable files met

VARIABLES
    newest,      \* history: newest[p] is the last version submitted for p
    mishap,      \* history: paths whose newest submission was dropped or failed
    submissions, \* snapshots submitted so far
    unlinks      \* files unlinked so far

mcVars == <<pending, writing, files, newest, mishap, submissions, unlinks>>

MCBytes(e) == e.bytes
MCDurable(e) == ~e.fallback
Snapshots(n) ==
    [version : {n}, bytes : {1, 2, 4}, fallback : {FALSE}] \cup
    [version : {n}, bytes : {1}, fallback : {TRUE}]

ASSUME SnapshotsAssumption ==
    /\ MaxSubmissions \in Nat
    /\ \A n \in 1..MaxSubmissions : \A e \in Snapshots(n) : EntryBytes(e) \in Nat

Versions(q) == {q[i].entry.version : i \in DOMAIN q}

MCInit ==
    /\ DiskInit
    /\ newest = [p \in Paths |-> 0]
    /\ mishap = {}
    /\ submissions = 0
    /\ unlinks = 0

\* The paths whose newest submission is in q but not in r.
Dropped(q, r) == {p \in Paths : newest'[p] \in Versions(q) \ Versions(r)}

SubmitSnapshot(p) ==
    /\ submissions < MaxSubmissions
    /\ submissions' = submissions + 1
    /\ \E e \in Snapshots(submissions + 1) :
         /\ Submit(p, e)
         /\ newest' = [newest EXCEPT ![p] = e.version]
         /\ mishap' = (IF EntryBytes(e) > MaxPendingBytes THEN mishap \cup {p} ELSE mishap \ {p})
                        \cup Dropped(pending, pending')
    /\ UNCHANGED unlinks

TakeJob == WriterTakes /\ UNCHANGED <<newest, mishap, submissions, unlinks>>
ReplaceFile == WriterReplaces /\ UNCHANGED <<newest, mishap, submissions, unlinks>>
SkipJob ==
    /\ UNCHANGED <<newest, submissions, unlinks>>
    /\ WriterSkips
    /\ mishap' = mishap \cup Dropped(writing, <<>>)

UnlinkFile(p) ==
    /\ unlinks < MaxUnlinks
    /\ unlinks' = unlinks + 1
    /\ Unlink(p)
    /\ UNCHANGED <<newest, mishap, submissions>>

Idle == pending = <<>> /\ writing = <<>>

MCNext ==
    \/ \E p \in Paths : SubmitSnapshot(p) \/ UnlinkFile(p)
    \/ TakeJob \/ ReplaceFile \/ SkipJob

-----------------------------------------------------------------------------
DiskTypeOK ==
    /\ \A q \in {pending, writing, files} : \A i \in DOMAIN q : q[i].path \in Paths
    /\ Len(writing) <= 1
    /\ mishap \subseteq Paths

\* The queue is the writer's memory contract: never more snapshots, nor more
\* bytes, than its two limits, whatever arrives while the writer is busy.
QueueBounded == Len(pending) <= MaxPending /\ TotalBytes(pending) <= MaxPendingBytes

\* Once the writer is idle a file holds the newest snapshot submitted for it,
\* unless that one was dropped for space or could not be written.
NewestPersisted ==
    Idle => \A p \in Paths \ mishap : \A e \in OnDisk(p) : e.version = newest[p]

\* What is queued is written or given up: flush() cannot wait for ever.
WriterDrains == pending # <<>> ~> Idle

-----------------------------------------------------------------------------
(* The parts *)

VARIABLE part    \* which of them moves

guiVars == <<part, mcVars, coordinatorVars, uploadVars, cpuVars, cacheVars>>

\* Caches small enough for every eviction to happen.
MCLimits == [kind \in Kinds |-> 1]
MCEvictionOrder ==
    SelectSeq(<<"balance", "pixel", "plan">>, LAMBDA cache : cache \in Kinds \cup {"pixel"})

\* Three callers, or one of them and the frames.
CallsOrFrames == renders = 0 \/ Cardinality({c \in Callers : ~LookupAt(c, "idle")}) <= 1

Init ==
    /\ MCInit /\ CoordinatorInit /\ UploadInit /\ CpuInit /\ CacheInit
    /\ \/ part \in {"disk", "registry", "uploads", "caches"} /\ machine = CHOOSE x \in [total : Totals, core : BOOLEAN] : TRUE
       \/ part = "cpu"

Next ==
    \/ part = "disk" /\ MCNext /\ UNCHANGED <<part, coordinatorVars, uploadVars, cpuVars, cacheVars>>
    \/ part = "registry" /\ CoordinatorNext /\ UNCHANGED <<part, mcVars, uploadVars, cpuVars, cacheVars>>
    \/ part = "uploads" /\ UploadNext /\ UNCHANGED <<part, mcVars, coordinatorVars, cpuVars, cacheVars>>
    \/ part = "cpu" /\ CpuNext /\ UNCHANGED <<part, mcVars, coordinatorVars, uploadVars, cacheVars>>
    \/ part = "caches" /\ CacheNext /\ CallsOrFrames'
         /\ UNCHANGED <<part, mcVars, coordinatorVars, uploadVars, cpuVars>>

Spec ==
    /\ Init /\ [][Next]_guiVars
    /\ WF_mcVars(part = "disk" /\ TakeJob)
    /\ WF_mcVars(part = "disk" /\ (ReplaceFile \/ SkipJob))
    /\ \A w \in StreamWorkers :
         /\ WF_cpuVars(part = "cpu" /\ MapStep(w))
         /\ SF_cpuVars(part = "cpu" /\ \E i \in 1..MaxItems : RunBatch(w, i))
    /\ \A c \in Callers : WF_cacheVars(part = "caches" /\ CallStep(c))

-----------------------------------------------------------------------------
\* The types of the five parts, and what goes with them: both registries name
\* the sessions of their order, the queue of the writer keeps its two limits, a
\* map that returns has computed every batch.
GuiTypeOK ==
    /\ CoordinatorTypeOK /\ RegistryConsistent /\ RecentSessionsKept
    /\ DiskTypeOK /\ QueueBounded
    /\ UploadTypeOK
    /\ CpuTypeOK /\ ReturnsWhole
    /\ CacheTypeOK

\* Every entry of the writer's queue and every map comes to its end, and
\* every call of a cache returns.
WorkEnds == WriterDrains /\ EveryMapEnds /\ EveryCallReturns
=============================================================================
