----------------------------- MODULE DiskWriter -----------------------------
(***************************************************************************)
(* gui/preview_cache.py, DiskWriter with _write_disk_entry and             *)
(* _trim_disk_cache: the one optional thread that persists proxies, fed by *)
(* a bounded, replaceable queue.  The directory is the sequence of its     *)
(* files by modification time, oldest first; a job and a file are records  *)
(* with the fields path and entry.                                         *)
(***************************************************************************)
EXTENDS Lru

CONSTANTS
    Paths,          \* cache file names
    MaxPending,     \* max_items
    MaxPendingBytes,\* max_bytes
    MaxFiles        \* MAX_DISK_CACHE_FILES

ASSUME DiskAssumption == MaxPending \in Nat \ {0} /\ {MaxPendingBytes, MaxFiles} \subseteq Nat

CONSTANTS
    EntryBytes(_),  \* _owned_bytes of a snapshot
    Durable(_)      \* the entry carries no scene_decoder_fallback

VARIABLES
    pending,        \* _pending, oldest submission first
    writing,        \* the job _run holds (_active), a sequence of at most one
    files           \* the .npz files, oldest first

diskVars == <<pending, writing, files>>

DiskInit == pending = <<>> /\ writing = <<>> /\ files = <<>>

Job(p, e) == [path |-> p, entry |-> e]
OtherPaths(q, p) == RemoveFirstMatch(q, LAMBDA job : job.path = p)
TotalBytes(q) == SumFunction([i \in DOMAIN q |-> EntryBytes(q[i].entry)])
PendingFits(q) == Len(q) <= MaxPending /\ TotalBytes(q) <= MaxPendingBytes

\* The longest run of the newest submissions that fits.
NewestFitting(q) ==
    LET fitting == {i \in 1..Len(q) + 1 : PendingFits(SubSeq(q, i, Len(q)))}
        first == CHOOSE i \in fitting : \A j \in fitting : i <= j
    IN  SubSeq(q, first, Len(q))

\* Mutant of Submit: a queued snapshot is kept.
SubmitKeepsQueued(p, e) ==
    /\ pending' = IF EntryBytes(e) > MaxPendingBytes \/ OtherPaths(pending, p) # pending
                    THEN pending
                    ELSE NewestFitting(Append(pending, Job(p, e)))
    /\ UNCHANGED <<writing, files>>

\* The newest submission of a path replaces the queued one; what does not fit
\* is dropped, oldest first.  An entry beyond the byte limit never queues.
Submit(p, e) ==
    /\ pending' = IF EntryBytes(e) > MaxPendingBytes
                    THEN pending
                    ELSE NewestFitting(Append(OtherPaths(pending, p), Job(p, e)))
    /\ UNCHANGED <<writing, files>>

WriterTakes ==
    /\ pending # <<>>
    /\ writing = <<>>
    /\ writing' = <<Head(pending)>>
    /\ pending' = Tail(pending)
    /\ UNCHANGED files

\* os.replace, then the oldest files go.  An entry produced by a decoder
\* fallback is not written at all, and any failure leaves the directory as is.
WriterReplaces ==
    /\ writing # <<>>
    /\ Durable(writing[1].entry)
    /\ files' = KeepNewest(Append(OtherPaths(files, writing[1].path), writing[1]), MaxFiles)
    /\ writing' = <<>>
    /\ UNCHANGED pending

\* Mutant of WriterSkips: a job that failed is queued again.
WriterRequeues ==
    /\ writing # <<>>
    /\ writing' = <<>>
    /\ pending' = NewestFitting(Append(pending, writing[1]))
    /\ UNCHANGED files

WriterSkips ==
    /\ writing # <<>>
    /\ writing' = <<>>
    /\ UNCHANGED <<pending, files>>

\* A reader that could not read the file removes it (lines 920-925).
Unlink(p) ==
    /\ files' = OtherPaths(files, p)
    /\ UNCHANGED <<pending, writing>>

WriterStep == WriterTakes \/ WriterReplaces \/ WriterSkips

OnDisk(p) == {files[i].entry : i \in {j \in DOMAIN files : files[j].path = p}}

=============================================================================
