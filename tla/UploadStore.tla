----------------------------- MODULE UploadStore -----------------------------
(***************************************************************************)
(* gui/uploads.py: the browser's RAW files, streamed into a directory with *)
(* a quota.  The coroutines of store_stream run on one event loop, so a    *)
(* step is what lies between two awaits; a request may be cancelled at any *)
(* await, and the user may delete staged files behind the store.           *)
(***************************************************************************)
EXTENDS Naturals, FiniteSets, Functions

CONSTANTS
    Uploads,         \* calls of store_stream
    Lengths,         \* declared content lengths
    UploadMax,       \* UPLOAD_MAX_BYTES
    UploadTotal,     \* UPLOAD_TOTAL_MAX_BYTES
    UploadSlots,     \* UPLOAD_MAX_CONCURRENT
    MaxRemovals      \* bound: files the user deletes

ASSUME UploadAssumption ==
    /\ IsFiniteSet(Uploads) /\ Lengths \subseteq Nat
    /\ {UploadMax, UploadTotal, UploadSlots, MaxRemovals} \subseteq Nat

VARIABLES
    upload,          \* every call: where it is, its length, what it received
    stored,          \* bytes of the file it has renamed into place
    reserved,        \* _reserved_bytes
    committed,       \* _committed_bytes
    activeSlots,     \* _active_slots
    freeSlots,       \* the semaphore _slots
    removals         \* counter of the bound

uploadVars == <<upload, stored, reserved, committed, activeSlots, freeSlots, removals>>

\* _upload_root_usage: partial files and the excluded directories do not count.
Usage(excluded) == SumFunctionOnSet(stored, Uploads \ excluded)

UploadInit ==
    /\ upload = [u \in Uploads |-> [at |-> "idle", length |-> 0, received |-> 0]]
    /\ stored = [u \in Uploads |-> 0]
    /\ reserved = 0 /\ committed = 0
    /\ activeSlots = {} /\ freeSlots = UploadSlots
    /\ removals = 0

Goes(u, place) == upload' = [upload EXCEPT ![u].at = place]
Refused(u, length) == upload' = [upload EXCEPT ![u].at = "refused", ![u].length = length]

\* Mutant of Reserve: the directory is not looked at again.
ReserveFromBooks(u, length) ==
    IF committed + reserved + length > UploadTotal
      THEN Refused(u, length) /\ UNCHANGED <<reserved, committed, activeSlots, freeSlots>>
      ELSE /\ upload' = [upload EXCEPT ![u].at = "streaming", ![u].length = length]
           /\ reserved' = reserved + length /\ UNCHANGED committed
           /\ activeSlots' = activeSlots \cup {u} /\ freeSlots' = freeSlots - 1

\* _reserve, and the directory and the partial file of an upload that may begin.
Reserve(u, length) ==
    /\ committed' = Usage(activeSlots)
    /\ IF committed' + reserved + length > UploadTotal
         THEN Refused(u, length) /\ UNCHANGED <<reserved, activeSlots, freeSlots>>
         ELSE /\ upload' = [upload EXCEPT ![u].at = "streaming", ![u].length = length]
              /\ reserved' = reserved + length
              /\ activeSlots' = activeSlots \cup {u} /\ freeSlots' = freeSlots - 1

\* store_stream down to its first await.
BeginUpload(u) ==
    /\ upload[u].at = "idle"
    /\ \E length \in Lengths :
         IF freeSlots > 0 /\ length \in 1..UploadMax THEN Reserve(u, length)
         ELSE Goes(u, "invalid") /\ UNCHANGED <<reserved, committed, activeSlots, freeSlots>>
    /\ UNCHANGED <<stored, removals>>

ReceiveChunk(u) ==
    /\ upload[u].at = "streaming" /\ upload[u].received < upload[u].length
    /\ upload' = [upload EXCEPT ![u].received = @ + 1]
    /\ UNCHANGED <<stored, reserved, committed, activeSlots, freeSlots, removals>>

\* os.replace on another thread; the coroutine goes on later.
RenameUpload(u) ==
    /\ upload[u].at = "streaming" /\ upload[u].received = upload[u].length
    /\ Goes(u, "renamed")
    /\ stored' = [stored EXCEPT ![u] = upload[u].length]
    /\ UNCHANGED <<reserved, committed, activeSlots, freeSlots, removals>>

\* Mutant of EndUpload: the directory stays excluded from the usage.
EndExcluded(u, isCommitted) ==
    /\ reserved' = reserved - upload[u].length
    /\ committed' = IF isCommitted THEN committed + upload[u].length ELSE committed
    /\ freeSlots' = freeSlots + 1 /\ UNCHANGED activeSlots

\* _release_reservation and the permit.
EndUpload(u, isCommitted) ==
    /\ reserved' = reserved - upload[u].length
    /\ committed' = IF isCommitted THEN committed + upload[u].length ELSE committed
    /\ activeSlots' = activeSlots \ {u}
    /\ freeSlots' = freeSlots + 1

ReturnUpload(u) ==
    /\ upload[u].at = "renamed"
    /\ Goes(u, "returned")
    /\ EndUpload(u, TRUE)
    /\ UNCHANGED <<stored, removals>>

\* The body is too short or too long, a write fails, the request is cancelled:
\* the partial file goes, a file already renamed stays, unknown to its caller.
AbortUpload(u) ==
    /\ upload[u].at \in {"streaming", "renamed"}
    /\ Goes(u, "aborted")
    /\ EndUpload(u, FALSE)
    /\ UNCHANGED <<stored, removals>>

\* The user deletes a staged file.
RemoveUpload(u) ==
    /\ removals < MaxRemovals /\ u \notin activeSlots /\ stored[u] > 0
    /\ removals' = removals + 1
    /\ stored' = [stored EXCEPT ![u] = 0]
    /\ UNCHANGED <<upload, reserved, committed, activeSlots, freeSlots>>

UploadNext ==
    \E u \in Uploads : \/ BeginUpload(u) \/ ReceiveChunk(u) \/ RenameUpload(u) \/ ReturnUpload(u)
                       \/ AbortUpload(u) \/ RemoveUpload(u)
UploadSpec == UploadInit /\ [][UploadNext]_uploadVars

-----------------------------------------------------------------------------
Streaming == {u \in Uploads : upload[u].at = "streaming"}

UploadTypeOK ==
    /\ stored \in [Uploads -> Nat]
    /\ reserved \in 0..UploadTotal
    /\ activeSlots \subseteq Uploads
    /\ freeSlots + Cardinality(activeSlots) = UploadSlots

\* The directory never outgrows its quota: files in place, orphans of cancelled
\* requests among them, and what the streams in flight have written.
QuotaHolds ==
    SumFunction(stored) + SumFunctionOnSet([u \in Uploads |-> upload[u].received], Streaming)
        <= UploadTotal

\* An upload is refused only when it would not fit beside the files that are
\* there and what was promised to the streams in flight: a deleted file gives
\* its space back at once, a renamed one is not counted twice.
RefusedOnlyIfFull ==
    [][\A u \in Uploads : upload[u].at = "idle" /\ upload'[u].at = "refused" =>
         SumFunction(stored) + SumFunctionOnSet([v \in Uploads |-> upload[v].length], Streaming)
           + upload'[u].length > UploadTotal]_uploadVars

\* The quota is kept, and nobody is turned away for space that is free.
UploadsAccounted == []QuotaHolds /\ RefusedOnlyIfFull
=============================================================================
