--------------------------- MODULE CalibrationStore ---------------------------
(***************************************************************************)
(* The store of imported measurements (calibration.py): one JSON record    *)
(* per measurement, named for the digest of its payload.  Commands of the  *)
(* command line and requests of the GUI (gui/calibration_service.py) edit  *)
(* it without a lock; the GUI's make the previews forget what they know.   *)
(***************************************************************************)
EXTENDS Naturals, Sequences

CONSTANTS
    Commands,        \* edits of the store
    FromGui,         \* those that are requests of the GUI
    Ids,             \* digests of importable payloads
    Unusable,        \* a group of a package with nothing to import
    Packages,        \* what is imported: sequences of groups
    MaxMishaps       \* bound: invalid payloads, full disks, killed processes

ASSUME StoreAssumption ==
    FromGui \subseteq Commands /\ Unusable \notin Ids /\ Packages \subseteq Seq(Ids \cup {Unusable})

VARIABLES
    store,           \* the records, by id
    cmd,             \* the commands
    temporaries,     \* commands whose temporary file is on disk
    directories,     \* requests whose files are on disk
    clock,           \* what imported_at counts
    stale,           \* commands with an edit no _invalidate_preview has followed
    mishaps,         \* counter of the bound
    history          \* what the properties remember

storeVars == <<store, cmd, temporaries, directories, clock, stale, mishaps, history>>

Absent == [kind |-> "absent"]
Record(id, active, stamp) == [kind |-> "record", payload |-> id, active |-> active, stamp |-> stamp]
NoCommand == [at |-> "idle", op |-> "none", todo |-> <<>>, id |-> Unusable, record |-> Absent]

StoreInit ==
    /\ store = [i \in Ids |-> Absent]
    /\ cmd = [c \in Commands |-> NoCommand]
    /\ temporaries = {} /\ directories = {}
    /\ clock = 0
    /\ stale = {}
    /\ mishaps = 0
    /\ history = [removed |-> {}, newest |-> [i \in Ids |-> 0]]

Becomes(c, new) == cmd' = [cmd EXCEPT ![c] = new]
Reaches(c, place) == cmd' = [cmd EXCEPT ![c].at = place]
\* What a command that is over still tells.
Leaves(c, place) ==
    Becomes(c, [cmd[c] EXCEPT !.at = place, !.id = Unusable, !.record = Absent, !.todo = <<>>])
Is(c, place) == cmd[c].at = place
Mishap == mishaps < MaxMishaps /\ mishaps' = mishaps + 1

\* The end of the editing: the GUI goes on to forget its previews.
Edited(c) == IF c \in FromGui THEN "generations" ELSE "answered"

-----------------------------------------------------------------------------
(* import_calibrations *)

\* _selected_sources: the files of a request are checked and written to a
\* directory of its own, which goes when the import ends or raises.
ReadFiles(c) ==
    /\ c \in FromGui /\ Is(c, "idle")
    /\ \/ directories' = directories \cup {c} /\ Reaches(c, "files") /\ UNCHANGED mishaps
       \/ Mishap /\ Leaves(c, "raised") /\ UNCHANGED directories
    /\ UNCHANGED <<store, temporaries, clock, stale, history>>

\* prepare_sources has found the groups.
BeginImport(c) ==
    /\ Is(c, IF c \in FromGui THEN "files" ELSE "idle")
    /\ \E package \in Packages :
         Becomes(c, [NoCommand EXCEPT !.at = "groups", !.op = "import", !.todo = package])
    /\ UNCHANGED <<directories, store, temporaries, clock, stale, mishaps, history>>

\* A group that is not selected, or cannot be imported, is reported and left out.
SkipGroup(c) ==
    /\ Is(c, "groups") /\ cmd[c].todo # <<>>
    /\ Becomes(c, [cmd[c] EXCEPT !.todo = Tail(@)])
    /\ UNCHANGED <<directories, store, temporaries, clock, stale, mishaps, history>>

\* _install_payload makes a record of the present time.
InstallPayload(c) ==
    /\ Is(c, "groups") /\ cmd[c].todo # <<>> /\ Head(cmd[c].todo) # Unusable
    /\ clock' = clock + 1
    /\ Becomes(c, [cmd[c] EXCEPT !.at = "temporary", !.id = Head(cmd[c].todo),
               !.record = Record(Head(cmd[c].todo), TRUE, clock')])
    /\ UNCHANGED <<directories, store, temporaries, stale, mishaps, history>>

EndImport(c) ==
    /\ Is(c, "groups") /\ cmd[c].todo = <<>>
    /\ Reaches(c, Edited(c))
    /\ directories' = directories \ {c}
    /\ UNCHANGED <<store, temporaries, clock, stale, mishaps, history>>

-----------------------------------------------------------------------------
(* _atomic_write: a temporary beside the record, written, synced, renamed *)

WriteTemporary(c) ==
    /\ Is(c, "temporary")
    /\ temporaries' = temporaries \cup {c}
    /\ Reaches(c, "replace")
    /\ UNCHANGED <<directories, store, clock, stale, mishaps, history>>

\* An activation has read the record and not yet written it back.
ReadBy(i) == \E d \in Commands : cmd[d].op = "activate" /\ cmd[d].id = i /\ cmd[d].at \in {"temporary", "replace"}

\* What becomes of the command when its record is in place.
Written(c) ==
    IF cmd[c].op = "import"
      THEN [cmd[c] EXCEPT !.at = "groups", !.todo = Tail(@)]
      ELSE [NoCommand EXCEPT !.at = Edited(c), !.op = cmd[c].op]

ReplaceRecord(c) ==
    /\ Is(c, "replace")
    /\ store' = [store EXCEPT ![cmd[c].id] = cmd[c].record]
    /\ temporaries' = temporaries \ {c}
    /\ Becomes(c, Written(c))
    /\ stale' = stale \cup {c}
    /\ history' = IF cmd[c].op # "import" THEN history ELSE [history EXCEPT
           !.removed = @ \ {cmd[c].id},
           !.newest[cmd[c].id] = IF ReadBy(cmd[c].id) THEN 0 ELSE cmd[c].record.stamp]
    /\ UNCHANGED <<directories, clock, mishaps>>

\* Mutant of CommandFails: the temporary is left behind.
CommandFailsUntidily(c) ==
    /\ cmd[c].at \in {"groups", "temporary", "replace"} /\ Mishap
    /\ Leaves(c, "raised")
    /\ UNCHANGED <<store, temporaries, directories, clock, stale, history>>

\* Validation, the limit of a record or the disk raises: the temporary goes, the
\* groups installed before stay, and nothing after them is done.
CommandFails(c) ==
    /\ cmd[c].at \in {"groups", "temporary", "replace"} /\ Mishap
    /\ temporaries' = temporaries \ {c} /\ directories' = directories \ {c}
    /\ Leaves(c, "raised")
    /\ UNCHANGED <<store, clock, stale, history>>

-----------------------------------------------------------------------------
(* set_calibration_active and remove_calibration *)

\* Mutant of BeginActivation: the caller's idea of the record is written.
BeginActivationBlindly(c) ==
    /\ Is(c, "idle")
    /\ \E i \in Ids, active \in BOOLEAN :
         Becomes(c, [NoCommand EXCEPT !.at = "temporary", !.op = "activate", !.id = i,
                                      !.record = Record(i, active, 0)])
    /\ UNCHANGED <<directories, store, temporaries, clock, stale, mishaps, history>>

\* The record is read and validated, and will be written back with the new state.
BeginActivation(c) ==
    /\ Is(c, "idle")
    /\ \E i \in Ids, active \in BOOLEAN :
         Becomes(c, IF store[i] = Absent
                      THEN [NoCommand EXCEPT !.at = "raised", !.op = "activate"]
                      ELSE [NoCommand EXCEPT !.at = "temporary", !.op = "activate", !.id = i,
                                             !.record = [store[i] EXCEPT !.active = active]])
    /\ UNCHANGED <<directories, store, temporaries, clock, stale, mishaps, history>>

\* unlink raises when there is nothing to remove.
RemoveRecord(c) ==
    /\ Is(c, "idle")
    /\ \E i \in Ids :
         IF store[i] = Absent
           THEN /\ Becomes(c, [NoCommand EXCEPT !.at = "raised", !.op = "remove"])
                /\ UNCHANGED <<store, stale, history>>
           ELSE /\ store' = [store EXCEPT ![i] = Absent]
                /\ Becomes(c, [NoCommand EXCEPT !.at = Edited(c), !.op = "remove"])
                /\ stale' = stale \cup {c}
                /\ history' = [history EXCEPT !.removed = IF ReadBy(i) THEN @ ELSE @ \cup {i}]
    /\ UNCHANGED <<directories, temporaries, clock, mishaps>>

-----------------------------------------------------------------------------
(* _invalidate_preview, and the end of a command *)

\* Mutant of Invalidate: only the memory is cleared.
InvalidateMemory(c) ==
    /\ Is(c, "generations")
    /\ Leaves(c, "answered")
    /\ UNCHANGED <<directories, store, temporaries, clock, stale, mishaps, history>>

Invalidate(c) ==
    /\ Is(c, "generations")
    /\ stale' = {}
    /\ Leaves(c, "answered")
    /\ UNCHANGED <<directories, store, temporaries, clock, mishaps, history>>

\* A process of the command line is killed, with its temporary on disk.
Kill(c) ==
    /\ c \notin FromGui /\ cmd[c].at \in {"groups", "temporary", "replace"} /\ Mishap
    /\ Leaves(c, "killed")
    /\ UNCHANGED <<directories, store, temporaries, clock, stale, history>>

StoreNext ==
    \E c \in Commands :
        \/ ReadFiles(c) \/ BeginImport(c) \/ SkipGroup(c) \/ InstallPayload(c) \/ EndImport(c)
        \/ WriteTemporary(c) \/ ReplaceRecord(c) \/ CommandFails(c)
        \/ BeginActivation(c) \/ RemoveRecord(c) \/ Invalidate(c) \/ Kill(c)
StoreSpec == StoreInit /\ [][StoreNext]_storeVars

-----------------------------------------------------------------------------
Over == {"answered", "raised", "killed"}

\* A record is that of its name; whatever raises, only a killed process leaves a
\* temporary, and no request leaves the files it was sent.
StoreTypeOK ==
    /\ \A i \in Ids : store[i] = Absent \/ (store[i].payload = i /\ store[i].active \in BOOLEAN)
    /\ \A c \in Commands : cmd[c].record # Absent => cmd[c].record.payload = cmd[c].id
    /\ \A c \in temporaries : cmd[c].at \in {"replace", "killed"}
    /\ \A c \in directories : cmd[c].at \notin Over

\* A measurement that was removed stays away until it is imported again, and one
\* that was imported again carries the time of that import ("the one imported last
\* is preferred", docs/NOISE_CALIBRATION.zh-CN.md), unless an activation had read
\* the record before: to read, change and write back is not one step.
EditsOutlast ==
    \A i \in Ids : /\ i \in history.removed => store[i] = Absent
                   /\ store[i] # Absent => store[i].stamp >= history.newest[i]

\* "Clearing generations prevents a render already in flight from publishing the
\* old profile after this request has completed" (calibration_service.py): no
\* request that is answered leaves an edit the previews were not told of, be it
\* an import of several groups or an edit another one has overtaken.
EditsForgetPreviews == \A c \in stale : ~Is(c, "answered") \/ c \notin FromGui

\* What an edit leaves behind: whole records of their names, no file of its own,
\* nothing undone and no preview of the time before.
EditsHold == StoreTypeOK /\ EditsOutlast /\ EditsForgetPreviews
===============================================================================
