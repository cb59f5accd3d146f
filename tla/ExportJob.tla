------------------------------ MODULE ExportJob ------------------------------
(***************************************************************************)
(* Exports of the GUI: run_export_isolated in the server (gui/service.py), *)
(* which watches a disposable worker process, and run_export in the worker *)
(* down to the publication of its files (export.py,                        *)
(* delivery_transaction.py, protected_output.py).                          *)
(*                                                                         *)
(* A worker may hang, fail at any step, or be killed between any two; the  *)
(* calibration store is edited, and a name of the output directory becomes *)
(* another name of the RAW, at any moment.  All jobs export one RAW with   *)
(* one recipe, so their file names differ by the calibration only.         *)
(***************************************************************************)
EXTENDS Naturals

CONSTANTS
    Jobs,          \* export requests
    Nobody,        \* no job
    Decoders,      \* what a RAW may turn out to be decoded with
    NoDecoder,     \* none of them
    Contents,      \* contents of the calibration store
    MaxEvents      \* bound: requests, raising steps, kills, edits of the
                   \* store and names given to the RAW, together

ASSUME ExportAssumption == Nobody \notin Jobs /\ NoDecoder \notin Decoders

VARIABLES
    parent,        \* where run_export_isolated of each job is
    answer,        \* what it returned or raised
    message,       \* what it took from the result queue
    exportSlot,    \* the job in SCHEDULER.slot("export")
    worker,        \* where the worker process of each job is
    mailbox,       \* the result queue of each job
    work,          \* what the worker has found out
    private,       \* the files under a temporary name
    directory,     \* the file each published name is of
    disk,          \* the content of each file
    calibration,   \* content of the calibration store
    displayed,     \* the decoder of the RAW's entry in the preview store
    events         \* counter of the bound

parentVars == <<parent, answer, message, exportSlot>>
workerVars == <<worker, mailbox, work, private>>
folder == <<directory, disk>>
exportVars == <<parentVars, workerVars, folder, calibration, displayed, events>>

Kinds == {"image", "scan"}
RawName == <<"raw", Nobody>>
Names == {RawName} \cup (Kinds \X Contents)

\* Files are told apart by their inode; several names may be of one file.
RawFile == <<Nobody, "raw">>
Absent == <<Nobody, "absent">>
Outputs == Jobs \X Kinds
Files == {RawFile} \cup Outputs

\* What a file holds; "sound" is what the gates of a readback find out: it is
\* whole, and within the delivery's tolerances of the rendered pixels.
Original == [kind |-> "raw"]
Unwritten == [kind |-> "unwritten"]
Rendition(j, kind, sound) ==
    [kind |-> kind, models |-> work[j].models, undone |-> work[j].undone,
     shown |-> work[j].shown, decoder |-> work[j].decoder, sound |-> sound]

Fresh == [shown |-> NoDecoder, png |-> FALSE, gen |-> "none", models |-> {},
          decoder |-> NoDecoder, undone |-> FALSE, left |-> FALSE]

ExportInit ==
    /\ parent = [j \in Jobs |-> "absent"]
    /\ answer = [j \in Jobs |-> "none"]
    /\ message = [j \in Jobs |-> "none"]
    /\ exportSlot = Nobody
    /\ worker = [j \in Jobs |-> "absent"]
    /\ mailbox = [j \in Jobs |-> "none"]
    /\ work = [j \in Jobs |-> Fresh]
    /\ private = {}
    /\ directory = [n \in Names |-> IF n = RawName THEN RawFile ELSE Absent]
    /\ disk = [f \in Files |-> IF f = RawFile THEN Original ELSE Unwritten]
    /\ calibration \in Contents
    /\ displayed \in Decoders \cup {NoDecoder}
    /\ events = 0

Ended == {"exited", "killed"}
Live(j) == worker[j] \notin Ended \cup {"absent"}
Steps(j, place) == worker' = [worker EXCEPT ![j] = place]
Waits(j, place) == parent' = [parent EXCEPT ![j] = place]
Note(j, field, value) == work' = [work EXCEPT ![j][field] = value]
Output(j, kind) == <<kind, work[j].gen>>

Event == events < MaxEvents /\ events' = events + 1

-----------------------------------------------------------------------------
(* The server: run_export_isolated *)

\* What the preview store shows of this RAW travels with the request: with the
\* decoder "auto" the export is pinned to it.
PostExport(j) ==
    /\ parent[j] = "absent" /\ Event
    /\ Waits(j, "queued")
    /\ \E png \in BOOLEAN : work' = [work EXCEPT ![j].shown = displayed, ![j].png = png]
    /\ UNCHANGED <<answer, message, exportSlot, worker, mailbox, private,
                   folder, calibration, displayed>>

StartWorker(j) ==
    /\ parent[j] = "queued" /\ exportSlot = Nobody
    /\ exportSlot' = j
    /\ Waits(j, "waiting")
    /\ Steps(j, "start")
    /\ UNCHANGED <<answer, message, mailbox, work, private, folder, calibration, displayed, events>>

\* result_queue.get returns.
Receive(j) ==
    /\ parent[j] = "waiting" /\ mailbox[j] # "none"
    /\ message' = [message EXCEPT ![j] = mailbox[j]]
    /\ mailbox' = [mailbox EXCEPT ![j] = "none"]
    /\ Waits(j, "joining")
    /\ UNCHANGED <<answer, exportSlot, worker, work, private, folder, calibration, displayed, events>>

\* result_queue.get raises Empty.
Empty(j) ==
    /\ parent[j] = "waiting" /\ mailbox[j] = "none"
    /\ Waits(j, "doubting")
    /\ UNCHANGED <<answer, message, exportSlot, workerVars, folder, calibration, displayed, events>>

\* is_alive: a dead worker is not waited for.
FindDead(j) ==
    /\ parent[j] = "doubting" /\ ~Live(j)
    /\ Waits(j, "joining")
    /\ UNCHANGED <<answer, message, exportSlot, workerVars, folder, calibration, displayed, events>>

WaitAgain(j) ==
    /\ parent[j] = "doubting" /\ Live(j)
    /\ Waits(j, "waiting")
    /\ UNCHANGED <<answer, message, exportSlot, workerVars, folder, calibration, displayed, events>>

\* Mutant of PassDeadline: the loop has no deadline.
PassNoDeadline(j) == WaitAgain(j)

\* The worker is alive and the deadline has passed.
PassDeadline(j) ==
    /\ parent[j] = "doubting" /\ Live(j)
    /\ Waits(j, "terminating")
    /\ UNCHANGED <<answer, message, exportSlot, workerVars, folder, calibration, displayed, events>>

\* terminate, join, kill: nothing of the worker's cleanup runs.
Terminate(j) ==
    /\ parent[j] = "terminating"
    /\ Waits(j, "overdue")
    /\ Steps(j, IF Live(j) THEN "killed" ELSE worker[j])
    /\ UNCHANGED <<answer, message, exportSlot, mailbox, work, private,
                   folder, calibration, displayed, events>>

\* Mutant of Conclude: an empty queue is not told from an answer.
ConcludeAny(j) ==
    /\ exportSlot' = Nobody
    /\ Waits(j, "answered")
    /\ answer' = [answer EXCEPT ![j] = IF parent[j] = "overdue" THEN "timeout" ELSE message[j]]
    /\ UNCHANGED <<message, workerVars, folder, calibration, displayed, events>>

\* The verdict; the locals of the request and the worker's memory are gone.
Conclude(j) ==
    /\ exportSlot' = Nobody
    /\ Waits(j, "answered")
    /\ answer' = [answer EXCEPT ![j] =
           CASE parent[j] = "overdue" -> "timeout"
             [] parent[j] = "joining" /\ message[j] = "none" -> "crash"
             [] OTHER -> message[j]]
    /\ message' = [message EXCEPT ![j] = "none"]
    /\ mailbox' = [mailbox EXCEPT ![j] = "none"]
    /\ work' = [work EXCEPT ![j] = [Fresh EXCEPT !.left = work[j].left]]
    /\ UNCHANGED <<worker, private, folder, calibration, displayed, events>>

\* Mutant of Join: the slot is left as soon as there is an answer.
JoinAtOnce(j) ==
    /\ parent[j] \in {"joining", "overdue"}
    /\ Conclude(j)

\* process.join(), and the end of the slot.
Join(j) ==
    /\ parent[j] \in {"joining", "overdue"} /\ ~Live(j)
    /\ Conclude(j)

ParentStep(j) ==
    \/ StartWorker(j) \/ Receive(j) \/ Empty(j) \/ FindDead(j) \/ WaitAgain(j)
    \/ PassDeadline(j) \/ Terminate(j) \/ Join(j)

-----------------------------------------------------------------------------
(* The worker: run_export *)

\* An exception leaves every with and finally on its way to _export_worker: the
\* directory of a DeliveryTransaction and the dashboard are removed.
Raise(j) ==
    /\ mailbox' = [mailbox EXCEPT ![j] = "error"]
    /\ Steps(j, "exiting")
    /\ private' = {t \in private : t[1] # j}
    /\ disk' = [f \in Files |-> IF f \in private \ private' THEN Unwritten ELSE disk[f]]
Proceeds(j, next) == Steps(j, next) /\ UNCHANGED <<mailbox, private, disk>>

Aliased(name) == directory[name] = RawFile

\* ProtectedSources.check of the names, then on to the next step.
Checked(j, names, next) ==
    IF \E n \in names : Aliased(n) THEN Raise(j)
    ELSE Proceeds(j, next)

ReadGeneration(j) ==
    /\ worker[j] = "start"
    /\ Note(j, "gen", calibration)
    /\ Steps(j, "decode")
    /\ UNCHANGED <<parentVars, mailbox, private, folder, calibration, displayed, events>>

\* _load_export_scene: the runtime may fall back; a pinned result must be what
\* the preview shows.
Decode(j) ==
    /\ worker[j] = "decode"
    /\ \E d \in Decoders :
         /\ Note(j, "decoder", d)
         /\ IF work[j].shown \in {NoDecoder, d}
              THEN Proceeds(j, "analyze")
              ELSE Raise(j)
    /\ UNCHANGED <<parentVars, directory, calibration, displayed, events>>

\* analyze, or _cached_full_analysis of the same digest, and the plan: each
\* reads the calibrations when it runs.
Model(j, from, next) ==
    /\ worker[j] = from
    /\ Note(j, "models", work[j].models \cup {calibration})
    /\ Steps(j, next)
    /\ UNCHANGED <<parentVars, mailbox, private, folder, calibration, displayed, events>>

Analyze(j) == Model(j, "analyze", "plan")
Plan(j) == Model(j, "plan", "name")

\* Mutant of NameOutput: the calibrations are not looked at again.
NameUnchecked(j) ==
    /\ worker[j] = "name"
    /\ Checked(j, {Output(j, kind) : kind \in Kinds}, IF work[j].png THEN "dashboard" ELSE "encode")
    /\ UNCHANGED <<parentVars, work, directory, calibration, displayed, events>>

\* The calibrations must still be those of the beginning; the names they give
\* must not be names of the RAW.
NameOutput(j) ==
    /\ worker[j] = "name"
    /\ IF calibration # work[j].gen THEN Raise(j)
       ELSE Checked(j, {Output(j, kind) : kind \in {"image"} \cup IF work[j].png THEN {"scan"} ELSE {}},
                    IF work[j].png THEN "dashboard" ELSE "encode")
    /\ UNCHANGED <<parentVars, work, directory, calibration, displayed, events>>

\* A new file, under a temporary name beside the final one.
Writes(j, kind, sound) ==
    /\ disk' = [disk EXCEPT ![<<j, kind>>] = Rendition(j, kind, sound)]
    /\ private' = private \cup {<<j, kind>>}

\* plot_dashboard: what savefig writes is not read back.
Dashboard(j) ==
    /\ worker[j] = "dashboard"
    /\ Writes(j, "scan", FALSE)
    /\ Steps(j, "release")
    /\ UNCHANGED <<parentVars, mailbox, work, directory, calibration, displayed, events>>

\* release_analysis_buffers runs before the try whose finally removes the
\* dashboard: what is raised here leaves it.
Release(j) ==
    /\ worker[j] = "release"
    /\ \/ Steps(j, "encode") /\ UNCHANGED <<mailbox, work, events>>
       \/ /\ Event
          /\ mailbox' = [mailbox EXCEPT ![j] = "error"]
          /\ Note(j, "left", TRUE)
          /\ Steps(j, "exiting")
    /\ UNCHANGED <<parentVars, private, folder, calibration, displayed>>

\* DeliveryTransaction: the encoder writes a private candidate, sound or not.
\* Some deliveries carry the metadata before they read it back, some after.
Encode(j) ==
    /\ worker[j] = "encode"
    /\ IF Aliased(Output(j, "image")) THEN Raise(j)
       ELSE /\ \E sound \in BOOLEAN : Writes(j, "image", sound)
            /\ \E next \in {"dress", "readback"} : Steps(j, next)
            /\ UNCHANGED mailbox
    /\ UNCHANGED <<parentVars, work, directory, calibration, displayed, events>>

\* Mutant of Readback: the gates are not asked.
ReadbackTrusted(j) ==
    /\ worker[j] = "readback"
    /\ \E next \in {"carry", "commit"} : Proceeds(j, next)
    /\ UNCHANGED <<parentVars, work, directory, calibration, displayed, events>>

\* The candidate is decoded and compared with the rendered pixels.
Readback(j) ==
    /\ worker[j] = "readback"
    /\ IF disk[<<j, "image">>].sound
         THEN \E next \in {"carry", "commit"} : Proceeds(j, next)
         ELSE Raise(j)
    /\ UNCHANGED <<parentVars, work, directory, calibration, displayed, events>>

\* What ImageIO makes of a file when it writes metadata into a copy of it.
Rewritten(file) == {[file EXCEPT !.sound = s] : s \in BOOLEAN}

\* Mutant of Carried: the copy is taken as it is.
CarriedAny(file) == Rewritten(file)

\* carry_capture_metadata: the copy replaces the candidate when
\* encoded_content_signature finds the same content in both.
Carried(file) == {copy \in Rewritten(file) : copy.sound = file.sound} \cup {file}

Carry(j, from, next) ==
    /\ worker[j] = from
    /\ \E copy \in Carried(disk[<<j, "image">>]) : disk' = [disk EXCEPT ![<<j, "image">>] = copy]
    /\ Steps(j, next)
    /\ UNCHANGED <<parentVars, mailbox, work, private, directory, calibration, displayed, events>>

CarryBefore(j) == Carry(j, "dress", "readback")
CarryAfter(j) == Carry(j, "carry", "commit")

\* ProtectedSources.replace is two steps: the check, os.replace.
CheckDestination(j, from, kind, next) ==
    /\ worker[j] = from
    /\ Checked(j, {Output(j, kind)}, next)
    /\ UNCHANGED <<parentVars, work, directory, calibration, displayed, events>>

\* Mutant of ReplaceName: a file that has the name is written into.
ReplaceInPlace(j, kind) ==
    LET file == directory[Output(j, kind)] IN
    IF file = Absent
      THEN directory' = [directory EXCEPT ![Output(j, kind)] = <<j, kind>>] /\ UNCHANGED disk
      ELSE disk' = [disk EXCEPT ![file] = disk[<<j, kind>>]] /\ UNCHANGED directory

\* os.replace gives the name to the new file; a file that had it keeps its
\* bytes, under the other names it may have.
ReplaceName(j, kind) ==
    /\ directory' = [directory EXCEPT ![Output(j, kind)] = <<j, kind>>]
    /\ UNCHANGED disk

CommitCheck(j) == CheckDestination(j, "commit", "image", "replace")

\* Mutant of Commit: the dashboard keeps its temporary name.
CommitOnly(j) ==
    /\ worker[j] = "replace"
    /\ ReplaceName(j, "image")
    /\ private' = private \ {<<j, "image">>}
    /\ Steps(j, "post")
    /\ UNCHANGED <<parentVars, mailbox, work, calibration, displayed, events>>

\* os.replace, then the metrics and the preview of what was written.
Commit(j) ==
    /\ worker[j] = "replace"
    /\ ReplaceName(j, "image")
    /\ private' = private \ {<<j, "image">>}
    /\ Steps(j, IF work[j].png THEN "scan" ELSE "post")
    /\ UNCHANGED <<parentVars, mailbox, work, calibration, displayed, events>>

ScanCheck(j) == CheckDestination(j, "scan", "scan", "rename")

PublishScan(j) ==
    /\ worker[j] = "rename"
    /\ ReplaceName(j, "scan")
    /\ private' = private \ {<<j, "scan">>}
    /\ Steps(j, "post")
    /\ UNCHANGED <<parentVars, mailbox, work, calibration, displayed, events>>

Post(j) ==
    /\ worker[j] = "post"
    /\ mailbox' = [mailbox EXCEPT ![j] = "ok"]
    /\ Steps(j, "exiting")
    /\ UNCHANGED <<parentVars, work, private, folder, calibration, displayed, events>>

Exit(j) ==
    /\ worker[j] = "exiting"
    /\ Steps(j, "exited")
    /\ UNCHANGED <<parentVars, mailbox, work, private, folder, calibration, displayed, events>>

\* Any step before the answer may raise: parameters, decoder, encoder, disk.
WorkerFails(j) ==
    /\ Live(j) /\ worker[j] \notin {"release", "exiting"}
    /\ Event
    /\ Raise(j)
    /\ UNCHANGED <<parentVars, work, directory, calibration, displayed>>

WorkerStep(j) ==
    \/ ReadGeneration(j) \/ Decode(j) \/ Analyze(j) \/ Plan(j) \/ NameOutput(j) \/ Dashboard(j)
    \/ Release(j) \/ Encode(j) \/ Readback(j) \/ CarryBefore(j) \/ CarryAfter(j)
    \/ CommitCheck(j) \/ Commit(j) \/ ScanCheck(j) \/ PublishScan(j) \/ Post(j) \/ Exit(j) \/ WorkerFails(j)

-----------------------------------------------------------------------------
(* Outside *)

\* The operating system takes the worker away, out of memory or by a signal.
WorkerKilled(j) ==
    /\ Live(j) /\ Event
    /\ Steps(j, "killed")
    /\ UNCHANGED <<parentVars, mailbox, work, private, folder, calibration, displayed>>

\* The store is edited; a content that comes back is noted for the jobs that
\* started from it.
EditCalibration ==
    /\ Event
    /\ calibration' \in Contents \ {calibration}
    /\ work' = [j \in Jobs |-> [work[j] EXCEPT !.undone = @ \/ work[j].gen = calibration']]
    /\ UNCHANGED <<parentVars, worker, mailbox, private, folder, displayed>>

\* A free name of the output directory is linked to the RAW.
AliasSource ==
    /\ Event
    /\ \E n \in Names : directory[n] = Absent /\ directory' = [directory EXCEPT ![n] = RawFile]
    /\ UNCHANGED <<parentVars, workerVars, disk, calibration, displayed>>

ExportNext ==
    \/ \E j \in Jobs : \/ PostExport(j) \/ ParentStep(j) \/ WorkerStep(j) \/ WorkerKilled(j)
    \/ EditCalibration \/ AliasSource

\* The server's threads run and a worker that has answered exits; a request
\* that looks at the clock again and again finds its deadline passed.  A worker
\* that has not answered may stand still for ever.
ExportFairness ==
    \A j \in Jobs : /\ WF_exportVars(ParentStep(j)) /\ SF_exportVars(PassDeadline(j))
                    /\ WF_exportVars(Exit(j))
ExportSpec == ExportInit /\ [][ExportNext]_exportVars /\ ExportFairness

-----------------------------------------------------------------------------
ExportTypeOK ==
    /\ exportSlot \in Jobs \cup {Nobody}
    /\ \A j \in Jobs : /\ message[j] \in {"none", "ok", "error"}
                      /\ mailbox[j] \in {"none", "ok", "error"}
                      /\ answer[j] \in {"none", "ok", "error", "timeout", "crash"}
                      /\ parent[j] = "answered" => answer[j] # "none"
                      /\ work[j].models \subseteq Contents
    /\ private \subseteq Outputs
    /\ \A n \in Names : directory[n] \in Files \cup {Absent}
    /\ \A f \in Files : disk[f].kind \in {"unwritten", "raw"} \cup Kinds

Published == {directory[n] : n \in Names} \cap Outputs

\* Whatever moment a worker raises, hangs or dies at: it lives only while its
\* request holds the export slot, so no two write at once; no published name is of
\* a file that is still being made, and an image that has a name is sound, though
\* encoders fail and metadata are rewritten after the readback (a dashboard is
\* never read back, and nothing is said of its pixels); the RAW keeps its name and
\* its bytes, even when an output name becomes another name of it between the
\* check of the name and its replacement; and a worker that ends by itself, with
\* whatever answer, leaves no temporary, but for a dashboard when the release of
\* the analysis buffers raises, which is before the try that removes it.
DirectorySound ==
    /\ \A j \in Jobs : Live(j) => exportSlot = j
    /\ \A f \in Published : f \notin private /\ (f[2] = "image" => disk[f].sound)
    /\ directory[RawName] = RawFile /\ disk[RawFile] = Original
    /\ \A t \in private : \/ Live(t[1]) \/ worker[t[1]] = "killed"
                          \/ t[2] = "scan" /\ work[t[1]].left

\* A file is named for the calibration its analysis and plan were made with,
\* except when the store returned to the first content while they were made; an
\* export pinned to a displayed preview is saved with that decoder or not at all.
RenditionsHonest ==
    /\ \A n \in Names : directory[n] \in Published /\ disk[directory[n]].models # {n[2]}
                           => disk[directory[n]].undone
    /\ \A f \in Published : disk[f].shown \in {NoDecoder, disk[f].decoder}

\* What is reported as saved is there: the image, and the dashboard if asked for.
ReportedIsSaved ==
    [][\A j \in Jobs : answer'[j] = "ok" /\ answer[j] # "ok" =>
         \A kind \in {"image"} \cup IF work[j].png THEN {"scan"} ELSE {} :
             directory[Output(j, kind)] \in Published]_exportVars

\* A request is answered although its worker hangs for ever, dies or fails.
EveryExportAnswered == \A j \in Jobs : parent[j] = "queued" ~> parent[j] = "answered"

\* run_export_isolated returns the worker's result payload: "crash" is reported
\* of workers that delivered none.  The code looks at the queue, then at the
\* process, and not at the queue again.
CrashDeliveredNothing ==
    [][\A j \in Jobs : answer'[j] = "crash" /\ answer[j] # "crash"
                       => mailbox[j] = "none"]_exportVars
=============================================================================
