-------------------------- MODULE ExportJob_proofs --------------------------
(***************************************************************************)
(* Proofs about ExportJob, for any number of exports, any decoders and     *)
(* calibrations and any number of edits, kills and failures; about         *)
(* EncodeSearch, for any qualities and sizes; and about both, as MCExport  *)
(* puts them side by side.                                                 *)
(*                                                                         *)
(* What a published name promises was established several steps before it  *)
(* was published; ExportInv says what each job has secured at each place   *)
(* its worker can be, and that a file that has a name is written no more.  *)
(***************************************************************************)
EXTENDS MCExport, SequenceTheorems, FiniteSetTheorems, TLAPS

-----------------------------------------------------------------------------
(* The invariant *)

ParentPlaces == {"absent", "queued", "waiting", "doubting", "terminating", "overdue", "joining",
                 "answered"}
WorkerPlaces == {"absent", "start", "decode", "analyze", "plan", "name", "dashboard", "release",
                 "encode", "dress", "readback", "carry", "commit", "replace", "scan", "rename",
                 "post", "exiting", "exited", "killed"}

\* What a worker has found out, and what it writes.
Findings == [shown : Decoders \cup {NoDecoder}, png : BOOLEAN, gen : Contents \cup {"none"},
             models : SUBSET Contents, decoder : Decoders \cup {NoDecoder}, undone : BOOLEAN,
             left : BOOLEAN]
Renditions == [kind : Kinds, models : SUBSET Contents, undone : BOOLEAN,
               shown : Decoders \cup {NoDecoder}, decoder : Decoders \cup {NoDecoder},
               sound : BOOLEAN]
Contained == {Original, Unwritten} \cup Renditions

Types ==
    /\ parent \in [Jobs -> ParentPlaces]
    /\ answer \in [Jobs -> {"none", "ok", "error", "timeout", "crash"}]
    /\ message \in [Jobs -> {"none", "ok", "error"}]
    /\ mailbox \in [Jobs -> {"none", "ok", "error"}]
    /\ exportSlot \in Jobs \cup {Nobody}
    /\ worker \in [Jobs -> WorkerPlaces]
    /\ work \in [Jobs -> Findings]
    /\ private \subseteq Outputs
    /\ directory \in [Names -> Files \cup {Absent}]
    /\ disk \in [Files -> Contained]
    /\ calibration \in Contents
    /\ displayed \in Decoders \cup {NoDecoder}

\* The places of a request that holds the export slot, and of a worker that
\* has read the calibrations, has named its files, has written the image, has
\* found it sound, has given it its name.
Watching == {"waiting", "doubting", "terminating", "overdue", "joining"}
ReadBack == {"carry", "commit", "replace"}
Imaged == {"dress", "readback"} \cup ReadBack
Drawn == {"release", "encode", "scan", "rename"} \cup Imaged
Writing == {"dashboard"} \cup Drawn
Modelled == {"plan", "name"} \cup Writing
Decoded == {"analyze"} \cup Modelled
Begun == {"decode"} \cup Decoded
Over == {"post", "exiting", "exited", "killed"}
After(kind) == IF kind = "image" THEN {"scan", "rename"} \cup Over ELSE Over

\* A worker runs only while its own request holds the slot, and but once.
Watched(j) ==
    /\ parent[j] \in Watching => exportSlot = j
    /\ Live(j) => parent[j] \in Watching
    /\ parent[j] \in {"absent", "queued"} => worker[j] = "absent"
    /\ parent[j] = "answered" => answer[j] # "none"

\* A temporary is there between its making and its publication, or was left by
\* a worker that was killed, or that raised before the try.
PrivateKept(j) ==
    /\ <<j, "image">> \in private => worker[j] \in Imaged \cup {"killed"}
    /\ <<j, "scan">> \in private =>
         \/ worker[j] = "killed" \/ work[j].left
         \/ work[j].png /\ worker[j] \in Drawn
    /\ worker[j] = "dashboard" => work[j].png

\* What the worker has found out: a calibration other than the first was read
\* while the store held another one, which has come back by the time the files
\* are named.
FoundOut(j) ==
    /\ worker[j] \in {"absent", "start", "decode", "analyze"} => work[j].models = {}
    /\ worker[j] \in Begun => work[j].gen \in Contents
    /\ worker[j] \in Decoded => work[j].shown \in {NoDecoder, work[j].decoder}
    /\ worker[j] \in Modelled /\ work[j].models # {work[j].gen}
         => work[j].undone \/ (worker[j] \in {"plan", "name"} /\ calibration # work[j].gen)

\* The file f holds a rendition that a name of the calibration promises.
Promised(f, content) ==
    /\ disk[f] \in Renditions
    /\ disk[f].models # {content} => disk[f].undone
    /\ disk[f].shown \in {NoDecoder, disk[f].decoder}

\* What is about to be given a name is what the name will promise.
Prepared(j) ==
    /\ worker[j] \in Imaged => Promised(<<j, "image">>, work[j].gen)
    /\ worker[j] \in Drawn /\ work[j].png => Promised(<<j, "scan">>, work[j].gen)
    /\ worker[j] \in ReadBack => disk[<<j, "image">>].sound
    /\ worker[j] \in {"scan", "rename"} => work[j].png

\* A rendition is published under n.
IsSaved(n) == n \in Names /\ directory[n] \in Outputs

\* The image is there before the dashboard, and both before the answer.
SavedInTime(j) ==
    /\ worker[j] \in {"scan", "rename"} => IsSaved(Output(j, "image"))
    /\ mailbox[j] = "ok" \/ message[j] = "ok" => worker[j] \in {"exiting"} \cup Ended
    /\ worker[j] = "post" \/ mailbox[j] = "ok" \/ message[j] = "ok" =>
         /\ IsSaved(Output(j, "image"))
         /\ work[j].png => IsSaved(Output(j, "scan"))

\* All that one job has secured.
JobInv(j) == Watched(j) /\ PrivateKept(j) /\ FoundOut(j) /\ Prepared(j) /\ SavedInTime(j)

\* A file that has a name is finished, and is what the name says.
Finished(n) ==
    /\ directory[n] \notin private
    /\ worker[directory[n][1]] \in After(directory[n][2])
    /\ Promised(directory[n], n[2])
    /\ directory[n][2] = "image" => disk[directory[n]].sound
FileInv ==
    /\ directory[RawName] = RawFile /\ disk[RawFile] = Original
    /\ \A n : IsSaved(n) => Finished(n)

ExportInv == Types /\ (\A j \in Jobs : JobInv(j)) /\ FileInv

-----------------------------------------------------------------------------
(* Steps of one job *)

\* The RAW, the absent file and the outputs are different files.
LEMMA FilesApart ==
    /\ RawFile \notin Outputs /\ Absent \notin Outputs /\ Absent # RawFile
    /\ RawFile \in Files /\ RawName \in Names
    /\ \A f \in Outputs : f \in Files /\ f[1] \in Jobs /\ f[2] \in Kinds /\ f = <<f[1], f[2]>>
    /\ \A j \in Jobs : <<j, "image">> \in Outputs /\ <<j, "scan">> \in Outputs
BY ExportAssumption DEF RawFile, Absent, Outputs, Files, RawName, Names, Kinds

\* A job of which nothing changes keeps what it has secured, as long as the
\* files that were saved stay and the slot is not taken from it.
LEMMA OthersKept ==
    ASSUME NEW k \in Jobs, JobInv(k),
           parent'[k] = parent[k], answer'[k] = answer[k], message'[k] = message[k],
           mailbox'[k] = mailbox[k], worker'[k] = worker[k], work'[k] = work[k],
           \A kind \in Kinds : <<k, kind>> \in private' <=> <<k, kind>> \in private,
           \A kind \in Kinds : disk'[<<k, kind>>] = disk[<<k, kind>>],
           exportSlot = k => exportSlot' = k,
           calibration' = calibration,
           \A n : IsSaved(n) => IsSaved(n)'
    PROVE  JobInv(k)'
<1>1. Watched(k)'
  BY DEF JobInv, Watched, Live, Ended
<1>2. PrivateKept(k)'
  BY DEF JobInv, PrivateKept, Kinds
<1>3. FoundOut(k)'
  BY DEF JobInv, FoundOut
<1>4. Prepared(k)'
  <2>1. /\ disk'[<<k, "image">>] = disk[<<k, "image">>]
        /\ disk'[<<k, "scan">>] = disk[<<k, "scan">>]
    BY DEF Kinds
  <2> QED
    BY <2>1 DEF JobInv, Prepared, Promised
<1>5. SavedInTime(k)'
  BY DEF JobInv, SavedInTime, Ended, Output
<1> QED
  BY <1>1, <1>2, <1>3, <1>4, <1>5 DEF JobInv

\* What a step of j leaves of the files: those of the others, and those of its
\* own that have a name, which allow the place w.
Leaves(j, w) ==
    /\ private' \subseteq Outputs
    /\ disk' \in [Files -> Contained]
    /\ \A f \in Files : f[1] # j => disk'[f] = disk[f] /\ (f \in private' <=> f \in private)
    /\ \A n : IsSaved(n) /\ directory[n][1] = j =>
         /\ directory[n] \notin private' /\ disk'[directory[n]] = disk[directory[n]]
         /\ w \in After(directory[n][2])

\* A running worker takes a step, which leaves the directory as it is.
LEMMA WorkerMoves ==
    ASSUME ExportInv, NEW j \in Jobs, Live(j),
           NEW w \in WorkerPlaces \ {"absent"}, Steps(j, w), Leaves(j, w),
           NEW found \in Findings, work' = [work EXCEPT ![j] = found],
           NEW m \in {"none", "ok", "error"}, mailbox' = [mailbox EXCEPT ![j] = m],
           UNCHANGED <<parentVars, directory, calibration, displayed>>,
           PrivateKept(j)', FoundOut(j)', Prepared(j)', SavedInTime(j)'
    PROVE  ExportInv'
<1>t. Types
  BY DEF ExportInv
<1>w. /\ worker' \in [Jobs -> WorkerPlaces] /\ worker'[j] = w
      /\ \A k \in Jobs : k # j => worker'[k] = worker[k]
  BY <1>t DEF Types, Steps
<1>1. Types'
  <2>1. work' \in [Jobs -> Findings] /\ mailbox' \in [Jobs -> {"none", "ok", "error"}]
    BY <1>t DEF Types
  <2>2. private' \subseteq Outputs /\ disk' \in [Files -> Contained]
    BY DEF Leaves
  <2> QED
    BY <2>1, <2>2, <1>t, <1>w DEF Types, parentVars
<1>2. ASSUME NEW k \in Jobs, k # j
      PROVE  JobInv(k)'
  <2>1. /\ parent'[k] = parent[k] /\ answer'[k] = answer[k] /\ message'[k] = message[k]
        /\ mailbox'[k] = mailbox[k] /\ worker'[k] = worker[k] /\ work'[k] = work[k]
        /\ exportSlot' = exportSlot /\ calibration' = calibration
    BY <1>2, <1>t, <1>w DEF Types, parentVars
  <2>2. ASSUME NEW kind \in Kinds
        PROVE  /\ <<k, kind>> \in private' <=> <<k, kind>> \in private
               /\ disk'[<<k, kind>>] = disk[<<k, kind>>]
    <3>1. <<k, kind>> \in Files /\ <<k, kind>>[1] = k
      BY DEF Files, Outputs
    <3> QED
      BY <1>2, <3>1 DEF Leaves
  <2>3. \A n : IsSaved(n) => IsSaved(n)'
    BY DEF IsSaved
  <2>4. JobInv(k)
    BY DEF ExportInv
  <2> QED
    BY <2>1, <2>2, <2>3, <2>4, OthersKept
<1>3. Watched(j)'
  <2>1. Watched(j)
    BY DEF ExportInv, JobInv
  <2>2. UNCHANGED <<parent, answer, exportSlot>>
    BY DEF parentVars
  <2>3. parent[j] \in Watching
    BY <2>1 DEF Watched
  <2> QED
    BY <2>1, <2>2, <2>3 DEF Watched, Live, Watching
<1>4. FileInv'
  <2>1. directory' = directory /\ FileInv
    BY DEF ExportInv
  <2>2. ASSUME NEW n, IsSaved(n)
        PROVE  Finished(n)'
    <3> DEFINE f == directory[n]
    <3>1. f \in Files /\ f[1] \in Jobs /\ Finished(n)
      BY <2>1, <2>2, FilesApart DEF IsSaved, FileInv
    <3>2. disk'[f] = disk[f] /\ f \notin private' /\ worker'[f[1]] \in After(f[2])
      <4>1. CASE f[1] = j
        BY <2>2, <4>1, <1>w DEF Leaves
      <4>2. CASE f[1] # j
        BY <3>1, <4>2, <1>w DEF Leaves, Finished
      <4> QED
        BY <4>1, <4>2
    <3> QED
      BY <2>1, <3>1, <3>2 DEF Finished, Promised, After
  <2>3. disk'[RawFile] = disk[RawFile]
    <3>1. RawFile \in Files /\ RawFile[1] # j
      BY ExportAssumption DEF Files, RawFile
    <3> QED
      BY <3>1 DEF Leaves
  <2> QED
    BY <2>1, <2>2, <2>3 DEF FileInv, IsSaved
<1> QED
  BY <1>1, <1>2, <1>3, <1>4 DEF ExportInv, JobInv

\* Nothing of the files changes in a step between places from which a name
\* is not taken back.
LEMMA LeavesAll ==
    ASSUME ExportInv, NEW j \in Jobs, NEW w, UNCHANGED <<private, disk>>,
           worker[j] \in Over => w \in Over,
           worker[j] \in {"scan", "rename"} => w \in {"scan", "rename"} \cup Over
    PROVE  Leaves(j, w)
<1>1. private \subseteq Outputs /\ disk \in [Files -> Contained]
  BY DEF ExportInv, Types
<1>2. ASSUME NEW n, IsSaved(n), directory[n][1] = j
      PROVE  directory[n] \notin private /\ w \in After(directory[n][2])
  BY <1>2 DEF ExportInv, FileInv, Finished, After
<1> QED
  BY <1>1, <1>2 DEF Leaves

\* A worker that raises inside the try leaves no temporary and no answer but the error.
LEMMA Raises ==
    ASSUME ExportInv, NEW j \in Jobs, Live(j), worker[j] # "exiting", Raise(j),
           NEW found \in Findings, work' = [work EXCEPT ![j] = found],
           UNCHANGED <<parentVars, directory, calibration, displayed>>
    PROVE  ExportInv'
<1>t. Types /\ JobInv(j)
  BY DEF ExportInv
<1>1. /\ Steps(j, "exiting") /\ mailbox' = [mailbox EXCEPT ![j] = "error"]
      /\ private' = {t \in private : t[1] # j}
      /\ disk' = [f \in Files |-> IF f \in private \ private' THEN Unwritten ELSE disk[f]]
  BY DEF Raise
<1>2. worker'[j] = "exiting" /\ mailbox'[j] = "error" /\ message' = message
  BY <1>1, <1>t DEF Types, Steps, parentVars
<1>3. PrivateKept(j)'
  BY <1>1, <1>2 DEF PrivateKept
<1>4. FoundOut(j)' /\ Prepared(j)'
  BY <1>2 DEF FoundOut, Prepared, Begun, Decoded, Modelled, Writing, Drawn, Imaged, ReadBack
<1>5. SavedInTime(j)'
  <2>1. message[j] # "ok"
    BY <1>t DEF JobInv, SavedInTime, Live, Ended
  <2> QED
    BY <1>2, <2>1 DEF SavedInTime
<1>6. Leaves(j, "exiting")
  <2>1. private' \subseteq Outputs /\ disk' \in [Files -> Contained]
    BY <1>1, <1>t DEF Types, Contained
  <2>2. ASSUME NEW f \in Files, f[1] # j
        PROVE  disk'[f] = disk[f] /\ (f \in private' <=> f \in private)
    BY <1>1, <2>2
  <2>3. ASSUME NEW n, IsSaved(n)
        PROVE  directory[n] \notin private' /\ disk'[directory[n]] = disk[directory[n]]
    <3>1. directory[n] \notin private /\ directory[n] \in Files
      BY <2>3, FilesApart DEF ExportInv, FileInv, Finished, IsSaved
    <3> QED
      BY <1>1, <3>1
  <2>4. \A kind : "exiting" \in After(kind)
    BY DEF After, Over
  <2> QED
    BY <2>1, <2>2, <2>3, <2>4 DEF Leaves
<1>7. "exiting" \in WorkerPlaces \ {"absent"}
  BY DEF WorkerPlaces
<1> QED
  BY <1>1, <1>3, <1>4, <1>5, <1>6, <1>7, WorkerMoves

\* A step that changes nothing but the place of the worker, between places at
\* which it has no answer yet.
LEMMA Advances ==
    ASSUME ExportInv, NEW j \in Jobs, worker[j] \in {"name", "readback", "commit", "scan"},
           NEW w \in {"dashboard", "encode", "carry", "commit", "replace", "rename"}, Proceeds(j, w),
           UNCHANGED <<work, parentVars, directory, calibration, displayed>>,
           worker[j] = "name" =>
             w = (IF work[j].png THEN "dashboard" ELSE "encode") /\ calibration = work[j].gen,
           worker[j] = "readback" => w \in {"carry", "commit"} /\ disk[<<j, "image">>].sound,
           worker[j] = "commit" => w = "replace",
           worker[j] = "scan" => w = "rename"
    PROVE  ExportInv'
<1>t. Types /\ JobInv(j)
  BY DEF ExportInv
<1>1. Live(j) /\ Steps(j, w) /\ UNCHANGED <<mailbox, private, disk>>
  BY DEF Live, Ended, Proceeds
<1>2. worker'[j] = w /\ message' = message
  BY <1>1, <1>t DEF Types, Steps, parentVars
<1>3. PrivateKept(j)'
  BY <1>1, <1>2, <1>t DEF JobInv, PrivateKept, Writing, Drawn, Imaged, ReadBack
<1>4. FoundOut(j)'
  BY <1>2, <1>t DEF JobInv, FoundOut, Begun, Decoded, Modelled, Writing, Drawn, Imaged, ReadBack
<1>5. Prepared(j)'
  <2>1. w \in Drawn /\ work[j].png => worker[j] \in Drawn
    BY DEF Drawn, Imaged, ReadBack
  <2>2. w \in Imaged => worker[j] \in Imaged
    BY DEF Imaged, ReadBack
  <2>3. w \in ReadBack => disk[<<j, "image">>].sound
    BY <1>t DEF JobInv, Prepared, ReadBack
  <2>4. w \in {"scan", "rename"} => work[j].png
    BY <1>t DEF JobInv, Prepared
  <2> QED
    BY <1>1, <1>2, <1>t, <2>1, <2>2, <2>3, <2>4 DEF JobInv, Prepared, Promised
<1>6. SavedInTime(j)'
  <2>1. mailbox[j] # "ok" /\ message[j] # "ok"
    BY <1>t DEF JobInv, SavedInTime, Ended
  <2> QED
    BY <1>1, <1>2, <1>t, <2>1 DEF JobInv, SavedInTime, IsSaved, Output
<1>7. /\ work' = [work EXCEPT ![j] = work[j]] /\ work[j] \in Findings
      /\ mailbox' = [mailbox EXCEPT ![j] = mailbox[j]] /\ mailbox[j] \in {"none", "ok", "error"}
  BY <1>1, <1>t DEF Types
<1>8. w \in WorkerPlaces \ {"absent"}
  BY DEF WorkerPlaces
<1>9. Leaves(j, w)
  BY <1>1, LeavesAll DEF Over
<1> QED
  BY <1>1, <1>3, <1>4, <1>5, <1>6, <1>7, <1>8, <1>9, WorkerMoves

\* What a worker notes is a field of its findings.
LEMMA Notes ==
    ASSUME Types, NEW j \in Jobs
    PROVE  /\ \A v \in Contents : Note(j, "gen", v) =>
                /\ [work[j] EXCEPT !.gen = v] \in Findings
                /\ work' = [work EXCEPT ![j] = [work[j] EXCEPT !.gen = v]]
           /\ \A v \in Decoders : Note(j, "decoder", v) =>
                /\ [work[j] EXCEPT !.decoder = v] \in Findings
                /\ work' = [work EXCEPT ![j] = [work[j] EXCEPT !.decoder = v]]
           /\ \A v \in SUBSET Contents : Note(j, "models", v) =>
                /\ [work[j] EXCEPT !.models = v] \in Findings
                /\ work' = [work EXCEPT ![j] = [work[j] EXCEPT !.models = v]]
           /\ Note(j, "left", TRUE) =>
                /\ [work[j] EXCEPT !.left = TRUE] \in Findings
                /\ work' = [work EXCEPT ![j] = [work[j] EXCEPT !.left = TRUE]]
<1>1. work[j] \in Findings
  BY DEF Types
<1> QED
  BY <1>1 DEF Note, Findings, Types

\* The steps of a worker up to the naming of its files.
LEMMA FindsOut ==
    ASSUME ExportInv, NEW j \in Jobs,
           ReadGeneration(j) \/ Decode(j) \/ Analyze(j) \/ Plan(j)
    PROVE  ExportInv'
<1>t. Types /\ JobInv(j)
  BY DEF ExportInv
<1>l. Live(j) /\ worker[j] \in {"start", "decode", "analyze", "plan"}
  BY DEF ReadGeneration, Decode, Analyze, Plan, Model, Live, Ended
<1>u. UNCHANGED <<parentVars, directory, calibration, displayed>>
  BY DEF ReadGeneration, Decode, Analyze, Plan, Model, folder
<1>n. /\ mailbox[j] # "ok" /\ message[j] # "ok" /\ <<j, "image">> \notin private
      /\ <<j, "scan">> \in private => work[j].left
  BY <1>t, <1>l DEF JobInv, SavedInTime, PrivateKept, Drawn, Imaged, ReadBack, Ended
<1>1. ASSUME NEW w \in {"decode", "analyze", "plan", "name"}, Steps(j, w),
             NEW found \in Findings, work' = [work EXCEPT ![j] = found],
             UNCHANGED <<mailbox, private, disk>>, found.left = work[j].left,
             w \in {"decode", "analyze"} => found.models = {},
             found.gen \in Contents,
             w # "decode" => found.shown \in {NoDecoder, found.decoder},
             w \in {"plan", "name"} /\ found.models # {found.gen}
               => found.undone \/ calibration # found.gen
      PROVE  ExportInv'
  <2>1. worker'[j] = w /\ work'[j] = found /\ message' = message /\ calibration' = calibration
    BY <1>1, <1>t, <1>u DEF Types, Steps, parentVars
  <2>2. PrivateKept(j)'
    BY <1>1, <1>n, <2>1 DEF PrivateKept
  <2>3. FoundOut(j)'
    BY <1>1, <2>1 DEF FoundOut, Begun, Decoded, Modelled, Writing, Drawn, Imaged, ReadBack
  <2>p. Prepared(j)'
    BY <1>1, <2>1 DEF Prepared, Drawn, Imaged, ReadBack
  <2>4. SavedInTime(j)'
    BY <1>1, <1>n, <2>1 DEF SavedInTime
  <2>5. mailbox' = [mailbox EXCEPT ![j] = mailbox[j]] /\ mailbox[j] \in {"none", "ok", "error"}
    BY <1>1, <1>t DEF Types
  <2>7. Leaves(j, w)
    BY <1>1, <1>l, LeavesAll DEF Over
  <2>6. w \in WorkerPlaces \ {"absent"}
    BY DEF WorkerPlaces
  <2> QED
    BY <1>1, <1>l, <1>u, <2>2, <2>3, <2>p, <2>4, <2>5, <2>6, <2>7, WorkerMoves
<1>2. CASE ReadGeneration(j)
  <2> DEFINE found == [work[j] EXCEPT !.gen = calibration]
  <2>1. found \in Findings /\ work' = [work EXCEPT ![j] = found]
    BY <1>2, <1>t, Notes DEF ReadGeneration, Types
  <2>2. found.models = {} /\ found.gen \in Contents /\ found.left = work[j].left
    BY <1>2, <1>t DEF ReadGeneration, JobInv, FoundOut, Types, Findings
  <2> HIDE DEF found
  <2> QED
    BY <1>1, <1>2, <2>1, <2>2 DEF ReadGeneration, folder
<1>3. CASE Decode(j)
  <2>1. PICK d \in Decoders :
          /\ Note(j, "decoder", d)
          /\ IF work[j].shown \in {NoDecoder, d}
               THEN Proceeds(j, "analyze")
               ELSE Raise(j)
    BY <1>3 DEF Decode
  <2> DEFINE found == [work[j] EXCEPT !.decoder = d]
  <2>2. found \in Findings /\ work' = [work EXCEPT ![j] = found]
    BY <2>1, <1>t, Notes
  <2>3. /\ found.models = {} /\ found.gen \in Contents
        /\ found.shown = work[j].shown /\ found.decoder = d /\ found.left = work[j].left
    BY <1>3, <1>t DEF Decode, JobInv, FoundOut, Types, Findings, Begun
  <2> HIDE DEF found
  <2>4. CASE work[j].shown \in {NoDecoder, d}
    BY <1>1, <2>1, <2>2, <2>3, <2>4 DEF Proceeds
  <2>5. CASE work[j].shown \notin {NoDecoder, d}
    BY <1>l, <1>u, <2>1, <2>2, <2>5, Raises
  <2> QED
    BY <2>4, <2>5
<1>4. CASE Analyze(j) \/ Plan(j)
  <2> DEFINE found == [work[j] EXCEPT !.models = @ \cup {calibration}]
  <2>1. Note(j, "models", work[j].models \cup {calibration}) /\ UNCHANGED <<mailbox, private, disk>>
    BY <1>4 DEF Analyze, Plan, Model, folder
  <2>2. work[j].models \cup {calibration} \in SUBSET Contents
    BY <1>t DEF Types, Findings
  <2>3. found \in Findings /\ work' = [work EXCEPT ![j] = found]
    BY <2>1, <2>2, <1>t, Notes
  <2>4. work[j] \in Findings
    BY <1>t DEF Types
  <2>5. /\ found.models = work[j].models \cup {calibration} /\ found.gen = work[j].gen
        /\ found.shown = work[j].shown /\ found.decoder = work[j].decoder
        /\ found.undone = work[j].undone /\ found.left = work[j].left
    BY <2>4 DEF Findings
  <2>6. /\ work[j].gen \in Contents /\ work[j].shown \in {NoDecoder, work[j].decoder}
        /\ work[j].models \notin {{}, {work[j].gen}} => work[j].undone \/ calibration # work[j].gen
    BY <1>4, <1>t DEF Analyze, Plan, Model, JobInv, FoundOut, Begun, Decoded, Modelled
  <2>7. found.models # {found.gen} => found.undone \/ calibration # found.gen
    BY <2>5, <2>6
  <2> HIDE DEF found
  <2>8. PICK w \in {"plan", "name"} : Steps(j, w)
    BY <1>4 DEF Analyze, Plan, Model
  <2> QED
    BY <1>1, <2>1, <2>3, <2>5, <2>6, <2>7, <2>8
<1> QED
  BY <1>2, <1>3, <1>4

\* The names are checked, and checked again before each is replaced; the image is
\* read back.
LEMMA Checks ==
    ASSUME ExportInv, NEW j \in Jobs,
           NameOutput(j) \/ Readback(j) \/ CommitCheck(j) \/ ScanCheck(j)
    PROVE  ExportInv'
<1>t. Types /\ JobInv(j)
  BY DEF ExportInv
<1>l. /\ worker[j] \in {"name", "readback", "commit", "scan"} /\ Live(j) /\ worker[j] # "exiting"
      /\ UNCHANGED <<parentVars, work, directory, calibration, displayed>>
  BY DEF NameOutput, Readback, CommitCheck, ScanCheck, CheckDestination, Live, Ended
<1>1. CASE Raise(j)
  <2>1. work' = [work EXCEPT ![j] = work[j]] /\ work[j] \in Findings
    BY <1>t, <1>l DEF Types
  <2> QED
    BY <1>1, <1>l, <2>1, Raises
<1>2. CASE NameOutput(j) /\ ~Raise(j)
  <2>1. /\ Proceeds(j, IF work[j].png THEN "dashboard" ELSE "encode")
        /\ calibration = work[j].gen /\ worker[j] = "name"
    BY <1>2 DEF NameOutput, Checked
  <2> DEFINE w == IF work[j].png THEN "dashboard" ELSE "encode"
  <2>2. w \in {"dashboard", "encode", "carry", "commit", "replace", "rename"}
    OBVIOUS
  <2> QED
    BY <1>l, <2>1, <2>2, Advances
<1>3. CASE Readback(j) /\ ~Raise(j)
  <2>1. PICK w \in {"carry", "commit"} : Proceeds(j, w)
    BY <1>3 DEF Readback
  <2>2. worker[j] = "readback" /\ disk[<<j, "image">>].sound
    BY <1>3 DEF Readback
  <2> QED
    BY <1>l, <2>1, <2>2, Advances
<1>4. CASE CommitCheck(j) /\ ~Raise(j)
  <2>1. Proceeds(j, "replace") /\ worker[j] = "commit"
    BY <1>4 DEF CommitCheck, CheckDestination, Checked
  <2> QED
    BY <1>l, <2>1, Advances
<1>5. CASE ScanCheck(j) /\ ~Raise(j)
  <2>1. Proceeds(j, "rename") /\ worker[j] = "scan"
    BY <1>5 DEF ScanCheck, CheckDestination, Checked
  <2> QED
    BY <1>l, <2>1, Advances
<1> QED
  BY <1>1, <1>2, <1>3, <1>4, <1>5

\* The file of j that a step writes anew has no name yet.
LEMMA LeavesWritten ==
    ASSUME ExportInv, NEW j \in Jobs, NEW kind \in Kinds, NEW w,
           worker[j] \notin After(kind), worker[j] \notin Over \cup {"scan", "rename"},
           NEW content \in Contained, disk' = [disk EXCEPT ![<<j, kind>>] = content],
           private' = private \/ private' = private \cup {<<j, kind>>}
    PROVE  Leaves(j, w)
<1> DEFINE f0 == <<j, kind>>
<1>t. Types /\ FileInv
  BY DEF ExportInv
<1>1. f0 \in Outputs /\ f0 \in Files /\ f0[1] = j
  BY DEF Outputs, Files
<1> HIDE DEF f0
<1>2. disk' \in [Files -> Contained] /\ \A f \in Files : f # f0 => disk'[f] = disk[f]
  BY <1>1, <1>t DEF Types, f0
<1>3. private' \subseteq Outputs /\ \A f : f # f0 => (f \in private' <=> f \in private)
  BY <1>1, <1>t DEF Types, f0
<1>4. ASSUME NEW n, IsSaved(n)
      PROVE  directory[n][1] # j
  <2>1. worker[directory[n][1]] \in Over \cup {"scan", "rename"}
    BY <1>4, <1>t DEF FileInv, Finished, After
  <2> QED
    BY <2>1
<1> QED
  BY <1>1, <1>2, <1>3, <1>4 DEF Leaves

\* What is written now is what the name to come will promise.
LEMMA Writings ==
    ASSUME ExportInv, NEW j \in Jobs, NEW kind \in Kinds, NEW sound \in BOOLEAN,
           worker[j] \in {"dashboard", "encode"}, Writes(j, kind, sound), work' = work
    PROVE  /\ Promised(<<j, kind>>, work[j].gen)' /\ Rendition(j, kind, sound) \in Contained
           /\ disk' = [disk EXCEPT ![<<j, kind>>] = Rendition(j, kind, sound)]
           /\ private' = private \cup {<<j, kind>>}
           /\ \A other \in Kinds : other # kind /\ Promised(<<j, other>>, work[j].gen)
                => Promised(<<j, other>>, work[j].gen)'
<1> DEFINE file == Rendition(j, kind, sound)
<1>t. Types /\ JobInv(j)
  BY DEF ExportInv
<1>1. /\ work[j] \in Findings /\ work[j].gen \in Contents
      /\ work[j].models # {work[j].gen} => work[j].undone
      /\ work[j].shown \in {NoDecoder, work[j].decoder}
  BY <1>t DEF Types, JobInv, FoundOut, Begun, Decoded, Modelled, Writing, Drawn
<1>2. /\ file \in Renditions /\ file.models = work[j].models /\ file.undone = work[j].undone
      /\ file.shown = work[j].shown /\ file.decoder = work[j].decoder
  BY <1>1 DEF Rendition, Renditions, Findings
<1>3. /\ disk' = [disk EXCEPT ![<<j, kind>>] = file]
      /\ private' = private \cup {<<j, kind>>}
  BY DEF Writes
<1> HIDE DEF file
<1>4. /\ <<j, kind>> \in Files /\ \A other \in Kinds : <<j, other>> \in Files
  BY DEF Files, Outputs
<1>5. /\ disk'[<<j, kind>>] = file
      /\ \A other \in Kinds : other # kind => disk'[<<j, other>>] = disk[<<j, other>>]
  BY <1>3, <1>4, <1>t DEF Types
<1>6. Promised(<<j, kind>>, work[j].gen)'
  BY <1>1, <1>2, <1>5 DEF Promised
<1>7. \A other \in Kinds : other # kind /\ Promised(<<j, other>>, work[j].gen)
                => Promised(<<j, other>>, work[j].gen)'
  BY <1>5 DEF Promised
<1> QED
  BY <1>2, <1>3, <1>6, <1>7 DEF Contained, file

\* The dashboard is drawn; nothing is left then that only it reads.
LEMMA Draws == ASSUME ExportInv, NEW j \in Jobs, Dashboard(j) PROVE ExportInv'
<1>t. Types /\ JobInv(j)
  BY DEF ExportInv
<1>1. /\ worker[j] = "dashboard" /\ Live(j) /\ Steps(j, "release") /\ Writes(j, "scan", FALSE)
      /\ UNCHANGED <<parentVars, mailbox, work, directory, calibration, displayed>>
      /\ "scan" \in Kinds
  BY DEF Dashboard, Live, Ended, Kinds
<1>2. worker'[j] = "release" /\ work[j].png /\ work' = work /\ message' = message
  BY <1>1, <1>t DEF Types, Steps, JobInv, PrivateKept, parentVars
<1>3. /\ Promised(<<j, "scan">>, work[j].gen)' /\ Rendition(j, "scan", FALSE) \in Contained
      /\ disk' = [disk EXCEPT ![<<j, "scan">>] = Rendition(j, "scan", FALSE)]
      /\ private' = private \cup {<<j, "scan">>}
  BY <1>1, Writings
<1>4. PrivateKept(j)'
  BY <1>1, <1>2, <1>3, <1>t DEF JobInv, PrivateKept, Drawn, Imaged, ReadBack
<1>5. FoundOut(j)' /\ Prepared(j)'
  BY <1>1, <1>2, <1>3, <1>t DEF JobInv, FoundOut, Prepared, Begun, Decoded, Modelled, Writing, Drawn,
                                Imaged, ReadBack
<1>6. SavedInTime(j)'
  BY <1>1, <1>2, <1>t DEF JobInv, SavedInTime, Ended
<1>7. Leaves(j, "release")
  BY <1>1, <1>3, LeavesWritten DEF After, Over
<1>8. /\ work' = [work EXCEPT ![j] = work[j]] /\ work[j] \in Findings
      /\ mailbox' = [mailbox EXCEPT ![j] = mailbox[j]] /\ mailbox[j] \in {"none", "ok", "error"}
      /\ "release" \in WorkerPlaces \ {"absent"}
  BY <1>1, <1>t DEF Types, WorkerPlaces
<1> QED
  BY <1>1, <1>4, <1>5, <1>6, <1>7, <1>8, WorkerMoves

\* The analysis is released; if that raises, the dashboard is left.
LEMMA Releases == ASSUME ExportInv, NEW j \in Jobs, Release(j) PROVE ExportInv'
<1>t. Types /\ JobInv(j)
  BY DEF ExportInv
<1>1. /\ worker[j] = "release" /\ Live(j)
      /\ UNCHANGED <<parentVars, private, disk, directory, calibration, displayed>>
  BY DEF Release, Live, Ended, folder
<1>n. mailbox[j] # "ok" /\ message[j] # "ok" /\ message' = message
  BY <1>1, <1>t DEF JobInv, SavedInTime, Ended, parentVars
<1>2. ASSUME NEW w \in {"encode", "exiting"}, Steps(j, w),
             NEW found \in Findings, work' = [work EXCEPT ![j] = found],
             NEW m \in {"none", "error"}, mailbox' = [mailbox EXCEPT ![j] = m],
             w = "encode" => found = work[j], w = "exiting" => found.left
      PROVE  ExportInv'
  <2>1. worker'[j] = w /\ work'[j] = found /\ mailbox'[j] = m
    BY <1>2, <1>t DEF Types, Steps
  <2>2. PrivateKept(j)'
    BY <1>1, <1>2, <1>t, <2>1 DEF JobInv, PrivateKept, Drawn, Imaged, ReadBack
  <2>3. FoundOut(j)'
    BY <1>1, <1>2, <1>t, <2>1 DEF JobInv, FoundOut, Begun, Decoded, Modelled, Writing, Drawn, Imaged, ReadBack
  <2>4. Prepared(j)'
    BY <1>1, <1>2, <1>t, <2>1 DEF JobInv, Prepared, Promised, Drawn, Imaged, ReadBack
  <2>5. SavedInTime(j)'
    BY <1>2, <1>n, <2>1 DEF SavedInTime
  <2>6. Leaves(j, w) /\ w \in WorkerPlaces \ {"absent"}
    BY <1>1, <1>2, LeavesAll DEF Over, WorkerPlaces
  <2> QED
    BY <1>1, <1>2, <2>2, <2>3, <2>4, <2>5, <2>6, WorkerMoves
<1>3. CASE Steps(j, "encode") /\ UNCHANGED <<mailbox, work>>
  <2>1. /\ work' = [work EXCEPT ![j] = work[j]] /\ work[j] \in Findings
        /\ mailbox' = [mailbox EXCEPT ![j] = mailbox[j]] /\ mailbox[j] \in {"none", "error"}
    BY <1>3, <1>n, <1>t DEF Types
  <2> QED
    BY <1>2, <1>3, <2>1
<1>4. CASE Steps(j, "exiting") /\ mailbox' = [mailbox EXCEPT ![j] = "error"] /\ Note(j, "left", TRUE)
  <2> DEFINE found == [work[j] EXCEPT !.left = TRUE]
  <2>1. found \in Findings /\ work' = [work EXCEPT ![j] = found]
    BY <1>4, <1>t, Notes
  <2>2. found.left
    BY <1>t DEF Types, Findings
  <2> HIDE DEF found
  <2> QED
    BY <1>2, <1>4, <2>1, <2>2
<1> QED
  BY <1>3, <1>4 DEF Release

\* The candidate is written, or its name has become one of the RAW.
LEMMA Encodes == ASSUME ExportInv, NEW j \in Jobs, Encode(j) PROVE ExportInv'
<1>t. Types /\ JobInv(j)
  BY DEF ExportInv
<1>1. /\ worker[j] = "encode" /\ Live(j) /\ worker[j] # "exiting" /\ "image" \in Kinds /\ "scan" \in Kinds
      /\ UNCHANGED <<parentVars, work, directory, calibration, displayed>>
      /\ work' = [work EXCEPT ![j] = work[j]] /\ work[j] \in Findings
  BY <1>t DEF Encode, Live, Ended, Kinds, Types
<1>2. CASE Raise(j)
  BY <1>1, <1>2, Raises
<1>3. CASE ~Raise(j)
  <2>1. PICK sound \in BOOLEAN : Writes(j, "image", sound)
    BY <1>3 DEF Encode
  <2>2. PICK w \in {"dress", "readback"} : Steps(j, w)
    BY <1>3 DEF Encode
  <2>3. mailbox' = mailbox /\ work' = work
    BY <1>1, <1>3 DEF Encode
  <2>4. /\ Promised(<<j, "image">>, work[j].gen)' /\ Rendition(j, "image", sound) \in Contained
        /\ disk' = [disk EXCEPT ![<<j, "image">>] = Rendition(j, "image", sound)]
        /\ private' = private \cup {<<j, "image">>}
        /\ Promised(<<j, "scan">>, work[j].gen) => Promised(<<j, "scan">>, work[j].gen)'
    BY <1>1, <2>1, <2>3, Writings
  <2>5. worker'[j] = w /\ message' = message
    BY <1>1, <1>t, <2>2 DEF Types, Steps, parentVars, WorkerPlaces
  <2>6. PrivateKept(j)'
    BY <1>1, <1>t, <2>3, <2>4, <2>5 DEF JobInv, PrivateKept, Drawn, Imaged, ReadBack
  <2>7. FoundOut(j)'
    BY <1>1, <1>t, <2>3, <2>5 DEF JobInv, FoundOut, Begun, Decoded, Modelled, Writing, Drawn, Imaged, ReadBack
  <2>8. Prepared(j)'
    BY <1>1, <1>t, <2>3, <2>4, <2>5 DEF JobInv, Prepared, Drawn, Imaged, ReadBack
  <2>9. SavedInTime(j)'
    BY <1>1, <1>t, <2>3, <2>5 DEF JobInv, SavedInTime, Ended
  <2>10. Leaves(j, w)
    BY <1>1, <2>4, LeavesWritten DEF After, Over
  <2>11. /\ mailbox' = [mailbox EXCEPT ![j] = mailbox[j]] /\ mailbox[j] \in {"none", "ok", "error"}
         /\ w \in WorkerPlaces \ {"absent"}
    BY <1>t, <2>3 DEF Types, WorkerPlaces
  <2> QED
    BY <1>1, <2>2, <2>6, <2>7, <2>8, <2>9, <2>10, <2>11, WorkerMoves
<1> QED
  BY <1>2, <1>3

\* Metadata are carried: the copy is as sound as what it replaces.
LEMMA Carries == ASSUME ExportInv, NEW j \in Jobs, CarryBefore(j) \/ CarryAfter(j) PROVE ExportInv'
<1> DEFINE f0 == <<j, "image">>
<1>t. Types /\ JobInv(j)
  BY DEF ExportInv
<1>1. PICK w \in {"readback", "commit"}, copy \in Carried(disk[f0]) :
        /\ disk' = [disk EXCEPT ![f0] = copy] /\ Steps(j, w)
        /\ (w = "readback" /\ worker[j] = "dress") \/ (w = "commit" /\ worker[j] = "carry")
        /\ UNCHANGED <<parentVars, mailbox, work, private, directory, calibration, displayed>>
  BY DEF CarryBefore, CarryAfter, Carry
<1>2. /\ Live(j) /\ worker[j] \in Imaged /\ worker[j] \in Drawn /\ Promised(f0, work[j].gen)
      /\ worker[j] = "carry" => disk[f0].sound
  BY <1>1, <1>t DEF JobInv, Prepared, Live, Ended, Imaged, Drawn, ReadBack
<1>3. /\ copy \in Renditions /\ copy.models = disk[f0].models /\ copy.undone = disk[f0].undone
      /\ copy.shown = disk[f0].shown /\ copy.decoder = disk[f0].decoder /\ copy.sound = disk[f0].sound
  <2>1. disk[f0] \in Renditions
    BY <1>2 DEF Promised
  <2> QED
    BY <1>1, <2>1 DEF Carried, Rewritten, Renditions
<1>4. f0 \in Files /\ <<j, "scan">> \in Files /\ <<j, "scan">> # f0
  BY DEF Files, Outputs, Kinds
<1>5. disk'[f0] = copy /\ disk'[<<j, "scan">>] = disk[<<j, "scan">>]
  BY <1>1, <1>4, <1>t DEF Types
<1>6. worker'[j] = w /\ work' = work /\ message' = message
  BY <1>1, <1>t DEF Types, Steps, parentVars, WorkerPlaces
<1>7. PrivateKept(j)'
  BY <1>1, <1>6, <1>t DEF JobInv, PrivateKept, Drawn, Imaged, ReadBack
<1>8. FoundOut(j)'
  BY <1>1, <1>6, <1>t DEF JobInv, FoundOut, Begun, Decoded, Modelled, Writing, Drawn, Imaged, ReadBack
<1>9. Prepared(j)'
  <2>1. Promised(f0, work[j].gen)'
    BY <1>2, <1>3, <1>5, <1>6 DEF Promised
  <2>2. work[j].png => Promised(<<j, "scan">>, work[j].gen)'
    BY <1>2, <1>5, <1>6, <1>t DEF JobInv, Prepared, Promised
  <2>3. w \in ReadBack => disk'[f0].sound
    BY <1>1, <1>2, <1>3, <1>5 DEF ReadBack
  <2> QED
    BY <1>1, <1>6, <2>1, <2>2, <2>3 DEF Prepared
<1>10. SavedInTime(j)'
  BY <1>1, <1>6, <1>t DEF JobInv, SavedInTime, Ended
<1>11. Leaves(j, w)
  <2>1. copy \in Contained /\ "image" \in Kinds
    BY <1>3 DEF Contained, Kinds
  <2> QED
    BY <1>1, <2>1, LeavesWritten DEF After, Over
<1>12. /\ work' = [work EXCEPT ![j] = work[j]] /\ work[j] \in Findings
       /\ mailbox' = [mailbox EXCEPT ![j] = mailbox[j]] /\ mailbox[j] \in {"none", "ok", "error"}
       /\ w \in WorkerPlaces \ {"absent"}
  BY <1>1, <1>t DEF Types, WorkerPlaces
<1> QED
  BY <1>1, <1>2, <1>7, <1>8, <1>9, <1>10, <1>11, <1>12, WorkerMoves

\* A file that gets its name is what the name promises; a name that was saved
\* is saved still, and the files themselves are as they were.
LEMMA Publishes ==
    ASSUME ExportInv, NEW j \in Jobs, NEW kind \in Kinds, ReplaceName(j, kind), work' = work,
           work[j].gen \in Contents, Promised(<<j, kind>>, work[j].gen),
           kind = "image" => disk[<<j, kind>>].sound,
           private' = private \ {<<j, kind>>},
           NEW w \in After(kind), \A other \in Kinds : worker[j] \in After(other) => w \in After(other),
           worker'[j] = w, \A k \in Jobs : k # j => worker'[k] = worker[k]
    PROVE  /\ directory' \in [Names -> Files \cup {Absent}]
           /\ FileInv'
           /\ \A n : IsSaved(n) => IsSaved(n)'
           /\ IsSaved(Output(j, kind))'
<1>t. Types /\ FileInv
  BY DEF ExportInv
<1>0. PICK n0 \in Names, f0 \in Outputs : n0 = <<kind, work[j].gen>> /\ f0 = <<j, kind>>
  BY DEF Names, Outputs
<1>1. n0 # RawName /\ n0[2] = work[j].gen
  BY <1>0 DEF Kinds, RawName
<1>2. f0 \in Files /\ f0[1] = j /\ f0[2] = kind
  BY <1>0 DEF Files
<1>3. directory' = [directory EXCEPT ![n0] = f0] /\ disk' = disk
  BY <1>0 DEF ReplaceName, Output
<1>p. /\ Promised(f0, n0[2])
      /\ kind = "image" => disk[f0].sound
      /\ private' = private \ {f0} /\ Output(j, kind)' = n0
  BY <1>0, <1>1 DEF Output
<1>4. /\ directory'[n0] = f0 /\ directory' \in [Names -> Files \cup {Absent}]
      /\ \A n \in Names : n # n0 => directory'[n] = directory[n]
  BY <1>1, <1>2, <1>3, <1>t DEF Types
<1>5. \A n : IsSaved(n) => IsSaved(n)'
  BY <1>2, <1>4 DEF IsSaved
<1>6. directory'[RawName] = RawFile /\ disk'[RawFile] = Original
  BY <1>1, <1>3, <1>4, <1>t, FilesApart DEF FileInv
<1>7. Finished(n0)'
  <2>1. directory'[n0] = f0 /\ worker'[f0[1]] = w /\ f0 \notin private'
    BY <1>2, <1>4, <1>p
  <2>2. Promised(f0, n0[2])' /\ (f0[2] = "image" => disk'[f0].sound)
    BY <1>2, <1>3, <1>p DEF Promised
  <2>3. worker'[f0[1]] \in After(f0[2])'
    BY <1>2, <2>1 DEF After
  <2> QED
    BY <2>1, <2>2, <2>3 DEF Finished
<1>8. ASSUME NEW n, n # n0, IsSaved(n)'
      PROVE  Finished(n)'
  <2> DEFINE f == directory[n]
  <2>1. f \in Outputs /\ directory'[n] = f /\ Finished(n)
    BY <1>4, <1>8, <1>t DEF IsSaved, FileInv
  <2>2. f[1] \in Jobs /\ f[2] \in Kinds
    BY <2>1, FilesApart
  <2>3. worker'[f[1]] \in After(f[2])
    <3>1. CASE f[1] = j
      BY <2>1, <2>2, <3>1 DEF Finished
    <3>2. CASE f[1] # j
      BY <2>1, <2>2, <3>2 DEF Finished
    <3> QED
      BY <3>1, <3>2
  <2> QED
    BY <1>3, <1>p, <2>1, <2>3 DEF Finished, Promised, After
<1>9. FileInv'
  BY <1>6, <1>7, <1>8 DEF FileInv
<1>10. IsSaved(Output(j, kind))'
  BY <1>1, <1>2, <1>4, <1>p DEF IsSaved
<1> QED
  BY <1>4, <1>5, <1>9, <1>10

\* The image and the dashboard get their names.
LEMMA Replacements ==
    ASSUME ExportInv, NEW j \in Jobs, Commit(j) \/ PublishScan(j)
    PROVE  ExportInv'
<1>t. Types /\ JobInv(j)
  BY DEF ExportInv
<1>l. /\ worker[j] \in {"replace", "rename"} /\ worker[j] \in Writing /\ Live(j)
      /\ work[j].gen \in Contents
      /\ worker[j] = "replace" => Promised(<<j, "image">>, work[j].gen) /\ disk[<<j, "image">>].sound
      /\ worker[j] \in Drawn /\ work[j].png => Promised(<<j, "scan">>, work[j].gen)
      /\ worker[j] = "rename" => work[j].png
  BY <1>t DEF Commit, PublishScan, Writing, Live, Ended, JobInv, FoundOut, Prepared, Begun, Decoded,
              Modelled, Drawn, Imaged, ReadBack
<1>1. ASSUME NEW w \in {"scan", "post"}, NEW kind \in Kinds, Steps(j, w), ReplaceName(j, kind),
             private' = private \ {<<j, kind>>},
             UNCHANGED <<parentVars, mailbox, work, calibration, displayed>>,
             worker[j] = "replace" => kind = "image" /\ w = IF work[j].png THEN "scan" ELSE "post",
             worker[j] = "rename" => kind = "scan" /\ w = "post"
      PROVE  ExportInv'
  <2>2. /\ worker' \in [Jobs -> WorkerPlaces] /\ worker'[j] = w
        /\ \A k \in Jobs : k # j => worker'[k] = worker[k]
        /\ UNCHANGED <<parent, answer, message, exportSlot, mailbox, work>>
    <3>1. w \in WorkerPlaces
      BY DEF WorkerPlaces
    <3> QED
      BY <1>1, <1>t, <3>1 DEF Types, Steps, parentVars
  <2>0. disk' = disk
    BY <1>1 DEF ReplaceName
  <2>1. /\ directory' \in [Names -> Files \cup {Absent}]
        /\ FileInv'
        /\ \A n : IsSaved(n) => IsSaved(n)'
        /\ IsSaved(Output(j, kind))'
    <3>1. w \in After(kind) /\ \A other \in Kinds : worker[j] \in After(other) => w \in After(other)
      BY <1>1, <1>l DEF After, Over, Kinds
    <3>3. kind = "scan" => Promised(<<j, kind>>, work[j].gen)
      BY <1>1, <1>l DEF Drawn
    <3>4. Promised(<<j, kind>>, work[j].gen) /\ (kind = "image" => disk[<<j, kind>>].sound)
      BY <1>1, <1>l, <3>3
    <3> QED
      BY <1>1, <1>l, <2>2, <3>1, <3>4, Publishes
  <2>3. Types'
    BY <1>1, <1>t, <2>0, <2>1, <2>2 DEF Types
  <2>4. ASSUME NEW k \in Jobs, k # j
        PROVE  JobInv(k)'
    <3>1. /\ JobInv(k)
          /\ \A c \in Kinds : <<k, c>> \in private' <=> <<k, c>> \in private
      BY <1>1, <2>4 DEF ExportInv
    <3> QED
      BY <1>1, <2>0, <2>1, <2>2, <2>4, <3>1, OthersKept
  <2>5. Watched(j)'
    BY <1>t, <1>l, <2>2 DEF JobInv, Watched, Live, Watching
  <2>6. PrivateKept(j)'
    BY <1>1, <1>t, <1>l, <2>2 DEF JobInv, PrivateKept, Drawn, Imaged, ReadBack
  <2>7. FoundOut(j)'
    BY <1>1, <1>t, <1>l, <2>2 DEF JobInv, FoundOut, Begun, Decoded, Modelled, Writing, Drawn, Imaged, ReadBack
  <2>p. Prepared(j)'
    BY <1>1, <1>t, <1>l, <2>0, <2>2 DEF JobInv, Prepared, Promised, Drawn, Imaged, ReadBack
  <2>8. SavedInTime(j)'
    <3>1. mailbox[j] # "ok" /\ message[j] # "ok"
      BY <1>t, <1>l DEF JobInv, SavedInTime, Ended
    <3>2. worker[j] = "rename" => IsSaved(Output(j, "image"))
      BY <1>t DEF JobInv, SavedInTime
    <3>3. IsSaved(Output(j, "image"))'
      <4>1. CASE worker[j] = "replace"
        BY <1>1, <2>1, <4>1
      <4>2. CASE worker[j] = "rename"
        <5>1. Output(j, "image")' = Output(j, "image")
          BY <2>2 DEF Output
        <5> QED
          BY <2>1, <3>2, <4>2, <5>1 DEF IsSaved
      <4> QED
        BY <1>l, <4>1, <4>2
    <3>4. w = "post" /\ work'[j].png => IsSaved(Output(j, "scan"))'
      BY <1>1, <1>l, <2>1, <2>2
    <3> QED
      BY <2>2, <3>1, <3>3, <3>4 DEF SavedInTime
  <2> QED
    BY <2>1, <2>3, <2>4, <2>5, <2>6, <2>7, <2>p, <2>8 DEF ExportInv, JobInv
<1>2. CASE Commit(j)
  <2> DEFINE w == IF work[j].png THEN "scan" ELSE "post"
  <2>1. w \in {"scan", "post"} /\ "image" \in Kinds
    BY DEF Kinds
  <2> QED
    BY <1>1, <1>2, <2>1 DEF Commit
<1>3. CASE PublishScan(j)
  <2>1. "scan" \in Kinds
    BY DEF Kinds
  <2> QED
    BY <1>1, <1>3, <2>1 DEF PublishScan
<1> QED
  BY <1>2, <1>3

\* A worker answers and exits, or raises.
LEMMA WorkerEnds ==
    ASSUME ExportInv, NEW j \in Jobs, Post(j) \/ Exit(j) \/ WorkerFails(j)
    PROVE  ExportInv'
<1>t. Types /\ JobInv(j)
  BY DEF ExportInv
<1>w. work[j] \in Findings /\ (work' = work => work' = [work EXCEPT ![j] = work[j]])
  BY <1>t DEF Types
<1>1. CASE WorkerFails(j)
  BY <1>1, <1>w, Raises DEF WorkerFails
<1>2. ASSUME NEW w \in {"exiting", "exited"}, Steps(j, w), worker[j] \in {"post", "exiting"},
             NEW m \in {"none", "ok", "error"}, mailbox' = [mailbox EXCEPT ![j] = m],
             UNCHANGED <<parentVars, work, private, folder, calibration, displayed>>,
             worker[j] = "post" => w = "exiting" /\ m = "ok",
             worker[j] = "exiting" => m = mailbox[j]
      PROVE  ExportInv'
  <2>1. worker'[j] = w /\ mailbox'[j] = m /\ message' = message
    BY <1>2, <1>t DEF Types, Steps, parentVars
  <2>2. PrivateKept(j)'
    BY <1>2, <1>t, <2>1 DEF JobInv, PrivateKept, Drawn, Imaged, ReadBack
  <2>3. FoundOut(j)' /\ Prepared(j)'
    BY <1>2, <2>1 DEF FoundOut, Prepared, Begun, Decoded, Modelled, Writing, Drawn, Imaged, ReadBack
  <2>4. SavedInTime(j)'
    BY <1>2, <1>t, <2>1 DEF JobInv, SavedInTime, IsSaved, Output, Ended, folder
  <2>5. Leaves(j, w)
    BY <1>2, LeavesAll DEF Over, folder
  <2>6. w \in WorkerPlaces \ {"absent"} /\ Live(j)
    BY <1>2 DEF WorkerPlaces, Live, Ended
  <2> QED
    BY <1>2, <1>w, <2>2, <2>3, <2>4, <2>5, <2>6, WorkerMoves DEF folder
<1>3. CASE Post(j)
  BY <1>2, <1>3 DEF Post
<1>4. CASE Exit(j)
  <2>1. mailbox' = [mailbox EXCEPT ![j] = mailbox[j]] /\ mailbox[j] \in {"none", "ok", "error"}
    BY <1>4, <1>t DEF Exit, Types
  <2> QED
    BY <1>2, <1>4, <2>1 DEF Exit
<1> QED
  BY <1>1, <1>3, <1>4

-----------------------------------------------------------------------------
(* Steps of the server and of its surroundings *)

\* A step of one job that writes no file, takes no name back and takes the
\* slot from no other.
LEMMA JobMoves ==
    ASSUME ExportInv, NEW j \in Jobs, Types', JobInv(j)',
           \A k \in Jobs : k # j =>
             /\ parent'[k] = parent[k] /\ answer'[k] = answer[k] /\ message'[k] = message[k]
             /\ mailbox'[k] = mailbox[k] /\ worker'[k] = worker[k] /\ work'[k] = work[k]
             /\ exportSlot = k => exportSlot' = k,
           \A kind \in Kinds : worker[j] \in After(kind) => worker'[j] \in After(kind),
           UNCHANGED <<private, directory, disk, calibration>>
    PROVE  ExportInv'
<1>1. ASSUME NEW k \in Jobs, k # j
      PROVE  JobInv(k)'
  <2>1. JobInv(k) /\ \A n : IsSaved(n) => IsSaved(n)'
    BY DEF ExportInv, IsSaved
  <2> QED
    BY <1>1, <2>1, OthersKept
<1>2. FileInv'
  <2>1. ASSUME NEW n, IsSaved(n)
        PROVE  Finished(n)'
    <3>1. Finished(n) /\ directory[n][1] \in Jobs /\ directory[n][2] \in Kinds
      BY <2>1, FilesApart DEF ExportInv, FileInv, IsSaved
    <3>2. worker'[directory[n][1]] \in After(directory[n][2])
      BY <3>1 DEF Finished
    <3> QED
      BY <3>1, <3>2 DEF Finished, Promised, After
  <2> QED
    BY <2>1 DEF ExportInv, FileInv, IsSaved
<1> QED
  BY <1>1, <1>2 DEF ExportInv

\* A request is made; its worker has not been started.
LEMMA Posts == ASSUME ExportInv, NEW j \in Jobs, PostExport(j) PROVE ExportInv'
<1>t. Types /\ JobInv(j)
  BY DEF ExportInv
<1>1. PICK png \in BOOLEAN : work' = [work EXCEPT ![j].shown = displayed, ![j].png = png]
  BY DEF PostExport
<1> DEFINE found == [work[j] EXCEPT !.shown = displayed, !.png = png]
<1>2. /\ work' = [work EXCEPT ![j] = found] /\ found \in Findings
      /\ found.models = work[j].models /\ found.left = work[j].left
  <2>1. work[j] \in Findings /\ displayed \in Decoders \cup {NoDecoder}
    BY <1>t DEF Types
  <2>2. found \in Findings /\ found.models = work[j].models /\ found.left = work[j].left
    BY <2>1 DEF Findings
  <2>3. work' = [work EXCEPT ![j] = found]
    BY <1>1, <1>t DEF Types
  <2> QED
    BY <2>2, <2>3
<1> HIDE DEF found
<1>3. /\ parent[j] = "absent" /\ parent' = [parent EXCEPT ![j] = "queued"]
      /\ UNCHANGED <<answer, message, exportSlot, worker, mailbox, private,
                     directory, disk, calibration, displayed>>
  BY DEF PostExport, Waits, folder
<1>4. Types'
  BY <1>2, <1>3, <1>t DEF Types, ParentPlaces
<1>5. /\ worker[j] = "absent" /\ parent'[j] = "queued" /\ work'[j].models = {}
      /\ work'[j].left = work[j].left
  BY <1>2, <1>3, <1>t DEF JobInv, Watched, FoundOut, Types
<1>6. JobInv(j)'
  <2>1. Watched(j)'
    BY <1>3, <1>5 DEF Watched, Live, Watching
  <2>2. PrivateKept(j)'
    BY <1>3, <1>5, <1>t DEF JobInv, PrivateKept, Drawn, Imaged, ReadBack
  <2>3. FoundOut(j)' /\ Prepared(j)'
    BY <1>3, <1>5 DEF FoundOut, Prepared, Begun, Decoded, Modelled, Writing, Drawn, Imaged, ReadBack
  <2>4. SavedInTime(j)'
    BY <1>3, <1>5, <1>t DEF JobInv, SavedInTime, Ended
  <2> QED
    BY <2>1, <2>2, <2>3, <2>4 DEF JobInv
<1>7. \A k \in Jobs : k # j => parent'[k] = parent[k] /\ work'[k] = work[k]
  BY <1>2, <1>3, <1>t DEF Types
<1> QED
  BY <1>3, <1>4, <1>6, <1>7, JobMoves

\* The slot is free, so no request is watching and no worker runs.
LEMMA Starts == ASSUME ExportInv, NEW j \in Jobs, StartWorker(j) PROVE ExportInv'
<1>t. Types /\ JobInv(j)
  BY DEF ExportInv
<1>1. /\ parent[j] = "queued" /\ exportSlot = Nobody /\ exportSlot' = j
      /\ parent' = [parent EXCEPT ![j] = "waiting"] /\ worker' = [worker EXCEPT ![j] = "start"]
      /\ UNCHANGED <<answer, message, mailbox, work, private, directory, disk, calibration, displayed>>
  BY DEF StartWorker, Waits, Steps, folder
<1>2. Types'
  BY <1>1, <1>t DEF Types, ParentPlaces, WorkerPlaces
<1>3. worker[j] = "absent" /\ worker'[j] = "start" /\ parent'[j] = "waiting"
  BY <1>1, <1>t DEF JobInv, Watched, Types
<1>4. JobInv(j)'
  <2>1. Watched(j)'
    BY <1>1, <1>3 DEF Watched, Watching
  <2>2. PrivateKept(j)'
    BY <1>1, <1>3, <1>t DEF JobInv, PrivateKept, Drawn, Imaged, ReadBack
  <2>3. FoundOut(j)' /\ Prepared(j)'
    BY <1>1, <1>3, <1>t DEF JobInv, FoundOut, Prepared, Begun, Decoded, Modelled, Writing, Drawn, Imaged, ReadBack
  <2>4. SavedInTime(j)'
    BY <1>1, <1>3, <1>t DEF JobInv, SavedInTime, Ended
  <2> QED
    BY <2>1, <2>2, <2>3, <2>4 DEF JobInv
<1>5. \A k \in Jobs : k # j => /\ parent'[k] = parent[k] /\ worker'[k] = worker[k]
                               /\ exportSlot # k
  BY <1>1, <1>t, ExportAssumption DEF Types
<1>6. \A kind \in Kinds : worker[j] \notin After(kind)
  BY <1>3 DEF After, Over
<1> QED
  BY <1>1, <1>2, <1>4, <1>5, <1>6, JobMoves

\* The server looks at the queue, at the process and at the clock.
LEMMA Watches ==
    ASSUME ExportInv, NEW j \in Jobs,
           Receive(j) \/ Empty(j) \/ FindDead(j) \/ WaitAgain(j) \/ PassDeadline(j)
    PROVE  ExportInv'
<1>t. Types /\ JobInv(j)
  BY DEF ExportInv
<1>1. PICK a \in {"waiting", "doubting", "terminating", "joining"} : Waits(j, a)
  BY DEF Receive, Empty, FindDead, WaitAgain, PassDeadline
<1>2. /\ parent[j] \in {"waiting", "doubting"}
      /\ UNCHANGED <<answer, exportSlot, worker, work, private, directory, disk, calibration, displayed>>
      /\ \/ UNCHANGED <<message, mailbox>>
         \/ /\ message' = [message EXCEPT ![j] = mailbox[j]]
            /\ mailbox' = [mailbox EXCEPT ![j] = "none"]
  BY DEF Receive, Empty, FindDead, WaitAgain, PassDeadline, workerVars, folder
<1>3. /\ parent' \in [Jobs -> ParentPlaces] /\ parent'[j] = a
      /\ \A k \in Jobs : k # j => parent'[k] = parent[k]
  BY <1>1, <1>t DEF Waits, Types, ParentPlaces
<1>4. /\ message' \in [Jobs -> {"none", "ok", "error"}] /\ mailbox' \in [Jobs -> {"none", "ok", "error"}]
      /\ \A k \in Jobs : k # j => message'[k] = message[k] /\ mailbox'[k] = mailbox[k]
      /\ mailbox'[j] = "ok" \/ message'[j] = "ok" => mailbox[j] = "ok" \/ message[j] = "ok"
  BY <1>2, <1>t DEF Types
<1>5. Types'
  BY <1>2, <1>3, <1>4, <1>t DEF Types
<1>6. JobInv(j)'
  <2>1. Watched(j)'
    BY <1>2, <1>3, <1>t DEF JobInv, Watched, Live, Watching
  <2>2. PrivateKept(j)' /\ FoundOut(j)'
    BY <1>2, <1>t DEF JobInv, PrivateKept, FoundOut
  <2>p. Prepared(j)'
    BY <1>2, <1>t DEF JobInv, Prepared, Promised
  <2>3. SavedInTime(j)'
    BY <1>2, <1>4, <1>t DEF JobInv, SavedInTime, IsSaved, Output
  <2> QED
    BY <2>1, <2>2, <2>p, <2>3 DEF JobInv
<1> QED
  BY <1>2, <1>3, <1>4, <1>5, <1>6, JobMoves

\* A worker that is killed leaves its temporaries, and what it saved.
LEMMA Kills ==
    ASSUME ExportInv, NEW j \in Jobs, Terminate(j) \/ WorkerKilled(j)
    PROVE  ExportInv'
<1>t. Types /\ JobInv(j)
  BY DEF ExportInv
<1>1. PICK w \in {"killed", worker[j]} :
        Steps(j, w) /\ (Live(j) => w = "killed") /\ (~Live(j) => w = worker[j])
  BY DEF Terminate, WorkerKilled
<1>2. /\ UNCHANGED <<answer, message, exportSlot, mailbox, work, private, directory, disk, calibration, displayed>>
      /\ \/ parent' = parent
         \/ parent[j] = "terminating" /\ Waits(j, "overdue")
  BY DEF Terminate, WorkerKilled, parentVars, folder
<1>3. /\ worker' \in [Jobs -> WorkerPlaces] /\ worker'[j] = w
      /\ \A k \in Jobs : k # j => worker'[k] = worker[k]
  BY <1>1, <1>t DEF Types, Steps, WorkerPlaces
<1>4. /\ parent' \in [Jobs -> ParentPlaces]
      /\ parent'[j] = parent[j] \/ (parent[j] = "terminating" /\ parent'[j] = "overdue")
      /\ \A k \in Jobs : k # j => parent'[k] = parent[k]
  BY <1>2, <1>t DEF Waits, Types, ParentPlaces
<1>5. Types'
  BY <1>2, <1>3, <1>4, <1>t DEF Types
<1>6. JobInv(j)'
  <2>1. CASE ~Live(j)
    <3>1. worker'[j] = worker[j]
      BY <1>1, <1>3, <2>1
    <3>2. Watched(j)'
      BY <1>2, <1>4, <1>t, <2>1, <3>1 DEF JobInv, Watched, Live, Watching
    <3>3. PrivateKept(j)' /\ FoundOut(j)'
      BY <1>2, <1>t, <3>1 DEF JobInv, PrivateKept, FoundOut
    <3>p. Prepared(j)'
      BY <1>2, <1>t, <3>1 DEF JobInv, Prepared, Promised
    <3>4. SavedInTime(j)'
      BY <1>2, <1>t, <3>1 DEF JobInv, SavedInTime, IsSaved, Output
    <3> QED
      BY <3>2, <3>3, <3>p, <3>4 DEF JobInv
  <2>2. CASE Live(j)
    <3>1. worker'[j] = "killed"
      BY <1>1, <1>3, <2>2
    <3>2. Watched(j)'
      BY <1>2, <1>4, <1>t, <2>2, <3>1 DEF JobInv, Watched, Live, Ended, Watching
    <3>3. PrivateKept(j)'
      BY <1>2, <1>t, <3>1 DEF JobInv, PrivateKept, Drawn, Imaged, ReadBack
    <3>p. FoundOut(j)' /\ Prepared(j)'
      BY <3>1 DEF FoundOut, Prepared, Begun, Decoded, Modelled, Writing, Drawn, Imaged, ReadBack
    <3>4. SavedInTime(j)'
      BY <1>2, <1>t, <3>1 DEF JobInv, SavedInTime, IsSaved, Output, Ended
    <3> QED
      BY <3>2, <3>3, <3>p, <3>4 DEF JobInv
  <2> QED
    BY <2>1, <2>2
<1>7. \A kind \in Kinds : worker[j] \in After(kind) => worker'[j] \in After(kind)
  BY <1>1, <1>3 DEF After, Over
<1> QED
  BY <1>2, <1>3, <1>4, <1>5, <1>6, <1>7, JobMoves

\* The verdict: the worker is gone, so nobody is left in the slot.
LEMMA Joins == ASSUME ExportInv, NEW j \in Jobs, Join(j) PROVE ExportInv'
<1>t. Types /\ JobInv(j)
  BY DEF ExportInv
<1> DEFINE verdict == CASE parent[j] = "overdue" -> "timeout"
                        [] parent[j] = "joining" /\ message[j] = "none" -> "crash"
                        [] OTHER -> message[j]
           found == [Fresh EXCEPT !.left = work[j].left]
<1>1. /\ parent[j] \in {"joining", "overdue"} /\ ~Live(j)
      /\ exportSlot' = Nobody
      /\ parent' = [parent EXCEPT ![j] = "answered"]
      /\ answer' = [answer EXCEPT ![j] = verdict]
      /\ message' = [message EXCEPT ![j] = "none"]
      /\ mailbox' = [mailbox EXCEPT ![j] = "none"]
      /\ work' = [work EXCEPT ![j] = found]
      /\ UNCHANGED <<worker, private, directory, disk, calibration, displayed>>
  BY DEF Join, Conclude, Waits, folder
<1>2. verdict \in {"ok", "error", "timeout", "crash"}
  BY <1>1, <1>t DEF Types
<1>f. found \in Findings /\ found.models = {} /\ found.left = work[j].left
  <2>1. work[j].left \in BOOLEAN
    BY <1>t DEF Types, Findings
  <2> QED
    BY <2>1 DEF Fresh, Findings
<1> HIDE DEF verdict, found
<1>3. /\ parent'[j] = "answered" /\ answer'[j] = verdict
      /\ message'[j] = "none" /\ mailbox'[j] = "none" /\ work'[j] = found
      /\ \A k \in Jobs : k # j => /\ parent'[k] = parent[k] /\ answer'[k] = answer[k]
                                  /\ message'[k] = message[k] /\ mailbox'[k] = mailbox[k]
                                  /\ work'[k] = work[k]
  BY <1>1, <1>t DEF Types
<1>4. Types'
  BY <1>1, <1>2, <1>f, <1>t DEF Types, ParentPlaces
<1>5. exportSlot = j /\ worker[j] \in {"absent", "exited", "killed"}
  BY <1>1, <1>t DEF JobInv, Watched, Watching, Live, Ended
<1>6. JobInv(j)'
  <2>1. Watched(j)'
    BY <1>1, <1>2, <1>3 DEF Watched, Live, Watching
  <2>2. PrivateKept(j)'
    BY <1>1, <1>3, <1>5, <1>f, <1>t DEF JobInv, PrivateKept, Drawn, Imaged, ReadBack
  <2>p. FoundOut(j)' /\ Prepared(j)'
    BY <1>1, <1>3, <1>5, <1>f DEF FoundOut, Prepared, Begun, Decoded, Modelled, Writing, Drawn, Imaged, ReadBack
  <2>3. SavedInTime(j)'
    BY <1>1, <1>3, <1>5 DEF SavedInTime
  <2> QED
    BY <2>1, <2>2, <2>p, <2>3 DEF JobInv
<1> QED
  BY <1>1, <1>3, <1>4, <1>5, <1>6, JobMoves

\* An edit makes the store differ from what a worker read, or notes that its
\* first content came back.
LEMMA Edits == ASSUME ExportInv, EditCalibration PROVE ExportInv'
<1>t. Types /\ FileInv
  BY DEF ExportInv
<1>1. /\ calibration' \in Contents
      /\ work' = [j \in Jobs |-> [work[j] EXCEPT !.undone = @ \/ work[j].gen = calibration']]
      /\ UNCHANGED <<parent, answer, message, exportSlot, worker, mailbox, private, directory, disk, displayed>>
  BY DEF EditCalibration, parentVars, folder
<1>2. ASSUME NEW j \in Jobs
      PROVE  /\ work'[j] \in Findings /\ work'[j].png = work[j].png /\ work'[j].gen = work[j].gen
             /\ work'[j].models = work[j].models /\ work'[j].shown = work[j].shown
             /\ work'[j].decoder = work[j].decoder /\ work'[j].left = work[j].left
             /\ work'[j].undone = (work[j].undone \/ work[j].gen = calibration')
  <2>1. work[j] \in Findings
    BY <1>t DEF Types
  <2> QED
    BY <1>1, <2>1 DEF Findings
<1>3. work' \in [Jobs -> Findings]
  BY <1>1, <1>2
<1>4. Types'
  BY <1>1, <1>3, <1>t DEF Types
<1>5. ASSUME NEW j \in Jobs
      PROVE  JobInv(j)'
  <2>1. JobInv(j)
    BY DEF ExportInv
  <2>2. Watched(j)'
    BY <1>1, <2>1 DEF JobInv, Watched, Live
  <2>3. PrivateKept(j)'
    BY <1>1, <1>2, <2>1 DEF JobInv, PrivateKept
  <2>4. FoundOut(j)'
    <3>1. /\ worker'[j] = worker[j]
          /\ worker[j] \in {"absent", "start", "decode", "analyze"} => work'[j].models = {}
          /\ worker[j] \in Begun => work'[j].gen \in Contents
          /\ worker[j] \in Decoded => work'[j].shown \in {NoDecoder, work'[j].decoder}
      BY <1>1, <1>2, <2>1 DEF JobInv, FoundOut
    <3>2. worker[j] \in Modelled /\ work'[j].models # {work'[j].gen}
            => work'[j].undone \/ (worker[j] \in {"plan", "name"} /\ calibration' # work'[j].gen)
      BY <1>2, <2>1 DEF JobInv, FoundOut
    <3> QED
      BY <3>1, <3>2 DEF FoundOut
  <2>p. Prepared(j)'
    BY <1>1, <1>2, <2>1 DEF JobInv, Prepared, Promised
  <2>5. SavedInTime(j)'
    BY <1>1, <1>2, <2>1 DEF JobInv, SavedInTime, IsSaved, Output
  <2> QED
    BY <2>2, <2>3, <2>4, <2>p, <2>5 DEF JobInv
<1>6. FileInv'
  BY <1>1, <1>t DEF FileInv, IsSaved, Finished, Promised
<1> QED
  BY <1>4, <1>5, <1>6 DEF ExportInv

\* Only a free name becomes one of the RAW.
LEMMA Aliases == ASSUME ExportInv, AliasSource PROVE ExportInv'
<1>t. Types /\ FileInv
  BY DEF ExportInv
<1>1. PICK n0 \in Names : directory[n0] = Absent /\ directory' = [directory EXCEPT ![n0] = RawFile]
  BY DEF AliasSource
<1>2. UNCHANGED <<parent, answer, message, exportSlot, worker, mailbox, work, private, disk, calibration,
                  displayed>>
  BY DEF AliasSource, parentVars, workerVars
<1>3. Types'
  BY <1>1, <1>2, <1>t, FilesApart DEF Types
<1>4. /\ \A n \in Names : IsSaved(n)' => directory'[n] = directory[n] /\ IsSaved(n)
      /\ \A n : IsSaved(n) => IsSaved(n)'
      /\ directory'[RawName] = RawFile
  <2>1. \A n \in Names : directory'[n] = IF n = n0 THEN RawFile ELSE directory[n]
    BY <1>1, <1>t DEF Types
  <2> QED
    BY <1>1, <1>t, <2>1, FilesApart DEF IsSaved, FileInv
<1>5. FileInv'
  <2>1. ASSUME NEW n, IsSaved(n)'
        PROVE  Finished(n)'
    <3>1. directory'[n] = directory[n] /\ Finished(n)
      BY <1>4, <1>t, <2>1 DEF FileInv, IsSaved
    <3> QED
      BY <1>2, <3>1 DEF Finished, Promised
  <2> QED
    BY <1>2, <1>4, <1>t, <2>1 DEF FileInv
<1>6. ASSUME NEW j \in Jobs
      PROVE  JobInv(j)'
  <2>1. JobInv(j)
    BY DEF ExportInv
  <2> QED
    BY <1>2, <1>4, <2>1, OthersKept
<1> QED
  BY <1>3, <1>5, <1>6 DEF ExportInv

-----------------------------------------------------------------------------
(* What the exports promise *)

\* Nothing has been requested.
LEMMA ExportInvInit == ExportInit => ExportInv
<1> SUFFICES ASSUME ExportInit PROVE ExportInv
  OBVIOUS
<1>1. /\ Fresh \in Findings /\ Fresh.models = {} /\ Fresh.png = FALSE
      /\ work = [j \in Jobs |-> Fresh]
  BY DEF ExportInit, Findings, Fresh
<1>n. /\ directory \in [Names -> {RawFile, Absent}] /\ directory[RawName] = RawFile
      /\ disk \in [Files -> {Original, Unwritten}] /\ disk[RawFile] = Original
  BY FilesApart DEF ExportInit
<1>2. Types
  <2>1. directory \in [Names -> Files \cup {Absent}] /\ disk \in [Files -> Contained]
    BY <1>n, FilesApart DEF Contained
  <2>2. /\ parent \in [Jobs -> ParentPlaces] /\ worker \in [Jobs -> WorkerPlaces]
        /\ work \in [Jobs -> Findings]
    BY <1>1 DEF ExportInit, ParentPlaces, WorkerPlaces
  <2> QED
    BY <2>1, <2>2 DEF ExportInit, Types
<1>3. ASSUME NEW j \in Jobs
      PROVE  JobInv(j)
  <2>1. /\ parent[j] = "absent" /\ worker[j] = "absent" /\ mailbox[j] = "none" /\ message[j] = "none"
        /\ work[j].models = {} /\ private = {}
    BY <1>1 DEF ExportInit
  <2>2. Watched(j) /\ PrivateKept(j)
    BY <2>1 DEF Watched, PrivateKept, Live, Watching
  <2>3. FoundOut(j) /\ Prepared(j) /\ SavedInTime(j)
    BY <2>1 DEF FoundOut, Prepared, SavedInTime, Begun, Decoded, Modelled, Writing, Drawn, Imaged, ReadBack
  <2> QED
    BY <2>2, <2>3 DEF JobInv
<1>4. FileInv
  BY <1>n, FilesApart DEF FileInv, IsSaved
<1> QED
  BY <1>2, <1>3, <1>4 DEF ExportInv

\* Every step keeps ExportInv.
LEMMA ExportInvNext == ExportInv /\ [ExportNext]_exportVars => ExportInv'
<1> SUFFICES ASSUME ExportInv, [ExportNext]_exportVars PROVE ExportInv'
  OBVIOUS
<1>1. ASSUME NEW j \in Jobs, PostExport(j) \/ ParentStep(j)
      PROVE  ExportInv'
  BY <1>1, Posts, Starts, Watches, Kills, Joins DEF ParentStep
<1>2. ASSUME NEW j \in Jobs, WorkerStep(j) \/ WorkerKilled(j)
      PROVE  ExportInv'
  BY <1>2, FindsOut, Checks, Draws, Releases, Encodes, Carries, Replacements, WorkerEnds, Kills DEF WorkerStep
<1>3. CASE EditCalibration \/ AliasSource
  BY <1>3, Edits, Aliases
<1>4. CASE UNCHANGED exportVars
  <2>1. UNCHANGED <<parent, answer, message, exportSlot, worker, mailbox, work, private, directory, disk,
                    calibration, displayed>>
    BY <1>4 DEF exportVars, parentVars, workerVars, folder
  <2>2. Types' /\ FileInv'
    BY <2>1 DEF ExportInv, Types, FileInv, IsSaved, Finished, Promised
  <2>3. ASSUME NEW j \in Jobs
        PROVE  JobInv(j)'
    BY <2>1, OthersKept DEF ExportInv, IsSaved
  <2> QED
    BY <2>2, <2>3 DEF ExportInv
<1> QED
  BY <1>1, <1>2, <1>3, <1>4 DEF ExportNext

\* What a job has secured, it has secured whatever the others do.
THEOREM ExportInvariant == ExportSpec => []ExportInv
<1> QED
  BY ExportInvInit, ExportInvNext, PTL DEF ExportSpec

\* The invariant holds the types of ExportTypeOK.
LEMMA ExportInvTypes == ExportInv => ExportTypeOK
<1> SUFFICES ASSUME ExportInv PROVE ExportTypeOK
  OBVIOUS
<1>1. Types /\ \A j \in Jobs : Watched(j)
  BY DEF ExportInv, JobInv
<1>2. ASSUME NEW f \in Files
      PROVE  disk[f].kind \in {"unwritten", "raw"} \cup Kinds
  <2>1. disk[f] \in Contained
    BY <1>1 DEF Types
  <2>2. Unwritten.kind = "unwritten" /\ Original.kind = "raw"
    BY DEF Unwritten, Original
  <2>3. \A c \in Renditions : c.kind \in Kinds
    BY DEF Renditions
  <2> QED
    BY <2>1, <2>2, <2>3 DEF Contained
<1>3. ASSUME NEW j \in Jobs
      PROVE  work[j].models \subseteq Contents
  BY <1>1 DEF Types, Findings
<1> QED
  BY <1>1, <1>2, <1>3 DEF ExportTypeOK, Types, Watched

\* The type invariant, for any number of jobs and events.
THEOREM ExportTypesKept == ExportSpec => []ExportTypeOK
BY ExportInvTypes, ExportInvariant, PTL

\* DirectorySound: one worker at a time, only finished files and sound images
\* under published names, the RAW as it was, and no temporary of a worker that
\* ended by itself but the dashboard of a release that raised.
THEOREM DirectoryAlwaysSound == ExportSpec => []DirectorySound
<1>1. ExportInv => DirectorySound
  <2> SUFFICES ASSUME ExportInv PROVE DirectorySound
    OBVIOUS
  <2>1. Types /\ FileInv /\ \A j \in Jobs : Watched(j) /\ PrivateKept(j)
    BY DEF ExportInv, JobInv
  <2>2. ASSUME NEW j \in Jobs, Live(j)
        PROVE  exportSlot = j
    BY <2>1, <2>2 DEF Watched
  <2>3. ASSUME NEW f \in Published
        PROVE  f \notin private /\ (f[2] = "image" => disk[f].sound)
    <3>1. PICK n \in Names : f = directory[n] /\ f \in Outputs
      BY DEF Published
    <3> QED
      BY <2>1, <3>1 DEF FileInv, IsSaved, Finished
  <2>4. ASSUME NEW t \in private
        PROVE  \/ Live(t[1]) \/ worker[t[1]] = "killed"
               \/ t[2] = "scan" /\ work[t[1]].left
    <3>1. PICK j \in Jobs, kind \in Kinds : t = <<j, kind>>
      BY <2>1 DEF Types, Outputs
    <3>2. CASE kind = "image"
      BY <2>1, <3>1, <3>2 DEF PrivateKept, Live, Ended, Imaged, ReadBack
    <3>3. CASE kind = "scan"
      BY <2>1, <3>1, <3>3 DEF PrivateKept, Live, Ended, Drawn, Imaged, ReadBack
    <3> QED
      BY <3>1, <3>2, <3>3 DEF Kinds
  <2> QED
    BY <2>1, <2>2, <2>3, <2>4 DEF DirectorySound, FileInv
<1> QED
  BY <1>1, ExportInvariant, PTL

\* RenditionsHonest: a file bears the name of the calibration it was made with,
\* unless the store came back to its first content meanwhile, and an export
\* pinned to a displayed preview has that decoder.
THEOREM RenditionsAlwaysHonest == ExportSpec => []RenditionsHonest
<1>1. ExportInv => RenditionsHonest
  <2> SUFFICES ASSUME ExportInv PROVE RenditionsHonest
    OBVIOUS
  <2>1. ASSUME NEW n \in Names, directory[n] \in Outputs
        PROVE  Promised(directory[n], n[2])
    BY <2>1 DEF ExportInv, FileInv, IsSaved, Finished
  <2> QED
    BY <2>1 DEF RenditionsHonest, Published, Promised
<1> QED
  BY <1>1, ExportInvariant, PTL

\* ReportedIsSaved: an export that answers "ok" has saved what it was asked for.
THEOREM ReportedAlwaysSaved == ExportSpec => ReportedIsSaved
<1>1. ASSUME ExportInv, [ExportNext]_exportVars, NEW j \in Jobs, answer'[j] = "ok", answer[j] # "ok"
      PROVE  \A kind \in {"image"} \cup IF work[j].png THEN {"scan"} ELSE {} :
                 directory[Output(j, kind)] \in Published
  <2>1. Types /\ SavedInTime(j)
    BY <1>1 DEF ExportInv, JobInv
  <2>2. PICK k \in Jobs : Join(k)
    BY <1>1 DEF ExportNext, PostExport, ParentStep, StartWorker, Receive, Empty, FindDead, WaitAgain,
                PassDeadline, Terminate, WorkerStep, ReadGeneration, Decode, Analyze, Plan, Model,
                NameOutput, Dashboard, Release, Encode, Readback, CarryBefore, CarryAfter, Carry,
                CommitCheck, ScanCheck, CheckDestination, Commit, PublishScan, Post, Exit, WorkerFails,
                WorkerKilled, EditCalibration, AliasSource, exportVars, parentVars
  <2>3. message[j] = "ok"
    BY <1>1, <2>1, <2>2 DEF Join, Conclude, Types
  <2> QED
    BY <2>1, <2>3 DEF SavedInTime, IsSaved, Published
<1>2. ExportInv /\ [ExportNext]_exportVars
        => [\A j \in Jobs : answer'[j] = "ok" /\ answer[j] # "ok" =>
              \A kind \in {"image"} \cup IF work[j].png THEN {"scan"} ELSE {} :
                  directory[Output(j, kind)] \in Published]_exportVars
  BY <1>1
<1> QED
  BY <1>2, ExportInvariant, PTL DEF ExportSpec, ReportedIsSaved

-----------------------------------------------------------------------------
(* The search for an encoding

   What was verified first is the oracle, and the winner is the smallest so far of what
   stays within its budget; the donor of the winner is pinned while gain maps change. *)

Chromas == {"444", "422", "420"}
Encodings == Nat \X Chromas \X Nat
Encoded == [size : Sizes, error : Errors, what : Encodings, map : {95, 100}]
Primary(c) == <<c[1], c[2]>>

SearchTypes ==
    /\ request \in Requests
    /\ stage \in {"quality", "sampling", "auxiliary"}
    /\ place \in {"next", "verify", "chosen", "done", "failed"}
    /\ place \in {"verify", "chosen"} => todo # <<>>
    /\ todo \in Seq(Encodings) /\ tried \subseteq Encodings
    /\ reference \in Encoded \cup {None} /\ selected \in Encoded \cup {None}
    /\ template \in {95, 100}
    /\ history \in [reencoded : BOOLEAN, oracle : Encoded \cup {None}, best : Nat, fellback : SUBSET Encodings]

\* The first of the candidates left, and the others.
LEMMA TodoFacts ==
    ASSUME SearchTypes, todo # <<>>
    PROVE  /\ Candidate \in Encodings /\ Tail(todo) \in Seq(Encodings)
           /\ Len(todo) \in Nat /\ Len(todo) > 0 /\ Candidate = todo[1]
           /\ Len(Tail(todo)) = Len(todo) - 1 /\ DOMAIN Tail(todo) = 1..(Len(todo) - 1)
           /\ DOMAIN todo = 1..Len(todo)
           /\ \A i \in 1..(Len(todo) - 1) : Tail(todo)[i] = todo[i + 1]
BY HeadTailProperties, LenProperties, EmptySeq DEF SearchTypes, Candidate

\* A function on an interval from one is a sequence.
LEMMA IntervalIsSeq ==
    ASSUME NEW S, NEW n \in Nat, NEW f \in [1..n -> S]
    PROVE  f \in Seq(S) /\ Len(f) = n
<1>1. f \in Seq(S)
  BY SeqDef
<1>2. DOMAIN f = 1..n /\ DOMAIN f = 1..Len(f) /\ Len(f) \in Nat
  BY <1>1, LenProperties
<1> QED
  BY <1>1, <1>2

\* The candidates a search begins with.
LEMMA FirstStageFacts ==
    ASSUME NEW r \in Requests
    PROVE  /\ FirstStage(r) \in Seq(Encodings)
           /\ r.search = "heif" => /\ FirstStage(r) # <<>> /\ Len(FirstStage(r)) = Len(HeifQualities)
                                   /\ \A i \in DOMAIN FirstStage(r) : FirstStage(r)[i][3] = IF r.gainmap THEN 100 ELSE 0
           /\ r.search = "jpeg" => \A i \in DOMAIN FirstStage(r) : i >= 2 => FirstStage(r)[i][1] # JpegQualities[1]
           /\ r.search = "manual" => \A i \in DOMAIN FirstStage(r) : Primary(FirstStage(r)[i]) = <<95, "422">>
<1>0. r.search \in {"heif", "jpeg", "manual"}
  BY DEF Requests
<1>1. CASE r.search = "heif"
  <2> DEFINE n == Len(HeifQualities)
             f == [i \in 1..n |-> <<HeifQualities[i], "444", IF r.gainmap THEN 100 ELSE 0>>]
  <2>1. n \in Nat /\ n > 0 /\ DOMAIN HeifQualities = 1..n /\ \A i \in 1..n : HeifQualities[i] \in Nat
    BY EncodeAssumption, LenProperties, EmptySeq, ElementOfSeq
  <2>2. FirstStage(r) = f
    BY <1>1, <2>1 DEF FirstStage
  <2>3. \A i \in 1..n : <<HeifQualities[i], "444", IF r.gainmap THEN 100 ELSE 0>> \in Encodings
    BY <2>1 DEF Encodings, Chromas
  <2>4. f \in [1..n -> Encodings]
    BY <2>3
  <2>5. \A i \in 1..n : f[i][3] = IF r.gainmap THEN 100 ELSE 0
    OBVIOUS
  <2>6. DOMAIN f = 1..n
    OBVIOUS
  <2> HIDE DEF f, n
  <2>7. f \in Seq(Encodings) /\ Len(f) = n
    BY <2>1, <2>4, IntervalIsSeq
  <2>8. f # <<>>
    BY <2>1, <2>7, EmptySeq
  <2> QED
    BY <1>1, <2>2, <2>5, <2>6, <2>7, <2>8 DEF n
<1>2. CASE r.search = "jpeg"
  <2> DEFINE n == Len(JpegQualities)
             f == [i \in 1..n |-> <<JpegQualities[i], "422", 0>>]
  <2>1. n \in Nat /\ DOMAIN JpegQualities = 1..n /\ \A i \in 1..n : JpegQualities[i] \in Nat
    BY EncodeAssumption, LenProperties, ElementOfSeq
  <2>2. FirstStage(r) = f
    BY <1>2, <2>1 DEF FirstStage
  <2>3. \A i \in 1..n : <<JpegQualities[i], "422", 0>> \in Encodings
    BY <2>1 DEF Encodings, Chromas
  <2>4. f \in [1..n -> Encodings]
    BY <2>3
  <2>5. \A i \in 1..n : f[i][1] = JpegQualities[i]
    OBVIOUS
  <2>6. ASSUME NEW i \in 1..n, i >= 2 PROVE JpegQualities[i] # JpegQualities[1]
    <3>1. i \in 2..Len(JpegQualities) /\ 1 \in 1..n
      BY <2>1, <2>6
    <3>2. JpegQualities[i] < JpegQualities[1] /\ JpegQualities[i] \in Nat /\ JpegQualities[1] \in Nat
      BY <2>1, <3>1, EncodeAssumption
    <3> QED
      BY <3>2
  <2>7. DOMAIN f = 1..n
    OBVIOUS
  <2> HIDE DEF f, n
  <2>8. f \in Seq(Encodings)
    BY <2>1, <2>4, IntervalIsSeq
  <2> QED
    BY <1>2, <2>2, <2>5, <2>6, <2>7, <2>8
<1>3. CASE r.search = "manual"
  <2> DEFINE n == Len(Ladder)
             f == [i \in 1..n |-> <<95, "422", Ladder[i]>>]
  <2>1. n \in Nat /\ DOMAIN Ladder = 1..n /\ \A i \in 1..n : Ladder[i] \in Nat
    BY EncodeAssumption, LenProperties, ElementOfSeq
  <2>2. FirstStage(r) = f
    BY <1>3, <2>1 DEF FirstStage
  <2>3. \A i \in 1..n : <<95, "422", Ladder[i]>> \in Encodings
    BY <2>1 DEF Encodings, Chromas
  <2>4. f \in [1..n -> Encodings]
    BY <2>3
  <2>5. \A i \in 1..n : Primary(f[i]) = <<95, "422">>
    BY DEF Primary
  <2>6. DOMAIN f = 1..n
    OBVIOUS
  <2> HIDE DEF f, n
  <2>7. f \in Seq(Encodings)
    BY <2>1, <2>4, IntervalIsSeq
  <2> QED
    BY <1>3, <2>2, <2>5, <2>6, <2>7
<1> QED
  BY <1>0, <1>1, <1>2, <1>3

\* What Done and the session do to the sequence of candidates and the donors.
LEMMA DoneTypes ==
    ASSUME SearchTypes, todo # <<>>, NEW next \in {"next", "chosen", "failed", "done"}, Done(next)
    PROVE  /\ place' \in {"next", "chosen", "failed", "done"} /\ place' = next
           /\ todo' \in Seq(Encodings) /\ tried' \subseteq Encodings /\ (place' = "chosen" => todo' # <<>>)
BY TodoFacts DEF Done, SearchTypes

\* A verified candidate is a file, and no file is none.
LEMMA EncodedIsSome ==
    ASSUME NEW c \in Encoded
    PROVE  c # None
<1>1. DOMAIN c = {"size", "error", "what", "map"}
  BY DEF Encoded
<1>2. DOMAIN None = {}
  BY DEF None
<1> QED
  BY <1>1, <1>2

\* The winner's candidates of later stages.
LEMMA StagesOfEncodings ==
    ASSUME SearchTypes, selected # None
    PROVE  /\ selected \in Encoded /\ selected.what \in Encodings
           /\ selected.what[1] \in Nat /\ selected.what[2] \in Chromas /\ selected.what[3] \in Nat
BY DEF SearchTypes, Encoded, Encodings

\* The candidates of the second stage: those of the winner with less chroma.
LEMMA SamplingFacts ==
    ASSUME SearchTypes, TrySampling
    PROVE  /\ todo = <<>> /\ stage = "quality" /\ selected # None /\ place = "next" /\ Automatic
           /\ ~(Jpeg /\ request.gainmap)
           /\ stage' = "sampling" /\ todo' \in Seq(Encodings) /\ Len(todo') \in 0..4
           /\ \A i \in DOMAIN todo' : todo'[i][3] = selected.what[3]
           /\ UNCHANGED <<request, place, tried, reference, selected, donors, current, pinned, template,
                          delivered, history>>
<1> DEFINE q == selected.what[1]
           a == selected.what[3]
           up == IF q + 5 > 95 THEN 95 ELSE q + 5
<1>1. StageEnds("quality") /\ ~(Jpeg /\ request.gainmap)
      /\ Begin("sampling", IF Jpeg THEN <<<<q, "420", a>>>>
                             ELSE <<<<q, "422", a>>, <<up, "422", a>>, <<q, "420", a>>, <<up, "420", a>>>>)
  BY DEF TrySampling
<1>2. q \in Nat /\ a \in Nat /\ up \in Nat
  BY <1>1, StagesOfEncodings DEF StageEnds
<1> HIDE DEF q, a, up
<1>3. \A n \in Nat : <<n, "422", a>> \in Encodings /\ <<n, "420", a>> \in Encodings
  BY <1>2 DEF Encodings, Chromas
<1>4. \/ todo' = <<<<q, "420", a>>>>
      \/ todo' = <<<<q, "422", a>>, <<up, "422", a>>, <<q, "420", a>>, <<up, "420", a>>>>
  BY <1>1 DEF Begin
<1>5. /\ todo' \in Seq(Encodings) /\ Len(todo') \in 0..4
      /\ \A i \in DOMAIN todo' : todo'[i][3] = a
  <2>1. \A n \in Nat : <<n, "422", a>>[3] = a /\ <<n, "420", a>>[3] = a
    OBVIOUS
  <2> DEFINE Half == {e \in Encodings : e[3] = a}
  <2>2. \A n \in Nat : <<n, "422", a>> \in Half /\ <<n, "420", a>> \in Half
    BY <1>3, <2>1
  <2>3. \A e \in Half : e \in Encodings /\ e[3] = a
    OBVIOUS
  <2> HIDE DEF Half
  <2>4. todo' \in Seq(Half) /\ Len(todo') \in 0..4
    <3>1. \A e \in Half, f \in Half, g \in Half, h \in Half :
            <<e>> \in Seq(Half) /\ Len(<<e>>) = 1 /\ <<e, f, g, h>> \in Seq(Half) /\ Len(<<e, f, g, h>>) = 4
      OBVIOUS
    <3>2. /\ <<q, "420", a>> \in Half /\ <<q, "422", a>> \in Half /\ <<up, "422", a>> \in Half
          /\ <<up, "420", a>> \in Half
      BY <1>2, <2>2
    <3>3. CASE todo' = <<<<q, "420", a>>>>
      <4>1. <<<<q, "420", a>>>> \in Seq(Half) /\ Len(<<<<q, "420", a>>>>) = 1
        BY <3>1, <3>2
      <4> QED
        BY <3>3, <4>1
    <3>4. CASE todo' = <<<<q, "422", a>>, <<up, "422", a>>, <<q, "420", a>>, <<up, "420", a>>>>
      <4> DEFINE t == <<<<q, "422", a>>, <<up, "422", a>>, <<q, "420", a>>, <<up, "420", a>>>>
      <4>1. t \in Seq(Half) /\ Len(t) = 4
        BY <3>1, <3>2
      <4> HIDE DEF t
      <4>2. todo' = t
        BY <3>4 DEF t
      <4> QED
        BY <4>1, <4>2
    <3> QED
      BY <1>4, <3>3, <3>4
  <2>5. DOMAIN todo' = 1..Len(todo') /\ \A i \in 1..Len(todo') : todo'[i] \in Half
    BY <2>4, LenProperties, ElementOfSeq
  <2>6. todo' \in Seq(Encodings)
    BY <2>3, <2>4, SeqMonotonic
  <2> QED
    BY <2>3, <2>4, <2>5, <2>6
<1> QED
  BY <1>1, <1>5 DEF StageEnds, Begin, a

\* And those of the third: its primary with other gain maps.
LEMMA AuxiliaryFacts ==
    ASSUME SearchTypes, TryAuxiliary
    PROVE  /\ todo = <<>> /\ stage = "sampling" /\ selected # None /\ place = "next" /\ Heif /\ request.gainmap
           /\ stage' = "auxiliary" /\ todo' \in Seq(Encodings) /\ Len(todo') = Len(AuxQualities)
           /\ \A i \in DOMAIN todo' : Primary(todo'[i]) = Primary(selected.what)
           /\ UNCHANGED <<request, place, tried, reference, selected, donors, current, pinned, template,
                          delivered, history>>
<1> DEFINE n == Len(AuxQualities)
           f == [i \in 1..n |-> <<selected.what[1], selected.what[2], AuxQualities[i]>>]
<1>1. n \in Nat /\ DOMAIN AuxQualities = 1..n /\ \A i \in 1..n : AuxQualities[i] \in Nat
  BY EncodeAssumption, LenProperties, ElementOfSeq
<1>2. StageEnds("sampling") /\ Heif /\ request.gainmap /\ Begin("auxiliary", f)
  BY <1>1 DEF TryAuxiliary
<1>3. selected.what[1] \in Nat /\ selected.what[2] \in Chromas
  BY <1>2, StagesOfEncodings DEF StageEnds
<1>4. f \in [1..n -> Encodings]
  BY <1>1, <1>3 DEF Encodings
<1>5. (\A i \in DOMAIN f : Primary(f[i]) = Primary(selected.what)) /\ todo' = f
  BY <1>2 DEF Primary, Begin
<1> HIDE DEF f, n
<1>6. f \in Seq(Encodings) /\ Len(f) = n
  BY <1>1, <1>4, IntervalIsSeq
<1> QED
  BY <1>2, <1>5, <1>6 DEF StageEnds, Begin, n

\* Types.
LEMMA SearchTypesKept == SearchTypes /\ [EncodeNext]_searchVars => SearchTypes'
<1> SUFFICES ASSUME SearchTypes, [EncodeNext]_searchVars PROVE SearchTypes'
  OBVIOUS
<1>1. CASE EncodePrimary
  <2>1. UNCHANGED <<request, stage, todo, tried, reference, selected, template>> /\ place' = "verify" /\ todo # <<>>
    BY <1>1 DEF EncodePrimary
  <2>2. history' \in [reencoded : BOOLEAN, oracle : Encoded \cup {None}, best : Nat, fellback : SUBSET Encodings]
    <3>1. history' = history \/ \E b \in BOOLEAN : history' = [history EXCEPT !.reencoded = b]
      <4>1. CASE HasSession
        <5> DEFINE b == history.reencoded \/ (Donor \notin donors /\ \E c \in tried : <<c[1], c[2]>> = Donor)
        <5>1. b \in BOOLEAN /\ history' = [history EXCEPT !.reencoded = b]
          BY <1>1, <4>1 DEF EncodePrimary
        <5> QED
          BY <5>1
      <4>2. CASE ~HasSession
        BY <1>1, <4>2 DEF EncodePrimary
      <4> QED
        BY <4>1, <4>2
    <3> QED
      BY <3>1 DEF SearchTypes
  <2> QED
    BY <2>1, <2>2 DEF SearchTypes
<1>2. CASE SkipTried
  <2>1. UNCHANGED <<request, stage, place, tried, reference, selected, template, history>> /\ place = "next"
        /\ todo # <<>> /\ todo' = Tail(todo)
    BY <1>2 DEF SkipTried
  <2> QED
    BY <2>1, TodoFacts DEF SearchTypes
<1>3. CASE Verified
  <2>1. PICK size \in Sizes, error \in Errors :
          LET c == [size |-> size, error |-> error, what |-> Candidate, map |-> template] IN
            /\ history' = Seen(c)
            /\ reference' = Oracle(c)
            /\ IF reference = None \/ (Accepted(c) /\ c.size < selected.size)
                 THEN selected' = c /\ Done(IF HasSession THEN "chosen" ELSE "next")
                 ELSE selected' = selected /\ Done("next")
    BY <1>3 DEF Verified
  <2> DEFINE c == [size |-> size, error |-> error, what |-> Candidate, map |-> template]
  <2>2. todo # <<>> /\ UNCHANGED <<request, stage, template>>
    BY <1>3 DEF Verified, SearchTypes
  <2>3. c \in Encoded /\ c.size \in Nat
    BY <2>2, TodoFacts, EncodeAssumption DEF SearchTypes, Encoded
  <2>4. history' = Seen(c) /\ reference' = Oracle(c) /\ selected' \in {c, selected}
        /\ \E next \in {"next", "chosen"} : Done(next)
    BY <2>1
  <2> HIDE DEF c
  <2>5. Seen(c) \in [reencoded : BOOLEAN, oracle : Encoded \cup {None}, best : Nat, fellback : SUBSET Encodings]
    BY <2>3 DEF SearchTypes, Seen, Least
  <2>6. reference' \in Encoded \cup {None} /\ selected' \in Encoded \cup {None}
    BY <2>3, <2>4 DEF SearchTypes, Oracle
  <2>7. PICK next \in {"next", "chosen"} : Done(next)
    BY <2>4
  <2>8. /\ place' \in {"next", "chosen"} /\ todo' \in Seq(Encodings) /\ tried' \subseteq Encodings
        /\ (place' = "chosen" => todo' # <<>>)
    BY <2>2, <2>7, DoneTypes
  <2> QED
    BY <2>2, <2>4, <2>5, <2>6, <2>8 DEF SearchTypes
<1>4. CASE Choose \/ CallbackFails
  <2>1. UNCHANGED <<request, stage, tried, reference, selected, template, history>> /\ todo # <<>>
        /\ place' \in {"next", "failed"} /\ todo' \in {todo, Tail(todo)}
    BY <1>4 DEF Choose, CallbackFails, SearchTypes
  <2> QED
    BY <2>1, TodoFacts DEF SearchTypes
<1>5. CASE CandidateFails \/ ManualOk
  <2>1. UNCHANGED <<request, stage, reference, selected, template, history>> /\ todo # <<>>
        /\ \E next \in {"next", "failed", "done"} : Done(next)
    BY <1>5 DEF CandidateFails, ManualOk, SearchTypes, Reject
  <2> QED
    BY <2>1, DoneTypes DEF SearchTypes
<1>6. CASE HdrFails
  <2>1. UNCHANGED <<request, stage, reference, selected>> /\ todo # <<>> /\ place = "verify"
    BY <1>6 DEF HdrFails, SearchTypes
  <2>2. \/ template' = 100 /\ UNCHANGED <<place, todo, tried, history>>
        \/ (\E next \in {"next", "failed"} : Done(next)) /\ UNCHANGED <<template, history>>
        \/ history' = [history EXCEPT !.fellback = @ \cup {Candidate}] /\ UNCHANGED <<place, todo, tried, template>>
    BY <1>6 DEF HdrFails, Reject
  <2>3. Candidate \in Encodings
    BY <2>1, TodoFacts
  <2> QED
    BY <2>1, <2>2, <2>3, DoneTypes DEF SearchTypes
<1>7. CASE TrySampling
  BY <1>7, SamplingFacts DEF SearchTypes
<1>8. CASE TryAuxiliary
  BY <1>8, AuxiliaryFacts DEF SearchTypes
<1>9. CASE Deliver
  <2>1. UNCHANGED <<request, stage, todo, tried, reference, selected, template, history>> /\ place' = "done"
    BY <1>9 DEF Deliver
  <2> QED
    BY <2>1 DEF SearchTypes
<1>10. CASE NothingVerified
  BY <1>10 DEF NothingVerified, SearchTypes
<1>11. CASE UNCHANGED searchVars
  BY <1>11 DEF searchVars, SearchTypes
<1> QED
  BY <1>1, <1>2, <1>3, <1>4, <1>5, <1>6, <1>7, <1>8, <1>9, <1>10, <1>11 DEF EncodeNext

Winning(c) == reference = None \/ (Accepted(c) /\ c.size < selected.size)

\* A verified candidate.
LEMMA VerifiedFacts ==
    ASSUME SearchTypes, Verified
    PROVE  /\ place = "verify" /\ Automatic /\ todo # <<>>
           /\ UNCHANGED <<request, stage, donors, current, pinned, template, delivered>>
           /\ \E c \in Encoded, next \in {"next", "chosen"} :
                /\ c.what = Candidate /\ c.map = template /\ c.size \in Nat /\ c.size > 0 /\ c.error \in Nat
                /\ history' = Seen(c) /\ reference' = Oracle(c) /\ Done(next)
                /\ Winning(c) => selected' = c /\ (HasSession => next = "chosen") /\ (~HasSession => next = "next")
                /\ ~Winning(c) => selected' = selected /\ next = "next"
<1>1. /\ place = "verify" /\ Automatic /\ todo # <<>>
      /\ UNCHANGED <<request, stage, donors, current, pinned, template, delivered>>
  BY DEF Verified, SearchTypes
<1>2. PICK size \in Sizes, error \in Errors :
        LET c == [size |-> size, error |-> error, what |-> Candidate, map |-> template] IN
          /\ history' = Seen(c)
          /\ reference' = Oracle(c)
          /\ IF reference = None \/ (Accepted(c) /\ c.size < selected.size)
               THEN selected' = c /\ Done(IF HasSession THEN "chosen" ELSE "next")
               ELSE selected' = selected /\ Done("next")
  BY DEF Verified
<1> DEFINE c == [size |-> size, error |-> error, what |-> Candidate, map |-> template]
<1>3. /\ c \in Encoded /\ c.what = Candidate /\ c.map = template /\ c.size \in Nat /\ c.size > 0 /\ c.error \in Nat
  BY <1>1, TodoFacts, EncodeAssumption DEF SearchTypes, Encoded
<1>4. /\ history' = Seen(c)
      /\ reference' = Oracle(c)
      /\ IF reference = None \/ (Accepted(c) /\ c.size < selected.size)
           THEN selected' = c /\ Done(IF HasSession THEN "chosen" ELSE "next")
           ELSE selected' = selected /\ Done("next")
  BY <1>2
<1> HIDE DEF c
<1>5. CASE Winning(c)
  <2>1. selected' = c /\ Done(IF HasSession THEN "chosen" ELSE "next")
    BY <1>4, <1>5 DEF Winning
  <2>2. CASE HasSession
    <3>1. Done("chosen")
      BY <2>1, <2>2
    <3> QED
      BY <1>1, <1>3, <1>4, <1>5, <2>1, <2>2, <3>1
  <2>3. CASE ~HasSession
    <3>1. Done("next")
      BY <2>1, <2>3
    <3> QED
      BY <1>1, <1>3, <1>4, <1>5, <2>1, <2>3, <3>1
  <2> QED
    BY <2>2, <2>3
<1>6. CASE ~Winning(c)
  <2>1. selected' = selected /\ Done("next")
    BY <1>4, <1>6 DEF Winning
  <2> QED
    BY <1>1, <1>3, <1>4, <1>6, <2>1
<1> QED
  BY <1>5, <1>6

\* Nothing else changes the oracle, the winner and what was seen of sizes.
LEMMA OracleLeftAlone ==
    ASSUME SearchTypes, [EncodeNext]_searchVars, ~Verified
    PROVE  UNCHANGED <<request, reference, selected>> /\ history'.oracle = history.oracle /\ history'.best = history.best
<1>1. CASE EncodePrimary
  <2>1. UNCHANGED <<request, reference, selected>>
    BY <1>1 DEF EncodePrimary
  <2>2. history' = history \/ \E b : history' = [history EXCEPT !.reencoded = b]
    BY <1>1 DEF EncodePrimary
  <2> QED
    BY <2>1, <2>2 DEF SearchTypes
<1>2. CASE HdrFails
  <2>1. UNCHANGED <<request, reference, selected>>
    BY <1>2 DEF HdrFails
  <2>2. history' = history \/ \E b : history' = [history EXCEPT !.fellback = b]
    BY <1>2 DEF HdrFails
  <2> QED
    BY <2>1, <2>2 DEF SearchTypes
<1>3. CASE SkipTried \/ Choose \/ CallbackFails
  BY <1>3 DEF SkipTried, Choose, CallbackFails
<1>4. CASE CandidateFails \/ ManualOk
  BY <1>4 DEF CandidateFails, ManualOk
<1>5. CASE TrySampling \/ TryAuxiliary
  BY <1>5, SamplingFacts, AuxiliaryFacts
<1>6. CASE Deliver
  BY <1>6 DEF Deliver
<1>7. CASE NothingVerified \/ UNCHANGED searchVars
  BY <1>7 DEF NothingVerified, searchVars
<1> QED
  BY <1>1, <1>2, <1>3, <1>4, <1>5, <1>6, <1>7 DEF EncodeNext

SizeInv ==
    /\ history.oracle = reference
    /\ selected = None <=> reference = None
    /\ ~Automatic => selected = None
    /\ selected # None =>
         /\ selected = reference \/ InBudget(selected, reference)
         /\ selected.size <= reference.size
         /\ IF Heif THEN selected.size = history.best ELSE 20 * history.best > 19 * selected.size

\* The winner is the smallest within the budget.
LEMMA SizeStep == SearchTypes /\ SizeInv /\ [EncodeNext]_searchVars => SizeInv'
<1> SUFFICES ASSUME SearchTypes, SizeInv, [EncodeNext]_searchVars PROVE SizeInv'
  OBVIOUS
<1>1. CASE ~Verified
  BY <1>1, OracleLeftAlone DEF SizeInv, Automatic, InBudget, Heif
<1>2. CASE Verified
  <2>1. PICK c \in Encoded, next \in {"next", "chosen"} :
          /\ c.what = Candidate /\ c.map = template /\ c.size \in Nat /\ c.size > 0 /\ c.error \in Nat
          /\ history' = Seen(c) /\ reference' = Oracle(c) /\ Done(next)
          /\ Winning(c) => selected' = c /\ (HasSession => next = "chosen") /\ (~HasSession => next = "next")
          /\ ~Winning(c) => selected' = selected /\ next = "next"
    BY <1>2, VerifiedFacts
  <2>2. c # None /\ request' = request /\ Automatic /\ request.search \in {"heif", "jpeg"}
    BY <1>2, EncodedIsSome, VerifiedFacts DEF SearchTypes, Requests, Automatic
  <2>3. CASE reference = None
    <3>1. history'.oracle = c /\ history'.best = c.size /\ reference' = c /\ selected' = c
      BY <2>1, <2>3 DEF SearchTypes, SizeInv, Seen, Oracle, Winning
    <3>2. 20 * c.size > 19 * c.size
      BY <2>1
    <3> QED
      BY <2>1, <2>2, <3>1, <3>2 DEF SizeInv, Automatic, Heif
  <2>4. CASE reference # None
    <3>1. /\ history.oracle = reference /\ selected # None /\ reference \in Encoded /\ selected \in Encoded
          /\ selected = reference \/ InBudget(selected, reference)
          /\ selected.size <= reference.size
          /\ Heif => selected.size = history.best
          /\ ~Heif => 20 * history.best > 19 * selected.size
      BY <2>4 DEF SizeInv, SearchTypes
    <3>2. /\ history'.oracle = reference /\ reference' = reference
          /\ history'.best = IF InBudget(c, reference) THEN Least(history.best, c.size) ELSE history.best
      BY <2>1, <2>4, <3>1 DEF SearchTypes, Seen, Oracle
    <3>3. /\ selected.size \in Nat /\ reference.size \in Nat /\ selected.size > 0 /\ history.best \in Nat
      <4>1. \A n \in Sizes : n \in Nat /\ n > 0
        BY EncodeAssumption
      <4>2. selected.size \in Sizes /\ reference.size \in Sizes
        BY <3>1 DEF Encoded
      <4>3. history.best \in Nat
        BY DEF SearchTypes
      <4> QED
        BY <4>1, <4>2, <4>3
    <3>4. CASE Winning(c)
      <4>1. /\ selected' = c /\ InBudget(c, reference) /\ c.size < selected.size
        BY <2>1, <2>4, <3>4 DEF Winning, Accepted
      <4>2. history'.best = Least(history.best, c.size)
        BY <3>2, <4>1
      <4>3. IF Heif THEN c.size = history'.best ELSE 20 * history'.best > 19 * c.size
        BY <2>1, <3>1, <3>3, <4>1, <4>2 DEF Least
      <4>4. c.size <= reference.size
        BY <2>1, <3>1, <3>3, <4>1
      <4> QED
        BY <2>2, <2>4, <3>2, <4>1, <4>3, <4>4 DEF SizeInv, Automatic, InBudget, Heif
    <3>5. CASE ~Winning(c)
      <4>1. selected' = selected
        BY <2>1, <3>5
      <4>2. CASE ~InBudget(c, reference)
        <5>1. history'.best = history.best
          BY <3>2, <4>2
        <5> QED
          BY <2>2, <3>1, <3>2, <4>1, <5>1 DEF SizeInv, Automatic, InBudget, Heif
      <4>3. CASE InBudget(c, reference)
        <5>1. history'.best = Least(history.best, c.size)
          BY <3>2, <4>3
        <5>2. ~Accepted(c) \/ c.size >= selected.size
          BY <2>1, <2>4, <3>3, <3>5 DEF Winning
        <5>3. CASE Heif
          <6>1. ~Jpeg
            BY <5>3 DEF Heif, Jpeg
          <6>2. c.size >= reference.size \/ c.size >= selected.size
            BY <2>1, <3>3, <4>3, <5>2, <6>1 DEF Accepted
          <6>3. history'.best = selected.size
            BY <2>1, <3>1, <3>3, <5>1, <5>3, <6>2 DEF Least
          <6> QED
            BY <2>2, <3>1, <3>2, <4>1, <5>3, <6>3 DEF SizeInv, Automatic, InBudget, Heif
        <5>4. CASE ~Heif
          <6>1. Jpeg
            BY <2>2, <5>4 DEF Heif, Jpeg
          <6>2. \/ 20 * c.size > 19 * reference.size \/ 20 * c.size > 19 * selected.size
                \/ c.size >= selected.size
            <7>1. CASE stage = "sampling"
              BY <2>1, <3>3, <4>3, <5>2, <6>1, <7>1 DEF Accepted
            <7>2. CASE stage # "sampling"
              BY <2>1, <3>3, <4>3, <5>2, <6>1, <7>2 DEF Accepted
            <7> QED
              BY <7>1, <7>2
          <6>3. 20 * c.size > 19 * selected.size
            BY <2>1, <3>1, <3>3, <6>2
          <6>4. 20 * history'.best > 19 * selected.size
            BY <2>1, <3>1, <3>3, <5>1, <5>4, <6>3 DEF Least
          <6> QED
            BY <2>2, <3>1, <3>2, <4>1, <5>4, <6>4 DEF SizeInv, Automatic, InBudget, Heif
        <5> QED
          BY <5>3, <5>4
      <4> QED
        BY <4>2, <4>3
    <3> QED
      BY <3>4, <3>5
  <2> QED
    BY <2>3, <2>4
<1> QED
  BY <1>1, <1>2

\* What becomes of the candidates: all stay; the first is done with, or over with the
\* search; or a stage begins.
AllStay == UNCHANGED <<stage, todo, tried>>
FirstLeaves ==
    /\ todo # <<>> /\ todo' = Tail(todo) /\ stage' = stage
    /\ place \in {"next", "verify", "chosen"} /\ place' = "next"
    /\ tried' = tried \cup {Candidate}
FirstIsLast ==
    /\ todo # <<>> /\ todo' = todo /\ stage' = stage /\ place = "verify" /\ place' \in {"chosen", "failed", "done"}
    /\ tried' = tried \cup {Candidate}

\* Done does one of the two.
LEMMA DoneFacts ==
    ASSUME place = "verify", todo # <<>>, stage' = stage, NEW next \in {"next", "chosen", "failed", "done"}, Done(next)
    PROVE  place' = next /\ (next = "next" => FirstLeaves) /\ (next # "next" => FirstIsLast)
BY DEF Done, FirstLeaves, FirstIsLast

\* What a failed readback of the HDR picture leads to.
LEMMA HdrFacts ==
    ASSUME SearchTypes, HdrFails
    PROVE  /\ place = "verify" /\ todo # <<>> /\ request.gainmap
           /\ UNCHANGED <<request, stage, reference, selected, pinned, delivered>>
           /\ \/ MayUpgrade /\ template' = 100 /\ UNCHANGED <<place, todo, tried, donors, current, history>>
              \/ ~Automatic /\ Done("next") /\ UNCHANGED <<template, donors, current, history>>
              \/ /\ UsePrimary /\ UNCHANGED <<place, todo, tried, template>> /\ Candidate[3] = 100
                 /\ history' = [history EXCEPT !.fellback = @ \cup {Candidate}]
                 /\ request.decodable
              \/ Reject /\ UNCHANGED <<template, donors, current, history>>
BY DEF HdrFails, SearchTypes, MayClimb, MayDecode

\* The four ways.
LEMMA CandidatesMove ==
    ASSUME SearchTypes, [EncodeNext]_searchVars, (place = "chosen" => Candidate \in tried)
    PROVE  AllStay \/ FirstLeaves \/ FirstIsLast \/ TrySampling \/ TryAuxiliary
<1>1. CASE EncodePrimary \/ CallbackFails \/ Deliver \/ NothingVerified \/ UNCHANGED searchVars
  BY <1>1 DEF EncodePrimary, CallbackFails, Deliver, NothingVerified, searchVars, AllStay
<1>2. CASE SkipTried
  BY <1>2 DEF SkipTried, FirstLeaves
<1>3. CASE Choose
  BY <1>3 DEF Choose, FirstLeaves, SearchTypes
<1>4. CASE Verified
  BY <1>4, VerifiedFacts, DoneFacts
<1>5. CASE CandidateFails \/ ManualOk
  <2>1. /\ place = "verify" /\ todo # <<>> /\ stage' = stage
        /\ \E next \in {"next", "failed", "done"} : Done(next)
    BY <1>5 DEF CandidateFails, ManualOk, Reject, SearchTypes
  <2> QED
    BY <2>1, DoneFacts
<1>6. CASE HdrFails
  <2>1. \/ UNCHANGED <<stage, todo, tried>>
        \/ place = "verify" /\ todo # <<>> /\ stage' = stage /\ \E next \in {"next", "failed"} : Done(next)
    BY <1>6, HdrFacts DEF Reject
  <2> QED
    BY <2>1, DoneFacts DEF AllStay
<1> QED
  BY <1>1, <1>2, <1>3, <1>4, <1>5, <1>6 DEF EncodeNext

ChosenInv ==
    /\ place = "chosen" =>
         HasSession /\ Automatic /\ selected # None /\ selected.what = Candidate /\ Candidate \in tried
    /\ place = "done" /\ Automatic => selected # None

\* A winner that is not pinned yet is the current candidate, and only a winner is delivered.
LEMMA ChosenStep == SearchTypes /\ ChosenInv /\ [EncodeNext]_searchVars => ChosenInv'
<1>0. ASSUME SearchTypes, ChosenInv, [EncodeNext]_searchVars, place' = "done", Automatic'
      PROVE  selected' # None
  <2>1. CASE Deliver
    <3>1. selected # None /\ selected' = selected
      BY <2>1 DEF Deliver, StageEnds
    <3> QED
      BY <3>1
  <2>2. CASE ManualOk
    BY <1>0, <2>2 DEF ManualOk, Automatic
  <2>3. CASE Verified
    <3>1. \E next \in {"next", "chosen"} : Done(next)
      BY <1>0, <2>3, VerifiedFacts
    <3> QED
      BY <1>0, <3>1 DEF Done
  <2>4. CASE HdrFails
    <3>1. place = "verify" /\ (UNCHANGED place \/ \E next \in {"next", "failed"} : Done(next))
      BY <1>0, <2>4, HdrFacts DEF Reject
    <3> QED
      BY <1>0, <3>1 DEF Done
  <2>5. CASE CandidateFails
    BY <1>0, <2>5 DEF CandidateFails, Reject, Done
  <2>6. CASE TrySampling \/ TryAuxiliary
    BY <1>0, <2>6, SamplingFacts, AuxiliaryFacts
  <2>7. CASE EncodePrimary \/ SkipTried \/ Choose \/ CallbackFails \/ NothingVerified
    BY <1>0, <2>7 DEF EncodePrimary, SkipTried, Choose, CallbackFails, NothingVerified
  <2>8. CASE UNCHANGED searchVars
    BY <1>0, <2>8 DEF searchVars, ChosenInv, Automatic
  <2> QED
    BY <1>0, <2>1, <2>2, <2>3, <2>4, <2>5, <2>6, <2>7, <2>8 DEF EncodeNext
<1> SUFFICES ASSUME SearchTypes, ChosenInv, [EncodeNext]_searchVars, place' = "chosen" PROVE ChosenInv'
  BY <1>0 DEF ChosenInv
<1>1. CASE Verified
  <2>1. PICK c \in Encoded, next \in {"next", "chosen"} :
          /\ c.what = Candidate /\ Done(next)
          /\ Winning(c) => selected' = c /\ (HasSession => next = "chosen") /\ (~HasSession => next = "next")
          /\ ~Winning(c) => selected' = selected /\ next = "next"
    BY <1>1, VerifiedFacts
  <2>2. /\ UNCHANGED <<request, stage>> /\ todo # <<>> /\ place = "verify" /\ Automatic
    BY <1>1, VerifiedFacts
  <2>3. place' = next /\ next = "chosen" /\ FirstIsLast
    BY <2>1, <2>2, DoneFacts
  <2>4. selected' = c /\ HasSession /\ c # None
    BY <2>1, <2>3, EncodedIsSome
  <2> QED
    BY <2>1, <2>2, <2>3, <2>4 DEF ChosenInv, HasSession, Automatic, FirstIsLast, Candidate
<1>2. CASE ~Verified
  <2>1. CASE EncodePrimary \/ SkipTried \/ Choose \/ CallbackFails \/ Deliver \/ NothingVerified
    BY <2>1 DEF EncodePrimary, SkipTried, Choose, CallbackFails, Deliver, NothingVerified
  <2>2. CASE CandidateFails \/ ManualOk
    BY <2>2 DEF CandidateFails, ManualOk, Reject, Done
  <2>3. CASE HdrFails
    <3>1. place = "verify" /\ (UNCHANGED place \/ \E next \in {"next", "failed"} : Done(next))
      BY <2>3, HdrFacts DEF Reject
    <3> QED
      BY <3>1 DEF Done
  <2>4. CASE TrySampling \/ TryAuxiliary
    BY <2>4, SamplingFacts, AuxiliaryFacts
  <2>5. CASE UNCHANGED searchVars
    BY <2>5 DEF searchVars, ChosenInv, HasSession, Automatic, Candidate
  <2> QED
    BY <1>2, <2>1, <2>2, <2>3, <2>4, <2>5 DEF EncodeNext
<1> QED
  BY <1>1, <1>2

OracleInv ==
    /\ Heif /\ reference = None /\ place # "failed" => todo = FirstStage(request) /\ tried = {}
    /\ OracleIsBest
    /\ Jpeg /\ request.gainmap =>
         /\ stage = "quality"
         /\ \A i \in DOMAIN todo : i >= 2 \/ reference # None => todo[i][1] # JpegQualities[1]
    /\ ~request.gainmap => template = 95

\* The oracle of a HEIF is its first encoding, and a JPEG's gain map is the oracle's.
LEMMA OracleStep ==
    SearchTypes /\ SizeInv /\ ChosenInv /\ OracleInv /\ [EncodeNext]_searchVars => OracleInv'
<1> SUFFICES ASSUME SearchTypes, SizeInv, ChosenInv, OracleInv, [EncodeNext]_searchVars PROVE OracleInv'
  OBVIOUS
<1>0. request' = request /\ request \in Requests
  BY OracleLeftAlone, VerifiedFacts DEF SearchTypes
<1>1. (Heif /\ reference = None /\ place # "failed" => todo = FirstStage(request) /\ tried = {})'
  <2> SUFFICES ASSUME Heif, reference' = None, place' # "failed" PROVE todo' = FirstStage(request) /\ tried' = {}
    BY <1>0 DEF Heif
  <2>1. CASE Verified
    <3>1. reference' # None
      BY <2>1, VerifiedFacts, EncodedIsSome DEF Oracle
    <3> QED
      BY <3>1
  <2>2. CASE ~Verified
    <3>1. reference = None /\ selected = None /\ place # "chosen"
      BY <2>2, OracleLeftAlone DEF SizeInv, ChosenInv
    <3>2. CASE place = "failed"
      <4>1. UNCHANGED searchVars
        BY <3>1, <3>2 DEF EncodeNext, EncodePrimary, SkipTried, Verified, Choose, CallbackFails, CandidateFails, HdrFails,
              ManualOk, TrySampling, TryAuxiliary, Deliver, NothingVerified, StageEnds
      <4> QED
        BY <3>2, <4>1 DEF searchVars
    <3>3. CASE place # "failed"
      <4>0. todo = FirstStage(request) /\ tried = {}
        BY <3>1, <3>3 DEF OracleInv
      <4>1. ~ (TrySampling \/ TryAuxiliary)
        BY <3>1, SamplingFacts, AuxiliaryFacts
      <4>2. Reject => place' = "failed"
        BY <3>1 DEF Reject, Done, Jpeg, Heif
      <4>3. CASE CandidateFails
        BY <4>2, <4>3 DEF CandidateFails
      <4>4. CASE HdrFails
        BY <4>0, <4>2, <4>4, HdrFacts DEF Automatic, Heif
      <4>5. CASE EncodePrimary \/ SkipTried \/ CallbackFails \/ Deliver \/ NothingVerified \/ Choose \/ ManualOk
        BY <3>1, <4>0, <4>5 DEF EncodePrimary, SkipTried, CallbackFails, Deliver, NothingVerified, Choose, ManualOk,
              Automatic, Heif
      <4>6. CASE UNCHANGED searchVars
        BY <4>0, <4>6 DEF searchVars
      <4> QED
        BY <2>2, <4>1, <4>3, <4>4, <4>5, <4>6 DEF EncodeNext
    <3> QED
      BY <3>2, <3>3
  <2> QED
    BY <2>1, <2>2
<1>2. (Jpeg /\ request.gainmap =>
         /\ stage = "quality"
         /\ \A i \in DOMAIN todo : i >= 2 \/ reference # None => todo[i][1] # JpegQualities[1])'
  <2> SUFFICES ASSUME Jpeg, request.gainmap
               PROVE  /\ stage' = "quality"
                      /\ \A i \in DOMAIN todo' : i >= 2 \/ reference' # None => todo'[i][1] # JpegQualities[1]
    BY <1>0 DEF Jpeg
  <2>0. /\ stage = "quality" /\ ~HasSession /\ place # "chosen"
        /\ \A i \in DOMAIN todo : i >= 2 \/ reference # None => todo[i][1] # JpegQualities[1]
    BY DEF OracleInv, ChosenInv, HasSession, Jpeg, SearchTypes, Requests
  <2>1. AllStay \/ FirstLeaves \/ FirstIsLast
    <3>1. ~ TrySampling /\ ~ TryAuxiliary
      BY <2>0, SamplingFacts, AuxiliaryFacts
    <3> QED
      BY <2>0, <3>1, CandidatesMove
  <2>2. CASE FirstLeaves
    <3>1. /\ todo # <<>> /\ todo' = Tail(todo) /\ stage' = stage
      BY <2>2 DEF FirstLeaves
    <3>2. ASSUME NEW i \in DOMAIN todo' PROVE i + 1 \in DOMAIN todo /\ i + 1 >= 2 /\ todo'[i] = todo[i + 1]
      BY <3>1, TodoFacts
    <3> QED
      BY <2>0, <3>1, <3>2
  <2>3. CASE (AllStay \/ FirstIsLast) /\ ~Verified
    <3>1. reference' = reference
      BY <2>3, OracleLeftAlone
    <3> QED
      BY <2>0, <2>3, <3>1 DEF AllStay, FirstIsLast
  <2>4. CASE Verified
    <3>1. FirstLeaves
      <4>1. PICK c \in Encoded, next \in {"next", "chosen"} :
          /\ Done(next)
          /\ Winning(c) => selected' = c /\ (HasSession => next = "chosen") /\ (~HasSession => next = "next")
          /\ ~Winning(c) => selected' = selected /\ next = "next"
        BY <2>4, VerifiedFacts
      <4>2. next = "next"
        BY <2>0, <4>1
      <4> QED
        BY <2>4, <4>1, <4>2, VerifiedFacts, DoneFacts
    <3> QED
      BY <2>2, <3>1
  <2> QED
    BY <2>1, <2>2, <2>3, <2>4
<1>3. (~request.gainmap => template = 95)'
  <2> SUFFICES ASSUME ~request.gainmap PROVE template' = template
    BY <1>0 DEF OracleInv
  <2>1. ~HdrFails
    BY DEF HdrFails
  <2>2. CASE TrySampling \/ TryAuxiliary
    BY <2>2, SamplingFacts, AuxiliaryFacts
  <2> QED
    BY <2>1, <2>2 DEF EncodeNext, EncodePrimary, SkipTried, Verified, Choose, CallbackFails, CandidateFails,
          ManualOk, Deliver, NothingVerified, searchVars
<1>4. OracleIsBest'
  <2>1. CASE Verified
    <3>1. PICK c \in Encoded, next \in {"next", "chosen"} :
            /\ c.what = Candidate /\ c.map = template /\ reference' = Oracle(c)
            /\ Winning(c) => selected' = c
            /\ ~Winning(c) => selected' = selected
      BY <2>1, VerifiedFacts
    <3>2. template' = template /\ todo # <<>> /\ place = "verify" /\ Automatic
      BY <2>1, VerifiedFacts
    <3>3. CASE reference = None
      <4>1. reference' = c /\ selected' = c
        BY <3>1, <3>3 DEF Oracle, Winning
      <4>2. ASSUME Heif PROVE c.what = FirstStage(request)[1]
        <5>1. todo = FirstStage(request)
          BY <3>2, <3>3, <4>2 DEF OracleInv
        <5> QED
          BY <3>1, <3>2, <5>1, TodoFacts
      <4> QED
        BY <1>0, <3>1, <3>2, <4>1, <4>2 DEF OracleIsBest, Heif, Jpeg
    <3>4. CASE reference # None
      <4>1. reference' = reference /\ selected # None
        BY <3>1, <3>4 DEF Oracle, SizeInv
      <4>2. Heif => reference.what = FirstStage(request)[1]
        BY <3>4 DEF OracleInv, OracleIsBest
      <4>3. Jpeg => selected.map = reference.map /\ template = reference.map
        BY <4>1 DEF OracleInv, OracleIsBest
      <4> QED
        BY <1>0, <3>1, <3>2, <4>1, <4>2, <4>3 DEF OracleIsBest, Heif, Jpeg
    <3> QED
      BY <3>3, <3>4
  <2>2. CASE ~Verified
    <3>1. UNCHANGED <<reference, selected>>
      BY <2>2, OracleLeftAlone
    <3>2. ASSUME Jpeg, selected # None PROVE template' = template
      <4>1. CASE HdrFails
        <5>1. ~MayUpgrade
          <6>1. request.gainmap /\ todo # <<>> /\ reference # None
            BY <3>2, <4>1, HdrFacts DEF SizeInv
          <6>2. 1 \in DOMAIN todo /\ Candidate = todo[1]
            BY <6>1, TodoFacts
          <6>3. Candidate[1] # JpegQualities[1]
            BY <3>2, <6>1, <6>2 DEF OracleInv
          <6> QED
            BY <6>3 DEF MayUpgrade
        <5> QED
          BY <4>1, <5>1, HdrFacts
      <4>2. CASE TrySampling \/ TryAuxiliary
        BY <4>2, SamplingFacts, AuxiliaryFacts
      <4> QED
        BY <2>2, <4>1, <4>2 DEF EncodeNext, EncodePrimary, SkipTried, Choose, CallbackFails, CandidateFails,
              ManualOk, Deliver, NothingVerified, searchVars
    <3> QED
      BY <1>0, <3>1, <3>2 DEF OracleInv, OracleIsBest, Heif, Jpeg
  <2> QED
    BY <2>1, <2>2
<1> QED
  BY <1>1, <1>2, <1>3, <1>4 DEF OracleInv

\* What becomes of the primaries: the current candidate's is used, the winner's is
\* pinned, one that could not be encoded is forgotten, or nothing.
PrimaryUsed ==
    /\ HasSession /\ UsePrimary /\ todo # <<>> /\ UNCHANGED <<stage, todo, tried, selected, pinned>>
    /\ place \in {"next", "verify"} /\ place' = "verify"
PrimaryForgotten ==
    /\ CandidateFails
    /\ place = "verify" /\ place' \in {"next", "failed"} /\ (FirstLeaves \/ FirstIsLast)
    /\ HasSession /\ Donor # pinned /\ donors' = donors \ {Donor} /\ UNCHANGED <<selected, pinned>>
PrimariesStay == UNCHANGED <<donors, current, pinned>>

\* The four ways.
LEMMA PrimariesMove ==
    ASSUME SearchTypes, [EncodeNext]_searchVars
    PROVE  PrimaryUsed \/ PrimaryForgotten \/ PrimariesStay \/ Choose
<1>1. CASE EncodePrimary
  BY <1>1 DEF EncodePrimary, PrimaryUsed, PrimariesStay
<1>2. CASE HdrFails
  <2>1. /\ place = "verify" /\ todo # <<>> /\ UNCHANGED <<stage, selected, pinned>> /\ request \in Requests
    BY <1>2, HdrFacts DEF SearchTypes
  <2>2. request.decodable => HasSession
    BY <2>1 DEF Requests, HasSession
  <2> QED
    BY <1>2, <2>1, <2>2, HdrFacts DEF PrimaryUsed, PrimariesStay
<1>3. CASE CandidateFails
  <2>1. place = "verify" /\ todo # <<>> /\ UNCHANGED <<stage, selected, pinned>> /\ \E next \in {"next", "failed"} : Done(next)
    BY <1>3 DEF CandidateFails, Reject, SearchTypes
  <2>2. place' \in {"next", "failed"} /\ (FirstLeaves \/ FirstIsLast)
    BY <2>1, DoneFacts
  <2> QED
    BY <1>3, <2>1, <2>2 DEF CandidateFails, PrimaryForgotten, PrimariesStay
<1>4. CASE SkipTried \/ CallbackFails \/ ManualOk \/ Deliver \/ NothingVerified \/ Verified \/ UNCHANGED searchVars
  BY <1>4 DEF SkipTried, CallbackFails, ManualOk, Deliver, NothingVerified, Verified, searchVars, PrimariesStay
<1>5. CASE TrySampling \/ TryAuxiliary
  BY <1>5, SamplingFacts, AuxiliaryFacts DEF PrimariesStay
<1> QED
  BY <1>1, <1>2, <1>3, <1>4, <1>5 DEF EncodeNext

\* The candidate stays where the sequence stays.
LEMMA DonorStays ==
    ASSUME todo' = todo
    PROVE  Candidate' = Candidate /\ Donor' = Donor
BY DEF Candidate, Donor

Whole == 100
ManualPrimary == <<95, "422">>

\* Gain maps are whole until the auxiliary stage, which keeps the primary of the winner.
StageInv ==
    /\ Heif /\ request.gainmap /\ stage # "auxiliary" =>
         /\ \A c \in tried : c[3] = Whole
         /\ \A i \in DOMAIN todo : todo[i][3] = Whole
         /\ selected # None => selected.what[3] = Whole
    /\ stage = "auxiliary" =>
         /\ Heif /\ request.gainmap /\ selected # None
         /\ \A i \in DOMAIN todo : Primary(todo[i]) = Primary(selected.what)
    /\ ~Automatic => \A i \in DOMAIN todo : Primary(todo[i]) = ManualPrimary

\* The stages.
LEMMA StageStep ==
    SearchTypes /\ SizeInv /\ ChosenInv /\ StageInv /\ [EncodeNext]_searchVars => StageInv'
<1> SUFFICES ASSUME SearchTypes, SizeInv, ChosenInv, StageInv, [EncodeNext]_searchVars PROVE StageInv'
  OBVIOUS
<1>0. request' = request
  BY OracleLeftAlone, VerifiedFacts
<1>1. CASE TrySampling
  <2>1. /\ stage = "quality" /\ stage' = "sampling" /\ UNCHANGED <<tried, selected>> /\ selected # None /\ Automatic
        /\ \A i \in DOMAIN todo' : todo'[i][3] = selected.what[3]
    BY <1>1, SamplingFacts
  <2>2. Heif /\ request.gainmap => selected.what[3] = Whole /\ \A c \in tried : c[3] = Whole
    BY <2>1 DEF StageInv
  <2> QED
    BY <1>0, <2>1, <2>2 DEF StageInv, Heif, Automatic
<1>2. CASE TryAuxiliary
  BY <1>0, <1>2, AuxiliaryFacts DEF StageInv, Heif, Automatic
<1>3. CASE AllStay \/ FirstLeaves \/ FirstIsLast
  <2>1. stage' = stage
    BY <1>3 DEF AllStay, FirstLeaves, FirstIsLast
  <2>2. tried' = tried \/ (todo # <<>> /\ tried' = tried \cup {Candidate})
    BY <1>3 DEF AllStay, FirstLeaves, FirstIsLast
  <2>3. \A i \in DOMAIN todo' : \E j \in DOMAIN todo : todo'[i] = todo[j]
    <3>1. CASE todo' = todo
      BY <3>1
    <3>2. CASE todo # <<>> /\ todo' = Tail(todo)
      <4>1. ASSUME NEW i \in DOMAIN todo' PROVE i + 1 \in DOMAIN todo /\ todo'[i] = todo[i + 1]
        BY <3>2, TodoFacts
      <4> QED
        BY <4>1
    <3> QED
      BY <1>3, <3>1, <3>2 DEF AllStay, FirstLeaves, FirstIsLast
  <2>4. todo # <<>> => \E j \in DOMAIN todo : Candidate = todo[j]
    BY TodoFacts
  <2>5. \/ selected' = selected /\ selected' # None
        \/ selected' = None
        \/ todo # <<>> /\ selected'.what = Candidate
    <3>1. CASE Verified
      <4>1. PICK c \in Encoded :
              /\ c.what = Candidate
              /\ Winning(c) => selected' = c
              /\ ~Winning(c) => selected' = selected
        BY <3>1, VerifiedFacts
      <4> QED
        BY <3>1, <4>1, VerifiedFacts
    <3>2. CASE ~Verified
      BY <3>2, OracleLeftAlone
    <3> QED
      BY <3>1, <3>2
  <2>6. selected # None => selected' # None
    <3>1. CASE Verified
      <4>1. PICK c \in Encoded : (Winning(c) => selected' = c) /\ (~Winning(c) => selected' = selected)
        BY <3>1, VerifiedFacts
      <4> QED
        BY <4>1, EncodedIsSome
    <3>2. CASE ~Verified
      BY <3>2, OracleLeftAlone
    <3> QED
      BY <3>1, <3>2
  <2>7. (Heif /\ request.gainmap /\ stage # "auxiliary" =>
         /\ \A c \in tried : c[3] = Whole
         /\ \A i \in DOMAIN todo : todo[i][3] = Whole
         /\ selected # None => selected.what[3] = Whole)'
    <3> SUFFICES ASSUME Heif, request.gainmap, stage # "auxiliary"
                 PROVE  /\ \A c \in tried' : c[3] = Whole
                        /\ \A i \in DOMAIN todo' : todo'[i][3] = Whole
                        /\ selected' # None => selected'.what[3] = Whole
      BY <1>0, <2>1 DEF Heif
    <3>1. /\ \A c \in tried : c[3] = Whole
          /\ \A i \in DOMAIN todo : todo[i][3] = Whole
          /\ selected # None => selected.what[3] = Whole
      BY DEF StageInv
    <3>2. todo # <<>> => Candidate[3] = Whole
      BY <2>4, <3>1
    <3> QED
      BY <2>2, <2>3, <2>5, <3>1, <3>2
  <2>8. (stage = "auxiliary" =>
         /\ Heif /\ request.gainmap /\ selected # None
         /\ \A i \in DOMAIN todo : Primary(todo[i]) = Primary(selected.what))'
    <3> SUFFICES ASSUME stage = "auxiliary"
                 PROVE  /\ Heif /\ request.gainmap /\ selected' # None
                        /\ \A i \in DOMAIN todo' : Primary(todo'[i]) = Primary(selected'.what)
      BY <1>0, <2>1 DEF Heif
    <3>1. /\ Heif /\ request.gainmap /\ selected # None
          /\ \A i \in DOMAIN todo : Primary(todo[i]) = Primary(selected.what)
      BY DEF StageInv
    <3>2. Primary(selected'.what) = Primary(selected.what)
      BY <2>4, <2>5, <2>6, <3>1
    <3> QED
      BY <2>3, <2>6, <3>1, <3>2
  <2>9. (~Automatic => \A i \in DOMAIN todo : Primary(todo[i]) = ManualPrimary)'
    BY <1>0, <2>3 DEF StageInv, Automatic
  <2> QED
    BY <2>7, <2>8, <2>9 DEF StageInv
<1> QED
  BY <1>1, <1>2, <1>3, CandidatesMove DEF ChosenInv

DonorInv ==
    /\ ~history.reencoded
    /\ \E x, y : donors \subseteq {x, y}
    /\ HasSession /\ place \in {"verify", "chosen"} => current = Donor /\ Donor \in donors
    /\ HasSession /\ selected # None /\ place \notin {"chosen", "failed"} =>
         pinned = Primary(selected.what) /\ pinned \in donors
    /\ HasSession /\ ~Automatic /\ tried # {} /\ place \in {"next", "verify"} => ManualPrimary \in donors

\* An encoding is known by its primary and its gain map.
LEMMA EncodingsDiffer ==
    ASSUME NEW c \in Encodings, NEW d \in Encodings, Primary(c) = Primary(d), c[3] = d[3]
    PROVE  c = d
BY DEF Encodings, Primary

\* A primary is encoded for the first time, or at hand.
LEMMA NotReencoded ==
    ASSUME SearchTypes, StageInv, DonorInv, EncodePrimary, HasSession, Donor \notin donors, NEW c \in tried
    PROVE  <<c[1], c[2]>> # Donor
<1>0. /\ place = "next" /\ todo # <<>> /\ Candidate \notin tried /\ request \in Requests
      /\ Candidate \in Encodings /\ c \in Encodings /\ c # Candidate
  BY TodoFacts DEF EncodePrimary, SearchTypes
<1>1. \E j \in DOMAIN todo : Candidate = todo[j]
  BY <1>0, TodoFacts
<1>2. Donor = Primary(Candidate)
  BY DEF Donor, Primary
<1>3. CASE ~Automatic
  <2>1. ManualPrimary \in donors
    BY <1>0, <1>3 DEF DonorInv
  <2>2. Primary(Candidate) = ManualPrimary
    BY <1>1, <1>3 DEF StageInv
  <2> QED
    BY <1>2, <2>1, <2>2
<1>4. CASE Automatic
  <2>0. Heif /\ request.gainmap
    BY <1>0, <1>4 DEF Requests, HasSession, Heif, Automatic
  <2>1. CASE stage = "auxiliary"
    <3>1. selected # None /\ Primary(Candidate) = Primary(selected.what)
      BY <1>1, <2>1 DEF StageInv
    <3>2. Primary(selected.what) \in donors
      BY <1>0, <3>1 DEF DonorInv
    <3> QED
      BY <1>2, <3>1, <3>2
  <2>2. CASE stage # "auxiliary"
    <3>1. c[3] = Whole /\ Candidate[3] = Whole
      BY <1>1, <2>0, <2>2 DEF StageInv
    <3>2. Primary(c) # Primary(Candidate)
      BY <1>0, <3>1, EncodingsDiffer
    <3> QED
      BY <1>2, <3>2 DEF Primary
  <2> QED
    BY <2>1, <2>2
<1> QED
  BY <1>3, <1>4

\* The donor of the winner is at hand, with one other at most, and none is made twice.
LEMMA DonorStep ==
    SearchTypes /\ SizeInv /\ ChosenInv /\ StageInv /\ DonorInv /\ [EncodeNext]_searchVars => DonorInv'
<1> SUFFICES ASSUME SearchTypes, SizeInv, ChosenInv, StageInv, DonorInv, [EncodeNext]_searchVars PROVE DonorInv'
  OBVIOUS
<1>0. request' = request /\ (HasSession <=> HasSession') /\ (Automatic <=> Automatic')
  <2>1. request' = request
    BY OracleLeftAlone, VerifiedFacts
  <2> QED
    BY <2>1 DEF HasSession, Automatic
<1>1. (~history.reencoded)'
  <2>0. ~history.reencoded
    BY DEF DonorInv
  <2>1. CASE EncodePrimary
    <3>1. CASE HasSession
      <4>1. ~(Donor \notin donors /\ \E c \in tried : <<c[1], c[2]>> = Donor)
        BY <2>1, <3>1, NotReencoded
      <4> DEFINE b == history.reencoded \/ (Donor \notin donors /\ \E c \in tried : <<c[1], c[2]>> = Donor)
      <4>2. history' = [history EXCEPT !.reencoded = b]
        BY <2>1, <3>1 DEF EncodePrimary
      <4>3. ~b
        BY <2>0, <4>1
      <4> HIDE DEF b
      <4> QED
        BY <4>2, <4>3 DEF SearchTypes
    <3>2. CASE ~HasSession
      BY <2>0, <2>1, <3>2 DEF EncodePrimary
    <3> QED
      BY <3>1, <3>2
  <2>2. CASE HdrFails
    <3>1. history' = history \/ \E f : history' = [history EXCEPT !.fellback = f]
      BY <2>2, HdrFacts
    <3> QED
      BY <2>0, <3>1 DEF SearchTypes
  <2>3. CASE Verified
    <3>1. \E c : history' = Seen(c)
      BY <2>3, VerifiedFacts
    <3> QED
      BY <2>0, <3>1 DEF SearchTypes, Seen
  <2>4. CASE TrySampling \/ TryAuxiliary
    BY <2>0, <2>4, SamplingFacts, AuxiliaryFacts
  <2>5. CASE SkipTried \/ Choose \/ CallbackFails \/ CandidateFails \/ ManualOk \/ Deliver \/ NothingVerified
             \/ UNCHANGED searchVars
    BY <2>0, <2>5 DEF SkipTried, Choose, CallbackFails, CandidateFails, ManualOk, Deliver, NothingVerified, searchVars
  <2> QED
    BY <2>1, <2>2, <2>3, <2>4, <2>5 DEF EncodeNext
<1>2. (\E x, y : donors \subseteq {x, y})'
  <2>1. PICK x, y : donors \subseteq {x, y}
    BY DEF DonorInv
  <2>2. CASE PrimaryUsed
    <3>1. donors' \subseteq {Donor, pinned}
      BY <2>2 DEF PrimaryUsed, UsePrimary, Kept
    <3> QED
      BY <3>1
  <2>3. CASE Choose
    <3>1. donors' \subseteq {current, Donor}
      BY <2>3 DEF Choose, Kept
    <3> QED
      BY <3>1
  <2>4. CASE PrimaryForgotten \/ PrimariesStay
    BY <2>1, <2>4 DEF PrimaryForgotten, PrimariesStay
  <2> QED
    BY <2>2, <2>3, <2>4, PrimariesMove
<1>3. (HasSession /\ place \in {"verify", "chosen"} => current = Donor /\ Donor \in donors)'
  <2> SUFFICES ASSUME HasSession, place' \in {"verify", "chosen"} PROVE current' = Donor' /\ Donor' \in donors'
    BY <1>0
  <2>1. CASE PrimaryUsed
    BY <2>1, DonorStays DEF PrimaryUsed, UsePrimary
  <2>2. CASE PrimaryForgotten \/ Choose
    BY <2>2 DEF PrimaryForgotten, Choose
  <2>3. CASE PrimariesStay /\ ~PrimaryUsed
    <3>1. place \in {"verify", "chosen"}
      <4>1. CASE place' = "chosen"
        <5>1. (AllStay /\ place' = place) \/ place = "verify"
          BY <4>1 DEF EncodeNext, EncodePrimary, SkipTried, Verified, Choose, CallbackFails, CandidateFails, HdrFails,
              ManualOk, TrySampling, TryAuxiliary, Begin, StageEnds, Deliver, NothingVerified, searchVars, AllStay
        <5> QED
          BY <4>1, <5>1
      <4>2. CASE place' = "verify"
        <5>1. ~EncodePrimary
          BY <2>3 DEF EncodePrimary, PrimaryUsed
        <5>2. ~ (TrySampling \/ TryAuxiliary)
          BY <4>2, SamplingFacts, AuxiliaryFacts
        <5>3. CASE SkipTried \/ Choose \/ CallbackFails \/ Deliver \/ NothingVerified
          BY <4>2, <5>3 DEF SkipTried, Choose, CallbackFails, Deliver, NothingVerified
        <5>4. CASE Verified \/ CandidateFails \/ ManualOk \/ HdrFails
          BY <5>4 DEF Verified, CandidateFails, ManualOk, HdrFails
        <5>5. CASE UNCHANGED searchVars
          BY <4>2, <5>5 DEF searchVars
        <5> QED
          BY <5>1, <5>2, <5>3, <5>4, <5>5 DEF EncodeNext
      <4> QED
        BY <4>1, <4>2
    <3>2. todo' = todo
      <4>1. ~FirstLeaves /\ ~TrySampling /\ ~TryAuxiliary
        BY <3>1, SamplingFacts, AuxiliaryFacts DEF FirstLeaves
      <4> QED
        BY <4>1, CandidatesMove DEF ChosenInv, AllStay, FirstIsLast
    <3> QED
      BY <2>3, <3>1, <3>2, DonorStays DEF DonorInv, PrimariesStay
  <2> QED
    BY <2>1, <2>2, <2>3, PrimariesMove
<1>4. (HasSession /\ selected # None /\ place \notin {"chosen", "failed"} =>
         pinned = Primary(selected.what) /\ pinned \in donors)'
  <2> SUFFICES ASSUME HasSession, selected' # None, place' \notin {"chosen", "failed"}
               PROVE  pinned' = Primary(selected'.what) /\ pinned' \in donors'
    BY <1>0
  <2>1. CASE Choose
    <3>1. /\ place = "chosen" /\ selected' = selected /\ pinned' = Donor /\ donors' = Kept(current, Donor)
      BY <2>1 DEF Choose
    <3>2. current = Donor /\ Donor \in donors /\ selected.what = Candidate
      BY <3>1 DEF DonorInv, ChosenInv
    <3> QED
      BY <3>1, <3>2 DEF Kept, Donor, Primary
  <2>2. CASE ~Choose
    <3>1. selected' = selected /\ place \notin {"chosen", "failed"}
      <4>1. CASE Verified
        <5>1. PICK c \in Encoded, next \in {"next", "chosen"} :
                /\ Done(next)
                /\ Winning(c) => (HasSession => next = "chosen")
                /\ ~Winning(c) => selected' = selected
          BY <4>1, VerifiedFacts
        <5>2. place' = next
          BY <5>1 DEF Done
        <5>3. ~Winning(c)
          BY <4>1, <5>1, <5>2, VerifiedFacts
        <5> QED
          BY <4>1, <5>1, <5>3, VerifiedFacts
      <4>2. CASE ~Verified
        <5>1. selected' = selected
          BY <4>2, OracleLeftAlone
        <5>2. place \notin {"chosen", "failed"}
          BY <2>2 DEF EncodeNext, EncodePrimary, SkipTried, Verified, CallbackFails, CandidateFails, HdrFails,
              ManualOk, TrySampling, TryAuxiliary, StageEnds, Deliver, NothingVerified, searchVars
        <5> QED
          BY <5>1, <5>2
      <4> QED
        BY <4>1, <4>2
    <3>2. pinned = Primary(selected.what) /\ pinned \in donors
      BY <3>1 DEF DonorInv
    <3>3. CASE PrimaryUsed
      BY <3>1, <3>2, <3>3 DEF PrimaryUsed, UsePrimary, Kept
    <3>4. CASE PrimaryForgotten
      BY <3>1, <3>2, <3>4 DEF PrimaryForgotten
    <3>5. CASE PrimariesStay
      BY <3>1, <3>2, <3>5 DEF PrimariesStay
    <3> QED
      BY <2>2, <3>3, <3>4, <3>5, PrimariesMove
  <2> QED
    BY <2>1, <2>2
<1>5. (HasSession /\ ~Automatic /\ tried # {} /\ place \in {"next", "verify"} => ManualPrimary \in donors)'
  <2> SUFFICES ASSUME HasSession, ~Automatic, tried' # {}, place' \in {"next", "verify"}
               PROVE  ManualPrimary \in donors'
    BY <1>0
  <2>0. place # "chosen" /\ selected = None /\ todo # <<>> => Donor = ManualPrimary
    <3>1. todo # <<>> => \E j \in DOMAIN todo : Candidate = todo[j]
      BY TodoFacts
    <3>2. todo # <<>> => Primary(Candidate) = ManualPrimary
      BY <3>1 DEF StageInv
    <3> QED
      BY <3>2 DEF Donor, Primary
  <2>1. place # "chosen" /\ selected = None
    BY DEF SizeInv, ChosenInv
  <2>2. CASE PrimaryUsed
    BY <2>0, <2>1, <2>2 DEF PrimaryUsed, UsePrimary
  <2>3. CASE PrimaryForgotten
    <3>1. Reject
      BY <2>3 DEF PrimaryForgotten, CandidateFails
    <3>2. place' = "failed"
      BY <3>1 DEF Reject, Done, Automatic, Jpeg, Heif
    <3> QED
      BY <3>2
  <2>4. CASE PrimariesStay
    <3>1. place \in {"next", "verify"}
      BY <2>1 DEF EncodeNext, EncodePrimary, SkipTried, Verified, Choose, CallbackFails, CandidateFails, HdrFails,
              ManualOk, TrySampling, TryAuxiliary, StageEnds, Deliver, NothingVerified, searchVars
    <3>2. CASE place = "verify"
      <4>1. Donor \in donors /\ todo # <<>>
        BY <3>2 DEF DonorInv, SearchTypes
      <4> QED
        BY <2>0, <2>1, <2>4, <4>1 DEF PrimariesStay
    <3>3. CASE place = "next"
      <4>1. tried # {}
        <5>1. AllStay \/ FirstLeaves
          BY <2>1, <3>3, CandidatesMove, SamplingFacts, AuxiliaryFacts DEF FirstIsLast, Automatic, Heif
        <5>2. CASE FirstLeaves
          <6>1. SkipTried
            BY <3>3, <5>2 DEF EncodeNext, EncodePrimary, Verified, Choose, CallbackFails, CandidateFails, HdrFails,
              ManualOk, TrySampling, TryAuxiliary, StageEnds, Deliver, NothingVerified, searchVars, FirstLeaves
          <6> QED
            BY <6>1 DEF SkipTried
        <5> QED
          BY <5>1, <5>2 DEF AllStay
      <4> QED
        BY <2>4, <3>3, <4>1 DEF DonorInv, PrimariesStay
    <3> QED
      BY <3>1, <3>2, <3>3
  <2>5. ~Choose
    BY <2>1 DEF Choose
  <2> QED
    BY <2>2, <2>3, <2>4, <2>5, PrimariesMove
<1> QED
  BY <1>1, <1>2, <1>3, <1>4, <1>5 DEF DonorInv

\* At most two.
LEMMA PairsAreSmall ==
    ASSUME NEW S, NEW x, NEW y, S \subseteq {x, y}
    PROVE  Cardinality(S) <= 2
<1>1. S \in {{}, {x}, {y}, {x, y}}
  OBVIOUS
<1>2. IsFiniteSet({}) /\ Cardinality({}) = 0
  BY FS_EmptySet
<1>3. IsFiniteSet({x}) /\ Cardinality({x}) = 1 /\ Cardinality({y}) = 1
  BY FS_Singleton
<1>4. {x} \cup {y} = {x, y}
  OBVIOUS
<1>5. Cardinality({x, y}) \in {1, 2}
  BY <1>3, <1>4, FS_AddElement
<1> QED
  BY <1>1, <1>2, <1>3, <1>5

\* A set with one more has one more at most.
LEMMA OneMore ==
    ASSUME NEW S, IsFiniteSet(S), NEW x
    PROVE  /\ IsFiniteSet(S \cup {x}) /\ Cardinality(S) \in Nat /\ Cardinality(S \cup {x}) \in Nat
           /\ Cardinality(S \cup {x}) <= Cardinality(S) + 1
BY FS_AddElement, FS_CardinalityType

\* How many candidates are left, and how many a stage may have tried at its end.
Left == IF place \in {"chosen", "failed", "done"} /\ todo # <<>> THEN Len(todo) - 1 ELSE Len(todo)
BoundOf(of) ==
    CASE of = "quality" -> Len(HeifQualities)
      [] of = "sampling" -> Len(HeifQualities) + 4
      [] of = "auxiliary" -> Len(HeifQualities) + 4 + Len(AuxQualities)
Bound == BoundOf(stage)

\* The bounds grow.
LEMMA BoundFacts ==
    /\ BoundOf("quality") = Len(HeifQualities) /\ BoundOf("sampling") = Len(HeifQualities) + 4
    /\ BoundOf("auxiliary") = Len(HeifQualities) + 4 + Len(AuxQualities)
    /\ \A of \in {"quality", "sampling", "auxiliary"} : BoundOf(of) \in Nat
    /\ Len(HeifQualities) \in Nat /\ Len(AuxQualities) \in Nat
<1>1. Len(HeifQualities) \in Nat /\ Len(AuxQualities) \in Nat
  BY EncodeAssumption, LenProperties
<1>2. "quality" # "sampling" /\ "quality" # "auxiliary" /\ "sampling" # "auxiliary"
  OBVIOUS
<1>3. BoundOf("quality") = Len(HeifQualities)
  BY <1>2 DEF BoundOf
<1>4. BoundOf("sampling") = Len(HeifQualities) + 4
  BY <1>2 DEF BoundOf
<1>5. BoundOf("auxiliary") = Len(HeifQualities) + 4 + Len(AuxQualities)
  BY <1>2 DEF BoundOf
<1> QED
  BY <1>1, <1>3, <1>4, <1>5

CountInv == IsFiniteSet(tried) /\ (Heif => Cardinality(tried) + Left <= Bound)

\* Each candidate is tried once.
LEMMA CountStep ==
    SearchTypes /\ ChosenInv /\ CountInv /\ [EncodeNext]_searchVars => CountInv'
<1> SUFFICES ASSUME SearchTypes, ChosenInv, CountInv, [EncodeNext]_searchVars PROVE CountInv'
  OBVIOUS
<1>0. /\ (Heif <=> Heif') /\ Len(todo) \in Nat /\ Len(HeifQualities) \in Nat /\ Len(AuxQualities) \in Nat
      /\ Cardinality(tried) \in Nat /\ IsFiniteSet(tried) /\ (todo = <<>> => Len(todo) = 0)
  <2>1. request' = request
    BY OracleLeftAlone, VerifiedFacts
  <2> QED
    BY <2>1, LenProperties, EncodeAssumption, EmptySeq, FS_CardinalityType DEF Heif, SearchTypes, CountInv
<1>1. CASE FirstLeaves
  <2>1. /\ todo # <<>> /\ stage' = stage /\ place \in {"next", "verify", "chosen"} /\ place' = "next"
        /\ tried' = tried \cup {Candidate} /\ todo' = Tail(todo)
    BY <1>1 DEF FirstLeaves
  <2>2. Len(todo') = Len(todo) - 1 /\ Len(todo) > 0
    BY <2>1, TodoFacts
  <2>3. /\ IsFiniteSet(tried') /\ Cardinality(tried') \in Nat
        /\ Cardinality(tried') <= Cardinality(tried) + 1
    BY <1>0, <2>1, OneMore
  <2>4. place = "chosen" => tried' = tried
    BY <2>1 DEF ChosenInv
  <2>5. Left' = Len(todo) - 1 /\ Left = IF place = "chosen" THEN Len(todo) - 1 ELSE Len(todo)
    BY <2>1, <2>2 DEF Left
  <2>6. Bound' = Bound /\ Bound \in Nat
    BY <2>1, BoundFacts DEF Bound, SearchTypes
  <2> QED
    BY <1>0, <2>3, <2>4, <2>5, <2>6 DEF CountInv
<1>2. CASE FirstIsLast
  <2>1. /\ todo # <<>> /\ stage' = stage /\ place = "verify" /\ place' \in {"chosen", "failed", "done"}
        /\ tried' = tried \cup {Candidate} /\ todo' = todo
    BY <1>2 DEF FirstIsLast
  <2>2. /\ IsFiniteSet(tried') /\ Cardinality(tried') \in Nat
        /\ Cardinality(tried') <= Cardinality(tried) + 1
    BY <1>0, <2>1, OneMore
  <2>3. Left' = Len(todo) - 1 /\ Left = Len(todo)
    BY <2>1 DEF Left
  <2>4. Bound' = Bound /\ Bound \in Nat
    BY <2>1, BoundFacts DEF Bound, SearchTypes
  <2> QED
    BY <1>0, <2>2, <2>3, <2>4 DEF CountInv
<1>3. CASE TrySampling
  <2>1. /\ todo = <<>> /\ stage = "quality" /\ stage' = "sampling" /\ Len(todo') \in 0..4 /\ UNCHANGED <<tried, place>>
        /\ place = "next"
    BY <1>3, SamplingFacts
  <2>2. Left' = Len(todo') /\ Left = 0
    BY <1>0, <2>1 DEF Left
  <2>3. Bound' = Bound + 4 /\ Bound \in Nat
    BY <2>1, BoundFacts DEF Bound, SearchTypes
  <2> QED
    BY <1>0, <2>1, <2>2, <2>3 DEF CountInv
<1>4. CASE TryAuxiliary
  <2>1. /\ todo = <<>> /\ stage = "sampling" /\ stage' = "auxiliary" /\ Len(todo') = Len(AuxQualities)
        /\ UNCHANGED <<tried, place>> /\ place = "next"
    BY <1>4, AuxiliaryFacts
  <2>2. Left' = Len(AuxQualities) /\ Left = 0
    BY <1>0, <2>1 DEF Left
  <2>3. Bound' = Bound + Len(AuxQualities) /\ Bound \in Nat
    BY <2>1, BoundFacts DEF Bound, SearchTypes
  <2> QED
    BY <1>0, <2>1, <2>2, <2>3 DEF CountInv
<1>5. CASE AllStay /\ ~TrySampling /\ ~TryAuxiliary /\ ~FirstLeaves /\ ~FirstIsLast
  <2>1. UNCHANGED <<stage, todo, tried>>
    BY <1>5 DEF AllStay
  <2>2. Left' <= Left
    <3>1. CASE place \in {"chosen", "failed", "done"} /\ place' \notin {"chosen", "failed", "done"}
      <4>1. Choose
        BY <3>1, <1>5 DEF EncodeNext, EncodePrimary, SkipTried, Verified, CallbackFails, CandidateFails, HdrFails,
              ManualOk, StageEnds, Deliver, NothingVerified, searchVars
      <4> QED
        BY <1>5, <4>1 DEF Choose, FirstLeaves, SearchTypes, ChosenInv
    <3>2. CASE place \notin {"chosen", "failed", "done"} \/ place' \in {"chosen", "failed", "done"}
      BY <1>0, <2>1, <3>2 DEF Left
    <3> QED
      BY <3>1, <3>2
  <2>3. Bound' = Bound /\ Bound \in Nat
    BY <2>1, BoundFacts DEF Bound, SearchTypes
  <2>4. Left \in Int /\ Left' \in Int
    BY <1>0, <2>1 DEF Left
  <2> QED
    BY <1>0, <2>1, <2>2, <2>3, <2>4 DEF CountInv
<1> QED
  BY <1>1, <1>2, <1>3, <1>4, <1>5, CandidatesMove DEF ChosenInv

EncodeInv == SearchTypes /\ SizeInv /\ ChosenInv /\ OracleInv /\ StageInv /\ DonorInv /\ CountInv

\* A search begins without a candidate behind it.
LEMMA EncodeInvStarts == EncodeInit => EncodeInv
<1> SUFFICES ASSUME EncodeInit PROVE EncodeInv
  OBVIOUS
<1>0. /\ request \in Requests /\ todo = FirstStage(request) /\ todo \in Seq(Encodings)
      /\ reference = None /\ selected = None /\ tried = {} /\ stage = "quality" /\ place = "next"
      /\ donors = {} /\ template = 95
      /\ history = [reencoded |-> FALSE, oracle |-> None, best |-> 0, fellback |-> {}]
  BY FirstStageFacts DEF EncodeInit
<1>1. SearchTypes
  BY <1>0 DEF SearchTypes
<1>2. SizeInv /\ ChosenInv
  BY <1>0 DEF SizeInv, ChosenInv
<1>3. OracleInv
  BY <1>0, FirstStageFacts DEF OracleInv, OracleIsBest, Jpeg, Heif
<1>4. StageInv
  <2>1. Heif /\ request.gainmap => \A i \in DOMAIN todo : todo[i][3] = Whole
    BY <1>0, FirstStageFacts DEF Heif, Whole
  <2>2. ~Automatic => \A i \in DOMAIN todo : Primary(todo[i]) = ManualPrimary
    BY <1>0, FirstStageFacts DEF Automatic, ManualPrimary
  <2> QED
    BY <1>0, <2>1, <2>2 DEF StageInv
<1>5. DonorInv
  BY <1>0 DEF DonorInv
<1>6. CountInv
  <2>1. IsFiniteSet(tried) /\ Cardinality(tried) = 0
    BY <1>0, FS_EmptySet
  <2>2. Heif => Len(todo) = Len(HeifQualities)
    BY <1>0, FirstStageFacts DEF Heif
  <2>3. Len(todo) \in Nat /\ Len(HeifQualities) \in Nat
    BY <1>0, LenProperties, EncodeAssumption
  <2> QED
    BY <1>0, <2>1, <2>2, <2>3, BoundFacts DEF CountInv, Left, Bound
<1> QED
  BY <1>1, <1>2, <1>3, <1>4, <1>5, <1>6 DEF EncodeInv

\* One step of it.
LEMMA EncodeInvKept == EncodeInv /\ [EncodeNext]_searchVars => EncodeInv'
BY SearchTypesKept, SizeStep, ChosenStep, OracleStep, StageStep, DonorStep, CountStep DEF EncodeInv

\* It implies what is promised of a search.
LEMMA EncodeInvSound == EncodeInv => SearchSound /\ EncodeTypeOK
<1> SUFFICES ASSUME EncodeInv PROVE SearchSound /\ EncodeTypeOK
  OBVIOUS
<1>1. EncodeTypeOK
  BY DEF EncodeInv, SearchTypes, EncodeTypeOK
<1>2. OracleIsBest
  BY DEF EncodeInv, OracleInv
<1>3. PrimariesEncodedOnce
  <2>1. Cardinality(donors) <= 2
    BY PairsAreSmall DEF EncodeInv, DonorInv
  <2>2. ~history.reencoded
    BY DEF EncodeInv, DonorInv
  <2>3. ASSUME Heif
        PROVE  Cardinality(tried) <= Len(HeifQualities) + 4 + IF request.gainmap THEN Len(AuxQualities) ELSE 0
    <3>1. /\ Len(todo) \in Nat /\ Len(HeifQualities) \in Nat /\ Len(AuxQualities) \in Nat
          /\ Cardinality(tried) \in Nat /\ (todo # <<>> => Len(todo) > 0)
      BY LenProperties, EncodeAssumption, FS_CardinalityType, TodoFacts DEF EncodeInv, SearchTypes, CountInv
    <3>2. Left \in Nat
      BY <3>1 DEF Left
    <3>3. stage = "auxiliary" => request.gainmap
      BY DEF EncodeInv, StageInv
    <3>4. Cardinality(tried) + Left <= Bound /\ stage \in {"quality", "sampling", "auxiliary"}
      BY <2>3 DEF EncodeInv, CountInv, SearchTypes
    <3>5. Bound \in Nat
      BY <3>4, BoundFacts DEF Bound
    <3>6. CASE stage = "auxiliary"
      <4>1. Bound = Len(HeifQualities) + 4 + Len(AuxQualities)
        BY <3>6, BoundFacts DEF Bound
      <4>2. Cardinality(tried) <= Len(HeifQualities) + 4 + Len(AuxQualities)
        BY <3>1, <3>2, <3>4, <3>5, <4>1
      <4> QED
        BY <3>3, <3>6, <4>2
    <3>7. CASE stage # "auxiliary"
      <4>1. Bound <= Len(HeifQualities) + 4
        BY <3>1, <3>4, <3>7, BoundFacts DEF Bound
      <4>2. Cardinality(tried) <= Len(HeifQualities) + 4
        BY <3>1, <3>2, <3>4, <3>5, <4>1
      <4>3. CASE request.gainmap
        <5>1. Cardinality(tried) <= Len(HeifQualities) + 4 + Len(AuxQualities)
          BY <3>1, <4>2
        <5> QED
          BY <4>3, <5>1
      <4>4. CASE ~request.gainmap
        <5>1. Cardinality(tried) <= Len(HeifQualities) + 4 + 0
          BY <3>1, <4>2
        <5> QED
          BY <4>4, <5>1
      <4> QED
        BY <4>3, <4>4
    <3> QED
      BY <3>6, <3>7
  <2> QED
    BY <2>1, <2>2, <2>3 DEF PrimariesEncodedOnce
<1>4. SmallestDelivered
  <2> SUFFICES ASSUME place = "done", Automatic
               PROVE  /\ selected = history.oracle \/ InBudget(selected, history.oracle)
                      /\ IF Heif THEN selected.size = history.best ELSE 20 * history.best > 19 * selected.size
    BY DEF SmallestDelivered
  <2>1. selected # None /\ history.oracle = reference
    BY DEF EncodeInv, ChosenInv, SizeInv
  <2> QED
    BY <2>1 DEF EncodeInv, SizeInv
<1> QED
  BY <1>1, <1>2, <1>3, <1>4 DEF SearchSound

\* For any request, any sizes and any failures of encoders and readbacks.
THEOREM EncodeInvariant == EncodeSpec => []EncodeInv
BY EncodeInvStarts, EncodeInvKept, PTL DEF EncodeSpec

\* A search delivers the smallest candidate within the budget of an honest oracle, and
\* encodes each candidate once.
THEOREM SearchAlwaysSound == EncodeSpec => []SearchSound
BY EncodeInvariant, EncodeInvSound, PTL

-----------------------------------------------------------------------------
(* Both together *)

\* The type invariants of the two, for any of them that moves.
THEOREM TypesAlwaysOK == Spec => []TypesOK
<1>1. Init => ExportInv /\ EncodeInv
  BY ExportInvInit, EncodeInvStarts DEF Init
<1>2. ASSUME ExportInv, EncodeInv, [Next]_<<part, exportVars, searchVars>> PROVE ExportInv' /\ EncodeInv'
  <2>1. [ExportNext]_exportVars /\ [EncodeNext]_searchVars
    BY <1>2 DEF Next
  <2> QED
    BY <1>2, <2>1, ExportInvNext, EncodeInvKept
<1>3. ExportInv /\ EncodeInv => TypesOK
  BY ExportInvTypes, EncodeInvSound DEF TypesOK
<1> QED
  BY <1>1, <1>2, <1>3, PTL DEF Spec
=============================================================================
