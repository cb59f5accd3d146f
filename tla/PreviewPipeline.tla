--------------------------- MODULE PreviewPipeline ---------------------------
(***************************************************************************)
(* One browser page (gui/page.py), the request threads of the server       *)
(* (gui/service.py: run_preview, export_preview_jpeg, prepare_preview) and *)
(* the PreviewCoordinator between them.                                    *)
(*                                                                         *)
(* The page numbers its preview sessions (serial, also the selection       *)
(* epoch) and, from 1 again in each session, its frames.  Every request    *)
(* runs on its own thread, so requests arrive and answers return in any    *)
(* order; an aborted request still runs on the server.                     *)
(*                                                                         *)
(* The proxy store and the plan flights appear as the steps at which they  *)
(* let the request go on (PreviewStore, RuntimeCache); the slots as their  *)
(* holders (RenderScheduler).                                              *)
(***************************************************************************)
EXTENDS PreviewCoordinator

CONSTANTS
    Page,          \* the page's PREVIEW_CLIENT_ID
    Nobody,        \* no request
    MaxSerial,     \* bound: preview sessions the page begins
    MaxMishaps     \* bound: requests that fail and calibration edits made in the page

\* A session's serial is its selection epoch.
ASSUME PageAssumption ==
    /\ Clients = {Page} /\ Sessions = 1..MaxSerial
    /\ MaxSerial \in 0..MaxGeneration /\ MaxMishaps \in Nat

VARIABLES
    serial,        \* PREVIEW_SESSION_SERIAL
    generation,    \* PREVIEW_GENERATION
    ready,         \* PREVIEW_READY
    shown,         \* the session and frame on screen
    failed,        \* the page reports an error for its newest request
    edit,          \* the page's calibration edit: "none", "sent", "cleared"
    job,           \* every request: where its thread is, and its answer
    slot,          \* the request in the preview and in the prepare slot
    failures, edits \* counters of the bounds

pageVars == <<serial, generation, ready, shown, failed>>
vars == <<coordinatorVars, pageVars, edit, job, slot, failures, edits>>

Prepare(n) == [kind |-> "prepare", serial |-> n, gen |-> 0]
Frame(n, g) == [kind |-> "preview", serial |-> n, gen |-> g]
Messages == {Prepare(n) : n \in Sessions}
              \cup {Frame(n, g) : n \in Sessions, g \in 1..MaxGeneration}
ASSUME NobodyAssumption == Nobody \notin Messages
Newest == IF generation = 0 THEN Prepare(serial) ELSE Frame(serial, generation)

Init ==
    /\ CoordinatorInit
    /\ serial = 0 /\ generation = 0 /\ ready = FALSE
    /\ shown = <<0, 0>> /\ failed = FALSE
    /\ edit = "none"
    /\ job = [m \in Messages |-> [at |-> "unsent", accepted |-> FALSE, answer |-> "none"]]
    /\ slot = [kind \in {"preview", "prepare"} |-> Nobody]
    /\ failures = 0 /\ edits = 0

At(m, place) == job[m].at = place
Moved(m, place) == [job EXCEPT ![m].at = place]
Answered(m, answer) == [job EXCEPT ![m].at = "answered", ![m].answer = answer]
SlotWithout(m) == [kind \in DOMAIN slot |-> IF slot[kind] = m THEN Nobody ELSE slot[kind]]

\* is_current of the request: its selection was accepted and both numbers stand.
Wanted(m) ==
    /\ job[m].accepted
    /\ SelectionIsCurrent(Page, m.serial)
    /\ m.kind = "preview" => IsCurrent(m.serial, m.gen)

-----------------------------------------------------------------------------
(* The page *)

\* beginPreviewSession and the /prepare request of preparePreview: what was in
\* flight is aborted, the frame numbers start again.
BeginSession ==
    /\ serial < MaxSerial
    /\ serial' = serial + 1
    /\ generation' = 0
    /\ ready' = FALSE
    /\ failed' = FALSE
    /\ job' = Moved(Prepare(serial + 1), "sent")
    /\ UNCHANGED shown

\* Within the bound one session is left for the edit that is on its way.
Select ==
    /\ edit = "none" \/ serial + 1 < MaxSerial
    /\ BeginSession
    /\ UNCHANGED <<coordinatorVars, edit, slot, failures, edits>>

\* requestPreview, after an adjustment.
SendFrame ==
    /\ generation < MaxGeneration
    /\ generation' = generation + 1
    /\ failed' = FALSE

Adjust ==
    /\ ready
    /\ SendFrame
    /\ job' = Moved(Frame(serial, generation + 1), "sent")
    /\ UNCHANGED <<coordinatorVars, serial, ready, shown, edit, slot, failures, edits>>

\* The answer to /prepare: the first frame is requested at once.
ReceivePrepared(n) ==
    /\ At(Prepare(n), "answered")
    /\ LET seen == Moved(Prepare(n), "received")
           taken == n = serial /\ job[Prepare(n)].answer # "superseded"
       IN
       IF taken /\ job[Prepare(n)].answer = "prepared"
         THEN /\ ready' = TRUE
              /\ SendFrame
              /\ job' = [seen EXCEPT ![Frame(n, generation + 1)].at = "sent"]
         ELSE /\ failed' = (failed \/ (taken /\ job[Prepare(n)].answer = "error"))
              /\ job' = seen
              /\ UNCHANGED <<ready, generation>>
    /\ UNCHANGED <<coordinatorVars, serial, shown, edit, slot, failures, edits>>

\* Mutant of ReceiveFrame: every answer is shown.
ReceiveAnyFrame(m) ==
    /\ m.kind = "preview"
    /\ At(m, "answered")
    /\ job' = Moved(m, "received")
    /\ shown' = IF job[m].answer = "frame" THEN <<m.serial, m.gen>> ELSE shown
    /\ failed' = (failed \/ job[m].answer = "error")
    /\ UNCHANGED <<coordinatorVars, serial, generation, ready, edit, slot, failures, edits>>

\* Mutant of ReceiveFrame: an error is swallowed.
ReceiveQuietly(m) ==
    /\ m.kind = "preview"
    /\ At(m, "answered")
    /\ job' = Moved(m, "received")
    /\ shown' = IF m = Newest /\ job[m].answer = "frame" THEN <<m.serial, m.gen>> ELSE shown
    /\ UNCHANGED <<coordinatorVars, serial, generation, ready, failed, edit, slot, failures, edits>>

\* The answer to /preview counts unless its request was aborted, by a newer
\* frame or a newer session, or is not the newest generation any more.
ReceiveFrame(m) ==
    LET aborted == m.serial # serial \/ m.gen < generation
        taken == ~aborted /\ m.gen = generation
    IN
    /\ m.kind = "preview"
    /\ At(m, "answered")
    /\ job' = Moved(m, "received")
    /\ shown' = IF taken /\ job[m].answer = "frame" THEN <<m.serial, m.gen>> ELSE shown
    /\ failed' = (failed \/ (taken /\ job[m].answer = "error"))
    /\ UNCHANGED <<coordinatorVars, serial, generation, ready, edit, slot, failures, edits>>

\* changeCalibration: the edit is posted; once it is answered the page begins
\* a new session.
PostEdit ==
    /\ edit = "none"
    /\ failures + edits < MaxMishaps
    /\ serial < MaxSerial
    /\ edits' = edits + 1
    /\ edit' = "sent"
    /\ UNCHANGED <<coordinatorVars, pageVars, job, slot, failures>>

ReceiveEdit ==
    /\ edit = "cleared"
    /\ edit' = "none"
    /\ BeginSession
    /\ UNCHANGED <<coordinatorVars, slot, failures, edits>>

-----------------------------------------------------------------------------
(* The server *)

\* calibration_service._invalidate_preview, after the edit itself.
InvalidatePreview ==
    /\ edit = "sent"
    /\ edit' = "cleared"
    /\ Clear
    /\ UNCHANGED <<pageVars, job, slot, failures, edits>>

\* _selection_check registers the epoch; a refused one is never current.
Announce(m) ==
    /\ At(m, "sent")
    /\ job' = [job EXCEPT ![m].at = "announced",
                          ![m].accepted = SelectionAccepted(Page, m.serial)]
    /\ IF SelectionAccepted(Page, m.serial)
         THEN RegisterSelection(Page, m.serial)
         ELSE UNCHANGED coordinatorVars
    /\ UNCHANGED <<pageVars, edit, slot, failures, edits>>

\* The first look at the selection: prepare_preview goes for its slot,
\* run_preview for the registration of its generation.
CheckSelection(m) ==
    /\ At(m, "announced")
    /\ job' = IF job[m].accepted /\ SelectionIsCurrent(Page, m.serial)
                THEN Moved(m, IF m.kind = "preview" THEN "register" ELSE "queued")
                ELSE Answered(m, "superseded")
    /\ UNCHANGED <<coordinatorVars, pageVars, edit, slot, failures, edits>>

Admit(m) ==
    /\ At(m, "register")
    /\ IF GenerationAccepted(m.serial, m.gen)
         THEN Register(m.serial, m.gen) /\ job' = Moved(m, "proxy")
         ELSE job' = Answered(m, "superseded") /\ UNCHANGED coordinatorVars
    /\ UNCHANGED <<pageVars, edit, slot, failures, edits>>

\* A boundary: the request goes on to one of the places, or leaves with
\* "superseded" (and its slot) if it is not wanted any more.
Boundary(m, here, next) ==
    /\ At(m, here)
    /\ IF Wanted(m)
         THEN /\ \E place \in next : job' = Moved(m, place)
              /\ UNCHANGED slot
         ELSE /\ job' = Answered(m, "superseded")
              /\ slot' = SlotWithout(m)
    /\ UNCHANGED <<coordinatorVars, pageVars, edit, failures, edits>>

\* PREVIEW_STORE.get: for a frame outside the slot, and then it may be in the
\* frame cache already; for a preparation inside the slot.
ProxyReady(m) ==
    Boundary(m, "proxy", IF m.kind = "preview" THEN {"queued", "publish"} ELSE {"plan"})

TakeSlot(m) ==
    /\ At(m, "queued") \/ At(m, "requeued")
    /\ slot[m.kind] = Nobody
    /\ slot' = [slot EXCEPT ![m.kind] = m]
    /\ job' = Moved(m, IF At(m, "queued") THEN "slot" ELSE "planned")
    /\ UNCHANGED <<coordinatorVars, pageVars, edit, failures, edits>>

SlotBoundary(m) ==
    Boundary(m, "slot", IF m.kind = "preview" THEN {"plan"} ELSE {"proxy"})

\* The plan is cached or compiled here, or another request compiles it: then
\* the slot goes back for the time of the wait.
ObtainPlan(m) ==
    /\ At(m, "plan")
    /\ \/ job' = Moved(m, "planned") /\ UNCHANGED slot
       \/ job' = Moved(m, "requeued") /\ slot' = SlotWithout(m)
    /\ UNCHANGED <<coordinatorVars, pageVars, edit, failures, edits>>

PlanBoundary(m) ==
    Boundary(m, "planned", IF m.kind = "preview" THEN {"rendered"} ELSE {"publish"})

\* Pixels, histograms and the JPEG, each followed by a check; the last one is
\* the last line inside the slot.
RenderBoundary(m) == Boundary(m, "rendered", {"encoded"})
EncodeBoundary(m) == Boundary(m, "encoded", {"publish"})

\* The slot is left, the payload is cached and returned.
Publish(m) ==
    /\ At(m, "publish")
    /\ slot' = SlotWithout(m)
    /\ job' = Answered(m, IF m.kind = "preview" THEN "frame" ELSE "prepared")
    /\ UNCHANGED <<coordinatorVars, pageVars, edit, failures, edits>>

\* Decoding, planning or rendering raises.
Fail(m) ==
    /\ \E place \in {"proxy", "plan", "planned", "rendered"} : At(m, place)
    /\ failures + edits < MaxMishaps
    /\ failures' = failures + 1
    /\ slot' = SlotWithout(m)
    /\ job' = Answered(m, "error")
    /\ UNCHANGED <<coordinatorVars, pageVars, edit, edits>>

-----------------------------------------------------------------------------
Handle(m) ==
    \/ Announce(m) \/ CheckSelection(m) \/ Admit(m)
    \/ ProxyReady(m) \/ TakeSlot(m) \/ SlotBoundary(m)
    \/ ObtainPlan(m) \/ PlanBoundary(m) \/ RenderBoundary(m) \/ EncodeBoundary(m)
    \/ Publish(m)

Receive(m) == ReceiveFrame(m) \/ (m.kind = "prepare" /\ ReceivePrepared(m.serial))

Next ==
    \/ Select \/ Adjust \/ PostEdit \/ ReceiveEdit \/ InvalidatePreview
    \/ \E m \in Messages : Handle(m) \/ Fail(m) \/ Receive(m)

Spec == Init /\ [][Next]_vars

\* Threads are scheduled, computations end, answers arrive; no fairness of the
\* user or of failures.
FairSpec ==
    /\ Spec
    /\ \A m \in Messages : WF_vars(Handle(m)) /\ WF_vars(Receive(m))
    /\ WF_vars(InvalidatePreview)
    /\ WF_vars(ReceiveEdit)

-----------------------------------------------------------------------------
TypeOK ==
    /\ CoordinatorTypeOK
    /\ serial \in 0..MaxSerial /\ generation \in Generations
    /\ shown \in (0..MaxSerial) \X Generations
    /\ slot \in [{"preview", "prepare"} -> Messages \cup {Nobody}]
    /\ edit \in {"none", "sent", "cleared"}

\* A slot is held by a request that is between its boundaries, and a request
\* that was answered, whatever the answer, holds none.
SlotsHeldByWorkers ==
    \A kind \in DOMAIN slot : slot[kind] # Nobody =>
        job[slot[kind]].at \in {"slot", "proxy", "plan", "planned", "rendered", "encoded", "publish"}

\* Whatever order answers return in, the screen only changes to the frame the
\* page asked for last, never to one of an earlier session or generation.
ScreenFollowsPage ==
    [][shown' # shown => shown' = <<serial, generation>>]_vars

\* The newest request of the page is never dropped as stale, however late the
\* older ones arrive, unless a calibration edit cleared the registry.
NewestNeverDropped ==
    [][\A m \in Messages :
           job[m].answer = "none" /\ job'[m].answer = "superseded" /\ edits = 0
             => m # Newest]_vars

\* When the user rests, the screen comes to show the newest frame or an error:
\* no interleaving with older requests or an edit leaves the page waiting.
SettlesOnNewest == <>[](shown = <<serial, generation>> \/ failed)

\* "A running render checks the same generation before metrics/encoding, so it
\* can never publish late" (preview_scheduler.py lines 17-18).
NeverPublishesLate ==
    [][\A m \in Messages :
           job[m].answer # "frame" /\ job'[m].answer = "frame" => Wanted(m)]_vars
=============================================================================
