------------------------------ MODULE PageFlow ------------------------------
(***************************************************************************)
(* What the page asks for and what it shows (gui/page.py): the upload of a *)
(* chosen file, the sessions of the preview, the layers that are fetched   *)
(* for a session, live frames with their generations, the probe of the     *)
(* decoder and the export. Answers arrive in any order; a request that was *)
(* aborted may still be answered. The controls themselves, which share no  *)
(* state with it, are PageControls.                                        *)
(***************************************************************************)
EXTENDS PageControls, Naturals

CONSTANTS Photos, NoPhoto, MaxPageSessions, MaxFrames

VARIABLES
    pageSession, \* PREVIEW_SESSION_SERIAL
    pageFrame,   \* PREVIEW_GENERATION, from 0 in each session
    selected,    \* the file named by #input
    ready,       \* PREVIEW_READY
    flights,     \* requests under way
    shown        \* what is on the page, with the file and the session it is of

flowVars == <<pageSession, pageFrame, selected, ready, flights, shown>>

Blanked == [file |-> NoPhoto, session |-> 0, by |-> "page"]
Request(kind, of, s, f) == [kind |-> kind, file |-> of, session |-> s, frame |-> f, aborted |-> FALSE]
Showing(r) == [file |-> r.file, session |-> r.session, by |-> r.kind]
Flying(kind) == {r \in flights : r.kind = kind}

FlowInit ==
    /\ pageSession = 0 /\ pageFrame = 0 /\ selected = NoPhoto /\ ready = FALSE /\ flights = {}
    /\ shown = [image |-> Blanked, overlay |-> Blanked, facts |-> Blanked, support |-> Blanked, saved |-> Blanked]

-----------------------------------------------------------------------------
\* AbortController.abort: the answer may be on its way already
Abort(kinds, of) == {IF r.kind \in kinds THEN [r EXCEPT !.aborted = TRUE] ELSE r : r \in of}

\* beginPreviewSession and resetClipOverlay: what a new session stops, and clears
Restarted == Abort({"preview", "prepare", "overlay"}, flights)

WithoutLayers(page) == [page EXCEPT !.overlay = Blanked, !.facts = Blanked]
BeginSession ==
    /\ pageSession < MaxPageSessions
    /\ pageSession' = pageSession + 1 /\ pageFrame' = 0 /\ ready' = FALSE

\* The file picker: disabled while an upload is under way
PickFile(f) ==
    /\ Flying("upload") = {}
    /\ BeginSession /\ selected' = NoPhoto
    /\ flights' = Restarted \cup {Request("upload", f, pageSession', 0)}
    /\ shown' = [WithoutLayers(shown) EXCEPT !.saved = Blanked]

\* preparePreview: a session of its own, and one request for it
PreparePreview(f) == BeginSession /\ flights' = Restarted \cup {Request("prepare", f, pageSession', 0)}

\* A request is answered, and the page changed
Concluded(r, page) == flights' = flights \ {r} /\ shown' = page /\ UNCHANGED <<pageSession, pageFrame, selected, ready>>

UploadDone(r) ==
    \/ /\ BeginSession /\ selected' = r.file /\ shown' = WithoutLayers(shown)
       /\ flights' = (Restarted \ {r}) \cup {Request("prepare", r.file, pageSession', 0), Request("probe", r.file, pageSession, 0)}
    \/ Concluded(r, shown)

\* A control of the decode or of the plan changed; a declaration of the capture
\* begins one session more
ChangeControl ==
    /\ selected # NoPhoto /\ PreparePreview(selected)
    /\ shown' = WithoutLayers(shown) /\ UNCHANGED selected

\* changeCalibration and changeCalibrationLibrary: the file saved last is
\* forgotten too, and without a file nothing is prepared
ChangeCalibration ==
    /\ IF selected # NoPhoto THEN PreparePreview(selected) ELSE BeginSession /\ flights' = Restarted
    /\ shown' = [WithoutLayers(shown) EXCEPT !.saved = Blanked] /\ UNCHANGED selected

\* requestPreview: the frame before it is aborted
RequestFrame(of, page) ==
    /\ pageFrame < MaxFrames /\ pageFrame' = pageFrame + 1
    /\ flights' = Abort({"preview"}, of) \cup {Request("preview", selected, pageSession, pageFrame')}
    /\ shown' = page

\* the rest of preparePreview: the facts, the layer of the clipped pixels
\* (loadClipOverlay) and the first frame
PrepareDone(r) ==
    /\ UNCHANGED <<pageSession, selected>>
    /\ \/ /\ ~r.aborted /\ r.session = pageSession
          /\ ready' = TRUE
          /\ RequestFrame((Abort({"overlay"}, flights) \ {r}) \cup {Request("overlay", r.file, pageSession, 0)},
                          [shown EXCEPT !.facts = Showing(r)])
       \/ /\ flights' = flights \ {r} /\ UNCHANGED <<pageFrame, ready>>
          /\ shown' = IF r.aborted \/ r.session # pageSession THEN shown ELSE [shown EXCEPT !.facts = Blanked]

\* scheduleLivePreview
LiveChange == ready /\ selected # NoPhoto /\ RequestFrame(flights, shown) /\ UNCHANGED <<pageSession, selected, ready>>

\* Mutant of StillWanted: the frame is told by its generation alone.
WantedByFrame(r) == IF r.kind = "preview" THEN r.frame = pageFrame ELSE ~r.aborted /\ r.session = pageSession

\* What the page still takes: a frame by its abort and its generation, a layer
\* by its abort and its session
StillWanted(r) == ~r.aborted /\ IF r.kind = "preview" THEN r.frame = pageFrame ELSE r.session = pageSession

FrameDone(r) == Concluded(r, IF StillWanted(r) THEN [shown EXCEPT !.image = Showing(r)] ELSE shown)
OverlayDone(r) ==
    \E there \in BOOLEAN :
      Concluded(r, IF StillWanted(r) THEN [shown EXCEPT !.overlay = IF there THEN Showing(r) ELSE Blanked] ELSE shown)

\* fetchDecodeSupport
ProbeDone(r) == Concluded(r, IF r.file = selected THEN [shown EXCEPT !.support = Showing(r)] ELSE shown)

\* The export: its dialog is modal until it is sent, its button is disabled
\* until it is answered
StartExport ==
    /\ selected # NoPhoto /\ Flying("export") = {}
    /\ flights' = flights \cup {Request("export", selected, pageSession, 0)}
    /\ UNCHANGED <<pageSession, pageFrame, selected, ready, shown>>

ExportDone(r) ==
    \/ Concluded(r, [shown EXCEPT !.image = Showing(r), !.saved = Showing(r)])
    \/ Concluded(r, shown)

\* An aborted request, or one that failed, ends without a trace
Failed(r) == r.kind \in {"preview", "overlay", "probe"} /\ Concluded(r, shown)

FlowNext ==
    \/ \E f \in Photos : PickFile(f)
    \/ ChangeControl \/ ChangeCalibration \/ LiveChange \/ StartExport
    \/ \E r \in Flying("upload") : UploadDone(r)
    \/ \E r \in Flying("prepare") : PrepareDone(r)
    \/ \E r \in Flying("preview") : FrameDone(r)
    \/ \E r \in Flying("overlay") : OverlayDone(r)
    \/ \E r \in Flying("probe") : ProbeDone(r)
    \/ \E r \in Flying("export") : ExportDone(r)
    \/ \E r \in flights : Failed(r)

FlowSpec == FlowInit /\ [][FlowNext]_flowVars

-----------------------------------------------------------------------------
\* The layers and the facts on the page are of the session on the page, and a
\* frame or a statement about the file that is put there is of the file selected
\* at that moment, although generations start again in every session and the
\* answers of aborted requests still arrive.
LayersOfSession == \A layer \in {"overlay", "facts"} : shown[layer] = Blanked \/ shown[layer].session = pageSession
FramesOfSelection ==
    [][\A place \in {"image", "support"} :
         shown'[place] # shown[place] /\ shown'[place].by # "export"
           => /\ shown'[place].file = selected'
              /\ place = "image" => shown'[place].session = pageSession']_flowVars
PageShowsSelection == []LayersOfSession /\ FramesOfSelection

\* What the page sends is what the service takes, and what it shows is of the
\* file and the session it is on.
PageHonest == []PageKeepsContract /\ PageShowsSelection
=============================================================================
