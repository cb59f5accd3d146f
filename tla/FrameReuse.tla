----------------------------- MODULE FrameReuse -----------------------------
(***************************************************************************)
(* gui/service.py and gui/preview_cache.py: what a preview is made of, and *)
(* what is kept of it under which key.                                     *)
(*                                                                         *)
(* A request is a setting of the page's dials.  Scene, plan, automatic     *)
(* exposure, pixels, histogram and frame are each a record of what the     *)
(* code reads to make them; each is kept under the key the code composes.  *)
(* A dial has two settings, 0 the default; two settings of a real dial     *)
(* closer than the sixth decimal count as one.                             *)
(***************************************************************************)
EXTENDS Naturals, FiniteSets

CONSTANTS
    Settings,   \* the requests a session may begin with
    MaxRequests, \* bound: requests and exports of a session
    NoFrame

\* _cache_identity: what the decode of a file depends on.
DecodeDials == {"file", "calibration", "highlight", "decoder", "version", "demosaic", "scale", "margin"}
\* build_render_plan with adjustments=None, and compute_auto_ev.
PlanDials == {"gamut", "transform", "punch", "core", "norm", "primaries", "lens", "endpoint", "nr"}
AutoDials == PlanDials \cup {"format", "grade", "adjust"}
\* render_output_u8 beside its plan.
RenderDials == {"gamut", "grade", "transform", "core", "norm", "primaries", "lens", "nr"}
HistogramDials == {"transform", "lens"}
EncodeDials == {"format", "headroom", "delivery"}
Dials == DecodeDials \cup AutoDials \cup EncodeDials \cup {"wb", "ev", "auto", "metrics", "png"}

\* decoder 1 is Apple's, version 0 lets it choose; core 1 is the gated one.
ASSUME SettingsAssumption == Settings \subseteq [Dials -> 0..1]

\* NoFrame in a key says that the plan is not an automatic one.
ScenesOfPlans ==
    [decoded : [DecodeDials -> 0..2], actual : {"asked", "fallback"}, wb : 0..1]
ASSUME NoFrameAssumption == NoFrame \notin [auto : ScenesOfPlans, by : [AutoDials -> 0..1]]

VARIABLES
    entries,    \* proxies in memory: [decoded, actual]
    stored,       \* the caches of the entries: [kind, owner, key, value]
    dials,      \* the last request
    served,     \* its frame
    files,      \* exports written
    requests    \* number of requests and exports

reuseVars == <<entries, stored, dials, served, files, requests>>

Only(d, names) == [x \in names |-> d[x]]

\* parse_decode_extras, parse_demosaic and parse_job_params: Apple's decoder
\* has its own highlights, demosaic and scale; HDR is always P3.
Normal(d) ==
    [d EXCEPT !["highlight"] = IF d["decoder"] = 1 THEN 2 ELSE @,
              !["demosaic"] = IF d["decoder"] = 1 THEN 0 ELSE @,
              !["scale"] = IF d["decoder"] = 1 THEN @ ELSE 0,
              !["gamut"] = IF d["format"] = 1 THEN 1 ELSE @]

\* reject_gated_coreimage; and what run_export cannot do in HDR.
RefusedRequest(d) == d["decoder"] = 1 /\ d["core"] = 1
RefusedExport(d) == RefusedRequest(d) \/ (d["format"] = 1 /\ (d["grade"] = 1 \/ d["core"] = 1))

\* What Apple's decoder makes of a file when it may choose.
Actuals(d) == IF d["decoder"] = 1 /\ d["version"] = 0 THEN {"asked", "fallback"} ELSE {"asked"}

DecodedAs(d) == Only(d, DecodeDials)
SceneOf(d, actual) == [decoded |-> DecodedAs(d), actual |-> actual, wb |-> d["wb"]]

-----------------------------------------------------------------------------
(* What the stages make *)

BasePlan(d, scene) == [of |-> scene, by |-> Only(d, PlanDials)]
ManualPlan(d, base) == [base |-> base, adjust |-> d["adjust"]]

\* An automatic exposure comes with a plan of its own; the exposure itself may
\* well be the one the user would have chosen.
AutoResult(d, scene) == [ev |-> 0, plan |-> [auto |-> scene, by |-> Only(d, AutoDials)]]

PixelsOf(d, scene, plan, ev) == [of |-> scene, plan |-> plan, ev |-> ev, by |-> Only(d, RenderDials)]
Histogram(d, scene) == [of |-> scene, by |-> Only(d, HistogramDials)]
Frame(d, pixels, plan, ev, histogram) ==
    [pixels |-> pixels, plan |-> plan, ev |-> ev, histogram |-> histogram,
     metrics |-> d["metrics"], overlay |-> d["auto"] = 1 /\ d["metrics"] = 1]

\* A frame made without any cache.
FreshPlan(d, scene) ==
    IF d["auto"] = 1 THEN AutoResult(d, scene).plan ELSE ManualPlan(d, BasePlan(d, scene))
FreshEv(d, scene) == IF d["auto"] = 1 THEN AutoResult(d, scene).ev ELSE d["ev"]
FreshFrame(d, scene) ==
    Frame(d, PixelsOf(d, scene, FreshPlan(d, scene), FreshEv(d, scene)), FreshPlan(d, scene),
          FreshEv(d, scene), Histogram(d, scene))

-----------------------------------------------------------------------------
(* The keys *)

\* Mutant of PlanKey: the dial of a later batch is forgotten.
PlanKeyWithoutNoise(d) == Only(d, PlanDials \ {"nr"})

PlanKey(d) == Only(d, {"gamut", "transform", "punch", "core", "norm", "primaries", "lens", "endpoint", "nr"})
AutoKey(d) == Only(d, AutoDials)
HistogramKey(d) == Only(d, {"transform", "lens"})

\* Mutant of PixelKey: the exposure stands for its plan.
PixelKeyByEv(d, ev, auto) ==
    <<Only(d, RenderDials \cup {"punch", "endpoint", "adjust"}), ev, NoFrame>>

\* Identical exposures may come with an automatic plan or a manual one.
PixelKey(d, ev, auto) ==
    <<Only(d, RenderDials \cup {"punch", "endpoint", "adjust"}), ev,
      IF d["auto"] = 1 THEN auto.plan ELSE NoFrame>>
FrameKey(d, pixelKey, auto) == <<pixelKey, d["metrics"], IF d["auto"] = 1 THEN auto.ev ELSE NoFrame>>

\* A balance other than the camera's has caches of its own, below its entry.
Owner(d) == <<DecodedAs(d), d["wb"]>>
StoredFor(d, kind, key) == {i \in stored : i.kind = kind /\ i.owner = Owner(d) /\ i.key = key}
LookUp(d, kind, key, made) ==
    IF StoredFor(d, kind, key) = {} THEN made ELSE (CHOOSE i \in StoredFor(d, kind, key) : TRUE).value
Item(d, kind, key, value) == [kind |-> kind, owner |-> Owner(d), key |-> key, value |-> value]

-----------------------------------------------------------------------------
Served(d, items, frame) ==
    /\ stored' = {i \in stored : \E e \in entries' : e.decoded = i.owner[1]} \cup items
    /\ served' = frame

\* A frame in store is the answer; else its plan, its pixels and its histogram
\* are looked up or made, each on its own.
Answer(d, scene, ev, auto, pixelKey) ==
    LET frames == StoredFor(d, "frame", FrameKey(d, pixelKey, auto))
        base == LookUp(d, "plan", PlanKey(d), BasePlan(d, scene))
        plan == IF d["auto"] = 1 THEN auto.plan ELSE ManualPlan(d, base)
        pixels == LookUp(d, "pixels", pixelKey, PixelsOf(d, scene, plan, ev))
        histogram == LookUp(d, "histogram", HistogramKey(d), Histogram(d, scene))
        frame == Frame(d, pixels, plan, ev, histogram)
        exposure == IF d["auto"] = 1 THEN {Item(d, "auto", AutoKey(d), auto)} ELSE {}
    IN IF frames # {}
         THEN Served(d, exposure, (CHOOSE i \in frames : TRUE).value)
         ELSE Served(d, exposure
                        \cup (IF d["auto"] = 1 THEN {} ELSE {Item(d, "plan", PlanKey(d), base)})
                        \cup {Item(d, "pixels", pixelKey, pixels),
                              Item(d, "histogram", HistogramKey(d), histogram),
                              Item(d, "frame", FrameKey(d, pixelKey, auto), frame)}, frame)

AnswerAt(d, scene, ev, auto) == Answer(d, scene, ev, auto, PixelKey(d, ev, auto))
AnswerWith(d, scene, auto) == AnswerAt(d, scene, IF d["auto"] = 1 THEN auto.ev ELSE d["ev"], auto)

\* Mutant of Decodes: every decode chooses anew.
DecodesAnew(d, held) == Actuals(d)

\* PreviewCache.get returns the proxy it has; _load_export_scene pins an
\* automatic choice that was shown, and refuses any other outcome.
Decodes(d, held) == IF held = {} THEN Actuals(d) ELSE {e.actual : e \in held}

\* run_preview: the proxy of the file is at hand or is built, and the frame
\* follows.
Ask(d) ==
    /\ ~RefusedRequest(d)
    /\ \E actual \in Decodes(d, {e \in entries : e.decoded = DecodedAs(d)}) :
         /\ entries' = entries \cup {[decoded |-> DecodedAs(d), actual |-> actual]}
         /\ AnswerWith(d, SceneOf(d, actual), LookUp(d, "auto", AutoKey(d), AutoResult(d, SceneOf(d, actual))))
    /\ UNCHANGED files

\* evict_runtime: the oldest things of the first cache that holds any.
EvictionOrder == <<"pixels", "frame", "plan", "auto">>
KindsOf(rank) == IF EvictionOrder[rank] = "plan" THEN {"plan", "histogram"} ELSE {EvictionOrder[rank]}
Evict ==
    /\ \E rank \in DOMAIN EvictionOrder :
         /\ \E i \in stored : i.kind \in KindsOf(rank)
         /\ \A lower \in 1..rank - 1 : \A i \in stored : i.kind \notin KindsOf(lower)
         /\ stored' = {i \in stored : i.kind \notin KindsOf(rank)}
    /\ UNCHANGED <<entries, dials, served, files, requests>>

\* The proxy makes room for another file's, with all that was stored of it.
Forget == entries # {} /\ entries' = {} /\ stored' = {} /\ UNCHANGED <<dials, served, files, requests>>

-----------------------------------------------------------------------------
(* run_export *)

\* export_plan_fingerprint: dials an SDR file does not use are left out.
Name(d, ev) ==
    <<Only(d, DecodeDials \cup AutoDials \cup {"wb", "delivery"}), ev,
      IF d["format"] = 1 THEN d["headroom"] ELSE NoFrame>>

\* The analysis of the whole frame; a balance on the proxy refreshes only the
\* proxy's.
Analysis(d, actual) == [decoded |-> DecodedAs(d), actual |-> actual, of |-> "frame"]
ProxyAnalysis(d, e) ==
    IF d["wb"] = 0 THEN Analysis(d, e.actual) ELSE [Analysis(d, e.actual) EXCEPT !.of = "proxy"]

\* Mutant of AnalysisFor: an analysis is reused under any balance.
AnalysisForAny(d, held, actual) ==
    IF d["png"] = 0 /\ \E e \in held : e.actual = actual
      THEN ProxyAnalysis(d, CHOOSE e \in held : TRUE)
      ELSE Analysis(d, actual)

\* _cached_full_analysis: the preview's analysis serves when the decode turned
\* out the same, the balance is the camera's and no dashboard needs the planes.
AnalysisFor(d, held, actual) ==
    IF d["png"] = 0 /\ d["wb"] = 0 /\ \E e \in held : e.actual = actual
      THEN ProxyAnalysis(d, CHOOSE e \in held : TRUE)
      ELSE Analysis(d, actual)

EncodedAs(d) == <<d["format"], d["delivery"], IF d["format"] = 1 THEN d["headroom"] ELSE NoFrame>>
Rendered(d, scene) == PixelsOf(d, scene, FreshPlan(d, scene), FreshEv(d, scene))
File(d, actual, held) ==
    [name |-> Name(d, FreshEv(d, SceneOf(d, actual))), shown |-> {e.actual : e \in held},
     wanted |-> <<Rendered(d, SceneOf(d, "asked")), EncodedAs(d)>>,
     pixels |-> Rendered(d, SceneOf(d, actual)), analysis |-> AnalysisFor(d, held, actual)]

ExportOver(d, file) ==
    /\ files' = {f \in files : f.name # file.name} \cup {file}
    /\ served' = NoFrame
    /\ UNCHANGED <<entries, stored>>
ExportWith(d, held) == \E actual \in Decodes(d, held) : ExportOver(d, File(d, actual, held))
Export(d) == ~RefusedExport(d) /\ ExportWith(d, {e \in entries : e.decoded = DecodedAs(d)})

-----------------------------------------------------------------------------
\* The page's defaults.
DialDefaults == [x \in Dials |-> 0]
Turned(d) == {[d EXCEPT ![x] = 1 - @] : x \in Dials}

PageDefaults == {DialDefaults}

ReuseFrom(settings) ==
    /\ dials \in settings
    /\ entries = {} /\ stored = {} /\ files = {} /\ served = NoFrame /\ requests = 0
ReuseInit == ReuseFrom(Settings)

\* A request or an export for the same dials, or with one of them turned.
ReuseNext ==
    /\ requests < MaxRequests
    /\ \/ /\ requests' = requests + 1
          /\ \E d \in {dials} \cup Turned(dials) : dials' = d /\ (Ask(Normal(d)) \/ Export(Normal(d)))
       \/ Evict
       \/ Forget

ReuseSpec == ReuseInit /\ [][ReuseNext]_reuseVars

-----------------------------------------------------------------------------
\* Whatever was stored of earlier requests, a frame is the one made from nothing
\* for its own dials on one proxy, plan, exposure and histogram with it.
FrameOfItsDials ==
    served # NoFrame =>
        \E actual \in Actuals(Normal(dials)) : served = FreshFrame(Normal(dials), SceneOf(Normal(dials), actual))

\* An export is decoded as its preview was, and analysed on the frame it decoded,
\* not on a proxy.
ExportAsShown ==
    \A f \in files :
        /\ f.shown # {} => f.pixels.of.actual \in f.shown
        /\ f.analysis = [decoded |-> f.pixels.of.decoded, actual |-> f.pixels.of.actual, of |-> "frame"]

\* What earlier requests left behind shows in no frame and in no file.
FramesFollowDials == FrameOfItsDials /\ ExportAsShown

\* "Any omission lets two different renders share a path and silently overwrite
\* each other" (service.py lines 1504-1510): a file is only ever replaced by the
\* render of the same dials.
NamesTellRendersApart ==
    [][\A f \in files, g \in files' : f.name = g.name => f.wanted = g.wanted]_reuseVars
=============================================================================
