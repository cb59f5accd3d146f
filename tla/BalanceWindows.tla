--------------------------- MODULE BalanceWindows ---------------------------
(***************************************************************************)
(* wb.py, the hot white balance of raw_io.py and the windows of            *)
(* scene_transform.py: a scene decoded once is moved to the balance a user *)
(* asks for, and the windows of colour a transform works in, which were    *)
(* calibrated in daylight and on LibRaw, have to be found again in it.     *)
(* decoder_anchor_transport.json says how another decoder's colours lie;   *)
(* it is read anew for every region and every band, and may be installed   *)
(* meanwhile, by the tool modelled at the end of this module or otherwise. *)
(* Ratios and errors are in percent.                                       *)
(***************************************************************************)
EXTENDS Naturals, Sequences, SequencesExt, FiniteSetsExt, Functions

CONSTANTS
    Takes,           \* decoded scenes, and what is known of the camera's colours
    AnchorAssets,    \* what the file of anchors may hold
    WindowRegions,   \* regions of the transform
    MaxInstalls,     \* bound: files of anchors installed
    Unmoved          \* no transform, matrix, white or record

KelvinModes == {"5500k"}
BalanceModes == KelvinModes \cup {"camera", "daylight"}

ASSUME AnchorAssumption == MaxInstalls \in Nat

VARIABLES
    take,        \* the scene as decoded, as shot
    balance,     \* [asked, mode, white, moved, note] of the scene at work
    anchorFile,     \* the file of anchors
    described,   \* what the decode noted of them
    viewing,       \* [transport, since, used]: what is rendered through, or Unmoved
    blend,       \* share of every region in the last picture, or Unmoved
    installs

windowVars == <<take, balance, anchorFile, described, viewing, blend, installs>>

-----------------------------------------------------------------------------
(* Matrices: of cam_xyz, of an embedded cmatrix, of the tags, or the identity *)

\* LibRaw copies an embedded cmatrix of a DNG that passes its test.
Adopted(f) == f.cmatrix = "passes" /\ f.dng

\* What is between a camera's colours and the scene: a matrix, as it is or with its
\* rows scaled to white.
Side(matrix, scaled) == [matrix |-> matrix, scaled |-> scaled]
BothSides(matrix, scaled) == [decode |-> Side(matrix, scaled), target |-> Side(matrix, scaled)]
AppliedSide(f) == IF Adopted(f) /\ "cmatrix" \notin f.singular THEN Side("cmatrix", TRUE) ELSE Side("cam_xyz", TRUE)

\* A mutant: LibRaw's own matrix against an interpolated one, as they are.
SidesOfTwoConventions(f, kelvin) ==
    CASE f.evidence /\ kelvin /\ f.tags -> [decode |-> Side("cam_xyz", FALSE), target |-> Side("tags", FALSE)]
      [] f.evidence /\ ~(kelvin /\ f.tags) -> BothSides("cam_xyz", FALSE)
      [] ~f.evidence /\ Adopted(f) /\ "cmatrix" \notin f.singular -> BothSides("cmatrix", TRUE)
      [] OTHER -> IF f.tags \/ f.table THEN BothSides("identity", FALSE) ELSE Unmoved

\* resolve_hot_wb_c0: the two sides of the conjugation, best rung first.
HotSides(f, kelvin) ==
    CASE f.evidence /\ kelvin /\ f.tags -> [decode |-> AppliedSide(f), target |-> Side("tags", TRUE)]
      [] f.evidence /\ ~(kelvin /\ f.tags) -> BothSides("cam_xyz", FALSE)
      [] ~f.evidence /\ Adopted(f) /\ "cmatrix" \notin f.singular -> BothSides("cmatrix", TRUE)
      [] OTHER -> IF f.tags \/ f.table THEN BothSides("identity", FALSE) ELSE Unmoved

\* hot_wb_matrix_rec2020, where it can be made.
UsableWhite(white) == white \notin {Unmoved, "nonpositive"}
HotMatrix(f, sides, white) ==
    IF /\ sides # Unmoved
       /\ {sides.decode.matrix, sides.target.matrix} \cap f.singular = {}
       /\ UsableWhite(f.white) /\ UsableWhite(white)
    THEN [sides |-> sides, from |-> f.white, to |-> white]
    ELSE Unmoved

\* kelvin_camera_multipliers: a white the matrix sees as a physical neutral.
PhysicalNeutral(f, rung) == rung \notin f.unphysical \cup {"nothing"}

\* solve_wb_for_mode: the multipliers of a declared temperature and what is to be said.
SolvedWhite(f, mode) ==
    LET rung == CASE f.tags -> "tags"
                  [] ~f.tags /\ f.evidence -> "cam_xyz"
                  [] ~f.tags /\ ~f.evidence /\ f.table -> "table"
                  [] OTHER -> "nothing"
    IN IF PhysicalNeutral(f, rung)
       THEN [white |-> mode, note |-> IF rung = "table" THEN "borrowed" ELSE Unmoved]
       ELSE [white |-> Unmoved, note |-> "degraded"]

Asked(f, mode) ==
    CASE mode = "camera" -> [white |-> Unmoved, note |-> Unmoved]
      [] mode = "daylight" -> [white |-> f.daylight, note |-> IF f.daylight = Unmoved THEN "degraded" ELSE Unmoved]
      [] mode \in KelvinModes -> SolvedWhite(f, mode)

\* rebalance_raw_bundle: from the scene as decoded, or the scene as decoded and why.
AsShot(f, mode, note) == [asked |-> mode, mode |-> "camera", white |-> f.white, moved |-> Unmoved, note |-> note]
BalancedTo(f, mode) ==
    LET asked == Asked(f, mode)
        matrix == HotMatrix(f, HotSides(f, mode \in KelvinModes), asked.white)
    IN IF mode = "camera" \/ asked.white = Unmoved THEN AsShot(f, mode, asked.note)
       ELSE IF matrix = Unmoved THEN AsShot(f, mode, "degraded")
       ELSE [asked |-> mode, mode |-> mode, white |-> asked.white, moved |-> matrix, note |-> asked.note]

-----------------------------------------------------------------------------
(* Anchors *)

\* bind_project_handoff: the recipe's own identity under the policy of the hand-over.
Configuration(f) == IF f.core = Unmoved THEN Unmoved ELSE <<f.core, f.policy>>

\* decoder_anchor_scope: the camera and the decode, every proof present.
AnchorScope(f) ==
    IF f.decoder = "coreimage" /\ f.lacks = {} /\ f.version = 9 /\ Configuration(f) # Unmoved
    THEN [camera |-> f.camera, configuration |-> Configuration(f)]
    ELSE Unmoved

\* _anchor_ratio: measured on frames of both splits, its errors on the second within
\* bounds and its ratio too.
Splits == {"train", "holdout"}
MeasuredAnchor(record) ==
    /\ record # Unmoved /\ record.qualified
    /\ \A s \in Splits : record.frames[s] >= 2
    /\ record.median <= 3 /\ record.p95 <= 6
    /\ record.ratio \in 65..130

\* _qualified_anchor_entry
Records(entry) == {entry.global} \cup Range(entry.classes)
QualifiedEntry(entry) ==
    /\ entry.qualified /\ entry.passed
    /\ Len(entry.inputs) >= 4
    /\ IsInjective([i \in DOMAIN entry.inputs |-> entry.inputs[i].sha])
    /\ \A s \in Splits : Cardinality({i \in DOMAIN entry.inputs : entry.inputs[i].split = s}) >= 2
    /\ \E record \in Records(entry) : MeasuredAnchor(record)

\* _select_decoder_anchor: the one profile of exactly this scope.
SelectAnchor(scope, asset) ==
    LET matched == {i \in DOMAIN asset.profiles : asset.profiles[i].scope = scope /\ QualifiedEntry(asset.profiles[i])}
    IN IF scope # Unmoved /\ asset.current /\ Cardinality(matched) = 1
       THEN asset.profiles[CHOOSE i \in matched : TRUE]
       ELSE Unmoved

\* decoder_window_calibration
Describe(f, asset) ==
    LET entry == SelectAnchor(AnchorScope(f), asset)
    IN [status |-> CASE f.decoder = "libraw" -> "identity"
                     [] f.decoder # "libraw" /\ entry # Unmoved -> "qualified"
                     [] OTHER -> "unmeasured",
        profile |-> IF entry = Unmoved THEN Unmoved ELSE entry.id,
        asset |-> asset.id]

\* window_transport_tag
Tag(f, asset) ==
    IF f.decoder = "libraw" THEN Unmoved ELSE [scope |-> AnchorScope(f), asset |-> asset.id]

\* A mutant: the file is trusted whatever the tag was made of.
RatioOfAnyFile(tag, region, asset) ==
    LET entry == IF tag # Unmoved THEN SelectAnchor(tag.scope, asset) ELSE Unmoved
        record == IF MeasuredAnchor(entry.classes[region]) THEN entry.classes[region] ELSE entry.global
    IN IF entry = Unmoved \/ ~MeasuredAnchor(record) \/ record.ratio = 100 THEN Unmoved ELSE record.ratio

\* decoder_window_ratios: of the file as it is now, if it is the tag's; a class of
\* its own before the global one, and nothing for a ratio of one.
DecoderRatio(tag, region, asset) ==
    LET entry == IF tag # Unmoved /\ tag.asset = asset.id THEN SelectAnchor(tag.scope, asset) ELSE Unmoved
        record == IF MeasuredAnchor(entry.classes[region]) THEN entry.classes[region] ELSE entry.global
    IN IF entry = Unmoved \/ ~MeasuredAnchor(record) \/ record.ratio = 100 THEN Unmoved ELSE record.ratio

-----------------------------------------------------------------------------
(* Windows *)

\* wb_window_transport_matrix_rec2020: back from daylight, on to the balance at work;
\* nothing where that leads nowhere.
WindowMatrix(f, b) ==
    LET back == HotMatrix(f, HotSides(f, FALSE), f.daylight)
        stays == b.mode = "camera" \/ b.white = f.white
        on == HotMatrix(f, HotSides(f, b.mode \in KelvinModes), b.white)
    IN IF \/ b.mode = "daylight"
          \/ back = Unmoved
          \/ stays /\ back.from = back.to
          \/ ~stays /\ on \in {Unmoved, back}
       THEN Unmoved
       ELSE [back |-> back, on |-> IF stays THEN Unmoved ELSE on]

Transport(form, how, tag) == [form |-> form, how |-> how, tag |-> tag]
Untouched(tag) == IF tag = Unmoved THEN Unmoved ELSE Transport("unity", Unmoved, tag)

\* wb_adaptation_ratios: the approximation where no matrix can be had.
WindowRatios(f, b, tag) ==
    CASE b.mode = "daylight" \/ Unmoved \in {b.white, f.daylight} -> Untouched(tag)
      [] ~(b.mode = "daylight" \/ Unmoved \in {b.white, f.daylight}) ->
           IF "nonpositive" \in {b.white, f.daylight} THEN Unmoved
           ELSE IF b.white = f.daylight THEN Untouched(tag)
           ELSE Transport("ratios", <<f.daylight, b.white>>, tag)

\* window_transport
WindowTransport(f, b, asset) ==
    LET matrix == WindowMatrix(f, b)
    IN IF matrix # Unmoved THEN Transport("matrix", matrix, Tag(f, asset)) ELSE WindowRatios(f, b, Tag(f, asset))

\* _compose_transport
Compose(transport, region, asset) ==
    IF transport = Unmoved THEN [region |-> region, how |-> Unmoved, ratio |-> Unmoved]
    ELSE [region |-> region, how |-> transport.how, ratio |-> DecoderRatio(transport.tag, region, asset)]

-----------------------------------------------------------------------------
WindowsFrom(takes, assets) ==
    /\ take \in takes
    /\ anchorFile \in assets
    /\ balance = AsShot(take, "camera", Unmoved)
    /\ described = Describe(take, anchorFile)
    /\ viewing = Unmoved /\ blend = Unmoved /\ installs = 0

Rebalance(mode) ==
    /\ viewing = Unmoved
    /\ balance' = BalancedTo(take, mode)
    /\ UNCHANGED <<take, anchorFile, described, viewing, blend, installs>>

\* Every render asks for its transport once.
BeginFrame ==
    /\ viewing = Unmoved
    /\ viewing' = [transport |-> WindowTransport(take, balance, anchorFile), since |-> installs, used |-> {}]
    /\ blend' = Unmoved
    /\ UNCHANGED <<take, balance, anchorFile, described, installs>>

\* A band of the picture in the window of a region, in any order and more than once.
UseWindow(region) ==
    /\ viewing # Unmoved
    /\ viewing' = [viewing EXCEPT !.used = @ \cup {Compose(viewing.transport, region, anchorFile)}]
    /\ UNCHANGED <<take, balance, anchorFile, described, blend, installs>>

\* A weight of Full is the whole of a region's matrix; more than that between them is
\* shared out.
Full == 2
Blended(weights) == [r \in DOMAIN weights |-> [part |-> weights[r], of |-> Max({Full, FoldFunction(LAMBDA a, b : a + b, 0, weights)})]]
EndFrame ==
    /\ viewing # Unmoved
    /\ {w.region : w \in viewing.used} = WindowRegions
    /\ viewing' = Unmoved
    /\ \E weights \in [WindowRegions -> 0..Full] : blend' = Blended(weights)
    /\ UNCHANGED <<take, balance, anchorFile, described, installs>>

\* From outside: another file of anchors is put in place.
InstallAnchors(asset) ==
    /\ installs < MaxInstalls /\ asset # anchorFile
    /\ anchorFile' = asset /\ installs' = installs + 1
    /\ UNCHANGED <<take, balance, described, viewing, blend>>

WindowsNext ==
    \/ \E mode \in BalanceModes : Rebalance(mode)
    \/ BeginFrame
    \/ \E region \in WindowRegions : UseWindow(region)
    \/ EndFrame
    \/ \E asset \in AnchorAssets : InstallAnchors(asset)

-----------------------------------------------------------------------------
\* The scene is moved between matrices of one convention, never through one the
\* decode did not have, and a balance that could not be had, or was borrowed, says
\* so (raw_io.py resolve_hot_wb_c0, rebalance_raw_bundle).
BalanceDeclared ==
    /\ balance.mode # balance.asked => balance.note = "degraded" /\ balance.moved = Unmoved /\ balance.white = take.white
    /\ balance.mode \in KelvinModes /\ ~take.tags /\ ~take.evidence => balance.note = "borrowed"
    /\ balance.moved # Unmoved =>
         LET sides == balance.moved.sides
         IN /\ sides.decode = sides.target \/ (sides.decode.scaled /\ sides.target.scaled)
            /\ sides.decode.matrix = "cam_xyz" => take.evidence
            /\ sides.decode.matrix = "cmatrix" => Adopted(take)
            /\ sides.decode.matrix = "identity" <=> ~take.evidence /\ (~Adopted(take) \/ "cmatrix" \in take.singular)

\* The windows a frame is rendered through are moved as its pixels were, from the
\* daylight they were calibrated in.
WindowsWithPixels ==
    viewing # Unmoved =>
      LET transport == viewing.transport
      IN IF transport = Unmoved THEN take.daylight \in {Unmoved, "nonpositive", balance.white} \/ balance.white = "nonpositive"
         ELSE
         /\ transport.form = "matrix" =>
              /\ transport.how.back.to = take.daylight
              /\ transport.how.on \in {balance.moved, Unmoved}
              /\ transport.how.on = Unmoved => balance.white = take.white
         /\ transport.form = "ratios" => transport.how = <<take.daylight, balance.white>>
         /\ transport.form = "unity" /\ take.daylight # Unmoved => balance.white = take.daylight

\* A ratio of another decoder's colours is one that was measured for this very camera
\* and decode, on frames enough, by the one profile of the file the frame began with;
\* what the decode noted agrees, and one region is seen in two ways only where
\* the file was replaced under the frame.
RatiosEarned ==
    viewing # Unmoved =>
      /\ \A w \in viewing.used : w.ratio # Unmoved =>
           \E asset \in AnchorAssets : \E i \in DOMAIN asset.profiles :
             LET entry == asset.profiles[i]
             IN /\ asset.id = viewing.transport.tag.asset /\ asset.current
                /\ entry.scope = AnchorScope(take) /\ take.lacks = {} /\ QualifiedEntry(entry)
                /\ \E record \in {entry.classes[w.region], entry.global} : MeasuredAnchor(record) /\ record.ratio = w.ratio
                /\ \A j \in DOMAIN asset.profiles \ {i} :
                     asset.profiles[j].scope = entry.scope => ~QualifiedEntry(asset.profiles[j])
                /\ described.asset = asset.id => described.status = "qualified" /\ described.profile = entry.id
      /\ \A v, w \in viewing.used : v.region = w.region /\ v # w => installs > viewing.since

\* Regions that overlap never add up to more than one matrix, and one alone keeps its weight.
RegionsShared ==
    blend # Unmoved =>
      /\ \A r \in DOMAIN blend : FoldFunction(LAMBDA s, sum : s.part + sum, 0, blend) <= blend[r].of
      /\ \A r \in DOMAIN blend : (\A q \in DOMAIN blend \ {r} : blend[q].part = 0) => blend[r].of = Full

WindowsFollowPixels == BalanceDeclared /\ WindowsWithPixels /\ RatiosEarned /\ RegionsShared
-----------------------------------------------------------------------------
(* The tool that measures anchors

   tools/calibrate_raw9_anchors.py: measures how another decoder's colours lie
   beside LibRaw's on photographs of flat targets and, as a separate command,
   puts the profile into the file of anchors.  The photographs may be replaced,
   and put back, at any moment; the report lies on disk between the two
   commands.  A file is its contents and its generation, which
   source_metadata_session sees change. *)

CONSTANTS
    Plates,        \* manifests, with what a decode of their photographs would show
    Restless,      \* photographs that may be replaced
    MaxTouches     \* bound: replacements

ASSUME TouchAssumption == MaxTouches \in Nat

VARIABLES
    plate,       \* the manifest measured
    photos,      \* [sha, generation] of every photograph
    bench,       \* [at, inputs, samples, fixed]: the measurement under way
    candidate,   \* the report on disk, or Unmoved
    waiting,     \* the file of anchors an installation has read and will replace, or Unmoved
    touches

plateVars == <<plate, photos, bench, candidate, waiting, touches>>

Photographs(p) == {p.frames[i].path : i \in DOMAIN p.frames}
ClearBench == [at |-> "manifest", inputs |-> <<>>, samples |-> <<>>, fixed |-> <<>>]

PlatesFrom(plates) ==
    /\ plate \in plates
    /\ photos = [path \in Photographs(plate) |-> [sha |-> path, generation |-> 0]]
    /\ bench = ClearBench /\ candidate = Unmoved /\ waiting = Unmoved /\ touches = 0

-----------------------------------------------------------------------------
(* Measurement *)

\* A mutant: a photograph is what it was if its contents are.
SameContents(i) == photos[plate.frames[i].path].sha = bench.samples[i].sha

\* The photograph at work; its session, once opened, is still its own.
CurrentPhoto == plate.frames[Len(bench.inputs) + 1]
Steady(i) == photos[plate.frames[i].path].generation = bench.fixed[i]
CurrentSteady == Steady(Len(bench.fixed))

\* Whatever fails, measure_candidate reports it and no profile.
AnchorReport(status, profile, seal) == [status |-> status, profile |-> profile, seal |-> seal]
GiveUp ==
    /\ bench' = [bench EXCEPT !.at = "done"]
    /\ candidate' = AnchorReport("unmeasured", Unmoved, Unmoved)

ReadManifest ==
    /\ bench.at = "manifest"
    /\ IF plate.verified /\ Len(plate.frames) >= 4
       THEN bench' = [bench EXCEPT !.at = "hash"] /\ UNCHANGED candidate
       ELSE GiveUp
    /\ UNCHANGED <<plate, photos, waiting, touches>>

\* The contents count once, and are those the manifest declares if it does.
HashPhoto ==
    LET photo == photos[CurrentPhoto.path]
    IN /\ bench.at = "hash"
       /\ IF \/ \E i \in DOMAIN bench.inputs : bench.inputs[i].sha = photo.sha
             \/ CurrentPhoto.declared \notin {Unmoved, photo.sha}
          THEN GiveUp
          ELSE /\ bench' = [bench EXCEPT !.at = "libraw", !.fixed = Append(@, photo.generation),
                                         !.samples = Append(@, [sha |-> photo.sha, seen |-> <<>>])]
               /\ UNCHANGED candidate
       /\ UNCHANGED <<plate, photos, waiting, touches>>

\* Each decoder reads the file itself.
LoadPhoto(decoder, next) ==
    /\ bench.at = decoder
    /\ bench' = [bench EXCEPT !.at = next, !.samples[Len(bench.samples)].seen = Append(@, photos[CurrentPhoto.path].sha)]
    /\ UNCHANGED <<plate, photos, candidate, waiting, touches>>

\* Neither may have fallen back, lost the balance or have anything lost, and the second
\* says itself what it read.
QualifyDecode(loaded, decoder, next) ==
    LET sample == bench.samples[Len(bench.samples)]
    IN /\ bench.at = loaded
       /\ IF /\ CurrentSteady
             /\ CurrentPhoto.shows[decoder] = "pixels"
             /\ decoder = "coreimage" => Last(sample.seen) = sample.sha
          THEN bench' = [bench EXCEPT !.at = next] /\ UNCHANGED candidate
          ELSE GiveUp
       /\ UNCHANGED <<plate, photos, waiting, touches>>

\* One camera and one configuration, targets that are flat in both, then the next.
SamplePhoto ==
    /\ bench.at = "rois"
    /\ IF CurrentSteady /\ CurrentPhoto.scope = plate.frames[1].scope /\ CurrentPhoto.scope # Unmoved /\ CurrentPhoto.flat
       THEN /\ bench' = [bench EXCEPT
                 !.inputs = Append(@, [sha |-> bench.samples[Len(bench.samples)].sha, split |-> CurrentPhoto.split]),
                 !.at = IF Len(bench.inputs) + 1 = Len(plate.frames) THEN "fit" ELSE "hash"]
            /\ UNCHANGED candidate
       ELSE GiveUp
    /\ UNCHANGED <<plate, photos, waiting, touches>>

\* _fit_transport on the photographs near a class of colours, or on all of them.
Fit(near) ==
    LET frames == [s \in Splits |-> Cardinality({bench.inputs[i].sha : i \in {i \in near : bench.inputs[i].split = s}})]
        ratio == plate.ratio
        agreed == ratio \in 65..130 /\ plate.error <= 3
    IN [qualified |-> agreed /\ \A s \in Splits : frames[s] >= 2,
        frames |-> frames, median |-> plate.error, p95 |-> plate.error, ratio |-> ratio]

MeasuredProfile ==
    LET global == Fit(DOMAIN bench.inputs)
        classes == [r \in WindowRegions |-> Fit({i \in DOMAIN bench.inputs : r \in plate.frames[i].near})]
        qualified == global.qualified \/ \E r \in WindowRegions : classes[r].qualified
    IN [id |-> "measured", qualified |-> qualified, passed |-> qualified, inputs |-> bench.inputs,
        global |-> global, classes |-> classes, scope |-> plate.frames[1].scope]

\* Before it is reported every photograph is looked at once more, session and contents.
FitPhotos ==
    /\ bench.at = "fit"
    /\ IF \A i \in DOMAIN plate.frames : Steady(i) /\ photos[plate.frames[i].path].sha = bench.inputs[i].sha
       THEN /\ bench' = [bench EXCEPT !.at = "done"]
            /\ candidate' = AnchorReport(IF MeasuredProfile.qualified THEN "qualified-candidate" ELSE "unmeasured", MeasuredProfile, MeasuredProfile)
       ELSE GiveUp
    /\ UNCHANGED <<plate, photos, waiting, touches>>

-----------------------------------------------------------------------------
(* Installation *)

\* install_candidate: the profile is the sealed one, and every photograph still is what
\* was measured; an asset of another schema is left alone, an absent one begun.
Whole(asset) == asset.current \/ asset.profiles = <<>>
VerifyCandidate ==
    /\ candidate # Unmoved /\ waiting = Unmoved
    /\ candidate.status = "qualified-candidate"
    /\ QualifiedEntry(candidate.profile) /\ candidate.profile.scope # Unmoved
    /\ candidate.seal = candidate.profile
    /\ Len(candidate.profile.inputs) = Len(plate.frames)
    /\ \A i \in DOMAIN plate.frames : photos[plate.frames[i].path].sha = candidate.profile.inputs[i].sha
    /\ Whole(anchorFile)
    /\ waiting' = anchorFile
    /\ UNCHANGED <<plate, photos, bench, candidate, touches, windowVars>>

\* Others of its scope make way for it.
CommitAnchors ==
    /\ waiting # Unmoved
    /\ anchorFile' =
         [id |-> "installed", current |-> TRUE,
          profiles |-> Append(SelectSeq(waiting.profiles, LAMBDA e : e.scope # candidate.profile.scope), candidate.profile)]
    /\ waiting' = Unmoved
    /\ UNCHANGED <<plate, photos, bench, candidate, touches, take, balance, described, viewing, blend, installs>>

-----------------------------------------------------------------------------
(* From outside *)

\* A photograph is replaced, or put back, or becomes a copy of another.
TouchPhoto(path) ==
    /\ touches < MaxTouches
    /\ \E sha \in {path, "new"} \cup {plate.frames[2].path} :
         /\ sha # photos[path].sha
         /\ photos' = [photos EXCEPT ![path] = [sha |-> sha, generation |-> @.generation + 1]]
    /\ touches' = touches + 1
    /\ UNCHANGED <<plate, bench, candidate, waiting>>

\* The report on disk is edited.
EditReport ==
    /\ candidate # Unmoved /\ candidate.profile # Unmoved /\ waiting = Unmoved
    /\ candidate' = [candidate EXCEPT !.profile.global = [@ EXCEPT !.ratio = 77]]
    /\ UNCHANGED <<plate, photos, bench, waiting, touches>>

PlatesNext ==
    \/ VerifyCandidate
    \/ CommitAnchors
    \/ \E asset \in AnchorAssets : InstallAnchors(asset) /\ UNCHANGED plateVars
    \/ /\ \/ ReadManifest
          \/ HashPhoto
          \/ LoadPhoto("libraw", "libraw loaded")
          \/ QualifyDecode("libraw loaded", "libraw", "coreimage")
          \/ LoadPhoto("coreimage", "coreimage loaded")
          \/ QualifyDecode("coreimage loaded", "coreimage", "rois")
          \/ SamplePhoto
          \/ FitPhotos
          \/ \E path \in Restless \cap Photographs(plate) : TouchPhoto(path)
          \/ EditReport
       /\ UNCHANGED windowVars

-----------------------------------------------------------------------------
\* A profile the tool installed was measured on the photographs it names, by both
\* decoders on the same bytes, two of each split and no two of them alike, of one
\* camera and decode; it is the only one of its scope, and the one that is used.
AnchorsMeasured ==
    \A i \in DOMAIN anchorFile.profiles :
      LET entry == anchorFile.profiles[i]
      IN entry.id = "measured" =>
           /\ QualifiedEntry(entry) /\ entry.global.ratio = plate.ratio
           /\ Len(entry.inputs) = Len(plate.frames)
           /\ \A k \in DOMAIN entry.inputs :
                /\ bench.samples[k].sha = entry.inputs[k].sha /\ bench.samples[k].seen = <<entry.inputs[k].sha, entry.inputs[k].sha>>
                /\ plate.frames[k].split = entry.inputs[k].split
                /\ plate.frames[k].scope = entry.scope
           /\ \A j \in DOMAIN anchorFile.profiles : anchorFile.profiles[j].scope = entry.scope => j = i
           /\ SelectAnchor(entry.scope, anchorFile) = entry
=============================================================================
