--------------------------- MODULE SceneEvidence ---------------------------
(***************************************************************************)
(* What a bundle knows about the reliability of its pixels, from the       *)
(* decode to the render: clip masks, the exclusion of what saturated       *)
(* sensels contributed to, RAW guidance and the sample plans are made of.  *)
(* The analysis resolves the full well and everything is measured again    *)
(* (raw_io.py); a proxy, its file in the disk cache and a white balance    *)
(* are made from it (preview_cache.py).                                    *)
(***************************************************************************)
EXTENDS FiniteSets

CONSTANTS
    Pixels,
    Captures,        \* [clip, exclusion, untrusted, losses, deferred]: the first three by full well
    Nothing          \* no bundle, no maps, no sample, no mask

VARIABLES
    capture,         \* the file
    analysed,        \* its full well is resolved
    bundle,          \* the decode, or what was made of it
    cached           \* the entry on disk, and what it has lost

evidenceVars == <<capture, analysed, bundle, cached>>

Wells == {"loaded", "resolved"}
ASSUME CapturesAssumption ==
    \A c \in Captures : /\ {c.clip, c.exclusion} \subseteq [Wells -> SUBSET Pixels] /\ c.losses \subseteq Pixels
                        /\ c.untrusted \in [Wells -> BOOLEAN] /\ c.deferred \in BOOLEAN
ASSUME NothingAssumption ==
    Nothing \notin [clipped : SUBSET Pixels, eligible : SUBSET Pixels, confident : SUBSET Pixels]
Unguided == [guidance |-> Nothing, measured |-> FALSE, resolved |-> FALSE, resized |-> Nothing]

-----------------------------------------------------------------------------
(* Guidance *)

\* qualify_decoder_support: pixels that saturated ones contributed to are not
\* eligible, a frame of unknown support has no confidence.
SupportQualified(b, maps) ==
    IF maps = Nothing THEN maps
    ELSE IF b.untrusted THEN [maps EXCEPT !.confident = {}]
    ELSE [maps EXCEPT !.eligible = @ \ b.exclusion]

\* build_raw_guidance_maps, with the full well the caller has.
MadeGuidance(b, well, prior) ==
    IF b.masks = Nothing THEN Nothing
    ELSE IF ~b.mosaic THEN SupportQualified(b, b.guides.guidance)
    ELSE SupportQualified(b, [clipped |-> capture.clip[well] \cup capture.losses, eligible |-> Pixels,
                       confident |-> IF prior THEN Pixels ELSE {}])

\* Mutant of Sufficient: maps of another full well do.
SufficientAnyWell(b, well, prior) ==
    /\ b.guides.guidance # Nothing
    /\ ~prior \/ b.guides.measured \/ ~b.mosaic

\* ensure_raw_guidance: what was made without the analysis is made again with it.
Sufficient(b, well, prior) ==
    /\ b.guides.guidance # Nothing
    /\ ~prior \/ b.guides.measured \/ ~b.mosaic
    /\ well = "resolved" /\ b.mosaic => b.guides.resolved
Ensured(b, well, prior) ==
    IF Sufficient(b, well, prior) THEN [b.guides EXCEPT !.guidance = SupportQualified(b, @)]
    ELSE [guidance |-> MadeGuidance(b, well, prior), measured |-> prior,
          resolved |-> well = "resolved" /\ b.mosaic, resized |-> Nothing]

\* raw_guidance_for_shape keeps the maps it resized last.
Resized(b, guides) ==
    IF guides.guidance = Nothing THEN guides
    ELSE [guides EXCEPT !.resized = SupportQualified(b, IF @ = Nothing THEN guides.guidance ELSE @)]

-----------------------------------------------------------------------------
(* The decode *)

Built(well) == capture.clip[well] \cup capture.losses

\* Masks may be left to the analysis, which follows at once.
Decode(masks) ==
    [masks |-> masks, mosaic |-> TRUE, exclusion |-> capture.exclusion["loaded"],
     untrusted |-> capture.untrusted["loaded"], sample |-> Nothing, guides |-> Unguided, white |-> "camera"]
EvidenceFrom(captures) ==
    /\ capture \in captures /\ analysed = FALSE /\ cached = Nothing
    /\ bundle = Decode(IF capture.deferred THEN Nothing ELSE Built("loaded"))
EvidenceInit == EvidenceFrom(Captures)

HasMasks == bundle.masks # Nothing

\* _refresh_source_reliability_from_fullwell
Remeasured(b) ==
    [b EXCEPT !.exclusion = capture.exclusion["resolved"], !.untrusted = capture.untrusted["resolved"],
              !.sample = Nothing, !.guides = Unguided]

\* refresh_clip_masks_from_fullwell: masks are published complete, or not at all;
\* an analysis that is repeated finds them done.
Analyse ==
    /\ ~analysed
    /\ \/ bundle' = [Remeasured(bundle) EXCEPT !.masks = Built("resolved")] /\ analysed' = TRUE
       \/ bundle' = Remeasured(bundle) /\ UNCHANGED analysed
    /\ UNCHANGED <<capture, cached>>

\* A plan, a render or a probe asks for guidance, with or without the analysis.
Guide ==
    /\ HasMasks
    /\ \E well \in IF analysed THEN Wells ELSE {"loaded"}, prior \in BOOLEAN, resize \in BOOLEAN :
         LET guides == Ensured(bundle, well, prior)
         IN  bundle' = [bundle EXCEPT !.guides = IF resize THEN Resized(bundle, guides) ELSE guides]
    /\ UNCHANGED <<capture, analysed, cached>>

-----------------------------------------------------------------------------
(* What is made from it *)

\* Rows of the scene, with the same rows of its masks and of its exclusion.
Sample(b) == [masks |-> b.masks, exclusion |-> b.exclusion, white |-> b.white]

\* build_proxy_entry: the mosaic is left behind, the sample is that of the decode.
Compact(b, guidance) ==
    [b EXCEPT !.mosaic = FALSE, !.sample = Sample(b),
              !.guides = [Unguided EXCEPT !.guidance = guidance, !.measured = guidance # Nothing /\ guidance.confident # {}]]
MakeProxy ==
    /\ analysed /\ bundle.mosaic
    /\ \E guided \in BOOLEAN, prior \in BOOLEAN :
         LET guides == Resized(bundle, Ensured(bundle, "resolved", prior))
             proxy == Compact(bundle, IF guided THEN guides.resized ELSE Nothing)
         IN  bundle' = [proxy EXCEPT !.guides.guidance = SupportQualified(proxy, @)]
    /\ UNCHANGED <<capture, analysed, cached>>

\* The arrays of an entry, beside its metadata.
Arrays == {"exclusion", "sample", "sample masks", "sample exclusion", "eligibility"}
WriteEntry ==
    /\ ~bundle.mosaic /\ bundle.white = "camera" /\ bundle.sample # Nothing
    /\ cached' = [entry |-> bundle, lost |-> {}]
    /\ UNCHANGED <<capture, analysed, bundle>>
DamageEntry ==
    /\ cached # Nothing
    /\ \E array \in Arrays : cached' = [cached EXCEPT !.lost = @ \cup {array}]
    /\ UNCHANGED <<capture, analysed, bundle>>

\* Mutant of Readable: an exclusion that is missing is none.
ReadableIfAny(entry, lost) == "eligibility" \notin lost \/ entry.guides.guidance = Nothing

\* _read_disk_entry: what is missing is not taken for what there is none of,
\* except the masks of the sample, whose presence is noted nowhere.
Readable(entry, lost) ==
    /\ lost \cap {"exclusion", "sample exclusion"} # {} => entry.exclusion = {}
    /\ "sample" \in lost => entry.exclusion = {}
    /\ "eligibility" \in lost => entry.guides.guidance = Nothing \/ entry.guides.guidance.eligible = Pixels
LeftRows(sample, lost) ==
    [sample EXCEPT !.exclusion = IF "sample exclusion" \in lost THEN {} ELSE @,
                   !.masks = IF "sample masks" \in lost THEN Nothing ELSE @]
Left(entry, lost) ==
    [entry EXCEPT !.exclusion = IF "exclusion" \in lost THEN {} ELSE @,
                  !.sample = IF "sample" \in lost THEN Nothing ELSE LeftRows(@, lost)]
ReadEntry ==
    /\ cached # Nothing
    /\ IF Readable(cached.entry, cached.lost)
         THEN bundle' = Left(cached.entry, cached.lost) /\ UNCHANGED cached
         ELSE cached' = Nothing /\ UNCHANGED bundle
    /\ UNCHANGED <<capture, analysed>>

\* Mutant of Rebalanced: the sample keeps the white of the camera.
RebalancedScene(b) == [b EXCEPT !.white = "declared", !.guides.resized = Nothing]

\* rebalance_raw_bundle: the sample is part of the scene, the evidence is not.
Rebalanced(b) ==
    [b EXCEPT !.white = "declared", !.guides.resized = Nothing,
              !.sample = IF @ = Nothing THEN @ ELSE [@ EXCEPT !.white = "declared"]]
Balance ==
    /\ analysed /\ bundle.white = "camera"
    /\ bundle' = Rebalanced(bundle)
    /\ UNCHANGED <<capture, analysed, cached>>

EvidenceNext ==
    \/ Analyse \/ Guide \/ MakeProxy \/ WriteEntry \/ DamageEntry \/ ReadEntry \/ Balance
EvidenceSpec == EvidenceInit /\ [][EvidenceNext]_evidenceVars

-----------------------------------------------------------------------------
\* A sample without masks, as that of a decode without masks is.
Unmasked(b) == b.sample # Nothing /\ b.sample.masks = Nothing

\* reliable_scene_ev_selection: the pixels a plan is made for.
Reliable(b) ==
    IF b.untrusted THEN {}
    ELSE IF Unmasked(b) THEN Pixels \ b.sample.exclusion
    ELSE IF b.sample # Nothing THEN Pixels \ (b.sample.masks \cup b.sample.exclusion)
    ELSE Pixels \ (b.masks \cup b.exclusion)

\* "A missing/malformed exclusion must invalidate the cache, never turn unknown
\* sample dependencies into reliable ones" (preview_cache.py): on whichever way a
\* bundle was made, no plan is made for a pixel that was made of one that clipped,
\* at the full well that is known, nor for one that clipped itself; guidance that
\* is asked for with the analysis was measured with it, and calls no such pixel
\* eligible. An entry that lost the masks of its sample is read all the same, as
\* that of a capture that had none: only its exclusion is claimed then.
EvidenceFollows ==
    LET guidance == Resized(bundle, Ensured(bundle, "resolved", FALSE)).resized
        unreliable == IF capture.untrusted["resolved"] THEN Pixels
                      ELSE capture.exclusion["resolved"] \cup (IF Unmasked(bundle) THEN {} ELSE Built("resolved"))
    IN  analysed =>
          /\ Reliable(bundle) \cap unreliable = {}
          /\ bundle.sample # Nothing => bundle.sample.white = bundle.white
          /\ guidance # Nothing =>
               /\ guidance.clipped = Built("resolved")
               /\ IF capture.untrusted["resolved"] THEN guidance.confident = {}
                  ELSE guidance.eligible \cap capture.exclusion["resolved"] = {}
=============================================================================
