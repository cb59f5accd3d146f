--------------------------- MODULE Picture_proofs ---------------------------
(***************************************************************************)
(* Proofs about the parts of MCLibrary that make a picture of a file:      *)
(* SceneEvidence, for any scene of any number of pixels; ExposureSearch,   *)
(* for any number of steps, halvings and candidates; CorrectedDecode, for  *)
(* any corrections of a DNG and any calls; RawLoad, for any requests and   *)
(* offers and any number of replaced files; FrameAnalysis, for any         *)
(* recordings; BandedRender, for frames, chunks and groups of any size;    *)
(* FrameGeometry, for sensors and crops of any size.                       *)
(***************************************************************************)
EXTENDS SceneEvidence, ExposureSearch, CorrectedDecode, RawLoad, FrameAnalysis, BandedRender, FrameGeometry,
        WellFoundedInduction, FiniteSetTheorems, SequenceTheorems, TLAPS

-----------------------------------------------------------------------------
(* Evidence of a scene

   From the analysis on a bundle carries the masks and the exclusion of the full well
   that was resolved, whatever is made of it; guidance it carries was measured with that
   well, or is known to have to be measured again. *)

WhiteChoices == {"camera", "declared"}
GuidanceMaps == [clipped : SUBSET Pixels, eligible : SUBSET Pixels, confident : SUBSET Pixels]
MapsOrNothing == GuidanceMaps \cup {Nothing}
Guides == [guidance : MapsOrNothing, measured : BOOLEAN, resolved : BOOLEAN, resized : MapsOrNothing]
Samples == [masks : (SUBSET Pixels) \cup {Nothing}, exclusion : SUBSET Pixels, white : WhiteChoices]
Bundles ==
    [masks : (SUBSET Pixels) \cup {Nothing}, mosaic : BOOLEAN, exclusion : SUBSET Pixels, untrusted : BOOLEAN,
     sample : Samples \cup {Nothing}, guides : Guides, white : WhiteChoices]

\* Maps of the full well that was resolved, where they claim to be.
MapsHold(b, guides) ==
    (b.mosaic => guides.resolved) =>
        \A maps \in {guides.guidance, guides.resized} : maps # Nothing => maps.clipped = Built("resolved")

EvidenceOf(b) ==
    /\ b.masks = Built("resolved")
    /\ b.exclusion = capture.exclusion["resolved"] /\ b.untrusted = capture.untrusted["resolved"]
    /\ b.sample # Nothing =>
         /\ b.sample.masks \in {b.masks, Nothing} /\ b.sample.exclusion = b.exclusion /\ b.sample.white = b.white

EvidenceInv ==
    /\ capture \in Captures /\ analysed \in BOOLEAN /\ bundle \in Bundles /\ MapsHold(bundle, bundle.guides)
    /\ ~analysed => bundle.mosaic /\ cached = Nothing
    /\ analysed => EvidenceOf(bundle)
    /\ cached # Nothing =>
         cached \in [entry : Bundles, lost : SUBSET Arrays] /\ EvidenceOf(cached.entry)
         /\ MapsHold(cached.entry, cached.entry.guides) /\ ~cached.entry.mosaic /\ analysed
         /\ cached.entry.sample # Nothing

\* A capture's pixels.
LEMMA CaptureFacts ==
    ASSUME capture \in Captures
    PROVE  /\ \A well \in Wells : /\ Built(well) \in SUBSET Pixels /\ capture.exclusion[well] \in SUBSET Pixels
                                  /\ capture.untrusted[well] \in BOOLEAN
           /\ capture.losses \subseteq Pixels
BY CapturesAssumption DEF Built

\* Qualifying maps takes pixels from what they recommend, never from what they report.
LEMMA QualifiedFacts ==
    ASSUME NEW b \in Bundles, NEW maps \in MapsOrNothing
    PROVE  /\ SupportQualified(b, maps) \in MapsOrNothing
           /\ maps = Nothing => SupportQualified(b, maps) = Nothing
           /\ maps # Nothing =>
                /\ SupportQualified(b, maps) # Nothing
                /\ SupportQualified(b, maps).clipped = maps.clipped
                /\ b.untrusted => SupportQualified(b, maps).confident = {}
                /\ ~b.untrusted => SupportQualified(b, maps).eligible \cap b.exclusion = {}
BY NothingAssumption DEF SupportQualified, MapsOrNothing, GuidanceMaps, Bundles

\* Guidance that is ensured holds; with the resolved well it claims as much.
LEMMA EnsuredFacts ==
    ASSUME capture \in Captures, NEW b \in Bundles, NEW well \in Wells, NEW modelled \in BOOLEAN, MapsHold(b, b.guides)
    PROVE  /\ Ensured(b, well, modelled) \in Guides /\ MapsHold(b, Ensured(b, well, modelled))
           /\ well = "resolved" /\ b.mosaic => Ensured(b, well, modelled).resolved
           /\ Ensured(b, well, modelled).guidance = Nothing => Ensured(b, well, modelled).resized = Nothing
<1>0. b.guides \in Guides /\ b.guides.guidance \in MapsOrNothing /\ b.guides.resized \in MapsOrNothing
  BY DEF Bundles, Guides
<1>1. CASE Sufficient(b, well, modelled)
  <2>1. Ensured(b, well, modelled) = [b.guides EXCEPT !.guidance = SupportQualified(b, b.guides.guidance)]
    BY <1>1 DEF Ensured
  <2>2. /\ SupportQualified(b, b.guides.guidance) \in MapsOrNothing
        /\ SupportQualified(b, b.guides.guidance) # Nothing
        /\ SupportQualified(b, b.guides.guidance).clipped = b.guides.guidance.clipped
    BY <1>0, <1>1, QualifiedFacts DEF Sufficient
  <2>3. /\ Ensured(b, well, modelled) \in Guides
        /\ Ensured(b, well, modelled).guidance = SupportQualified(b, b.guides.guidance)
        /\ Ensured(b, well, modelled).resized = b.guides.resized
        /\ Ensured(b, well, modelled).resolved = b.guides.resolved
    BY <1>0, <2>1, <2>2 DEF Guides
  <2>4. b.guides.guidance # Nothing /\ (well = "resolved" /\ b.mosaic => b.guides.resolved)
    BY <1>1 DEF Sufficient
  <2> QED
    BY <2>2, <2>3, <2>4 DEF MapsHold
<1>2. CASE ~Sufficient(b, well, modelled)
  <2> DEFINE made == MadeGuidance(b, well, modelled)
             fresh == [clipped |-> Built(well), eligible |-> Pixels, confident |-> IF modelled THEN Pixels ELSE {}]
  <2>1. /\ Ensured(b, well, modelled) = [guidance |-> made, measured |-> modelled,
                                      resolved |-> (well = "resolved" /\ b.mosaic), resized |-> Nothing]
    BY <1>2 DEF Ensured
  <2>2. fresh \in GuidanceMaps /\ fresh.clipped = Built(well) /\ fresh # Nothing
    BY CaptureFacts, NothingAssumption DEF GuidanceMaps
  <2>3. made \in MapsOrNothing /\ ((b.mosaic => well = "resolved") /\ made # Nothing => made.clipped = Built("resolved"))
    <3>1. CASE b.masks = Nothing
      BY <3>1 DEF MadeGuidance, MapsOrNothing
    <3>2. CASE b.masks # Nothing /\ ~b.mosaic
      <4>1. made = SupportQualified(b, b.guides.guidance)
        BY <3>2 DEF MadeGuidance
      <4> QED
        BY <1>0, <3>2, <4>1, QualifiedFacts DEF MapsHold
    <3>3. CASE b.masks # Nothing /\ b.mosaic
      <4>1. made = SupportQualified(b, fresh)
        BY <3>3 DEF MadeGuidance, Built
      <4> QED
        BY <2>2, <3>3, <4>1, QualifiedFacts DEF MapsOrNothing
    <3> QED
      BY <3>1, <3>2, <3>3
  <2> HIDE DEF made, fresh
  <2>4. b.mosaic \in BOOLEAN /\ Nothing \in MapsOrNothing
    BY DEF Bundles, MapsOrNothing
  <2> DEFINE guides == Ensured(b, well, modelled)
  <2>5. /\ guides \in Guides /\ guides.guidance = made /\ guides.resized = Nothing
        /\ guides.resolved = (well = "resolved" /\ b.mosaic)
    BY <2>1, <2>3, <2>4 DEF Guides
  <2> HIDE DEF guides
  <2>6. MapsHold(b, guides)
    BY <2>3, <2>4, <2>5 DEF MapsHold
  <2> QED
    BY <2>5, <2>6 DEF guides
<1> QED
  BY <1>1, <1>2

\* Resizing keeps what holds, and qualifies what it hands out.
LEMMA ResizedFacts ==
    ASSUME capture \in Captures, NEW b \in Bundles, NEW guides \in Guides, MapsHold(b, guides)
    PROVE  /\ Resized(b, guides) \in Guides /\ MapsHold(b, Resized(b, guides))
           /\ Resized(b, guides).resolved = guides.resolved
           /\ guides.guidance # Nothing =>
                /\ Resized(b, guides).resized # Nothing
                /\ b.untrusted => Resized(b, guides).resized.confident = {}
                /\ ~b.untrusted => Resized(b, guides).resized.eligible \cap b.exclusion = {}
           /\ guides.guidance = Nothing => Resized(b, guides).resized = guides.resized
<1>1. CASE guides.guidance = Nothing
  BY <1>1 DEF Resized
<1>2. CASE guides.guidance # Nothing
  <2> DEFINE old == IF guides.resized = Nothing THEN guides.guidance ELSE guides.resized
             new == SupportQualified(b, old)
  <2>1. old \in MapsOrNothing /\ old # Nothing /\ old \in {guides.guidance, guides.resized}
    BY <1>2 DEF Guides
  <2>2. /\ new \in MapsOrNothing /\ new # Nothing /\ new.clipped = old.clipped
        /\ b.untrusted => new.confident = {}
        /\ ~b.untrusted => new.eligible \cap b.exclusion = {}
    BY <2>1, QualifiedFacts
  <2>3. Resized(b, guides) = [guides EXCEPT !.resized = new]
    BY <1>2 DEF Resized
  <2> HIDE DEF new, old
  <2>4. /\ Resized(b, guides) \in Guides /\ Resized(b, guides).resized = new
        /\ Resized(b, guides).guidance = guides.guidance /\ Resized(b, guides).resolved = guides.resolved
    BY <2>2, <2>3 DEF Guides
  <2> QED
    BY <1>2, <2>1, <2>2, <2>4 DEF MapsHold
<1> QED
  BY <1>1, <1>2

\* Guidance that is not there claims nothing.
LEMMA UnguidedHolds ==
    ASSUME NEW b, b.guides = Unguided
    PROVE  Unguided \in Guides /\ MapsHold(b, b.guides)
BY DEF Unguided, Guides, MapsOrNothing, MapsHold

\* What a bundle looks like after its masks were made again.
LEMMA RemeasuredFacts ==
    ASSUME capture \in Captures, NEW b \in Bundles
    PROVE  /\ Remeasured(b) \in Bundles /\ Remeasured(b).mosaic = b.mosaic
           /\ [Remeasured(b) EXCEPT !.masks = Built("resolved")] \in Bundles
           /\ EvidenceOf([Remeasured(b) EXCEPT !.masks = Built("resolved")])
           /\ Remeasured(b).guides = Unguided
           /\ [Remeasured(b) EXCEPT !.masks = Built("resolved")].guides = Unguided
<1> DEFINE done == [Remeasured(b) EXCEPT !.masks = Built("resolved")]
<1>1. Unguided \in Guides /\ Unguided.guidance = Nothing /\ Unguided.resized = Nothing
  BY DEF Unguided, Guides, MapsOrNothing
<1>2. Remeasured(b) \in Bundles /\ Remeasured(b).mosaic = b.mosaic
  BY <1>1, CaptureFacts DEF Remeasured, Bundles, Wells
<1>3. /\ Remeasured(b).exclusion = capture.exclusion["resolved"]
      /\ Remeasured(b).untrusted = capture.untrusted["resolved"]
      /\ Remeasured(b).sample = Nothing /\ Remeasured(b).guides = Unguided
  BY <1>1, CaptureFacts DEF Remeasured, Bundles, Wells
<1> HIDE DEF done
<1>4. /\ done \in Bundles /\ done.masks = Built("resolved")
      /\ done.exclusion = Remeasured(b).exclusion /\ done.untrusted = Remeasured(b).untrusted
      /\ done.sample = Remeasured(b).sample /\ done.guides = Remeasured(b).guides
  BY <1>2, CaptureFacts DEF done, Bundles, Wells
<1>5. EvidenceOf(done)
  BY <1>1, <1>3, <1>4 DEF EvidenceOf
<1> QED
  BY <1>2, <1>3, <1>4, <1>5 DEF done

\* A decode has measured nothing yet.
LEMMA EvidenceStart == EvidenceInit => EvidenceInv
<1> SUFFICES ASSUME EvidenceInit PROVE EvidenceInv
  OBVIOUS
<1>1. capture \in Captures /\ analysed = FALSE /\ cached = Nothing
  BY DEF EvidenceInit, EvidenceFrom
<1>2. Unguided \in Guides
  BY DEF Unguided, Guides, MapsOrNothing
<1>3. bundle \in Bundles /\ bundle.mosaic
  BY <1>1, <1>2, CaptureFacts DEF EvidenceInit, EvidenceFrom, Decode, Bundles, Wells, WhiteChoices
<1>4. MapsHold(bundle, bundle.guides)
  BY UnguidedHolds DEF EvidenceInit, EvidenceFrom, Decode
<1> QED
  BY <1>1, <1>3, <1>4 DEF EvidenceInv

\* The analysis, and guidance for whoever asks.
LEMMA MeasureKeeps == EvidenceInv /\ (Analyse \/ Guide) => EvidenceInv'
<1>1. ASSUME EvidenceInv, Analyse PROVE EvidenceInv'
  <2>0. capture' = capture /\ cached' = cached /\ ~analysed /\ bundle \in Bundles /\ capture \in Captures /\ cached = Nothing
    BY <1>1 DEF EvidenceInv, Analyse
  <2>1. CASE bundle' = [Remeasured(bundle) EXCEPT !.masks = Built("resolved")] /\ analysed' = TRUE
    <3>1. bundle' \in Bundles /\ EvidenceOf([Remeasured(bundle) EXCEPT !.masks = Built("resolved")])
      BY <2>0, <2>1, RemeasuredFacts
    <3>2. EvidenceOf(bundle)'
      BY <2>0, <2>1, <3>1 DEF EvidenceOf, MapsHold, Built
    <3>3. MapsHold(bundle, bundle.guides)'
      <4>1. bundle'.guides = Unguided
        BY <2>0, <2>1, RemeasuredFacts
      <4> QED
        BY <4>1 DEF MapsHold, Unguided
    <3> QED
      BY <2>0, <2>1, <3>1, <3>2, <3>3 DEF EvidenceInv
  <2>2. CASE bundle' = Remeasured(bundle) /\ UNCHANGED analysed
    <3>1. bundle' \in Bundles /\ bundle'.mosaic /\ bundle'.guides = Unguided
      BY <1>1, <2>0, <2>2, RemeasuredFacts DEF EvidenceInv
    <3>2. MapsHold(bundle, bundle.guides)'
      BY <3>1 DEF MapsHold, Unguided
    <3> QED
      BY <1>1, <2>0, <2>2, <3>1, <3>2 DEF EvidenceInv
  <2> QED
    BY <1>1, <2>1, <2>2 DEF Analyse
<1>2. ASSUME EvidenceInv, Guide PROVE EvidenceInv'
  <2>0. UNCHANGED <<capture, analysed, cached>> /\ bundle \in Bundles /\ capture \in Captures
    BY <1>2 DEF EvidenceInv, Guide
  <2>1. PICK well \in Wells, modelled \in BOOLEAN, resize \in BOOLEAN :
          /\ analysed \/ well = "loaded"
          /\ bundle' = [bundle EXCEPT !.guides = IF resize THEN Resized(bundle, Ensured(bundle, well, modelled))
                                                          ELSE Ensured(bundle, well, modelled)]
    BY <1>2 DEF Guide, Wells
  <2> DEFINE guides == IF resize THEN Resized(bundle, Ensured(bundle, well, modelled)) ELSE Ensured(bundle, well, modelled)
  <2>2. guides \in Guides /\ MapsHold(bundle, guides)
    BY <1>2, <2>0, EnsuredFacts, ResizedFacts DEF EvidenceInv
  <2>3. bundle' = [bundle EXCEPT !.guides = guides]
    BY <2>1
  <2> HIDE DEF guides
  <2>4. /\ bundle' \in Bundles /\ bundle'.guides = guides /\ bundle'.mosaic = bundle.mosaic
        /\ bundle'.masks = bundle.masks /\ bundle'.exclusion = bundle.exclusion /\ bundle'.white = bundle.white
        /\ bundle'.untrusted = bundle.untrusted /\ bundle'.sample = bundle.sample
    BY <2>0, <2>2, <2>3 DEF Bundles
  <2>5. MapsHold(bundle, bundle.guides)'
    BY <2>0, <2>2, <2>4 DEF MapsHold, Built
  <2>6. analysed => EvidenceOf(bundle)'
    BY <1>2, <2>0, <2>4 DEF EvidenceInv, EvidenceOf, Built
  <2>7. cached # Nothing => (EvidenceOf(cached.entry) /\ MapsHold(cached.entry, cached.entry.guides))'
    BY <1>2, <2>0 DEF EvidenceInv, EvidenceOf, MapsHold, Built
  <2> QED
    BY <1>2, <2>0, <2>4, <2>5, <2>6, <2>7 DEF EvidenceInv
<1> QED
  BY <1>1, <1>2

\* A proxy, and what is balanced, written and read again.
LEMMA MadeKeeps == EvidenceInv /\ (MakeProxy \/ Balance \/ WriteEntry \/ DamageEntry) => EvidenceInv'
<1>1. ASSUME EvidenceInv, MakeProxy PROVE EvidenceInv'
  <2>0. /\ UNCHANGED <<capture, analysed, cached>> /\ bundle \in Bundles /\ capture \in Captures
        /\ analysed /\ bundle.mosaic /\ MapsHold(bundle, bundle.guides) /\ EvidenceOf(bundle)
    BY <1>1 DEF EvidenceInv, MakeProxy
  <2>1. PICK guided \in BOOLEAN, modelled \in BOOLEAN :
          LET guides == Resized(bundle, Ensured(bundle, "resolved", modelled))
              proxy == Compact(bundle, IF guided THEN guides.resized ELSE Nothing)
          IN  bundle' = [proxy EXCEPT !.guides.guidance = SupportQualified(proxy, @)]
    BY <1>1 DEF MakeProxy
  <2> DEFINE guides == Resized(bundle, Ensured(bundle, "resolved", modelled))
             maps == IF guided THEN guides.resized ELSE Nothing
             proxy == Compact(bundle, maps)
             qualified == SupportQualified(proxy, maps)
  <2>2. /\ Ensured(bundle, "resolved", modelled) \in Guides
        /\ MapsHold(bundle, Ensured(bundle, "resolved", modelled)) /\ Ensured(bundle, "resolved", modelled).resolved
    BY <2>0, EnsuredFacts DEF Wells
  <2>3. guides \in Guides /\ MapsHold(bundle, guides) /\ guides.resolved
    BY <2>0, <2>2, ResizedFacts
  <2>4. maps \in MapsOrNothing /\ (maps # Nothing => maps.clipped = Built("resolved"))
    BY <2>3 DEF MapsHold, Guides, MapsOrNothing
  <2> HIDE DEF maps, guides
  <2>5. Sample(bundle) \in Samples
    BY <2>0 DEF Sample, Samples, Bundles
  <2> DEFINE left == [Unguided EXCEPT !.guidance = maps, !.measured = maps # Nothing /\ maps.confident # {}]
  <2>6. left \in Guides /\ left.guidance = maps /\ left.resized = Nothing
    BY <2>4 DEF Unguided, Guides, MapsOrNothing
  <2>7. proxy = [bundle EXCEPT !.mosaic = FALSE, !.sample = Sample(bundle), !.guides = left]
    BY DEF Compact
  <2> HIDE DEF proxy, left
  <2>8. /\ proxy \in Bundles /\ proxy.mosaic = FALSE /\ proxy.sample = Sample(bundle) /\ proxy.guides = left
        /\ proxy.masks = bundle.masks /\ proxy.exclusion = bundle.exclusion /\ proxy.white = bundle.white
        /\ proxy.untrusted = bundle.untrusted
    BY <2>0, <2>5, <2>6, <2>7 DEF Bundles
  <2>9. qualified \in MapsOrNothing /\ (qualified # Nothing => qualified.clipped = Built("resolved"))
    BY <2>4, <2>8, QualifiedFacts
  <2>10. bundle' = [proxy EXCEPT !.guides.guidance = qualified]
    <3>1. proxy.guides.guidance = maps
      BY <2>6, <2>8
    <3> QED
      BY <2>1, <3>1 DEF proxy, maps, guides
  <2> HIDE DEF qualified
  <2>11. bundle' = [proxy EXCEPT !.guides = [left EXCEPT !.guidance = qualified]]
    BY <2>8, <2>10
  <2>12. /\ [left EXCEPT !.guidance = qualified] \in Guides
         /\ [left EXCEPT !.guidance = qualified].guidance = qualified
         /\ [left EXCEPT !.guidance = qualified].resized = Nothing
    BY <2>6, <2>9 DEF Guides
  <2>13. /\ bundle' \in Bundles /\ bundle'.guides = [left EXCEPT !.guidance = qualified]
         /\ bundle'.masks = bundle.masks /\ bundle'.exclusion = bundle.exclusion /\ bundle'.white = bundle.white
         /\ bundle'.untrusted = bundle.untrusted /\ bundle'.sample = Sample(bundle)
    BY <2>8, <2>11, <2>12 DEF Bundles
  <2>14. MapsHold(bundle, bundle.guides)'
    BY <2>0, <2>9, <2>12, <2>13 DEF MapsHold, Built
  <2>15. EvidenceOf(bundle)'
    BY <2>0, <2>13 DEF EvidenceOf, Built, Sample
  <2> QED
    BY <1>1, <2>0, <2>13, <2>14, <2>15 DEF EvidenceInv, EvidenceOf, MapsHold, Built
<1>2. ASSUME EvidenceInv, Balance PROVE EvidenceInv'
  <2>0. /\ UNCHANGED <<capture, analysed, cached>> /\ bundle \in Bundles /\ capture \in Captures
        /\ analysed /\ MapsHold(bundle, bundle.guides) /\ EvidenceOf(bundle) /\ bundle' = Rebalanced(bundle)
    BY <1>2 DEF EvidenceInv, Balance
  <2> DEFINE sample == IF bundle.sample = Nothing THEN bundle.sample ELSE [bundle.sample EXCEPT !.white = "declared"]
             guides == [bundle.guides EXCEPT !.resized = Nothing]
  <2>1. sample \in Samples \cup {Nothing} /\ "declared" \in WhiteChoices
        /\ (sample # Nothing => bundle.sample # Nothing /\ sample.white = "declared"
                                 /\ sample.masks = bundle.sample.masks /\ sample.exclusion = bundle.sample.exclusion)
    BY <2>0 DEF Bundles, Samples, WhiteChoices
  <2>2. guides \in Guides /\ guides.guidance = bundle.guides.guidance /\ guides.resized = Nothing
        /\ guides.resolved = bundle.guides.resolved
    BY <2>0 DEF Bundles, Guides, MapsOrNothing
  <2>3. bundle' = [bundle EXCEPT !.white = "declared", !.guides = guides, !.sample = sample]
    BY <2>0 DEF Rebalanced, Bundles
  <2> HIDE DEF sample, guides
  <2>4. /\ bundle' \in Bundles /\ bundle'.guides = guides /\ bundle'.sample = sample /\ bundle'.white = "declared"
        /\ bundle'.masks = bundle.masks /\ bundle'.exclusion = bundle.exclusion /\ bundle'.mosaic = bundle.mosaic
        /\ bundle'.untrusted = bundle.untrusted
    BY <2>0, <2>1, <2>2, <2>3 DEF Bundles
  <2>5. MapsHold(bundle, bundle.guides)'
    BY <2>0, <2>2, <2>4 DEF MapsHold, Built
  <2>6. EvidenceOf(bundle)'
    BY <2>0, <2>1, <2>4 DEF EvidenceOf, Built
  <2> QED
    BY <1>2, <2>0, <2>4, <2>5, <2>6 DEF EvidenceInv, EvidenceOf, MapsHold, Built
<1>3. ASSUME EvidenceInv, WriteEntry PROVE EvidenceInv'
  <2>0. /\ UNCHANGED <<capture, analysed, bundle>> /\ ~bundle.mosaic /\ analysed /\ bundle.sample # Nothing
        /\ cached' = [entry |-> bundle, lost |-> {}]
    BY <1>3 DEF EvidenceInv, WriteEntry
  <2>1. cached'.entry = bundle /\ cached' \in [entry : Bundles, lost : SUBSET Arrays]
    BY <1>3, <2>0 DEF EvidenceInv
  <2> QED
    BY <1>3, <2>0, <2>1 DEF EvidenceInv, EvidenceOf, MapsHold, Built
<1>4. ASSUME EvidenceInv, DamageEntry PROVE EvidenceInv'
  <2>0. UNCHANGED <<capture, analysed, bundle>> /\ cached # Nothing
    BY <1>4 DEF DamageEntry
  <2>1. PICK array \in Arrays : cached' = [cached EXCEPT !.lost = @ \cup {array}]
    BY <1>4 DEF DamageEntry
  <2>2. cached'.entry = cached.entry /\ cached' \in [entry : Bundles, lost : SUBSET Arrays]
    BY <1>4, <2>0, <2>1 DEF EvidenceInv
  <2> QED
    BY <1>4, <2>0, <2>2 DEF EvidenceInv, EvidenceOf, MapsHold, Built
<1> QED
  BY <1>1, <1>2, <1>3, <1>4

\* A file that is read although it has lost arrays lost nothing that was not empty, beside
\* the masks of its sample.
LEMMA LeftFacts ==
    ASSUME NEW b \in Bundles, NEW gone \in SUBSET Arrays, Readable(b, gone), EvidenceOf(b), b.sample # Nothing
    PROVE  /\ Left(b, gone) \in Bundles /\ EvidenceOf(Left(b, gone))
           /\ Left(b, gone).guides = b.guides /\ Left(b, gone).mosaic = b.mosaic
<1> DEFINE exclusion == IF "exclusion" \in gone THEN {} ELSE b.exclusion
           kept == IF "sample exclusion" \in gone THEN {} ELSE b.sample.exclusion
           masks == IF "sample masks" \in gone THEN Nothing ELSE b.sample.masks
           rows == [b.sample EXCEPT !.exclusion = kept, !.masks = masks]
           sample == IF "sample" \in gone THEN Nothing ELSE rows
<1>1. exclusion = b.exclusion /\ kept = b.exclusion
  BY DEF Readable, EvidenceOf
<1>2. b.sample \in Samples /\ b.exclusion \in SUBSET Pixels /\ masks \in (SUBSET Pixels) \cup {Nothing}
      /\ masks \in {b.masks, Nothing}
  BY DEF Bundles, Samples, EvidenceOf
<1>3. Left(b, gone) = [b EXCEPT !.exclusion = exclusion, !.sample = sample]
  BY DEF Left, LeftRows
<1> HIDE DEF exclusion, kept, masks
<1>4. rows \in Samples /\ rows.exclusion = b.exclusion /\ rows.masks = masks /\ rows.white = b.sample.white
  BY <1>1, <1>2 DEF Samples
<1> HIDE DEF rows
<1>5. sample \in Samples \cup {Nothing} /\ (sample = Nothing \/ sample = rows)
  BY <1>4
<1> HIDE DEF sample
<1>6. /\ Left(b, gone) \in Bundles /\ Left(b, gone).sample = sample /\ Left(b, gone).exclusion = b.exclusion
      /\ Left(b, gone).masks = b.masks /\ Left(b, gone).untrusted = b.untrusted /\ Left(b, gone).white = b.white
      /\ Left(b, gone).guides = b.guides /\ Left(b, gone).mosaic = b.mosaic
  BY <1>1, <1>3, <1>5 DEF Bundles
<1> QED
  BY <1>2, <1>4, <1>5, <1>6 DEF EvidenceOf

\* An entry is read, or thrown away.
LEMMA ReadKeeps == EvidenceInv /\ ReadEntry => EvidenceInv'
<1> SUFFICES ASSUME EvidenceInv, ReadEntry PROVE EvidenceInv'
  OBVIOUS
<1>0. /\ UNCHANGED <<capture, analysed>> /\ cached # Nothing /\ analysed
      /\ cached \in [entry : Bundles, lost : SUBSET Arrays] /\ EvidenceOf(cached.entry)
      /\ MapsHold(cached.entry, cached.entry.guides) /\ cached.entry.sample # Nothing
  BY DEF EvidenceInv, ReadEntry
<1>1. CASE Readable(cached.entry, cached.lost)
  <2>1. bundle' = Left(cached.entry, cached.lost) /\ cached' = cached
    BY <1>1 DEF ReadEntry
  <2>2. /\ Left(cached.entry, cached.lost) \in Bundles /\ EvidenceOf(Left(cached.entry, cached.lost))
        /\ Left(cached.entry, cached.lost).guides = cached.entry.guides
        /\ Left(cached.entry, cached.lost).mosaic = cached.entry.mosaic
    BY <1>0, <1>1, LeftFacts
  <2> QED
    BY <1>0, <2>1, <2>2 DEF EvidenceInv, EvidenceOf, MapsHold, Built
<1>2. CASE ~Readable(cached.entry, cached.lost)
  <2>1. bundle' = bundle /\ cached' = Nothing
    BY <1>2 DEF ReadEntry
  <2> QED
    BY <1>0, <2>1 DEF EvidenceInv, EvidenceOf, MapsHold, Built
<1> QED
  BY <1>1, <1>2

\* What the invariant says of a plan, and of guidance that is asked for.
LEMMA EvidenceUsed == EvidenceInv => EvidenceFollows
<1> SUFFICES ASSUME EvidenceInv, analysed PROVE EvidenceFollows
  BY DEF EvidenceFollows
<1>0. capture \in Captures /\ bundle \in Bundles /\ MapsHold(bundle, bundle.guides) /\ EvidenceOf(bundle)
  BY DEF EvidenceInv
<1> DEFINE ensured == Ensured(bundle, "resolved", FALSE)
           guidance == Resized(bundle, ensured).resized
<1>1. /\ ensured \in Guides /\ MapsHold(bundle, ensured) /\ (bundle.mosaic => ensured.resolved)
      /\ ensured.guidance = Nothing => ensured.resized = Nothing
  BY <1>0, EnsuredFacts DEF Wells
<1> HIDE DEF ensured
<1>2. guidance # Nothing =>
        /\ guidance.clipped = Built("resolved")
        /\ bundle.untrusted => guidance.confident = {}
        /\ ~bundle.untrusted => guidance.eligible \cap bundle.exclusion = {}
  <2>1. MapsHold(bundle, Resized(bundle, ensured)) /\ Resized(bundle, ensured).resolved = ensured.resolved
    BY <1>0, <1>1, ResizedFacts
  <2>2. guidance # Nothing => ensured.guidance # Nothing
    BY <1>0, <1>1, ResizedFacts
  <2>3. guidance # Nothing => guidance.clipped = Built("resolved")
    BY <1>1, <2>1 DEF MapsHold
  <2> QED
    BY <1>0, <1>1, <2>2, <2>3, ResizedFacts
<1>3. Reliable(bundle) \cap (IF capture.untrusted["resolved"] THEN Pixels
                             ELSE capture.exclusion["resolved"]
                                    \cup (IF Unmasked(bundle) THEN {} ELSE Built("resolved"))) = {}
  BY <1>0 DEF Reliable, EvidenceOf, Unmasked
<1>4. bundle.sample # Nothing => bundle.sample.white = bundle.white
  BY <1>0 DEF EvidenceOf
<1> QED
  BY <1>0, <1>2, <1>3, <1>4 DEF EvidenceFollows, EvidenceOf, ensured

\* For any capture and any order of analysis, proxies, cache entries, damage, balance and
\* questions: no plan is made for a pixel that was made of one that clipped at the full well
\* that is known, nor, unless the entry it is read from lost the masks of its sample, for one
\* that clipped itself; guidance asked for with the analysis was measured with it.
THEOREM EvidenceAlwaysFollows == EvidenceSpec => []EvidenceFollows
<1>1. EvidenceInv /\ UNCHANGED evidenceVars => EvidenceInv'
  BY DEF EvidenceInv, EvidenceOf, MapsHold, Built, evidenceVars
<1>2. EvidenceInv /\ [EvidenceNext]_evidenceVars => EvidenceInv'
  BY <1>1, MeasureKeeps, MadeKeeps, ReadKeeps DEF EvidenceNext
<1> QED
  BY EvidenceStart, <1>2, EvidenceUsed, PTL DEF EvidenceSpec

-----------------------------------------------------------------------------
(* Recursion over an interval

   A function that is given at 0, and at each later number by its value before, exists:
   there is no least number up to which it would not. *)

\* Each set of natural numbers that is not empty has a least one.
LEMMA LeastNumber ==
    ASSUME NEW S \in SUBSET Nat, S # {}
    PROVE  \E x \in S : \A y \in S : x <= y
<1>1. PICK x \in S : \A y \in S : ~ (<<y, x>> \in OpToRel(<, Nat))
  BY NatLessThanWellFounded, WFMin
<1>2. ASSUME NEW y \in S, y < x PROVE FALSE
  BY <1>1, <1>2 DEF OpToRel
<1> QED
  BY <1>2

Recurses(f, n, base, step) == f[0] = base /\ \A i \in 1..n : f[i] = step[<<i, f[i - 1]>>]

\* There is such a function.
LEMMA RecursionExists ==
    ASSUME NEW S, NEW base \in S, NEW step \in [Nat \X S -> S], NEW n \in Nat
    PROVE  \E f \in [0..n -> S] : Recurses(f, n, base, step)
<1> DEFINE Wrong == {k \in Nat : \A f \in [0..k -> S] : ~ Recurses(f, k, base, step)}
<1> SUFFICES ASSUME Wrong # {} PROVE FALSE
  OBVIOUS
<1>1. PICK k \in Wrong : \A j \in Wrong : k <= j
  BY LeastNumber
<1>2. CASE k = 0
  <2>1. [i \in 0..0 |-> base] \in [0..0 -> S] /\ Recurses([i \in 0..0 |-> base], 0, base, step)
    BY DEF Recurses
  <2> QED
    BY <1>1, <1>2, <2>1
<1>3. CASE k # 0
  <2>1. k - 1 \in Nat /\ k - 1 \notin Wrong
    BY <1>1, <1>3
  <2>2. PICK f \in [0..(k - 1) -> S] : Recurses(f, k - 1, base, step)
    BY <2>1
  <2> DEFINE g == [i \in 0..k |-> IF i = k THEN step[<<k, f[k - 1]>>] ELSE f[i]]
  <2>3. g \in [0..k -> S] /\ g[k] = step[<<k, f[k - 1]>>] /\ \A i \in 0..(k - 1) : g[i] = f[i]
    BY <1>1, <2>1
  <2> HIDE DEF g
  <2>4. Recurses(g, k, base, step)
    <3>1. g[0] = base
      BY <1>1, <1>3, <2>2, <2>3 DEF Recurses
    <3>2. ASSUME NEW i \in 1..k PROVE g[i] = step[<<i, g[i - 1]>>]
      <4>1. i - 1 \in 0..(k - 1) /\ g[i - 1] = f[i - 1]
        BY <1>1, <2>3
      <4>2. CASE i = k
        BY <2>3, <4>1, <4>2
      <4>3. CASE i # k
        <5>1. i \in 1..(k - 1) /\ g[i] = f[i]
          BY <1>1, <2>3, <4>3
        <5> QED
          BY <2>2, <4>1, <5>1 DEF Recurses
      <4> QED
        BY <4>2, <4>3
    <3> QED
      BY <3>1, <3>2 DEF Recurses
  <2> QED
    BY <1>1, <2>3, <2>4
<1> QED
  BY <1>2, <1>3

\* The widths of the halvings.
LEMMA WidthFacts ==
    /\ Width \in [0..Halvings -> Nat] /\ Width[0] = 1
    /\ \A n \in 1..Halvings : Width[n] = 2 * Width[n - 1]
<1> DEFINE step == [p \in Nat \X Nat |-> 2 * p[2]]
<1>0. Halvings \in Nat /\ step \in [Nat \X Nat -> Nat]
  BY SearchAssumption
<1>1. PICK f \in [0..Halvings -> Nat] : Recurses(f, Halvings, 1, step)
  BY <1>0, RecursionExists
<1>2. \A n \in Nat, x \in Nat : step[<<n, x>>] = 2 * x
  OBVIOUS
<1> HIDE DEF step
<1>3. ASSUME NEW n \in 0..Halvings PROVE f[n] = IF n = 0 THEN 1 ELSE 2 * f[n - 1]
  <2>1. CASE n = 0
    BY <1>1, <2>1 DEF Recurses
  <2>2. CASE n # 0
    <3>1. n \in 1..Halvings /\ n \in Nat /\ f[n - 1] \in Nat
      BY <1>0, <2>2
    <3> QED
      BY <1>1, <1>2, <2>2, <3>1 DEF Recurses
  <2> QED
    BY <2>1, <2>2
<1>4. f = [n \in 0..Halvings |-> IF n = 0 THEN 1 ELSE 2 * f[n - 1]]
  BY <1>3
<1>5. Width = [n \in 0..Halvings |-> IF n = 0 THEN 1 ELSE 2 * Width[n - 1]]
  BY <1>4 DEF Width
<1> DEFINE Wrong == {n \in 0..Halvings : Width[n] # f[n]}
<1>6. Wrong = {}
  <2>0. Wrong \in SUBSET Nat
    BY <1>0
  <2> SUFFICES ASSUME Wrong # {} PROVE FALSE
    OBVIOUS
  <2>1. PICK k \in Wrong : \A j \in Wrong : k <= j
    BY <2>0, LeastNumber
  <2>2. k \in 0..Halvings /\ Width[k] # f[k] /\ k # 0
    BY <1>0, <1>3, <1>5, <2>1
  <2>3. k - 1 \in 0..Halvings /\ k - 1 \notin Wrong
    BY <1>0, <2>1, <2>2
  <2> QED
    BY <1>0, <1>3, <1>5, <2>2, <2>3
<1>7. \A n \in 0..Halvings : Width[n] = f[n]
  BY <1>6
<1>8. Width \in [0..Halvings -> Nat]
  BY <1>5, <1>7
<1> QED
  BY <1>0, <1>5, <1>8

-----------------------------------------------------------------------------
(* The search for an exposure

   The halving keeps a lift that held and one that did not, one width apart; the joint
   search has rejected all candidates before the one it looks at, and they come in the
   order of preference. *)

Exposures == [body : Bodies, core : {"agx", "other"}]
Phases == {"baseline", "climb", "halve", "capped", "joint", "done"}
Probed(tests, ev, holds) == ev \in DOMAIN tests /\ tests[ev] = holds

CapInv ==
    /\ scene \in Exposures /\ phase \in Phases
    /\ phase \in {"baseline", "climb", "halve"} => low \in Nat /\ high \in Nat /\ cap = Undecided
    /\ phase = "baseline" => halved = 0 /\ low = Baseline
    /\ phase = "climb" => halved = 0 /\ high - low = Stride
    /\ phase \in {"climb", "halve"} => low = Baseline \/ Probed(safe, low, TRUE)
    /\ phase = "halve" =>
         /\ Probed(safe, high, FALSE) /\ halved \in 0..Halvings
         /\ high - low = Width[Halvings - halved]
    /\ phase \in {"capped", "joint", "done"} => cap \in Nat /\ CapTight

\* What a probe leaves of those before it.
LEMMA ProbeFacts ==
    ASSUME NEW ev, NEW holds, Probe(ev, holds)
    PROVE  Probed(safe', ev, holds) /\ \A x, h : Probed(safe, x, h) => Probed(safe', x, h)
BY DEF Probe, Probed

\* A tight cap stays tight.
LEMMA CapInvKept ==
    ASSUME CapInv, phase \in {"capped", "joint", "done"}, phase' \in {"capped", "joint", "done"},
           UNCHANGED <<scene, cap, safe>>
    PROVE  CapInv'
BY DEF CapInv, CapTight, Phases

\* Climbing and halving.
LEMMA CapStep == CapInv /\ [SearchNext]_searchVars => CapInv'
<1> SUFFICES ASSUME CapInv, [SearchNext]_searchVars PROVE CapInv'
  OBVIOUS
<1>0. Halvings \in Nat /\ Stride \in Nat /\ Stride = Width[Halvings] /\ Top \in Nat
  BY SearchAssumption, WidthFacts DEF Stride, Top
<1>1. CASE ProbeBaseline
  <2>0. phase = "baseline" /\ scene' = scene /\ low' = low /\ halved' = halved
    BY <1>1 DEF ProbeBaseline
  <2>1. PICK holds \in BOOLEAN :
          /\ Probe(Baseline, holds)
          /\ IF holds THEN phase' = "climb" /\ high' = Baseline + Stride /\ UNCHANGED cap
             ELSE Capped(Baseline) /\ UNCHANGED high
    BY <1>1 DEF ProbeBaseline
  <2>2. Probed(safe', Baseline, holds)
    BY <2>1, ProbeFacts
  <2>3. CASE holds
    <3>1. phase' = "climb" /\ high' = Baseline + Stride /\ UNCHANGED cap
      BY <2>1, <2>3
    <3>2. low = Baseline /\ cap = Undecided /\ halved = 0
      BY <2>0 DEF CapInv
    <3> QED
      BY <1>0, <2>0, <3>1, <3>2 DEF CapInv, Phases, Baseline
  <2>4. CASE ~holds
    <3>1. phase' = "capped" /\ cap' = Baseline
      BY <2>1, <2>4 DEF Capped
    <3>2. CapTight'
      BY <2>2, <2>4, <3>1 DEF CapTight, Probed
    <3> QED
      BY <2>0, <3>1, <3>2 DEF CapInv, Phases, Baseline
  <2> QED
    BY <2>3, <2>4
<1>2. CASE Climb
  <2>0. /\ phase = "climb" /\ scene' = scene /\ halved' = halved /\ low \in Nat /\ high \in Nat
        /\ cap = Undecided
    BY <1>2 DEF Climb, CapInv
  <2>1. PICK holds \in BOOLEAN :
          /\ Probe(high, holds)
          /\ \/ holds /\ high < Top /\ low' = high /\ high' = high + Stride /\ UNCHANGED <<phase, cap>>
             \/ holds /\ high >= Top /\ Capped(high) /\ UNCHANGED <<low, high>>
             \/ ~holds /\ phase' = "halve" /\ UNCHANGED <<low, high, cap>>
    BY <1>2 DEF Climb
  <2>2. Probed(safe', high, holds) /\ \A x, h : Probed(safe, x, h) => Probed(safe', x, h)
    BY <2>1, ProbeFacts
  <2>3. CASE holds /\ high < Top
    <3>1. low' = high /\ high' = high + Stride /\ UNCHANGED <<phase, cap>>
      BY <1>0, <2>0, <2>1, <2>3
    <3> QED
      BY <1>0, <2>0, <2>2, <2>3, <3>1 DEF CapInv, Probed
  <2>4. CASE holds /\ ~(high < Top)
    <3>1. phase' = "capped" /\ cap' = high
      BY <1>0, <2>0, <2>1, <2>4 DEF Capped
    <3>2. CapTight'
      BY <1>0, <2>0, <2>2, <2>4, <3>1 DEF CapTight, Probed
    <3> QED
      BY <2>0, <3>1, <3>2 DEF CapInv, Phases
  <2>5. CASE ~holds
    <3>1. phase' = "halve" /\ UNCHANGED <<low, high, cap>>
      BY <2>1, <2>5
    <3>2. high - low = Width[Halvings - halved] /\ halved \in 0..Halvings
      BY <1>0, <2>0 DEF CapInv
    <3>3. Probed(safe, high, FALSE)' /\ (low = Baseline \/ Probed(safe, low, TRUE))'
      BY <2>0, <2>2, <2>5, <3>1 DEF CapInv, Probed
    <3> QED
      BY <2>0, <3>1, <3>2, <3>3 DEF CapInv, Phases
  <2> QED
    BY <2>3, <2>4, <2>5
<1>3. CASE Halve
  <2>0. /\ phase = "halve" /\ scene' = scene /\ low \in Nat /\ high \in Nat
        /\ cap = Undecided /\ Probed(safe, high, FALSE) /\ halved \in 0..Halvings
        /\ high - low = Width[Halvings - halved] /\ (low = Baseline \/ Probed(safe, low, TRUE))
    BY <1>3 DEF Halve, CapInv
  <2>1. CASE halved = Halvings
    <3>1. phase' = "capped" /\ cap' = low /\ safe' = safe
      BY <1>3, <2>1 DEF Halve, Capped
    <3>2. high = low + 1
      BY <1>0, <2>0, <2>1, WidthFacts
    <3>3. CapTight'
      BY <2>0, <3>1, <3>2 DEF CapTight, Probed
    <3> QED
      BY <2>0, <3>1, <3>3 DEF CapInv, Phases
  <2>2. CASE halved # Halvings
    <3> DEFINE middle == (low + high) \div 2
               left == Halvings - (halved + 1)
    <3>1. PICK holds \in BOOLEAN :
            /\ Probe(middle, holds)
            /\ low' = (IF holds THEN middle ELSE low) /\ high' = (IF holds THEN high ELSE middle)
      BY <1>3, <2>2 DEF Halve
    <3>2. halved' = halved + 1 /\ UNCHANGED <<phase, cap>>
      BY <1>3, <2>2 DEF Halve
    <3>3. left \in 0..Halvings /\ halved + 1 \in 0..Halvings /\ Width[Halvings - halved] = 2 * Width[left] /\ Width[left] \in Nat
      <4>1. Halvings - halved \in 1..Halvings /\ Halvings - halved - 1 = left
        BY <1>0, <2>0, <2>2
      <4> QED
        BY <1>0, <2>0, <4>1, WidthFacts
    <3>4. middle = low + Width[left] /\ middle \in Nat /\ high - middle = Width[left]
      BY <2>0, <3>3
    <3> HIDE DEF middle, left
    <3>5. Probed(safe', middle, holds) /\ \A x, h : Probed(safe, x, h) => Probed(safe', x, h)
      BY <3>1, ProbeFacts
    <3>6. low' \in Nat /\ high' \in Nat /\ high' - low' = Width[left]
      BY <2>0, <3>1, <3>3, <3>4
    <3>7. Probed(safe, high, FALSE)' /\ (low = Baseline \/ Probed(safe, low, TRUE))'
      <4>1. CASE holds
        <5>1. low' = middle /\ high' = high
          BY <3>1, <4>1
        <5> QED
          BY <2>0, <3>5, <4>1, <5>1 DEF Probed
      <4>2. CASE ~holds
        <5>1. low' = low /\ high' = middle
          BY <3>1, <4>2
        <5> QED
          BY <2>0, <3>5, <4>2, <5>1 DEF Probed
      <4> QED
        BY <4>1, <4>2
    <3>8. (high - low = Width[Halvings - halved])'
      BY <3>2, <3>6 DEF left
    <3> QED
      BY <2>0, <3>2, <3>3, <3>6, <3>7, <3>8 DEF CapInv
  <2> QED
    BY <2>1, <2>2
<1>4. CASE Anchored \/ Judge
  <2>1. /\ phase \in {"capped", "joint", "done"} /\ phase' \in {"capped", "joint", "done"}
        /\ UNCHANGED <<scene, cap, safe>>
    BY <1>4 DEF Anchored, Judge, SearchEnds
  <2> QED
    BY <2>1, CapInvKept
<1>5. CASE UNCHANGED searchVars
  BY <1>5 DEF searchVars, CapInv, CapTight, Probed
<1> QED
  BY <1>1, <1>2, <1>3, <1>4, <1>5 DEF SearchNext

\* The number of a candidate that is so many exposures down, with so much shoulder.
Place(down, shoulder) == down * ShoulderCandidates + shoulder

\* It is the candidate there.
LEMMA CandidateAt ==
    ASSUME NEW down \in Nat, NEW shoulder \in 0..ShoulderCandidates - 1
    PROVE  /\ Place(down, shoulder) \in Nat
           /\ Place(down, shoulder) \div ShoulderCandidates = down
           /\ Place(down, shoulder) % ShoulderCandidates = shoulder
BY SearchAssumption DEF Place

\* Fewer exposures down, or as many and less shoulder, is a smaller number.
LEMMA PlacesInOrder ==
    ASSUME NEW down \in Nat, NEW shoulder \in 0..ShoulderCandidates - 1, NEW n \in Nat,
           \/ down < n \div ShoulderCandidates
           \/ down = n \div ShoulderCandidates /\ shoulder < n % ShoulderCandidates
    PROVE  Place(down, shoulder) < n
<1> DEFINE q == n \div ShoulderCandidates
           r == n % ShoulderCandidates
<1>0. ShoulderCandidates \in Nat /\ ShoulderCandidates > 0
  BY SearchAssumption
<1>1. q \in Nat /\ r \in Nat /\ n = q * ShoulderCandidates + r
  BY <1>0
<1>2. down < q \/ (down = q /\ shoulder < r)
  OBVIOUS
<1> HIDE DEF q, r
<1>3. CASE down < q
  <2>1. PICK m \in Nat : q = down + 1 + m
    <3>1. q - down - 1 \in Nat /\ q = down + 1 + (q - down - 1)
      BY <1>1, <1>3
    <3> QED
      BY <3>1
  <2>2. q * ShoulderCandidates = down * ShoulderCandidates + ShoulderCandidates + m * ShoulderCandidates
    BY <1>0, <2>1
  <2>3. m * ShoulderCandidates \in Nat
    BY <1>0
  <2> QED
    BY <1>0, <1>1, <2>2, <2>3 DEF Place
<1>4. CASE down = q /\ shoulder < r
  BY <1>0, <1>1, <1>4 DEF Place
<1> QED
  BY <1>2, <1>3, <1>4

\* The first n candidates have been judged, and rejected.
Rejected(n) ==
    /\ DOMAIN judged = 0..(n - 1)
    /\ \A k \in 0..(n - 1) : judged[k].candidate = Candidate(k) /\ judged[k].verdict # "passed"

JointInv ==
    /\ phase \in {"baseline", "climb", "halve", "capped"} => DOMAIN judged = {}
    /\ phase = "joint" => \E n \in Nat : n <= EvCandidates * ShoulderCandidates /\ Rejected(n)
    /\ JointHonest

\* The anchor lies between the baseline and the cap.
LEMMA AnchorInRange ==
    ASSUME scene \in Exposures, cap \in Nat
    PROVE  Anchor \in Nat /\ Anchor <= cap
<1>1. scene.body \in Int
  BY SearchAssumption DEF Exposures
<1> QED
  BY <1>1 DEF Anchor, Target, Lesser, Larger, Baseline

\* Where the search is undecided, and steps elsewhere.
LEMMA JointKept ==
    ASSUME JointInv, phase \in {"baseline", "climb", "halve"},
           phase' \in {"baseline", "climb", "halve", "capped"}, UNCHANGED judged
    PROVE  JointInv'
BY DEF JointInv, JointHonest

\* A judged candidate.
LEMMA JudgeStep ==
    ASSUME CapInv, JointInv, Judge
    PROVE  JointInv'
<1>0. /\ phase = "joint" /\ UNCHANGED <<scene, cap>> /\ scene \in Exposures /\ cap \in Nat
  BY DEF Judge, CapInv
<1>1. PICK n \in Nat : n <= EvCandidates * ShoulderCandidates /\ Rejected(n)
  BY <1>0 DEF JointInv
<1>2. DOMAIN judged = 0..(n - 1)
  BY <1>1 DEF Rejected
<1>3. Cardinality(DOMAIN judged) = n
  <2>1. IsFiniteSet(0..(n - 1)) /\ Cardinality(0..(n - 1)) = IF 0 > n - 1 THEN 0 ELSE (n - 1) - 0 + 1
    BY FS_Interval
  <2> QED
    BY <1>2, <2>1
<1>4. Anchor \in Nat /\ Anchor <= cap
  BY <1>0, AnchorInRange
<1>5. CASE n = EvCandidates * ShoulderCandidates
  <2>1. SearchEnds("fallback", Base) /\ UNCHANGED judged
    BY <1>3, <1>5 DEF Judge
  <2> QED
    BY <1>0, <1>4, <2>1 DEF SearchEnds, JointInv, JointHonest, Baseline
<1>6. CASE n # EvCandidates * ShoulderCandidates
  <2>1. PICK verdict \in Rulings :
          /\ judged' = [k \in 0..n |-> IF k = n THEN [candidate |-> Candidate(n), verdict |-> verdict] ELSE judged[k]]
          /\ IF verdict \in Passes THEN SearchEnds("selected", Candidate(n)) ELSE UNCHANGED <<phase, auto, handed>>
    BY <1>3, <1>6 DEF Judge
  <2>2. /\ DOMAIN judged' = 0..n
        /\ judged'[n].candidate = Candidate(n) /\ judged'[n].verdict = verdict
        /\ \A k \in 0..(n - 1) : judged'[k] = judged[k]
    BY <2>1
  <2>3. \A k \in 0..(n - 1) : judged'[k].candidate = Candidate(k) /\ judged'[k].verdict # "passed"
    BY <1>1, <2>2 DEF Rejected
  <2>4. CASE verdict \notin Passes
    <3>1. UNCHANGED <<phase, auto, handed>>
      BY <2>1, <2>4
    <3>2. n + 1 \in Nat /\ n + 1 <= EvCandidates * ShoulderCandidates /\ Rejected(n + 1)'
      <4>1. EvCandidates * ShoulderCandidates \in Nat
        BY SearchAssumption
      <4>2. \A k \in 0..((n + 1) - 1) : k = n \/ k \in 0..(n - 1)
        OBVIOUS
      <4>3. (n + 1) - 1 = n
        OBVIOUS
      <4>4. n + 1 <= EvCandidates * ShoulderCandidates
        BY <1>1, <1>6, <4>1
      <4>5. verdict # "passed"
        BY <2>4 DEF Passes
      <4>6. \A k \in 0..((n + 1) - 1) : judged'[k].candidate = Candidate(k) /\ judged'[k].verdict # "passed"
        BY <2>2, <2>3, <4>2, <4>5
      <4>7. DOMAIN judged' = 0..((n + 1) - 1)
        BY <2>2, <4>3
      <4> QED
        BY <4>4, <4>6, <4>7 DEF Rejected
    <3> QED
      BY <1>0, <3>1, <3>2 DEF JointInv, JointHonest
  <2>5. CASE verdict \in Passes
    <3>0. verdict = "passed" /\ SearchEnds("selected", Candidate(n))
      BY <2>1, <2>5 DEF Passes
    <3>1. /\ phase' = "done" /\ handed' = auto'.plan /\ auto'.plan = Candidate(n)
          /\ auto'.anchor = Anchor /\ auto'.status = "selected"
      BY <3>0 DEF SearchEnds
    <3>2. n \in DOMAIN judged' /\ judged'[n].candidate = auto'.plan /\ judged'[n].verdict = "passed"
      BY <2>2, <3>0, <3>1
    <3>3. ASSUME NEW above \in 0..EvCandidates - 1, NEW shoulder \in 0..ShoulderCandidates - 1,
                 above > auto'.plan.above \/ (above = auto'.plan.above /\ shoulder < auto'.plan.shoulder)
          PROVE  \E k \in DOMAIN judged' :
                    /\ judged'[k].candidate.above = above /\ judged'[k].candidate.shoulder = shoulder
                    /\ judged'[k].verdict # "passed"
      <4> DEFINE down == EvCandidates - 1 - above
                 k == Place(down, shoulder)
      <4>0. down \in Nat /\ EvCandidates - 1 - down = above
        BY SearchAssumption
      <4>1. /\ auto'.plan.above = EvCandidates - 1 - (n \div ShoulderCandidates)
            /\ auto'.plan.shoulder = n % ShoulderCandidates
        BY <3>1 DEF Candidate
      <4>2. n \div ShoulderCandidates \in Int
        BY SearchAssumption
      <4>3. \/ down < n \div ShoulderCandidates
            \/ down = n \div ShoulderCandidates /\ shoulder < n % ShoulderCandidates
        BY <3>3, <4>1, <4>2, SearchAssumption
      <4> HIDE DEF down
      <4>4. k \in Nat /\ k < n /\ k \div ShoulderCandidates = down /\ k % ShoulderCandidates = shoulder
        BY <4>0, <4>3, CandidateAt, PlacesInOrder
      <4> HIDE DEF k
      <4>5. Candidate(k).above = above /\ Candidate(k).shoulder = shoulder
        BY <4>0, <4>4 DEF Candidate
      <4>6. k \in 0..(n - 1) /\ k \in 0..n
        BY <4>4
      <4> QED
        BY <2>2, <2>3, <4>5, <4>6
    <3>4. JointHonest'
      BY <1>0, <1>4, <3>1, <3>2, <3>3 DEF JointHonest, Baseline
    <3> QED
      BY <3>1, <3>4 DEF JointInv
  <2> QED
    BY <2>4, <2>5
<1> QED
  BY <1>5, <1>6

\* What is chosen is the first that held.
LEMMA JointStep == CapInv /\ JointInv /\ [SearchNext]_searchVars => JointInv'
<1> SUFFICES ASSUME CapInv, JointInv, [SearchNext]_searchVars PROVE JointInv'
  OBVIOUS
<1>1. CASE ProbeBaseline \/ Climb \/ Halve
  <2>1. /\ phase \in {"baseline", "climb", "halve"} /\ UNCHANGED judged
        /\ phase' \in {"baseline", "climb", "halve", "capped"}
    BY <1>1 DEF ProbeBaseline, Climb, Halve, Capped
  <2> QED
    BY <2>1, JointKept
<1>2. CASE Anchored
  <2>0. phase = "capped" /\ UNCHANGED <<scene, cap>> /\ scene \in Exposures /\ cap \in Nat
    BY <1>2 DEF Anchored, CapInv
  <2>1. Anchor \in Nat /\ Anchor <= cap
    BY <2>0, AnchorInRange
  <2>2. CASE \E status \in {"reference", "identity"} : SearchEnds(status, Base)
    BY <2>0, <2>1, <2>2 DEF SearchEnds, JointInv, JointHonest, Baseline
  <2>3. CASE phase' = "joint" /\ UNCHANGED judged
    <3>1. 0 \in Nat /\ 0 <= EvCandidates * ShoulderCandidates
      BY SearchAssumption
    <3>2. Rejected(0)'
      BY <2>0, <2>3 DEF JointInv, Rejected
    <3> QED
      BY <2>3, <3>1, <3>2 DEF JointInv, JointHonest
  <2> QED
    BY <1>2, <2>2, <2>3 DEF Anchored
<1>3. CASE Judge
  BY <1>3, JudgeStep
<1>4. CASE UNCHANGED searchVars
  BY <1>4 DEF searchVars, JointInv, JointHonest, Rejected
<1> QED
  BY <1>1, <1>2, <1>3, <1>4 DEF SearchNext

\* The cap and the judged candidates, for every scene and every answer of the renders.
THEOREM ExposureInvariant == SearchSpec => [](CapInv /\ JointInv)
<1>1. SearchInit => CapInv /\ JointInv
  BY DEF SearchInit, SearchFrom, CapInv, JointInv, JointHonest, Exposures, Phases, Baseline
<1>2. CapInv /\ JointInv /\ [SearchNext]_searchVars => (CapInv /\ JointInv)'
  BY CapStep, JointStep
<1> QED
  BY <1>1, <1>2, PTL DEF SearchSpec

\* What the automatic exposure claims it has rendered: the cap held and a quantum more
\* did not, and what was selected is the best of the candidates that hold.
THEOREM ExposureAlwaysRendered == SearchSpec => []ExposureRendered
<1>1. CapInv /\ JointInv => ExposureRendered
  <2> SUFFICES ASSUME CapInv, JointInv PROVE CapTight
    BY DEF ExposureRendered, JointInv
  <2>1. CASE phase \in {"baseline", "climb", "halve"}
    BY <2>1 DEF CapInv, CapTight
  <2>2. CASE phase \in {"capped", "joint", "done"}
    BY <2>2 DEF CapInv
  <2> QED
    BY <2>1, <2>2 DEF CapInv, Phases
<1> QED
  BY <1>1, ExposureInvariant, PTL

-----------------------------------------------------------------------------
(* The corrections of a DNG

   A correction of the file is in the list of its stage, at most once and in order,
   or it is one that is omitted; what has been applied and what is to do are the plan;
   what was clipped is in a raster, or the frame is not trusted. *)

\* (Literals are named: the provers do not know that one is a STRING.)
StepKinds == STRING \cup {"shading", "distortion", "black", "balance", "ceiling", "well"}
Corrections == [kind : StepKinds, place : Nat]
PlanRecords ==
    [lists : [1..3 -> Seq(Corrections)], skipped : SUBSET Nat, warped : 0..3, refused : BOOLEAN]

\* The opcodes at these places, once each and in order.
Holds(steps, places) ==
    /\ \A j \in 1..Len(steps) : \E i \in places : steps[j] = Step(i)
    /\ \A i \in places : \E j \in 1..Len(steps) : steps[j] = Step(i)
    /\ \A j, l \in 1..Len(steps) : j < l => steps[j].place < steps[l].place

Mark(i) == IF Op(i).kind = "warp2" /\ Op(i).supported /\ ~Op(i).required THEN Op(i).stage ELSE 0
Due(stage, k) == {i \in 1..k : ~Omitted(i) /\ Op(i).stage = stage}
ReadSoFar(plan, k) ==
    /\ plan \in PlanRecords
    /\ ~plan.refused => /\ plan.warped = IF k = 0 THEN 0 ELSE Mark(k)
                        /\ \A stage \in 1..3 : Holds(plan.lists[stage], Due(stage, k))

\* The next opcode joins the end of its list.
LEMMA HoldsMore ==
    ASSUME NEW steps \in Seq(Corrections), NEW places \in SUBSET Nat, NEW i \in Nat,
           Holds(steps, places), Step(i) \in Corrections, \A j \in places : j < i
    PROVE  Holds(Append(steps, Step(i)), places \cup {i})
<1> DEFINE t == Append(steps, Step(i))
<1>1. /\ t \in Seq(Corrections) /\ Len(t) = Len(steps) + 1 /\ Len(steps) \in Nat
      /\ \A j \in 1..Len(steps) : t[j] = steps[j]
      /\ t[Len(steps) + 1] = Step(i)
  BY AppendProperties
<1> HIDE DEF t
<1>2. \A j \in 1..Len(t) : j \in 1..Len(steps) \/ j = Len(steps) + 1
  BY <1>1
<1>3. \A j \in 1..Len(steps) : j \in 1..Len(t)
  BY <1>1
<1>4. Len(steps) + 1 \in 1..Len(t)
  BY <1>1
<1>5. \A j \in 1..Len(t) : \E x \in places \cup {i} : t[j] = Step(x)
  BY <1>1, <1>2 DEF Holds
<1>6. \A x \in places \cup {i} : \E j \in 1..Len(t) : t[j] = Step(x)
  BY <1>1, <1>3, <1>4 DEF Holds
<1>7. ASSUME NEW j \in 1..Len(t), NEW l \in 1..Len(t), j < l PROVE t[j].place < t[l].place
  <2>1. j \in 1..Len(steps)
    BY <1>1, <1>7
  <2>2. PICK x \in places : t[j] = Step(x)
    BY <1>1, <2>1 DEF Holds
  <2>3. CASE l \in 1..Len(steps)
    BY <1>1, <1>7, <2>1, <2>3 DEF Holds
  <2>4. CASE l = Len(steps) + 1
    <3>1. t[j].place = x /\ t[l].place = i
      BY <1>1, <2>2, <2>4 DEF Step
    <3> QED
      BY <2>2, <3>1
  <2> QED
    BY <1>2, <2>3, <2>4
<1> QED
  BY <1>5, <1>6, <1>7 DEF Holds, t

\* The opcodes of a file, one by one.
LEMMA OpcodeFacts ==
    ASSUME source \in DngFiles
    PROVE  /\ Len(source.opcodes) \in Nat
           /\ DOMAIN source.opcodes = 1..Len(source.opcodes)
           /\ \A i \in 1..Len(source.opcodes) :
                /\ Op(i) \in [kind : STRING, stage : 1..3, required : BOOLEAN, supported : BOOLEAN]
                /\ Step(i) \in Corrections /\ Step(i).place = i
           /\ \A i, j \in 1..Len(source.opcodes) : i < j => Op(i).stage <= Op(j).stage
<1>1. /\ source.opcodes \in Seq([kind : STRING, stage : 1..3, required : BOOLEAN, supported : BOOLEAN])
      /\ \A i, j \in DOMAIN source.opcodes : i < j => source.opcodes[i].stage <= source.opcodes[j].stage
  BY DngAssumption
<1>2. /\ Len(source.opcodes) \in Nat /\ DOMAIN source.opcodes = 1..Len(source.opcodes)
      /\ \A i \in 1..Len(source.opcodes) : Op(i) \in [kind : STRING, stage : 1..3, required : BOOLEAN, supported : BOOLEAN]
  BY <1>1, LenProperties, ElementOfSeq DEF Op
<1>3. \A i \in 1..Len(source.opcodes) : Step(i) \in Corrections /\ Step(i).place = i
  BY <1>2 DEF Step, Corrections, StepKinds
<1> QED
  BY <1>1, <1>2, <1>3 DEF Op

\* Reading an opcode keeps an honest account of those before it.
LEMMA ReadsOn ==
    ASSUME source \in DngFiles, NEW k \in 1..Len(source.opcodes), NEW plan, ReadSoFar(plan, k - 1)
    PROVE  ReadSoFar(ReadOpcode(plan, k), k)
<1> DEFINE op == Op(k)
           next == [plan EXCEPT !.warped = 0]
           n == Len(source.opcodes)
<1>1. /\ n \in Nat /\ k \in Nat /\ k - 1 \in Nat
      /\ op \in [kind : STRING, stage : 1..3, required : BOOLEAN, supported : BOOLEAN]
      /\ Step(k) \in Corrections /\ Step(k).place = k
  BY OpcodeFacts
<1>2. plan \in PlanRecords
  BY DEF ReadSoFar
<1>3. /\ next \in PlanRecords /\ next.warped = 0 /\ next.lists = plan.lists
      /\ next.refused = plan.refused /\ next.skipped = plan.skipped
  <2>1. 0 \in 0..3
    OBVIOUS
  <2> DEFINE L == [1..3 -> Seq(Corrections)]
             W == 0..3
  <2>2. plan \in [lists : L, skipped : SUBSET Nat, warped : W, refused : BOOLEAN] /\ 0 \in W
    BY <1>2, <2>1 DEF PlanRecords
  <2> HIDE DEF L, W
  <2>3. /\ next \in [lists : L, skipped : SUBSET Nat, warped : W, refused : BOOLEAN]
        /\ next.warped = 0 /\ next.lists = plan.lists
        /\ next.refused = plan.refused /\ next.skipped = plan.skipped
    BY <2>2
  <2> QED
    BY <2>3 DEF PlanRecords, L, W
<1>4. ~plan.refused => plan.warped = IF k = 1 THEN 0 ELSE Mark(k - 1)
  BY <1>1 DEF ReadSoFar
<1>5. op.stage \in 1..3 /\ op.kind \in STRING /\ op.supported \in BOOLEAN /\ op.required \in BOOLEAN
  BY <1>1
\* When the mark counts, the opcode is the stand-in of the one before.
<1>6. ASSUME ~plan.refused
      PROVE  plan.warped = op.stage /\ op.kind = "warp"
               <=> /\ k > 1 /\ op.kind = "warp" /\ Op(k - 1).stage = op.stage
                   /\ Op(k - 1).kind = "warp2" /\ Op(k - 1).supported /\ ~Op(k - 1).required
  <2>1. CASE k = 1
    BY <1>4, <1>5, <1>6, <2>1
  <2>2. CASE k # 1
    <3>1. k > 1
      BY <1>1, <2>2
    <3> QED
      BY <1>4, <1>5, <1>6, <2>2, <3>1 DEF Mark
  <2> QED
    BY <2>1, <2>2
\* What this opcode adds to what is due.
<1>7. ASSUME NEW stage \in 1..3
      PROVE  Due(stage, k) = IF ~Omitted(k) /\ op.stage = stage THEN Due(stage, k - 1) \cup {k} ELSE Due(stage, k - 1)
  <2>1. 1..k = (1..(k - 1)) \cup {k} /\ k \notin 1..(k - 1)
    BY <1>1
  <2> QED
    BY <2>1 DEF Due
<1>8. ASSUME ~plan.refused, Omitted(k), NEW p \in PlanRecords, p.lists = plan.lists, p.warped = 0, Mark(k) = 0
      PROVE  ReadSoFar(p, k)
  <2>1. \A stage \in 1..3 : Holds(p.lists[stage], Due(stage, k))
    BY <1>7, <1>8 DEF ReadSoFar
  <2> QED
    BY <1>1, <1>8, <2>1 DEF ReadSoFar
<1> DEFINE skip == [next EXCEPT !.skipped = @ \cup {k}]
           refuse == [next EXCEPT !.refused = TRUE]
           longer == Append(plan.lists[op.stage], Step(k))
           mark == IF op.kind = "warp2" /\ ~op.required THEN op.stage ELSE 0
           place == [Planned(next, k) EXCEPT !.warped = mark]
           late == op.kind # "trim" /\ Has(plan.lists[3], {"trim"})
<1>9. skip \in PlanRecords /\ skip.refused = plan.refused /\ skip.lists = plan.lists /\ skip.warped = 0
  BY <1>1, <1>3 DEF PlanRecords
<1>10. refuse \in PlanRecords /\ refuse.refused
  BY <1>3 DEF PlanRecords
<1>11. longer \in Seq(Corrections) /\ plan.lists \in [1..3 -> Seq(Corrections)]
  BY <1>1, <1>2, <1>5, AppendProperties DEF PlanRecords
<1>12. /\ place \in PlanRecords /\ place.refused = plan.refused /\ place.warped = mark
       /\ place.lists = [plan.lists EXCEPT ![op.stage] = longer]
  <2>1. Planned(next, k) = [next EXCEPT !.lists = [plan.lists EXCEPT ![op.stage] = longer]]
    BY <1>3 DEF Planned, PlanRecords
  <2> DEFINE lists == [plan.lists EXCEPT ![op.stage] = longer]
  <2>2. lists \in [1..3 -> Seq(Corrections)]
    BY <1>5, <1>11
  <2>3. mark \in 0..3
    BY <1>5
  <2>4. place = [[next EXCEPT !.lists = lists] EXCEPT !.warped = mark]
    BY <2>1
  <2> HIDE DEF lists, mark, place, next
  <2>5. [next EXCEPT !.lists = lists] \in PlanRecords
    BY <1>3, <2>2 DEF PlanRecords
  <2>6. place \in PlanRecords /\ place.refused = plan.refused /\ place.warped = mark /\ place.lists = lists
    BY <1>3, <2>2, <2>3, <2>4, <2>5 DEF PlanRecords
  <2> QED
    BY <2>6 DEF lists
<1>13. ReadOpcode(plan, k) =
         IF plan.warped = op.stage /\ op.kind = "warp" THEN next
         ELSE IF ~op.supported THEN IF op.required THEN refuse ELSE skip
         ELSE IF late THEN refuse
         ELSE place
  BY <1>3 DEF ReadOpcode
<1> HIDE DEF next, skip, refuse, place, longer, late
<1>14. CASE plan.refused
  <2>1. ReadOpcode(plan, k) \in PlanRecords /\ ReadOpcode(plan, k).refused
    BY <1>3, <1>9, <1>10, <1>12, <1>13, <1>14
  <2> QED
    BY <2>1 DEF ReadSoFar
<1>15. CASE ~plan.refused /\ plan.warped = op.stage /\ op.kind = "warp"
  <2>1. Omitted(k) /\ Mark(k) = 0
    BY <1>6, <1>15 DEF Omitted, Mark
  <2> QED
    BY <1>3, <1>8, <1>13, <1>15, <2>1
<1>16. CASE ~plan.refused /\ ~(plan.warped = op.stage /\ op.kind = "warp") /\ ~op.supported
  <2>1. CASE op.required
    <3>1. ReadOpcode(plan, k) = refuse
      BY <1>13, <1>16, <2>1
    <3> QED
      BY <1>10, <3>1 DEF ReadSoFar
  <2>2. CASE ~op.required
    <3>1. ReadOpcode(plan, k) = skip
      BY <1>13, <1>16, <2>2
    <3>2. Omitted(k) /\ Mark(k) = 0
      BY <1>16, <2>2 DEF Omitted, Mark
    <3> QED
      BY <1>8, <1>9, <1>16, <3>1, <3>2
  <2> QED
    BY <2>1, <2>2
<1>17. CASE ~plan.refused /\ ~(plan.warped = op.stage /\ op.kind = "warp") /\ op.supported
  <2>1. CASE late
    <3>1. ReadOpcode(plan, k) = refuse
      BY <1>13, <1>17, <2>1
    <3> QED
      BY <1>10, <3>1 DEF ReadSoFar
  <2>2. CASE ~late
    <3>1. ReadOpcode(plan, k) = place
      BY <1>13, <1>17, <2>2
    <3>2. mark = Mark(k)
      BY <1>17 DEF Mark
    <3>3. ~Omitted(k)
      BY <1>6, <1>17 DEF Omitted
    <3>4. ASSUME NEW stage \in 1..3 PROVE Holds(place.lists[stage], Due(stage, k))
      <4>1. Holds(plan.lists[stage], Due(stage, k - 1))
        BY <1>17 DEF ReadSoFar
      <4>2. CASE stage = op.stage
        <5>1. plan.lists[stage] \in Seq(Corrections) /\ Due(stage, k - 1) \in SUBSET Nat
          BY <1>1, <1>11 DEF Due
        <5>2. \A j \in Due(stage, k - 1) : j < k
          BY <1>1 DEF Due
        <5>3. Holds(longer, Due(stage, k - 1) \cup {k})
          BY <1>1, <4>1, <4>2, <5>1, <5>2, HoldsMore DEF longer
        <5> QED
          BY <1>7, <1>11, <1>12, <3>3, <4>2, <5>3
      <4>3. CASE stage # op.stage
        BY <1>5, <1>7, <1>11, <1>12, <4>1, <4>3
      <4> QED
        BY <4>2, <4>3
    <3> HIDE DEF mark
    <3>5. place.warped = IF k = 0 THEN 0 ELSE Mark(k)
      BY <1>1, <1>12, <3>2
    <3>6. place \in PlanRecords
      BY <1>12
    <3> QED
      BY <3>1, <3>4, <3>5, <3>6 DEF ReadSoFar
  <2> QED
    BY <2>1, <2>2
<1> QED
  BY <1>14, <1>15, <1>16, <1>17

\* The plan of a file: what is due in each stage, once and in order, or a refusal.
LEMMA PlanRead ==
    ASSUME source \in DngFiles
    PROVE  ReadSoFar(ReadPlan, Len(source.opcodes))
<1> DEFINE n == Len(source.opcodes)
           step == [x \in Nat \X PlanRecords |->
                      IF ReadOpcode(x[2], x[1]) \in PlanRecords THEN ReadOpcode(x[2], x[1]) ELSE x[2]]
<1>1. n \in Nat
  BY OpcodeFacts
<1>2. NoPlan \in PlanRecords /\ ReadSoFar(NoPlan, 0)
  <2>1. <<>> \in Seq(Corrections) /\ Len(<<>>) = 0
    BY EmptySeq
  <2>2. NoPlan \in PlanRecords
    BY <2>1 DEF NoPlan, PlanRecords
  <2>3. \A stage \in 1..3 : Holds(<<>>, Due(stage, 0))
    BY <2>1 DEF Holds, Due
  <2> QED
    BY <2>2, <2>3 DEF ReadSoFar, NoPlan
<1>3. step \in [Nat \X PlanRecords -> PlanRecords]
  OBVIOUS
<1>4. \A k \in Nat, p \in PlanRecords :
        step[<<k, p>>] = IF ReadOpcode(p, k) \in PlanRecords THEN ReadOpcode(p, k) ELSE p
  OBVIOUS
<1> HIDE DEF step, n
<1>5. PICK f \in [0..n -> PlanRecords] : Recurses(f, n, NoPlan, step)
  BY <1>1, <1>2, <1>3, RecursionExists
<1> DEFINE Wrong == {k \in 0..n : ~ReadSoFar(f[k], k)}
<1>6. Wrong = {}
  <2> SUFFICES ASSUME Wrong # {} PROVE FALSE
    OBVIOUS
  <2>0. Wrong \in SUBSET Nat
    BY <1>1
  <2>1. PICK k \in Wrong : \A j \in Wrong : k <= j
    BY <2>0, LeastNumber
  <2>2. k # 0
    BY <1>2, <1>5, <2>1 DEF Recurses
  <2>3. k \in 1..n /\ k \in Nat /\ k - 1 \in 0..n /\ k - 1 \notin Wrong
    BY <1>1, <2>1, <2>2
  <2>4. ReadSoFar(f[k - 1], k - 1)
    BY <2>3
  <2>5. ReadSoFar(ReadOpcode(f[k - 1], k), k)
    BY <2>3, <2>4, ReadsOn DEF n
  <2>6. f[k] = ReadOpcode(f[k - 1], k)
    BY <1>4, <1>5, <2>3, <2>5 DEF Recurses, ReadSoFar
  <2> QED
    BY <2>1, <2>5, <2>6
<1>7. ASSUME NEW k \in 0..n PROVE f[k] = IF k = 0 THEN NoPlan ELSE ReadOpcode(f[k - 1], k)
  <2>1. CASE k = 0
    BY <1>5, <2>1 DEF Recurses
  <2>2. CASE k # 0
    <3>1. k \in 1..n /\ k \in Nat /\ k - 1 \in 0..n
      BY <1>1, <2>2
    <3>2. ReadSoFar(ReadOpcode(f[k - 1], k), k)
      BY <1>6, <3>1, ReadsOn DEF n
    <3> QED
      BY <1>4, <1>5, <2>2, <3>1, <3>2 DEF Recurses, ReadSoFar
  <2> QED
    BY <2>1, <2>2
<1>8. f = [k \in 0..n |-> IF k = 0 THEN NoPlan ELSE ReadOpcode(f[k - 1], k)]
  BY <1>7
<1>9. PlanTo = [k \in 0..n |-> IF k = 0 THEN NoPlan ELSE ReadOpcode(PlanTo[k - 1], k)]
  BY <1>8 DEF PlanTo, n
<1> DEFINE Off == {k \in 0..n : PlanTo[k] # f[k]}
<1>10. Off = {}
  <2> SUFFICES ASSUME Off # {} PROVE FALSE
    OBVIOUS
  <2>0. Off \in SUBSET Nat
    BY <1>1
  <2>1. PICK k \in Off : \A j \in Off : k <= j
    BY <2>0, LeastNumber
  <2>2. k \in 0..n /\ PlanTo[k] # f[k] /\ k # 0
    BY <1>1, <1>7, <1>9, <2>1
  <2>3. k - 1 \in 0..n /\ k - 1 \notin Off
    BY <1>1, <2>1, <2>2
  <2> QED
    BY <1>7, <1>9, <2>2, <2>3
<1> QED
  BY <1>1, <1>6, <1>10 DEF ReadPlan, n

HonestPlans == {plan \in PlanRecords : ReadSoFar(plan, Len(source.opcodes))}
\* What a decode works off: a plan that was not refused, and the lens.
CarriedOut(plan) == \E read \in HonestPlans : ~read.refused /\ plan = WithLens(read)
BlackSteps == IF source.black THEN <<Other("black")>> ELSE <<>>
MosaicSteps(plan) == plan.lists[1] \o BlackSteps \o plan.lists[2]
AllSteps(plan) == MosaicSteps(plan) \o plan.lists[3]

CallRecords == [highlight : STRING, half : BOOLEAN, demosaic : STRING \cup {"AHD"}, auto : BOOLEAN]
Rasters == SUBSET SUBSET Corrections
DecodeRecords ==
    [at : {"mosaic", "camera", "done"}, call : CallRecords, plan : PlanRecords, todo : Seq(Corrections), halved : BOOLEAN,
     log : Rasters, masks : Rasters, exclusion : Rasters, untrusted : BOOLEAN]

OnMosaic ==
    /\ applied \o decode.todo = MosaicSteps(decode.plan)
    /\ lost \subseteq Content(decode.log)
    /\ decode.todo # <<>> => decode.log # NoRaster
OnCamera ==
    /\ applied \o decode.todo = AllSteps(decode.plan)
    /\ decode.untrusted \/ lost \subseteq Content(decode.masks)
PlanComplete ==
    /\ applied = AllSteps(decode.plan)
    /\ decode.untrusted \/ lost \subseteq Content(decode.masks) \cup Content(decode.exclusion)

DecodeInv ==
    /\ source \in DngFiles /\ memo \subseteq HonestPlans
    /\ lost \subseteq Corrections /\ applied \in Seq(Corrections)
    /\ decode.at \in {"idle", "refused", "mosaic", "camera", "done"}
    /\ decode.at \in {"mosaic", "camera", "done"} => decode \in DecodeRecords /\ CarriedOut(decode.plan)
    /\ decode.at = "mosaic" => OnMosaic
    /\ decode.at = "camera" => OnCamera
    /\ decode.at = "done" => PlanComplete

\* What is said of a file stays true while the file stays.
LEMMA SameFile ==
    ASSUME source' = source
    PROVE  /\ HonestPlans' = HonestPlans /\ BlackSteps' = BlackSteps
           /\ \A plan : MosaicSteps(plan)' = MosaicSteps(plan)
<1>1. \A plan, k : ReadSoFar(plan, k)' <=> ReadSoFar(plan, k)
  BY DEF ReadSoFar, Mark, Holds, Due, Omitted, Step, Op
<1> QED
  BY <1>1 DEF HonestPlans, BlackSteps, MosaicSteps

\* What is carried consists of corrections.
LEMMA CarriedFacts ==
    ASSUME source \in DngFiles, NEW plan, CarriedOut(plan)
    PROVE  /\ plan \in PlanRecords /\ LensSteps \in Seq(Corrections) /\ BlackSteps \in Seq(Corrections)
           /\ MosaicSteps(plan) \in Seq(Corrections) /\ plan.lists[3] \in Seq(Corrections)
           /\ AllSteps(plan) \in Seq(Corrections)
           /\ \E read \in HonestPlans :
                /\ ~read.refused /\ plan.lists[1] = read.lists[1] /\ plan.lists[2] = read.lists[2]
                /\ plan.lists[3] = read.lists[3] \o LensSteps
<1>1. LensSteps \in Seq(Corrections) /\ BlackSteps \in Seq(Corrections)
  <2>1. \A kind \in StepKinds : Other(kind) \in Corrections
    BY DEF Other, Corrections
  <2>2. Other("shading") \in Corrections /\ Other("distortion") \in Corrections /\ Other("black") \in Corrections
    BY <2>1 DEF StepKinds
  <2> QED
    BY <2>2 DEF LensSteps, BlackSteps
<1>2. PICK read \in HonestPlans : ~read.refused /\ plan = WithLens(read)
  BY DEF CarriedOut
<1>3. read \in PlanRecords
  BY DEF HonestPlans
<1> DEFINE last == read.lists[3] \o LensSteps
           lists == [read.lists EXCEPT ![3] = last]
<1>4. read.lists \in [1..3 -> Seq(Corrections)] /\ last \in Seq(Corrections)
  BY <1>1, <1>3, ConcatProperties DEF PlanRecords
<1>5. plan = [read EXCEPT !.lists = lists]
  BY <1>2 DEF WithLens
<1> HIDE DEF last
<1>6. lists \in [1..3 -> Seq(Corrections)] /\ lists[1] = read.lists[1] /\ lists[2] = read.lists[2] /\ lists[3] = last
  BY <1>4
<1> HIDE DEF lists
<1>7. plan \in PlanRecords /\ plan.lists = lists
  BY <1>3, <1>5, <1>6 DEF PlanRecords
<1>8. plan.lists[1] \in Seq(Corrections) /\ plan.lists[2] \in Seq(Corrections) /\ plan.lists[3] \in Seq(Corrections)
  BY <1>6, <1>7
<1>9. plan.lists[1] \o BlackSteps \in Seq(Corrections)
  BY <1>1, <1>8, ConcatProperties
<1>10. MosaicSteps(plan) \in Seq(Corrections)
  BY <1>8, <1>9, ConcatProperties DEF MosaicSteps
<1>11. AllSteps(plan) \in Seq(Corrections)
  BY <1>8, <1>10, ConcatProperties DEF AllSteps
<1> QED
  BY <1>1, <1>2, <1>6, <1>7, <1>8, <1>10, <1>11 DEF last

\* A step that is done moves from what is to do to what is done.
LEMMA OneDone ==
    ASSUME NEW done \in Seq(Corrections), NEW todo \in Seq(Corrections), todo # <<>>
    PROVE  /\ Head(todo) \in Corrections /\ Tail(todo) \in Seq(Corrections)
           /\ Append(done, Head(todo)) \in Seq(Corrections)
           /\ Append(done, Head(todo)) \o Tail(todo) = done \o todo
<1>1. /\ Head(todo) \in Corrections /\ Tail(todo) \in Seq(Corrections)
      /\ todo = <<Head(todo)>> \o Tail(todo)
  BY HeadTailProperties, ConcatProperties
<1>2. Append(done, Head(todo)) = done \o <<Head(todo)>> /\ Append(done, Head(todo)) \in Seq(Corrections)
  BY <1>1, AppendIsConcat, AppendProperties
<1>3. <<Head(todo)>> \in Seq(Corrections)
  BY <1>1
<1>4. (done \o <<Head(todo)>>) \o Tail(todo) = done \o (<<Head(todo)>> \o Tail(todo))
  BY <1>1, <1>3, ConcatAssociative
<1> QED
  BY <1>1, <1>2, <1>4

\* Rasters hold what they are given, once they are allocated.
LEMMA RasterFacts ==
    ASSUME NEW raster \in Rasters, NEW steps \in SUBSET Corrections
    PROVE  /\ Recorded(raster, steps) \in Rasters /\ Recording(raster, steps) \in Rasters
           /\ {Content(raster) \cup steps} \in Rasters
           /\ Content({Content(raster) \cup steps}) = Content(raster) \cup steps
           /\ Content(Recording(raster, steps)) = Content(raster) \cup steps
           /\ raster # NoRaster => /\ Content(Recorded(raster, steps)) = Content(raster) \cup steps
                                   /\ Recorded(raster, steps) # NoRaster
<1>1. Content({Content(raster) \cup steps}) = Content(raster) \cup steps
  BY DEF Content
<1>2. {Content(raster) \cup steps} \in Rasters
  BY DEF Content, Rasters
<1>3. Recorded(raster, steps) \in Rasters
  BY DEF Recorded, Rasters
<1>4. ASSUME raster # NoRaster
      PROVE  Content(Recorded(raster, steps)) = Content(raster) \cup steps /\ Recorded(raster, steps) # NoRaster
  <2>1. PICK first : first \in raster
    BY <1>4 DEF NoRaster
  <2>2. first \cup steps \in Recorded(raster, steps)
    BY <2>1 DEF Recorded
  <2>3. ASSUME NEW x \in Content(Recorded(raster, steps)) PROVE x \in Content(raster) \cup steps
    BY DEF Content, Recorded
  <2>4. ASSUME NEW x \in Content(raster) PROVE x \in Content(Recorded(raster, steps))
    <3>1. PICK content \in raster : x \in content
      BY DEF Content
    <3>2. content \cup steps \in Recorded(raster, steps) /\ x \in content \cup steps
      BY <3>1 DEF Recorded
    <3> QED
      BY <3>2 DEF Content
  <2>5. ASSUME NEW x \in steps PROVE x \in Content(Recorded(raster, steps))
    BY <2>2 DEF Content
  <2> QED
    BY <2>2, <2>3, <2>4, <2>5 DEF NoRaster
<1> QED
  BY <1>1, <1>2, <1>3, <1>4 DEF Recording

\* A call starts over, from the plan its session has read.
LEMMA BeginKeeps == DecodeInv /\ BeginDecode => DecodeInv'
<1> SUFFICES ASSUME DecodeInv, BeginDecode PROVE DecodeInv'
  OBVIOUS
<1>1. source' = source /\ lost' = {} /\ applied' = <<>> /\ memo' = IF memo = {} THEN {ReadPlan} ELSE memo
  BY DEF BeginDecode
<1>2. ReadPlan \in HonestPlans
  BY PlanRead DEF DecodeInv, HonestPlans, ReadSoFar
<1>3. memo' \subseteq HonestPlans
  BY <1>1, <1>2 DEF DecodeInv
<1>4. HonestPlans' = HonestPlans /\ BlackSteps' = BlackSteps
  BY <1>1, SameFile
<1>5. PICK call \in Calls, read \in memo' :
         LET plan == WithLens(read)
             steps == plan.lists[1] \o (IF source.black THEN <<Other("black")>> ELSE <<>>) \o plan.lists[2]
             refused == read.refused \/ (call.highlight # "clip" /\ Has(plan.lists[3], {"point"}))
         IN  decode' = [at |-> IF refused THEN "refused" ELSE "mosaic", call |-> call,
                        plan |-> plan, todo |-> steps, halved |-> call.half /\ ~Reduced(call, plan),
                        log |-> IF steps = <<>> THEN NoRaster ELSE {{}},
                        masks |-> NoRaster, exclusion |-> NoRaster, untrusted |-> FALSE]
  BY DEF BeginDecode
<1> DEFINE plan == WithLens(read)
           refused == read.refused \/ (call.highlight # "clip" /\ Has(plan.lists[3], {"point"}))
           half == call.half /\ ~Reduced(call, plan)
           steps == MosaicSteps(plan)
           log == IF steps = <<>> THEN NoRaster ELSE {{}}
<1>6. decode' = [at |-> IF refused THEN "refused" ELSE "mosaic", call |-> call, plan |-> plan, todo |-> steps,
                 halved |-> half, log |-> log, masks |-> NoRaster, exclusion |-> NoRaster, untrusted |-> FALSE]
  BY <1>5 DEF MosaicSteps, BlackSteps
<1>7. log \in Rasters /\ NoRaster \in Rasters /\ (steps # <<>> => log # NoRaster)
  BY DEF Rasters, NoRaster
<1>8. call \in CallRecords
  BY DngAssumption DEF CallRecords
<1>9. half \in BOOLEAN /\ source \in DngFiles /\ read \in HonestPlans
  BY <1>3 DEF DecodeInv
<1> HIDE DEF refused, half, log, plan
<1>10. CASE refused
  <2>1. decode'.at = "refused"
    BY <1>6, <1>10
  <2> QED
    BY <1>1, <1>3, <1>4, <1>9, <2>1 DEF DecodeInv
<1>11. CASE ~refused
  <2>1. CarriedOut(plan)
    BY <1>9, <1>11 DEF CarriedOut, refused, plan
  <2>2. plan \in PlanRecords /\ steps \in Seq(Corrections)
    BY <1>9, <2>1, CarriedFacts
  <2> HIDE DEF steps
  <2>0. decode' = [at |-> "mosaic", call |-> call, plan |-> plan, todo |-> steps, halved |-> half, log |-> log,
                   masks |-> NoRaster, exclusion |-> NoRaster, untrusted |-> FALSE]
    BY <1>6, <1>11
  <2>3. /\ decode'.at = "mosaic" /\ decode'.plan = plan /\ decode'.todo = steps /\ decode'.log = log
        /\ decode' \in DecodeRecords
    BY <1>7, <1>8, <1>9, <2>0, <2>2 DEF DecodeRecords
  <2>4. CarriedOut(decode.plan)'
    BY <1>1, <1>4, <2>1, <2>3 DEF CarriedOut, WithLens, LensSteps
  <2>5. MosaicSteps(decode.plan)' = steps
    BY <1>4, <2>3 DEF MosaicSteps, steps
  <2>6. <<>> \o steps = steps
    BY <2>2, ConcatEmptySeq
  <2>7. OnMosaic'
    BY <1>1, <1>7, <2>3, <2>5, <2>6 DEF OnMosaic
  <2> QED
    BY <1>1, <1>3, <1>4, <1>9, <2>3, <2>4, <2>7 DEF DecodeInv
<1> QED
  BY <1>10, <1>11

\* A frame on its way goes on with the same plan.
LEMMA PlanStays ==
    ASSUME DecodeInv, UNCHANGED <<source, memo>>, decode'.plan = decode.plan
    PROVE  /\ (source \in DngFiles)' /\ (memo \subseteq HonestPlans)'
           /\ MosaicSteps(decode.plan)' = MosaicSteps(decode.plan)
           /\ AllSteps(decode.plan)' = AllSteps(decode.plan)
           /\ CarriedOut(decode.plan) => CarriedOut(decode.plan)'
<1>1. HonestPlans' = HonestPlans /\ BlackSteps' = BlackSteps
  BY SameFile
<1>2. MosaicSteps(decode.plan)' = MosaicSteps(decode.plan)
  BY <1>1 DEF MosaicSteps
<1>3. AllSteps(decode.plan)' = AllSteps(decode.plan)
  BY <1>2 DEF AllSteps
<1>4. CarriedOut(decode.plan) => CarriedOut(decode.plan)'
  BY <1>1 DEF CarriedOut, WithLens, LensSteps
<1> QED
  BY <1>1, <1>2, <1>3, <1>4 DEF DecodeInv

\* A decode that refuses claims nothing.
LEMMA RefusedKeeps == DecodeInv /\ Refused => DecodeInv'
<1> SUFFICES ASSUME DecodeInv, Refused PROVE DecodeInv'
  OBVIOUS
<1>1. decode'.at = "refused" /\ UNCHANGED <<source, memo, lost, applied>>
  BY DEF Refused
<1>2. HonestPlans' = HonestPlans
  BY <1>1, SameFile
<1> QED
  BY <1>1, <1>2 DEF DecodeInv

\* A correction of the mosaic writes to the log that was allocated for it.
LEMMA MosaicKeeps == DecodeInv /\ CorrectMosaic => DecodeInv'
<1> SUFFICES ASSUME DecodeInv, CorrectMosaic, ~Refused PROVE DecodeInv'
  BY RefusedKeeps
<1> DEFINE step == Head(decode.todo)
<1>1. decode.at = "mosaic" /\ decode.todo # <<>>
  BY DEF CorrectMosaic
<1>2. PICK clips \in {{}, {step}} :
         /\ decode' = [decode EXCEPT !.todo = Tail(@), !.log = Recorded(@, clips)]
         /\ lost' = lost \cup clips /\ applied' = Append(applied, step)
         /\ UNCHANGED <<source, memo>>
  BY DEF CorrectMosaic
<1>3. decode \in DecodeRecords /\ CarriedOut(decode.plan) /\ OnMosaic
  BY <1>1 DEF DecodeInv
<1>4. decode.todo \in Seq(Corrections) /\ applied \in Seq(Corrections) /\ decode.log \in Rasters
  BY <1>3 DEF DecodeInv, DecodeRecords
<1>5. /\ step \in Corrections /\ Tail(decode.todo) \in Seq(Corrections)
      /\ Append(applied, step) \in Seq(Corrections)
      /\ Append(applied, step) \o Tail(decode.todo) = applied \o decode.todo
  BY <1>1, <1>4, OneDone
<1>6. clips \in SUBSET Corrections
  BY <1>2, <1>5
<1> DEFINE rest == Tail(decode.todo)
           log == Recorded(decode.log, clips)
<1>7. log \in Rasters /\ log # NoRaster /\ Content(log) = Content(decode.log) \cup clips
  BY <1>1, <1>3, <1>4, <1>6, RasterFacts DEF OnMosaic
<1>8. decode' = [decode EXCEPT !.todo = rest, !.log = log] /\ rest \in Seq(Corrections)
  BY <1>2, <1>5
<1> HIDE DEF rest, log
<1>9. /\ decode' \in DecodeRecords /\ decode'.at = "mosaic" /\ decode'.plan = decode.plan
      /\ decode'.todo = rest /\ decode'.log = log
  BY <1>1, <1>3, <1>7, <1>8 DEF DecodeRecords
<1>10. OnMosaic'
  <2>1. applied' \o decode'.todo = MosaicSteps(decode.plan)'
    BY <1>2, <1>3, <1>5, <1>9, PlanStays DEF OnMosaic, rest
  <2>2. lost' \subseteq Content(decode'.log)
    BY <1>2, <1>3, <1>7, <1>9 DEF OnMosaic
  <2> QED
    BY <1>7, <1>9, <2>1, <2>2 DEF OnMosaic, Content, NoRaster
<1>11. (source \in DngFiles)' /\ (memo \subseteq HonestPlans)' /\ CarriedOut(decode.plan)'
  BY <1>2, <1>3, <1>9, PlanStays
<1>12. lost' \subseteq Corrections /\ applied' \in Seq(Corrections)
  BY <1>2, <1>5, <1>6 DEF DecodeInv
<1> QED
  BY <1>9, <1>10, <1>11, <1>12 DEF DecodeInv

\* What the demosaic spreads further than is known is not trusted.
LEMMA DemosaicKeeps == DecodeInv /\ Demosaic => DecodeInv'
<1> SUFFICES ASSUME DecodeInv, Demosaic PROVE DecodeInv'
  OBVIOUS
<1>1. PICK wb \in {{}, {Other("balance")}}, ceiling \in {{}, {Other("ceiling")}} :
         LET log == Recording(decode.log, wb)
             algorithm == Algorithm(log)
             local == Reach(algorithm)
             known == IF Content(log) = {} \/ ~local THEN NoRaster ELSE log
         IN  /\ decode' = [decode EXCEPT
                             !.at = "camera", !.todo = decode.plan.lists[3], !.log = NoRaster, !.call.demosaic = algorithm,
                             !.masks = Recording(known, ceiling),
                             !.untrusted = Content(log) # {} /\ ~local]
             /\ lost' = lost \cup wb \cup ceiling
  BY DEF Demosaic
<1>2. decode.at = "mosaic" /\ decode.todo = <<>> /\ UNCHANGED <<source, memo, applied>>
  BY DEF Demosaic
<1>3. decode \in DecodeRecords /\ CarriedOut(decode.plan) /\ OnMosaic /\ source \in DngFiles
  BY <1>2 DEF DecodeInv
<1> DEFINE log == Recording(decode.log, wb)
           algorithm == Algorithm(log)
           local == Reach(algorithm)
           known == IF Content(log) = {} \/ ~local THEN NoRaster ELSE log
           masks == Recording(known, ceiling)
           untrusted == Content(log) # {} /\ ~local
           call == [decode.call EXCEPT !.demosaic = algorithm]
           last == decode.plan.lists[3]
<1>4. wb \in SUBSET Corrections /\ ceiling \in SUBSET Corrections
  BY <1>1 DEF Other, Corrections, StepKinds
<1>5. log \in Rasters /\ Content(log) = Content(decode.log) \cup wb
  BY <1>3, <1>4, RasterFacts DEF DecodeRecords
<1>6. known \in Rasters
  BY <1>5 DEF Rasters, NoRaster
<1>7. masks \in Rasters /\ Content(masks) = Content(known) \cup ceiling
  BY <1>4, <1>6, RasterFacts
<1>8. decode.call \in CallRecords /\ algorithm \in STRING \cup {"AHD"}
  BY <1>3 DEF DecodeRecords, CallRecords, Algorithm
<1>9. call \in CallRecords
  BY <1>8 DEF CallRecords
<1>10. last \in Seq(Corrections)
  BY <1>3, CarriedFacts
<1>11. untrusted \/ lost' \subseteq Content(masks)
  BY <1>1, <1>3, <1>5, <1>7 DEF OnMosaic
<1>12. untrusted \in BOOLEAN /\ NoRaster \in Rasters
  BY DEF NoRaster, Rasters
<1>13. decode' = [decode EXCEPT !.at = "camera", !.call = call, !.todo = last, !.log = NoRaster,
                                !.masks = masks, !.untrusted = untrusted]
  BY <1>1, <1>3 DEF DecodeRecords
<1> HIDE DEF log, algorithm, local, known, masks, untrusted, call, last
<1>14. /\ decode' \in DecodeRecords /\ decode'.at = "camera" /\ decode'.plan = decode.plan
       /\ decode'.todo = last /\ decode'.masks = masks /\ decode'.untrusted = untrusted
  BY <1>3, <1>7, <1>9, <1>10, <1>12, <1>13 DEF DecodeRecords
<1>15. OnCamera'
  <2>1. applied \in Seq(Corrections) /\ applied \o <<>> = applied
    BY ConcatEmptySeq DEF DecodeInv
  <2>2. applied = MosaicSteps(decode.plan)
    BY <1>2, <1>3, <2>1 DEF OnMosaic
  <2>3. applied' \o decode'.todo = AllSteps(decode.plan)'
    BY <1>2, <1>14, <2>2, PlanStays DEF AllSteps, last
  <2> QED
    BY <1>11, <1>14, <2>3 DEF OnCamera
<1>16. (source \in DngFiles)' /\ (memo \subseteq HonestPlans)' /\ CarriedOut(decode.plan)'
  BY <1>2, <1>3, <1>14, PlanStays
<1>17. lost' \subseteq Corrections /\ applied' \in Seq(Corrections)
  BY <1>1, <1>2, <1>4 DEF DecodeInv
<1> QED
  BY <1>14, <1>15, <1>16, <1>17 DEF DecodeInv

\* A correction of the planes allocates the mask of what it clips; a trim clips nothing.
LEMMA CameraKeeps == DecodeInv /\ CorrectCamera => DecodeInv'
<1> SUFFICES ASSUME DecodeInv, CorrectCamera, ~Refused PROVE DecodeInv'
  BY RefusedKeeps
<1> DEFINE step == Head(decode.todo)
           trim == step.kind = "trim"
<1>1. decode.at = "camera" /\ decode.todo # <<>>
  BY DEF CorrectCamera
<1>2. PICK clips \in IF trim THEN {{}} ELSE {{}, {step}} :
         /\ decode' = [decode EXCEPT !.todo = Tail(@), !.masks = IF trim THEN @ ELSE {Content(@) \cup clips}]
         /\ lost' = lost \cup clips /\ applied' = Append(applied, step)
         /\ UNCHANGED <<source, memo>>
  BY DEF CorrectCamera
<1>3. decode \in DecodeRecords /\ CarriedOut(decode.plan) /\ OnCamera
  BY <1>1 DEF DecodeInv
<1>4. decode.todo \in Seq(Corrections) /\ applied \in Seq(Corrections) /\ decode.masks \in Rasters
  BY <1>3 DEF DecodeInv, DecodeRecords
<1>5. /\ step \in Corrections /\ Tail(decode.todo) \in Seq(Corrections)
      /\ Append(applied, step) \in Seq(Corrections)
      /\ Append(applied, step) \o Tail(decode.todo) = applied \o decode.todo
  BY <1>1, <1>4, OneDone
<1>6. clips \in SUBSET Corrections /\ (trim => clips = {})
  BY <1>2, <1>5
<1> DEFINE rest == Tail(decode.todo)
           masks == IF trim THEN decode.masks ELSE {Content(decode.masks) \cup clips}
<1>7. masks \in Rasters /\ Content(masks) = Content(decode.masks) \cup clips
  BY <1>4, <1>6, RasterFacts
<1>8. decode' = [decode EXCEPT !.todo = rest, !.masks = masks] /\ rest \in Seq(Corrections)
  BY <1>2, <1>5
<1> HIDE DEF rest, masks, trim
<1>9. /\ decode' \in DecodeRecords /\ decode'.at = "camera" /\ decode'.plan = decode.plan
      /\ decode'.todo = rest /\ decode'.masks = masks /\ decode'.untrusted = decode.untrusted
  BY <1>1, <1>3, <1>7, <1>8 DEF DecodeRecords
<1>10. OnCamera'
  <2>1. applied' \o decode'.todo = AllSteps(decode.plan)'
    BY <1>2, <1>3, <1>5, <1>9, PlanStays DEF OnCamera, rest
  <2>2. decode'.untrusted \/ lost' \subseteq Content(decode'.masks)
    BY <1>2, <1>3, <1>7, <1>9 DEF OnCamera
  <2> QED
    BY <2>1, <2>2 DEF OnCamera, Content
<1>11. (source \in DngFiles)' /\ (memo \subseteq HonestPlans)' /\ CarriedOut(decode.plan)'
  BY <1>2, <1>3, <1>9, PlanStays
<1>12. lost' \subseteq Corrections /\ applied' \in Seq(Corrections)
  BY <1>2, <1>5, <1>6 DEF DecodeInv
<1> QED
  BY <1>9, <1>10, <1>11, <1>12 DEF DecodeInv

\* A full well is excluded, or the frame is not trusted.
LEMMA EndKeeps == DecodeInv /\ EndDecode => DecodeInv'
<1> SUFFICES ASSUME DecodeInv, EndDecode PROVE DecodeInv'
  OBVIOUS
<1> DEFINE local == ~Has(decode.plan.lists[1], {"repair"}) /\ Reach(decode.call.demosaic)
<1>1. PICK well \in {{}, {Other("well")}} :
         /\ decode' = [decode EXCEPT !.at = "done",
                                     !.exclusion = IF well # {} /\ local THEN {well} ELSE NoRaster,
                                     !.untrusted = @ \/ (well # {} /\ ~local)]
         /\ lost' = lost \cup well
  BY DEF EndDecode
<1>2. decode.at = "camera" /\ decode.todo = <<>> /\ UNCHANGED <<source, memo, applied>>
  BY DEF EndDecode
<1>3. decode \in DecodeRecords /\ CarriedOut(decode.plan) /\ OnCamera
  BY <1>2 DEF DecodeInv
<1> DEFINE exclusion == IF well # {} /\ local THEN {well} ELSE NoRaster
           untrusted == decode.untrusted \/ (well # {} /\ ~local)
<1>4. well \in SUBSET Corrections
  BY <1>1 DEF Other, Corrections, StepKinds
<1>5. exclusion \in Rasters /\ (~untrusted => well \subseteq Content(exclusion))
  BY <1>4 DEF Rasters, NoRaster, Content
<1>6. decode.untrusted \in BOOLEAN
  BY <1>3 DEF DecodeRecords
<1>7. untrusted \in BOOLEAN /\ (decode.untrusted => untrusted)
  BY <1>6
<1>8. decode' = [decode EXCEPT !.at = "done", !.exclusion = exclusion, !.untrusted = untrusted]
  BY <1>1, <1>3 DEF DecodeRecords
<1> HIDE DEF local, exclusion, untrusted
<1>9. /\ decode' \in DecodeRecords /\ decode'.at = "done" /\ decode'.plan = decode.plan
      /\ decode'.masks = decode.masks /\ decode'.exclusion = exclusion /\ decode'.untrusted = untrusted
  BY <1>3, <1>5, <1>7, <1>8 DEF DecodeRecords
<1>10. PlanComplete'
  <2>1. applied \in Seq(Corrections) /\ applied \o <<>> = applied
    BY ConcatEmptySeq DEF DecodeInv
  <2>2. applied = AllSteps(decode.plan)
    BY <1>2, <1>3, <2>1 DEF OnCamera
  <2>3. applied' = AllSteps(decode.plan)'
    BY <1>2, <1>9, <2>2, PlanStays
  <2>4. decode'.untrusted \/ lost' \subseteq Content(decode'.masks) \cup Content(decode'.exclusion)
    BY <1>1, <1>3, <1>5, <1>7, <1>9 DEF OnCamera
  <2> QED
    BY <2>3, <2>4 DEF PlanComplete, Content
<1>11. (source \in DngFiles)' /\ (memo \subseteq HonestPlans)' /\ CarriedOut(decode.plan)'
  BY <1>2, <1>3, <1>9, PlanStays
<1>12. lost' \subseteq Corrections /\ applied' \in Seq(Corrections)
  BY <1>1, <1>2, <1>4 DEF DecodeInv
<1> QED
  BY <1>9, <1>10, <1>11, <1>12 DEF DecodeInv

\* From a file, every step keeps the invariant.
THEOREM DecodeInvariant == DecodeSpec => []DecodeInv
<1>1. DecodeInit => DecodeInv
  <2> SUFFICES ASSUME DecodeInit PROVE DecodeInv
    OBVIOUS
  <2>1. source \in DngFiles /\ memo = {} /\ decode = Idle /\ lost = {} /\ applied = <<>>
    BY DEF DecodeInit, DecodeFrom
  <2>2. decode.at = "idle"
    BY <2>1 DEF Idle
  <2> QED
    BY <2>1, <2>2, EmptySeq DEF DecodeInv
<1>2. DecodeInv /\ UNCHANGED decodeVars => DecodeInv'
  <2> SUFFICES ASSUME DecodeInv, UNCHANGED decodeVars PROVE DecodeInv'
    OBVIOUS
  <2>1. UNCHANGED <<source, memo, decode, lost, applied>> /\ decode'.plan = decode.plan
    BY DEF decodeVars
  <2>2. OnMosaic => OnMosaic'
    BY <2>1, PlanStays DEF OnMosaic, Content, NoRaster
  <2>3. OnCamera => OnCamera'
    BY <2>1, PlanStays DEF OnCamera, Content
  <2>4. PlanComplete => PlanComplete'
    BY <2>1, PlanStays DEF PlanComplete, Content
  <2>5. (source \in DngFiles)' /\ (memo \subseteq HonestPlans)' /\ (CarriedOut(decode.plan) => CarriedOut(decode.plan)')
    BY <2>1, PlanStays
  <2> QED
    BY <2>1, <2>2, <2>3, <2>4, <2>5 DEF DecodeInv
<1>3. DecodeInv /\ [DecodeNext]_decodeVars => DecodeInv'
  BY <1>2, BeginKeeps, MosaicKeeps, DemosaicKeeps, CameraKeeps, EndKeeps DEF DecodeNext
<1> QED
  BY <1>1, <1>3, PTL DEF DecodeSpec

\* The opcodes at these places, once and in order, among steps that are not the file's.
Mixes(steps, places, others) ==
    /\ \A j \in 1..Len(steps) : steps[j] \in others \/ \E i \in places : steps[j] = Step(i)
    /\ \A i \in places : \E j \in 1..Len(steps) : steps[j] = Step(i)
    /\ \A j, l \in 1..Len(steps) :
         j < l /\ steps[j].place # 0 /\ steps[l].place # 0 => steps[j].place < steps[l].place

\* Lists whose places follow each other are one list.
LEMMA JoinedLists ==
    ASSUME NEW s \in Seq(Corrections), NEW t \in Seq(Corrections),
           NEW P \in SUBSET Nat, NEW Q \in SUBSET Nat, NEW others,
           \A o \in others : o.place = 0,
           Mixes(s, P, others), Mixes(t, Q, others), \A p \in P, q \in Q : p < q
    PROVE  Mixes(s \o t, P \cup Q, others)
<1> DEFINE u == s \o t
<1>1. /\ u \in Seq(Corrections) /\ Len(u) = Len(s) + Len(t) /\ Len(s) \in Nat /\ Len(t) \in Nat
      /\ \A j \in 1..Len(u) : u[j] = IF j <= Len(s) THEN s[j] ELSE t[j - Len(s)]
  BY ConcatProperties
<1> HIDE DEF u
<1>2. ASSUME NEW j \in 1..Len(u)
      PROVE  \/ j \in 1..Len(s) /\ u[j] = s[j]
             \/ /\ j - Len(s) \in 1..Len(t) /\ j > Len(s) /\ u[j] = t[j - Len(s)]
  BY <1>1
<1>3. ASSUME NEW j \in 1..Len(s) PROVE j \in 1..Len(u) /\ u[j] = s[j]
  BY <1>1
<1>4. ASSUME NEW j \in 1..Len(t) PROVE Len(s) + j \in 1..Len(u) /\ u[Len(s) + j] = t[j]
  BY <1>1
<1>5. ASSUME NEW j \in 1..Len(u) PROVE u[j] \in others \/ \E i \in P \cup Q : u[j] = Step(i)
  <2>1. CASE j \in 1..Len(s) /\ u[j] = s[j]
    <3>1. s[j] \in others \/ \E i \in P : s[j] = Step(i)
      BY <2>1 DEF Mixes
    <3> QED
      BY <2>1, <3>1
  <2>2. CASE j - Len(s) \in 1..Len(t) /\ u[j] = t[j - Len(s)]
    <3>1. t[j - Len(s)] \in others \/ \E i \in Q : t[j - Len(s)] = Step(i)
      BY <2>2 DEF Mixes
    <3> QED
      BY <2>2, <3>1
  <2> QED
    BY <1>2, <2>1, <2>2
<1>6. ASSUME NEW i \in P \cup Q PROVE \E j \in 1..Len(u) : u[j] = Step(i)
  BY <1>3, <1>4 DEF Mixes
<1>7. ASSUME NEW j \in 1..Len(u), NEW l \in 1..Len(u), j < l, u[j].place # 0, u[l].place # 0
      PROVE  u[j].place < u[l].place
  <2>1. CASE j \in 1..Len(s) /\ u[j] = s[j] /\ l \in 1..Len(s) /\ u[l] = s[l]
    BY <1>7, <2>1 DEF Mixes
  <2>2. CASE j \in 1..Len(s) /\ u[j] = s[j] /\ l - Len(s) \in 1..Len(t) /\ u[l] = t[l - Len(s)]
    <3>1. PICK p \in P : u[j] = Step(p)
      BY <1>7, <2>2 DEF Mixes
    <3>2. PICK q \in Q : u[l] = Step(q)
      BY <1>7, <2>2 DEF Mixes
    <3> QED
      BY <3>1, <3>2 DEF Step
  <2>3. CASE /\ j - Len(s) \in 1..Len(t) /\ u[j] = t[j - Len(s)]
             /\ l - Len(s) \in 1..Len(t) /\ u[l] = t[l - Len(s)]
    <3>1. j - Len(s) < l - Len(s)
      BY <1>1, <1>7
    <3> QED
      BY <1>7, <2>3, <3>1 DEF Mixes
  <2>4. CASE j > Len(s) /\ l \in 1..Len(s)
    BY <1>1, <1>7, <2>4
  <2> QED
    BY <1>2, <2>1, <2>2, <2>3, <2>4
<1> QED
  BY <1>5, <1>6, <1>7 DEF Mixes, u

\* A finished frame got what its file asks for.
LEMMA CorrectionsDone == DecodeInv => CorrectionsAccounted
<1> SUFFICES ASSUME DecodeInv, decode.at = "done" PROVE CorrectionsAccounted
  BY DEF CorrectionsAccounted, LossesAccounted, OpcodesHonoured
<1>1. PlanComplete /\ CarriedOut(decode.plan) /\ source \in DngFiles
  BY DEF DecodeInv
<1>2. LossesAccounted
  BY <1>1 DEF PlanComplete, LossesAccounted
<1> DEFINE n == Len(source.opcodes)
           plan == decode.plan
           D(stage) == Due(stage, n)
           black == {Other("black")}
           all == {Other("black"), Other("shading"), Other("distortion")}
<1>3. PICK read \in HonestPlans :
         /\ ~read.refused /\ plan.lists[1] = read.lists[1] /\ plan.lists[2] = read.lists[2]
         /\ plan.lists[3] = read.lists[3] \o LensSteps
  BY <1>1, CarriedFacts
<1>4. LensSteps \in Seq(Corrections) /\ BlackSteps \in Seq(Corrections)
  BY <1>1, CarriedFacts
<1>5. /\ read.lists[1] \in Seq(Corrections) /\ read.lists[2] \in Seq(Corrections) /\ read.lists[3] \in Seq(Corrections)
      /\ Holds(read.lists[1], D(1)) /\ Holds(read.lists[2], D(2)) /\ Holds(read.lists[3], D(3))
  BY <1>3 DEF HonestPlans, ReadSoFar, PlanRecords
<1> DEFINE a == read.lists[1]
           b == read.lists[2]
           c == read.lists[3]
<1>6. /\ n \in Nat /\ DOMAIN source.opcodes = 1..n
      /\ \A i \in 1..n : Op(i).stage \in 1..3 /\ Step(i) \in Corrections /\ Step(i).place = i
      /\ \A i, j \in 1..n : i < j => Op(i).stage <= Op(j).stage
  BY <1>1, OpcodeFacts
<1>7. /\ D(1) \in SUBSET Nat /\ D(2) \in SUBSET Nat /\ D(3) \in SUBSET Nat
      /\ \A i \in D(1) : i \in 1..n /\ Op(i).stage = 1
      /\ \A i \in D(2) : i \in 1..n /\ Op(i).stage = 2
      /\ \A i \in D(3) : i \in 1..n /\ Op(i).stage = 3
      /\ D(1) \cup D(2) \cup D(3) = {i \in 1..n : ~Omitted(i)}
  <2>1. \A stage : D(stage) = {i \in 1..n : ~Omitted(i) /\ Op(i).stage = stage}
    BY DEF Due
  <2> QED
    BY <1>6, <2>1
<1>8. /\ \A p \in D(1), q \in D(2) : p < q
      /\ \A p \in D(1) \cup D(2), q \in D(3) : p < q
  <2>1. \A i, j \in 1..n : i < j \/ j < i \/ i = j
    BY <1>6
  <2> QED
    BY <1>6, <1>7, <2>1
<1>9. (\A o \in black : o.place = 0) /\ (\A o \in all : o.place = 0)
  BY DEF Other
<1> HIDE DEF D, n
<1>10. ASSUME NEW s \in Seq(Corrections), NEW P \in SUBSET Nat, Holds(s, P), NEW others PROVE Mixes(s, P, others)
  BY <1>10 DEF Holds, Mixes
<1>11. Mixes(BlackSteps, {}, black)
  <2>1. Len(BlackSteps) = IF source.black THEN 1 ELSE 0
    BY DEF BlackSteps
  <2>2. \A j \in 1..Len(BlackSteps) : BlackSteps[j] = Other("black")
    BY <2>1 DEF BlackSteps
  <2> QED
    BY <1>9, <2>2 DEF Mixes
<1> DEFINE ab == a \o BlackSteps
           abb == ab \o b
           own == abb \o c
<1> HIDE DEF a, b, c
<1>12. ab \in Seq(Corrections) /\ Mixes(ab, D(1), black)
  <2>1. Mixes(a, D(1), black)
    BY <1>5, <1>7, <1>10 DEF a
  <2>2. Mixes(ab, D(1) \cup {}, black)
    BY <1>4, <1>5, <1>7, <1>9, <1>11, <2>1, JoinedLists DEF a
  <2>3. D(1) \cup {} = D(1)
    OBVIOUS
  <2> QED
    BY <1>4, <1>5, <2>2, <2>3, ConcatProperties DEF a
<1> HIDE DEF ab
<1>13. abb \in Seq(Corrections) /\ Mixes(abb, D(1) \cup D(2), black)
  <2>1. Mixes(b, D(2), black)
    BY <1>5, <1>7, <1>10 DEF b
  <2>2. Mixes(abb, D(1) \cup D(2), black)
    BY <1>5, <1>7, <1>8, <1>9, <1>12, <2>1, JoinedLists DEF b
  <2> QED
    BY <1>5, <1>12, <2>2, ConcatProperties DEF b
<1> HIDE DEF abb
<1> DEFINE places == {i \in 1..n : ~Omitted(i)}
<1>14. own \in Seq(Corrections) /\ Mixes(own, places, black)
  <2>1. Mixes(c, D(3), black)
    BY <1>5, <1>7, <1>10 DEF c
  <2>2. D(1) \cup D(2) \in SUBSET Nat
    BY <1>7
  <2>3. Mixes(own, (D(1) \cup D(2)) \cup D(3), black)
    BY <1>5, <1>7, <1>8, <1>9, <1>13, <2>1, <2>2, JoinedLists DEF c
  <2> QED
    BY <1>5, <1>7, <1>13, <2>3, ConcatProperties DEF c
<1>15. applied = own \o LensSteps
  <2>1. applied = abb \o (c \o LensSteps)
    BY <1>1, <1>3 DEF PlanComplete, AllSteps, MosaicSteps, abb, ab, a, b, c
  <2>2. abb \o (c \o LensSteps) = (abb \o c) \o LensSteps
    <3>1. c \in Seq(Corrections)
      BY <1>5 DEF c
    <3>2. abb \in Seq(Corrections) /\ LensSteps \in Seq(Corrections)
      BY <1>4, <1>13
    <3>3. \A x, y, z \in Seq(Corrections) : (x \o y) \o z = x \o (y \o z)
      BY ConcatAssociative
    <3> QED
      BY <3>1, <3>2, <3>3
  <2> QED
    BY <2>1, <2>2
<1> HIDE DEF own
<1>16. /\ Len(applied) = Len(own) + Len(LensSteps) /\ Len(own) \in Nat /\ Len(LensSteps) \in Nat
       /\ applied \in Seq(Corrections)
       /\ \A j \in 1..Len(own) : applied[j] = own[j]
  <2>1. \A j \in 1..Len(applied) : applied[j] = IF j <= Len(own) THEN own[j] ELSE LensSteps[j - Len(own)]
    BY <1>4, <1>14, <1>15, ConcatProperties
  <2>2. /\ Len(applied) = Len(own) + Len(LensSteps) /\ Len(own) \in Nat /\ Len(LensSteps) \in Nat
        /\ applied \in Seq(Corrections)
    BY <1>4, <1>14, <1>15, ConcatProperties
  <2> QED
    BY <2>1, <2>2
<1>17. SubSeq(applied, Len(own) + 1, Len(applied)) = LensSteps
  <2>1. SubSeq(own \o LensSteps, Len(own) + 1, Len(own) + Len(LensSteps))
          = SubSeq(LensSteps, Len(own) + 1 - Len(own), Len(own) + Len(LensSteps) - Len(own))
    BY <1>4, <1>14, <1>16, SubSeqOfConcat2
  <2>2. Len(own) + 1 - Len(own) = 1 /\ Len(own) + Len(LensSteps) - Len(own) = Len(LensSteps)
    BY <1>16
  <2>3. SubSeq(LensSteps, 1, Len(LensSteps)) = LensSteps
    BY <1>4, SubSeqFull
  <2> QED
    BY <1>15, <1>16, <2>1, <2>2, <2>3
<1>18. {applied[k] : k \in 1..Len(own)} \ {Other("black")} = {Step(i) : i \in places}
  <2>1. ASSUME NEW k \in 1..Len(own), applied[k] # Other("black") PROVE applied[k] \in {Step(i) : i \in places}
    BY <1>14, <1>16, <2>1 DEF Mixes
  <2>2. ASSUME NEW i \in places PROVE Step(i) \in {applied[k] : k \in 1..Len(own)} /\ Step(i) # Other("black")
    <3>1. \E k \in 1..Len(own) : own[k] = Step(i)
      BY <1>14 DEF Mixes
    <3>2. Step(i).place = i /\ i # 0
      BY <1>6 DEF n
    <3> QED
      BY <1>9, <1>16, <3>1, <3>2
  <2> QED
    BY <2>1, <2>2
<1>19. InPlace(applied)
  <2>1. Mixes(LensSteps, {}, all)
    <3>1. Len(LensSteps) = IF source.lens THEN 2 ELSE 0
      BY DEF LensSteps
    <3>2. \A j \in 1..Len(LensSteps) : LensSteps[j] \in all
      BY <3>1 DEF LensSteps
    <3> QED
      BY <1>9, <3>2 DEF Mixes
  <2>2. Mixes(own, places, all)
    BY <1>14 DEF Mixes
  <2>3. places \in SUBSET Nat
    BY <1>6
  <2>4. Mixes(applied, places \cup {}, all)
    BY <1>4, <1>9, <1>14, <1>15, <2>1, <2>2, <2>3, JoinedLists
  <2>5. DOMAIN applied = 1..Len(applied)
    BY <1>16, LenProperties
  <2> QED
    BY <2>4, <2>5 DEF Mixes, InPlace
<1>20. Len(applied) - Len(LensSteps) = Len(own)
  BY <1>16
<1>21. places = {i \in DOMAIN source.opcodes : ~Omitted(i)}
  BY <1>6 DEF n
<1>22. OpcodesHonoured
  BY <1>17, <1>18, <1>19, <1>20, <1>21 DEF OpcodesHonoured
<1> QED
  BY <1>2, <1>22 DEF CorrectionsAccounted

\* For any file and any calls: a frame that is delivered got every correction of its file
\* that is due, once and in order, and what was clipped on the way is in its evidence.
THEOREM CorrectionsAlwaysAccounted == DecodeSpec => []CorrectionsAccounted
BY DecodeInvariant, CorrectionsDone, PTL
-----------------------------------------------------------------------------
(* Loads of a RAW

   Generations only grow: if the file is still the session's when a load returns, it was
   all the time, and whatever was read meanwhile is of that generation. *)

VersionRecords == [major : Nat, bare : BOOLEAN]
Generations == Nat \cup {Unknown}
References == [of : Generations, mode : {"reconstruct", "clip"}]
CarriedRecords == [identity : Generations, evidence : Nat]
BundleRecords ==
    [shot : Generations, evidence : Generations, scene : Generations, reference : References \cup {Unknown},
     decoder : {"none", "libraw", "coreimage"}, version : VersionRecords \cup {Unknown},
     balance : {"camera", "kelvin"}, degraded : BOOLEAN, scaled : BOOLEAN, misaligned : BOOLEAN,
     trust : {"none", "sensor-spatial", "untrusted", "decoded-image", "sensor-reference"}]
Stations ==
    {"open", "start", "shot", "evidence", "balance", "scene", "hash", "candidate", "handoff",
     "reference", "clipped", "commit", "returned", "raised"}
LoadRecords ==
    [at : Stations, request : LoadRequests, decoder : {"libraw", "coreimage"}, nested : BOOLEAN,
     carried : CarriedRecords \cup {Unknown}, hash : Generations, todo : SUBSET VersionRecords,
     failures : SUBSET VersionRecords, error : {"none", "source", "decode"}, bundle : BundleRecords]
SessionRecords ==
    [identity : Generations, status : {"closed", "unavailable", "verified", "changed", "unverifiable"}]

SessionSound ==
    /\ file \in [generation : Nat, present : BOOLEAN] /\ session \in SessionRecords
    /\ session.identity # Unknown =>
         /\ session.status \notin {"closed", "unavailable"}
         /\ session.identity <= file.generation
         /\ file.generation = session.identity => file.present

\* While the file is the one the session began with, all that was read is of it.
OfSource(value) == value \in {Unknown, session.identity}
Fresh(l) ==
    session.identity # Unknown /\ file.generation = session.identity =>
      /\ OfSource(l.bundle.shot) /\ OfSource(l.bundle.evidence) /\ OfSource(l.bundle.scene) /\ OfSource(l.hash)
      /\ l.bundle.reference # Unknown => l.bundle.reference.of = session.identity
      /\ l.carried # Unknown => l.carried.evidence = session.identity

\* The decoder at work, and what its versions have done.
Attempts(l) ==
    /\ \/ l.decoder = l.request.decoder
       \/ l.nested /\ l.decoder = "libraw" /\ l.request.version = AnyVersion
    /\ l.at = "scene" => l.decoder = "libraw"
    /\ l.at \in {"hash", "candidate", "handoff", "reference", "clipped"} => l.decoder = "coreimage"
    /\ l.at = "candidate" =>
         /\ l.request.version # AnyVersion =>
              l.failures = {} /\ \E v \in l.todo : l.todo = {v} /\ v.major = l.request.version
         /\ \A f \in l.failures, v \in l.todo : f.major >= v.major
    /\ l.at \in {"handoff", "reference", "clipped", "commit", "returned"} =>
         /\ l.bundle.scene \in Nat /\ l.bundle.decoder = l.decoder
         /\ l.decoder = "coreimage" =>
              /\ l.hash = l.bundle.scene
              /\ l.request.version # AnyVersion => l.bundle.version.major = l.request.version /\ l.failures = {}
              /\ \A f \in l.failures : f.major >= l.bundle.version.major

\* The evidence, and what is said of balance, scale and trust.
LoadClaims(l) ==
    LET b == l.bundle
    IN  /\ l.decoder = "libraw" /\ l.at \in {"balance", "scene", "commit", "returned"} => b.evidence \in Nat
        /\ l.at \in {"scene", "hash", "candidate", "handoff", "reference", "clipped", "commit", "returned"} =>
             /\ b.degraded <=> (l.request.kelvin /\ b.balance = "camera")
             /\ b.balance = "kelvin" => l.request.kelvin
        /\ l.at \notin {"clipped", "commit", "returned", "raised"} =>
             b.reference = Unknown /\ ~b.scaled /\ b.trust # "sensor-reference"
        /\ l.at = "reference" => ~b.misaligned /\ b.evidence \in Nat
        /\ l.at = "clipped" => b.trust = "sensor-reference"
        /\ l.at \in {"clipped", "commit", "returned"} =>
             /\ l.decoder = "coreimage" /\ l.request.align => b.scaled # b.misaligned
             /\ b.trust = "sensor-reference" => b.evidence \in Nat
             /\ b.reference # Unknown => b.trust = "sensor-reference"

LoadSound(l) == l \in LoadRecords /\ Fresh(l) /\ Attempts(l) /\ LoadClaims(l)

LoadInv ==
    /\ SessionSound /\ LoadSound(load)
    /\ load.at = "open" =>
         /\ load.bundle = NoBundle /\ load.carried = Unknown /\ load.hash = Unknown
         /\ session.identity = Unknown
    /\ load.at = "returned" /\ session.identity # Unknown => file.generation = session.identity

\* A load that is given up claims nothing.
LEMMA RaisedSound ==
    ASSUME LoadSound(load), NEW error \in {"source", "decode"}
    PROVE  /\ LoadSound([load EXCEPT !.at = "raised", !.error = error])
           /\ [load EXCEPT !.at = "raised", !.error = error].at = "raised"
<1> DEFINE new == [load EXCEPT !.at = "raised", !.error = error]
<1>1. load \in LoadRecords
  BY DEF LoadSound
<1>2. /\ new \in LoadRecords /\ new.at = "raised" /\ new.request = load.request /\ new.decoder = load.decoder
      /\ new.nested = load.nested /\ new.carried = load.carried /\ new.hash = load.hash
      /\ new.bundle = load.bundle
  BY <1>1 DEF LoadRecords, Stations
<1> HIDE DEF new
<1>3. Fresh(new)
  BY <1>2 DEF LoadSound, Fresh
<1>4. Attempts(new)
  BY <1>2 DEF LoadSound, Attempts
<1>5. LoadClaims(new)
  BY <1>2 DEF LoadClaims
<1> QED
  BY <1>2, <1>3, <1>4, <1>5 DEF LoadSound, new

\* What the session finds when it looks at the file.
LEMMA StatusFacts ==
    ASSUME SessionSound
    PROVE  /\ StatusNow \in {"closed", "unavailable", "verified", "changed", "unverifiable"}
           /\ session.identity # Unknown => StatusNow \notin {"closed", "unavailable"}
           /\ session.identity # Unknown /\ Sound(StatusNow) => file.generation = session.identity
BY DEF SessionSound, SessionRecords, StatusNow, Sound

\* A step that looks at the file first goes on soundly, or raises.
LEMMA CheckedKeeps ==
    ASSUME LoadInv, NEW new, LoadSound(new), new.at # "open", Checked(new)
    PROVE  LoadInv'
<1>1. /\ session' = [session EXCEPT !.status = StatusNow] /\ file' = file
      /\ load' = IF Sound(StatusNow) THEN new ELSE [load EXCEPT !.at = "raised", !.error = "source"]
  BY DEF Checked
<1>2. session \in SessionRecords /\ SessionSound /\ LoadSound(load)
  BY DEF LoadInv, SessionSound
<1>3. session' \in SessionRecords /\ session'.identity = session.identity /\ session'.status = StatusNow
  BY <1>1, <1>2, StatusFacts DEF SessionRecords
<1>4. SessionSound'
  BY <1>1, <1>2, <1>3, StatusFacts DEF SessionSound
<1>5. LoadSound(load') /\ load'.at # "open"
  BY <1>1, <1>2, RaisedSound
<1>6. LoadSound(load)'
  BY <1>1, <1>3, <1>5 DEF LoadSound, Fresh, OfSource, Attempts, LoadClaims
<1>7. load'.at = "returned" /\ session'.identity # Unknown => file'.generation = session'.identity
  <2>1. CASE Sound(StatusNow)
    BY <1>1, <1>2, <1>3, <2>1, StatusFacts
  <2>2. CASE ~Sound(StatusNow)
    BY <1>1, <1>2, <2>2, RaisedSound
  <2> QED
    BY <2>1, <2>2
<1> QED
  BY <1>4, <1>5, <1>6, <1>7 DEF LoadInv

\* A step that does not look at the file, and does not return.
LEMMA UncheckedKeeps ==
    ASSUME LoadInv, LoadSound(load'), load'.at \notin {"open", "returned"}, UNCHANGED <<file, session>>
    PROVE  LoadInv'
<1>1. LoadSound(load)'
  BY DEF LoadSound, Fresh, OfSource, Attempts, LoadClaims
<1> QED
  BY <1>1 DEF LoadInv, SessionSound

\* The parts of a load, and what a look at the file gives.
LEMMA LoadFacts ==
    ASSUME LoadInv
    PROVE  /\ load \in LoadRecords /\ load.bundle \in BundleRecords
           /\ load.request \in [decoder : {"libraw", "coreimage"}, version : Nat \cup {AnyVersion},
                                pinned : BOOLEAN, align : BOOLEAN, kelvin : BOOLEAN]
           /\ file \in [generation : Nat, present : BOOLEAN] /\ session.identity \in Generations
           /\ LoadSound(load) /\ Fresh(load) /\ Attempts(load) /\ LoadClaims(load) /\ SessionSound
           /\ Unknown \notin Nat /\ Read \in Generations /\ Unknown \in Generations
           /\ file.present => Read = file.generation /\ Read \in Nat
           /\ session.identity # Unknown /\ file.generation = session.identity => Read = session.identity
<1>1. LoadSound(load) /\ SessionSound
  BY DEF LoadInv
<1>2. load \in LoadRecords
  BY <1>1 DEF LoadSound
<1>3. load.bundle \in BundleRecords /\ load.request \in LoadRequests
  BY <1>2 DEF LoadRecords
<1>4. file \in [generation : Nat, present : BOOLEAN] /\ session.identity \in Generations
  BY <1>1 DEF SessionSound, SessionRecords
<1>5. /\ Read \in Generations
      /\ file.present => Read = file.generation /\ Read \in Nat
      /\ session.identity # Unknown /\ file.generation = session.identity => Read = session.identity
  BY <1>1, <1>4 DEF Read, Generations, SessionSound
<1> QED
  BY <1>1, <1>2, <1>3, <1>4, <1>5, LoadAssumption DEF LoadSound, Generations

\* What raises is over.
LEMMA FailsKeeps == LoadInv /\ Fails => LoadInv'
<1> SUFFICES ASSUME LoadInv, Fails PROVE LoadInv'
  OBVIOUS
<1> DEFINE new == [load EXCEPT !.at = "raised", !.error = "decode"]
<1>1. LoadSound(new) /\ new.at = "raised" /\ Checked(new)
  BY LoadFacts, RaisedSound DEF Fails
<1> HIDE DEF new
<1> QED
  BY <1>1, CheckedKeeps

\* The file may go or be another one at any time.
LEMMA ChangeFileKeeps == LoadInv /\ ChangeFile => LoadInv'
<1> SUFFICES ASSUME LoadInv, ChangeFile PROVE LoadInv'
  OBVIOUS
<1>1. /\ file' \in {[generation |-> file.generation + 1, present |-> b] : b \in BOOLEAN}
      /\ UNCHANGED <<session, load>> /\ load.at # "returned"
  BY DEF ChangeFile
<1>2. /\ file \in [generation : Nat, present : BOOLEAN] /\ SessionSound /\ session.identity \in Generations
      /\ Unknown \notin Nat
  BY LoadFacts
<1>3. file' \in [generation : Nat, present : BOOLEAN] /\ file'.generation = file.generation + 1
  BY <1>1, <1>2
<1>4. session.identity # Unknown => session.identity \in Nat /\ session.identity < file'.generation
  BY <1>2, <1>3 DEF SessionSound, Generations
<1>5. session.identity # Unknown => file'.generation # session.identity
  BY <1>3, <1>4
<1>6. SessionSound'
  BY <1>1, <1>2, <1>3, <1>4, <1>5 DEF SessionSound
<1>7. LoadSound(load)'
  <2>1. Fresh(load)'
    BY <1>1, <1>5 DEF Fresh
  <2>2. load \in LoadRecords /\ Attempts(load) /\ LoadClaims(load)
    BY LoadFacts
  <2> QED
    BY <1>1, <2>1, <2>2 DEF LoadSound, Attempts, LoadClaims
<1> QED
  BY <1>1, <1>6, <1>7 DEF LoadInv

\* A session begins with the file as it is.
LEMMA OpenKeeps == LoadInv /\ OpenSession => LoadInv'
<1> SUFFICES ASSUME LoadInv, OpenSession PROVE LoadInv'
  OBVIOUS
<1>1. /\ load.at = "open" /\ load' = Goes("start") /\ file' = file
      /\ \/ session' = [identity |-> Read, status |-> IF file.present THEN "verified" ELSE "unavailable"]
         \/ session' = [identity |-> Unknown, status |-> "unavailable"]
  BY DEF OpenSession
<1>2. load.bundle = NoBundle /\ load.carried = Unknown /\ load.hash = Unknown
  BY <1>1 DEF LoadInv
<1>3. /\ load \in LoadRecords /\ load.bundle \in BundleRecords /\ file \in [generation : Nat, present : BOOLEAN]
      /\ Attempts(load) /\ LoadClaims(load) /\ Unknown \notin Nat /\ Read \in Generations /\ Unknown \in Generations
  BY LoadFacts
<1>4. SessionSound'
  BY <1>1, <1>3 DEF SessionSound, SessionRecords, Read
<1>5. /\ load' \in LoadRecords /\ load'.at = "start" /\ load'.bundle = load.bundle /\ load'.request = load.request
      /\ load'.decoder = load.decoder /\ load'.nested = load.nested /\ load'.carried = load.carried
      /\ load'.hash = load.hash
  BY <1>1, <1>3 DEF Goes, LoadRecords, Stations
<1>6. Fresh(load)'
  BY <1>2, <1>5 DEF Fresh, OfSource, NoBundle
<1>7. Attempts(load)'
  BY <1>3, <1>5 DEF Attempts
<1>8. LoadClaims(load)'
  BY <1>1, <1>3, <1>5 DEF LoadClaims
<1> QED
  BY <1>4, <1>5, <1>6, <1>7, <1>8 DEF LoadInv, LoadSound

\* The first look at the file, and its tags.
LEMMA StartKeeps == LoadInv /\ (StartLoad \/ ReadShot) => LoadInv'
<1>1. ASSUME LoadInv, StartLoad PROVE LoadInv'
  <2> DEFINE new == Goes("shot")
  <2>1. load.at = "start" /\ (Checked(new) \/ Fails)
    BY <1>1 DEF StartLoad
  <2>2. load \in LoadRecords /\ Fresh(load) /\ Attempts(load) /\ LoadClaims(load)
    BY <1>1, LoadFacts
  <2>3. /\ new \in LoadRecords /\ new.at = "shot" /\ new.bundle = load.bundle /\ new.request = load.request
        /\ new.decoder = load.decoder /\ new.nested = load.nested /\ new.carried = load.carried
        /\ new.hash = load.hash
    BY <2>2 DEF Goes, LoadRecords, Stations
  <2> HIDE DEF new
  <2>4. LoadSound(new)
    <3>1. Fresh(new)
      BY <2>2, <2>3 DEF Fresh
    <3>2. Attempts(new)
      BY <2>2, <2>3 DEF Attempts
    <3>3. LoadClaims(new)
      BY <2>1, <2>2, <2>3 DEF LoadClaims
    <3> QED
      BY <2>3, <3>1, <3>2, <3>3 DEF LoadSound
  <2> QED
    BY <1>1, <2>1, <2>3, <2>4, CheckedKeeps, FailsKeeps
<1>2. ASSUME LoadInv, ReadShot PROVE LoadInv'
  <2> DEFINE made == [load.bundle EXCEPT !.shot = Read]
             new == [load EXCEPT !.at = "evidence", !.bundle = made]
  <2>1. load.at = "shot" /\ Checked(Bundled("evidence", "shot", Read))
    BY <1>2 DEF ReadShot
  <2>2. /\ load \in LoadRecords /\ Fresh(load) /\ Attempts(load) /\ LoadClaims(load) /\ load.bundle \in BundleRecords
        /\ Read \in Generations
        /\ session.identity # Unknown /\ file.generation = session.identity => Read = session.identity
    BY <1>2, LoadFacts
  <2>3. Bundled("evidence", "shot", Read) = new
    BY <2>2 DEF Bundled, LoadRecords
  <2>4. /\ made \in BundleRecords /\ made.shot = Read
        /\ made = [load.bundle EXCEPT !.shot = Read]
        /\ made.evidence = load.bundle.evidence /\ made.scene = load.bundle.scene
        /\ made.reference = load.bundle.reference /\ made.scaled = load.bundle.scaled
        /\ made.trust = load.bundle.trust
    BY <2>2 DEF BundleRecords
  <2> HIDE DEF made
  <2>5. /\ new \in LoadRecords /\ new.at = "evidence" /\ new.bundle = made /\ new.request = load.request
        /\ new.decoder = load.decoder /\ new.nested = load.nested /\ new.carried = load.carried
        /\ new.hash = load.hash
    <3>1. "evidence" \in Stations
      BY DEF Stations
    <3>2. new = [load EXCEPT !.at = "evidence", !.bundle = made]
      OBVIOUS
    <3> HIDE DEF new
    <3> QED
      BY <2>2, <2>4, <3>1, <3>2 DEF LoadRecords
  <2> HIDE DEF new
  <2>6. LoadSound(new)
    <3>1. Fresh(new)
      BY <2>2, <2>4, <2>5 DEF Fresh, OfSource
    <3>2. Attempts(new)
      BY <2>2, <2>5 DEF Attempts
    <3>3. LoadClaims(new)
      BY <2>1, <2>2, <2>4, <2>5 DEF LoadClaims
    <3> QED
      BY <2>5, <3>1, <3>2, <3>3 DEF LoadSound
  <2> QED
    BY <1>2, <2>1, <2>3, <2>5, <2>6, CheckedKeeps
<1> QED
  BY <1>1, <1>2

\* The evidence is the file's, or that of the decoder that failed in the same session.
LEMMA EvidenceKeeps == LoadInv /\ AcquireEvidence => LoadInv'
<1> SUFFICES ASSUME LoadInv, AcquireEvidence, ~Fails PROVE LoadInv'
  BY FailsKeeps
<1>1. /\ load.at = "evidence"
      /\ \/ Reusable /\ Checked(Bundled("balance", "evidence", load.carried.evidence))
         \/ file.present /\ Checked(Bundled("balance", "evidence", Read))
         \/ load.decoder = "coreimage" /\ Checked(Bundled("balance", "evidence", Unknown))
  BY DEF AcquireEvidence
<1>2. /\ load \in LoadRecords /\ Fresh(load) /\ Attempts(load) /\ LoadClaims(load) /\ load.bundle \in BundleRecords
      /\ Read \in Generations /\ Unknown \in Generations /\ (file.present => Read \in Nat)
      /\ session.identity # Unknown /\ file.generation = session.identity => Read = session.identity
  BY LoadFacts
<1>3. PICK found \in Generations :
        /\ Checked(Bundled("balance", "evidence", found))
        /\ load.decoder = "libraw" => found \in Nat
        /\ session.identity # Unknown /\ file.generation = session.identity => OfSource(found)
  <2>1. CASE Reusable /\ Checked(Bundled("balance", "evidence", load.carried.evidence))
    <3>1. load.carried # Unknown
      BY <2>1 DEF Reusable
    <3>2. load.carried.evidence \in Nat
      BY <1>2, <3>1 DEF LoadRecords, CarriedRecords
    <3>3. session.identity # Unknown /\ file.generation = session.identity => OfSource(load.carried.evidence)
      BY <1>2, <3>1 DEF Fresh, OfSource
    <3> QED
      BY <2>1, <3>2, <3>3 DEF Generations
  <2>2. CASE file.present /\ Checked(Bundled("balance", "evidence", Read))
    BY <1>2, <2>2 DEF OfSource
  <2>3. CASE load.decoder = "coreimage" /\ Checked(Bundled("balance", "evidence", Unknown))
    BY <1>2, <2>3 DEF OfSource
  <2> QED
    BY <1>1, <2>1, <2>2, <2>3
<1> DEFINE made == [load.bundle EXCEPT !.evidence = found]
           new == [load EXCEPT !.at = "balance", !.bundle = made]
<1>4. Bundled("balance", "evidence", found) = new
  BY <1>2 DEF Bundled, LoadRecords
<1>5. /\ made \in BundleRecords /\ made.evidence = found
      /\ made.shot = load.bundle.shot /\ made.scene = load.bundle.scene
      /\ made.reference = load.bundle.reference /\ made.scaled = load.bundle.scaled
      /\ made.trust = load.bundle.trust
  BY <1>2 DEF BundleRecords
<1> HIDE DEF made
<1>6. /\ new \in LoadRecords /\ new.at = "balance" /\ new.bundle = made /\ new.request = load.request
      /\ new.decoder = load.decoder /\ new.nested = load.nested /\ new.carried = load.carried
      /\ new.hash = load.hash
  <2>1. "balance" \in Stations
    BY DEF Stations
  <2>2. new = [load EXCEPT !.at = "balance", !.bundle = made]
    OBVIOUS
  <2> HIDE DEF new
  <2> QED
    BY <1>2, <1>5, <2>1, <2>2 DEF LoadRecords
<1> HIDE DEF new
<1>7. LoadSound(new)
  <2>1. Fresh(new)
    BY <1>2, <1>3, <1>5, <1>6 DEF Fresh
  <2>2. Attempts(new)
    BY <1>2, <1>6 DEF Attempts
  <2>3. LoadClaims(new)
    BY <1>1, <1>2, <1>3, <1>5, <1>6 DEF LoadClaims
  <2> QED
    BY <1>6, <2>1, <2>2, <2>3 DEF LoadSound
<1> QED
  BY <1>3, <1>4, <1>6, <1>7, CheckedKeeps

\* A balance that cannot be solved is given up, and said to be.
LEMMA BalanceKeeps == LoadInv /\ SolveBalance => LoadInv'
<1> SUFFICES ASSUME LoadInv, SolveBalance PROVE LoadInv'
  OBVIOUS
<1>1. PICK solved \in IF load.request.kelvin THEN BOOLEAN ELSE {FALSE} :
         load' = [load EXCEPT
                    !.at = IF load.decoder = "libraw" THEN "scene" ELSE "hash",
                    !.bundle.balance = IF solved THEN "kelvin" ELSE "camera",
                    !.bundle.degraded = load.request.kelvin /\ ~solved]
  BY DEF SolveBalance
<1>2. load.at = "balance" /\ UNCHANGED <<file, session>>
  BY DEF SolveBalance
<1>3. /\ load \in LoadRecords /\ Fresh(load) /\ Attempts(load) /\ LoadClaims(load) /\ load.bundle \in BundleRecords
      /\ load.decoder \in {"libraw", "coreimage"} /\ load.request.kelvin \in BOOLEAN
  BY LoadFacts DEF LoadRecords
<1> DEFINE balance == IF solved THEN "kelvin" ELSE "camera"
           degraded == load.request.kelvin /\ ~solved
           made == [load.bundle EXCEPT !.balance = balance, !.degraded = degraded]
           place == IF load.decoder = "libraw" THEN "scene" ELSE "hash"
<1>4. /\ balance \in {"camera", "kelvin"} /\ degraded \in BOOLEAN
      /\ degraded <=> (load.request.kelvin /\ balance = "camera")
      /\ balance = "kelvin" => load.request.kelvin
  BY <1>1, <1>3
<1>5. load' = [load EXCEPT !.at = place, !.bundle = made]
  BY <1>1, <1>3 DEF LoadRecords, BundleRecords
<1>6. place \in Stations /\ ((place = "scene" /\ load.decoder = "libraw") \/ (place = "hash" /\ load.decoder = "coreimage"))
  BY <1>3 DEF Stations
<1> HIDE DEF balance, degraded, place
<1>7. /\ made \in BundleRecords /\ made.balance = balance /\ made.degraded = degraded
      /\ made.shot = load.bundle.shot /\ made.evidence = load.bundle.evidence /\ made.scene = load.bundle.scene
      /\ made.reference = load.bundle.reference /\ made.scaled = load.bundle.scaled
      /\ made.trust = load.bundle.trust
  BY <1>3, <1>4 DEF BundleRecords
<1> HIDE DEF made
<1>8. /\ load' \in LoadRecords /\ load'.at = place /\ load'.bundle = made /\ load'.request = load.request
      /\ load'.decoder = load.decoder /\ load'.nested = load.nested /\ load'.carried = load.carried
      /\ load'.hash = load.hash
  BY <1>3, <1>5, <1>6, <1>7 DEF LoadRecords
<1>9. LoadSound(load')
  <2>1. Fresh(load')
    BY <1>3, <1>7, <1>8 DEF Fresh
  <2>2. Attempts(load')
    BY <1>3, <1>6, <1>8 DEF Attempts
  <2>3. LoadClaims(load')
    BY <1>2, <1>3, <1>4, <1>6, <1>7, <1>8 DEF LoadClaims
  <2> QED
    BY <1>8, <2>1, <2>2, <2>3 DEF LoadSound
<1> QED
  BY <1>2, <1>6, <1>8, <1>9, UncheckedKeeps

\* LibRaw's scene.
LEMMA SceneKeeps == LoadInv /\ DecodeScene => LoadInv'
<1> SUFFICES ASSUME LoadInv, DecodeScene, ~Fails PROVE LoadInv'
  BY FailsKeeps
<1>1. load.at = "scene" /\ file.present /\ UNCHANGED <<file, session>>
  BY DEF DecodeScene
<1>2. PICK trust \in {"sensor-spatial", "untrusted"} :
        load' = [load EXCEPT !.at = "commit", !.bundle = [@ EXCEPT
                   !.scene = Read, !.decoder = "libraw", !.trust = trust]]
  BY DEF DecodeScene
<1>3. /\ load \in LoadRecords /\ Fresh(load) /\ Attempts(load) /\ LoadClaims(load) /\ load.bundle \in BundleRecords
      /\ Read \in Generations /\ Read \in Nat /\ load.decoder = "libraw"
      /\ session.identity # Unknown /\ file.generation = session.identity => Read = session.identity
  BY <1>1, LoadFacts DEF Attempts
<1> DEFINE made == [load.bundle EXCEPT !.scene = Read, !.decoder = "libraw", !.trust = trust]
<1>4. load' = [load EXCEPT !.at = "commit", !.bundle = made]
  BY <1>2, <1>3 DEF LoadRecords
<1>5. /\ made \in BundleRecords /\ made.scene = Read /\ made.decoder = "libraw" /\ made.trust # "sensor-reference"
      /\ made.shot = load.bundle.shot /\ made.evidence = load.bundle.evidence
      /\ made.reference = load.bundle.reference /\ made.scaled = load.bundle.scaled
      /\ made.balance = load.bundle.balance /\ made.degraded = load.bundle.degraded
  BY <1>3 DEF BundleRecords
<1> HIDE DEF made
<1>6. /\ load' \in LoadRecords /\ load'.at = "commit" /\ load'.bundle = made /\ load'.request = load.request
      /\ load'.decoder = load.decoder /\ load'.nested = load.nested /\ load'.carried = load.carried
      /\ load'.hash = load.hash
  <2>1. "commit" \in Stations
    BY DEF Stations
  <2> QED
    BY <1>3, <1>4, <1>5, <2>1 DEF LoadRecords
<1>7. LoadSound(load')
  <2>1. Fresh(load')
    BY <1>3, <1>5, <1>6 DEF Fresh, OfSource
  <2>2. Attempts(load')
    BY <1>3, <1>5, <1>6 DEF Attempts
  <2>3. LoadClaims(load')
    BY <1>1, <1>3, <1>5, <1>6 DEF LoadClaims
  <2> QED
    BY <1>6, <2>1, <2>2, <2>3 DEF LoadSound
<1> QED
  BY <1>1, <1>6, <1>7, UncheckedKeeps

\* The bundle of a load that begins again.
LEMMA EmptyBundle ==
    Unknown \in Generations =>
      /\ NoBundle \in BundleRecords /\ NoBundle.shot = Unknown /\ NoBundle.evidence = Unknown
      /\ NoBundle.scene = Unknown /\ NoBundle.reference = Unknown /\ NoBundle.scaled = FALSE
      /\ NoBundle.trust = "none"
BY DEF NoBundle, BundleRecords

\* LibRaw takes over with the evidence that is there, of the file the session knows.
LEMMA AppleFailsKeeps ==
    ASSUME LoadInv, NEW failures \in SUBSET VersionRecords, AppleFails(failures)
    PROVE  LoadInv'
<1> SUFFICES ASSUME ~Fails PROVE LoadInv'
  BY FailsKeeps
<1> DEFINE carried == IF Current THEN [identity |-> session.identity, evidence |-> load.bundle.evidence] ELSE Unknown
           new == [load EXCEPT !.at = "start", !.decoder = "libraw", !.nested = TRUE, !.failures = failures,
                               !.bundle = NoBundle, !.carried = carried]
<1>1. load.request.version = AnyVersion /\ load.bundle.evidence # Unknown /\ Checked(new)
  BY DEF AppleFails
<1>2. /\ load \in LoadRecords /\ Fresh(load) /\ Attempts(load) /\ LoadClaims(load) /\ load.bundle \in BundleRecords
      /\ session.identity \in Generations /\ Unknown \in Generations
  BY LoadFacts
<1>3. load.bundle.evidence \in Nat
  BY <1>1, <1>2 DEF BundleRecords, Generations
<1>4. carried \in CarriedRecords \cup {Unknown}
  BY <1>2, <1>3 DEF CarriedRecords
<1>5. carried # Unknown => carried.evidence = load.bundle.evidence
  OBVIOUS
<1>6. NoBundle \in BundleRecords
  BY <1>2, EmptyBundle
<1> HIDE DEF carried
<1>7. /\ new \in LoadRecords /\ new.at = "start" /\ new.bundle = NoBundle /\ new.request = load.request
      /\ new.decoder = "libraw" /\ new.nested = TRUE /\ new.carried = carried /\ new.hash = load.hash
  <2>1. "start" \in Stations
    BY DEF Stations
  <2> QED
    BY <1>2, <1>4, <1>6, <2>1 DEF LoadRecords
<1> HIDE DEF new
<1>8. LoadSound(new)
  <2>1. Fresh(new)
    BY <1>1, <1>2, <1>5, <1>7, EmptyBundle DEF Fresh, OfSource
  <2>2. Attempts(new)
    BY <1>1, <1>7 DEF Attempts
  <2>3. LoadClaims(new)
    BY <1>2, <1>7, EmptyBundle DEF LoadClaims
  <2> QED
    BY <1>7, <2>1, <2>2, <2>3 DEF LoadSound
<1> QED
  BY <1>1, <1>7, <1>8, CheckedKeeps

\* A version that is asked for is tried alone.
LEMMA VersionFacts ==
    ASSUME NEW offered \in Offers, NEW r, Versions(r, offered) # {}
    PROVE  /\ Versions(r, offered) \in SUBSET VersionRecords
           /\ r.version # AnyVersion =>
                \E v \in VersionRecords : Versions(r, offered) = {v} /\ v.major = r.version
<1>1. offered \in Seq(VersionRecords)
  BY LoadAssumption DEF VersionRecords
<1>2. ToSet(offered) \subseteq VersionRecords
  <2>1. ToSet(offered) = {offered[i] : i \in DOMAIN offered}
    BY DEF ToSet
  <2>2. \A i \in DOMAIN offered : offered[i] \in VersionRecords
    BY <1>1
  <2> QED
    BY <2>1, <2>2
<1>3. offered # <<>>
  BY DEF Versions
<1>4. Last(offered) \in VersionRecords
  <2>1. Len(offered) \in 1..Len(offered)
    BY <1>1, <1>3, LenProperties, EmptySeq
  <2> QED
    BY <1>1, <2>1, ElementOfSeq DEF Last
<1>5. CASE r.version = AnyVersion
  BY <1>2, <1>3, <1>4, <1>5 DEF Versions, Ladder
<1>6. CASE r.version # AnyVersion
  <2> DEFINE fit == {v \in Ladder(offered) : v.major = r.version /\ (r.pinned => ~v.bare)}
  <2>1. Versions(r, offered) = Best(fit)
    BY <1>3, <1>6 DEF Versions
  <2>2. fit \subseteq VersionRecords /\ \A v \in fit : v.major = r.version
    BY <1>2 DEF Ladder
  <2>3. PICK v \in Best(fit) : TRUE
    BY <2>1
  <2>4. v \in VersionRecords /\ v.major = r.version /\ v \in fit
    BY <2>2, <2>3 DEF Best
  <2>5. ASSUME NEW w \in Best(fit) PROVE w = v
    <3>1. w \in VersionRecords /\ w.major = r.version /\ w \in fit
      BY <2>2 DEF Best
    <3>2. ~Outranks(w, v) /\ ~Outranks(v, w)
      BY <2>3, <2>4, <3>1 DEF Best
    <3>3. v.bare = w.bare
      BY <2>4, <3>1, <3>2 DEF Outranks, VersionRecords
    <3> QED
      BY <2>4, <3>1, <3>3 DEF VersionRecords
  <2>6. Best(fit) = {v}
    BY <2>3, <2>5
  <2>7. Versions(r, offered) = {v}
    BY <2>1, <2>6
  <2> HIDE DEF fit
  <2> QED
    BY <2>4, <2>7
<1> QED
  BY <1>5, <1>6

\* Apple's decoder begins with nothing failed.
LEMMA HashKeeps == LoadInv /\ HashSource => LoadInv'
<1> SUFFICES ASSUME LoadInv, HashSource, ~AppleFails({}) PROVE LoadInv'
  BY AppleFailsKeeps
<1>1. PICK offered \in Offers :
         /\ file.present /\ Versions(load.request, offered) # {}
         /\ load' = [load EXCEPT !.at = "candidate", !.hash = Read, !.failures = {},
                                 !.todo = Versions(load.request, offered)]
         /\ UNCHANGED <<file, session>>
  BY DEF HashSource
<1>2. load.at = "hash"
  BY DEF HashSource
<1>3. /\ load \in LoadRecords /\ Fresh(load) /\ Attempts(load) /\ LoadClaims(load)
      /\ Read \in Generations
      /\ session.identity # Unknown /\ file.generation = session.identity => Read = session.identity
  BY LoadFacts
<1> DEFINE todo == Versions(load.request, offered)
<1>4. /\ todo \in SUBSET VersionRecords
      /\ load.request.version # AnyVersion =>
           \E v \in VersionRecords : todo = {v} /\ v.major = load.request.version
  BY <1>1, VersionFacts
<1>5. load' = [load EXCEPT !.at = "candidate", !.hash = Read, !.failures = {}, !.todo = todo]
  BY <1>1
<1> HIDE DEF todo
<1>6. /\ load' \in LoadRecords /\ load'.at = "candidate" /\ load'.bundle = load.bundle /\ load'.request = load.request
      /\ load'.decoder = load.decoder /\ load'.nested = load.nested /\ load'.carried = load.carried
      /\ load'.hash = Read /\ load'.failures = {} /\ load'.todo = todo
  <2>1. "candidate" \in Stations /\ {} \in SUBSET VersionRecords
    BY DEF Stations
  <2> QED
    BY <1>3, <1>4, <1>5, <2>1 DEF LoadRecords
<1>7. LoadSound(load')
  <2>1. Fresh(load')
    BY <1>3, <1>6 DEF Fresh, OfSource
  <2>2. Attempts(load')
    BY <1>2, <1>3, <1>4, <1>6 DEF Attempts
  <2>3. LoadClaims(load')
    BY <1>2, <1>3, <1>6 DEF LoadClaims
  <2> QED
    BY <1>6, <2>1, <2>2, <2>3 DEF LoadSound
<1> QED
  BY <1>1, <1>6, <1>7, UncheckedKeeps

\* A source that is another one ends the load.
LEMMA SourceRaisesKeeps == LoadInv /\ SourceRaises => LoadInv'
<1> SUFFICES ASSUME LoadInv, SourceRaises PROVE LoadInv'
  OBVIOUS
<1>1. load' = [load EXCEPT !.at = "raised", !.error = "source"] /\ UNCHANGED <<file, session>>
  BY DEF SourceRaises
<1>2. LoadSound(load') /\ load'.at = "raised"
  BY <1>1, LoadFacts, RaisedSound
<1> QED
  BY <1>1, <1>2, UncheckedKeeps

\* Versions are tried from the highest, and a failure is remembered.
LEMMA CandidateKeeps == LoadInv /\ RenderCandidate => LoadInv'
<1> SUFFICES ASSUME LoadInv, RenderCandidate, ~SourceRaises PROVE LoadInv'
  BY SourceRaisesKeeps
<1>1. load.at = "candidate" /\ HashCurrent
  BY DEF RenderCandidate
<1>2. /\ load \in LoadRecords /\ Fresh(load) /\ Attempts(load) /\ LoadClaims(load) /\ load.bundle \in BundleRecords
      /\ Read \in Generations /\ (file.present => Read = file.generation /\ Read \in Nat)
      /\ session.identity # Unknown /\ file.generation = session.identity => Read = session.identity
  BY LoadFacts
<1>3. load.todo \in SUBSET VersionRecords /\ load.failures \in SUBSET VersionRecords /\ load.decoder = "coreimage"
  BY <1>1, <1>2 DEF LoadRecords, Attempts
<1>4. PICK v \in Best(load.todo) :
         \/ /\ load' = [load EXCEPT !.at = "handoff", !.bundle = [@ EXCEPT
                           !.scene = Read, !.decoder = "coreimage", !.version = v]]
            /\ UNCHANGED <<file, session>>
         \/ /\ load.todo = {v}
            /\ AppleFails(load.failures \cup {v})
         \/ /\ load.todo # {v}
            /\ load' = [load EXCEPT !.todo = @ \ {v}, !.failures = @ \cup {v}]
            /\ UNCHANGED <<file, session>>
  BY <1>1 DEF RenderCandidate
<1>5. v \in load.todo /\ v \in VersionRecords
  BY <1>3, <1>4 DEF Best
<1>6. \A w \in load.todo : v.major >= w.major
  BY <1>3, <1>4, <1>5 DEF Best, Outranks, VersionRecords
<1>7. /\ load.request.version # AnyVersion => load.failures = {} /\ load.todo = {v} /\ v.major = load.request.version
      /\ \A f \in load.failures : f.major >= v.major
  BY <1>1, <1>2, <1>5 DEF Attempts
<1>8. ASSUME load' = [load EXCEPT !.at = "handoff", !.bundle = [@ EXCEPT
                           !.scene = Read, !.decoder = "coreimage", !.version = v]],
             UNCHANGED <<file, session>>
      PROVE  LoadInv'
  <2> DEFINE made == [load.bundle EXCEPT !.scene = Read, !.decoder = "coreimage", !.version = v]
  <2>1. load' = [load EXCEPT !.at = "handoff", !.bundle = made]
    BY <1>2, <1>8 DEF LoadRecords
  <2>2. /\ made \in BundleRecords /\ made.scene = Read /\ made.decoder = "coreimage" /\ made.version = v
        /\ made.shot = load.bundle.shot /\ made.evidence = load.bundle.evidence
        /\ made.reference = load.bundle.reference /\ made.scaled = load.bundle.scaled
        /\ made.balance = load.bundle.balance /\ made.degraded = load.bundle.degraded
        /\ made.trust = load.bundle.trust
    BY <1>2, <1>5 DEF BundleRecords
  <2> HIDE DEF made
  <2>3. /\ load' \in LoadRecords /\ load'.at = "handoff" /\ load'.bundle = made /\ load'.request = load.request
        /\ load'.decoder = load.decoder /\ load'.nested = load.nested /\ load'.carried = load.carried
        /\ load'.hash = load.hash /\ load'.failures = load.failures
    <3>1. "handoff" \in Stations
      BY DEF Stations
    <3> QED
      BY <1>2, <2>1, <2>2, <3>1 DEF LoadRecords
  <2>4. load.hash = Read /\ Read \in Nat
    BY <1>1, <1>2 DEF HashCurrent
  <2>5. Fresh(load')
    BY <1>2, <2>2, <2>3 DEF Fresh, OfSource
  <2>6. Attempts(load')
    BY <1>2, <1>3, <1>7, <2>2, <2>3, <2>4 DEF Attempts
  <2>7. LoadClaims(load')
    BY <1>1, <1>2, <1>3, <2>2, <2>3 DEF LoadClaims
  <2> QED
    BY <1>8, <2>3, <2>5, <2>6, <2>7, UncheckedKeeps DEF LoadSound
<1>9. ASSUME AppleFails(load.failures \cup {v}) PROVE LoadInv'
  <2>1. load.failures \cup {v} \in SUBSET VersionRecords
    BY <1>3, <1>5
  <2> QED
    BY <1>9, <2>1, AppleFailsKeeps
<1>10. ASSUME load.todo # {v}, load' = [load EXCEPT !.todo = @ \ {v}, !.failures = @ \cup {v}],
              UNCHANGED <<file, session>>
       PROVE  LoadInv'
  <2> DEFINE todo == load.todo \ {v}
             failures == load.failures \cup {v}
  <2>1. load' = [load EXCEPT !.todo = todo, !.failures = failures]
    BY <1>2, <1>10 DEF LoadRecords
  <2>2. todo \in SUBSET VersionRecords /\ failures \in SUBSET VersionRecords
    BY <1>3, <1>5
  <2>3. \A f \in failures, w \in todo : f.major >= w.major
    BY <1>1, <1>2, <1>6 DEF Attempts
  <2> HIDE DEF todo, failures
  <2>4. /\ load' \in LoadRecords /\ load'.at = load.at /\ load'.bundle = load.bundle /\ load'.request = load.request
        /\ load'.decoder = load.decoder /\ load'.nested = load.nested /\ load'.carried = load.carried
        /\ load'.hash = load.hash /\ load'.failures = failures /\ load'.todo = todo
    BY <1>2, <2>1, <2>2 DEF LoadRecords
  <2>5. Fresh(load')
    BY <1>2, <2>4 DEF Fresh
  <2>6. Attempts(load')
    BY <1>1, <1>2, <1>7, <1>10, <2>3, <2>4 DEF Attempts
  <2>7. LoadClaims(load')
    BY <1>1, <1>2, <2>4 DEF LoadClaims
  <2> QED
    BY <1>1, <1>10, <2>4, <2>5, <2>6, <2>7, UncheckedKeeps DEF LoadSound
<1> QED
  BY <1>4, <1>8, <1>9, <1>10

\* What Apple's decoder hands over vouches for nothing yet.
LEMMA HandoffKeeps == LoadInv /\ TakeHandoff => LoadInv'
<1> SUFFICES ASSUME LoadInv, TakeHandoff, ~SourceRaises PROVE LoadInv'
  BY SourceRaisesKeeps
<1>1. /\ load.at = "handoff"
      /\ Checked([load EXCEPT !.at = IF load.bundle.evidence = Unknown THEN "commit" ELSE "reference",
                      !.bundle.trust = "decoded-image",
                      !.bundle.misaligned = load.request.align /\ load.bundle.evidence = Unknown])
  BY DEF TakeHandoff
<1>2. /\ load \in LoadRecords /\ Fresh(load) /\ Attempts(load) /\ LoadClaims(load) /\ load.bundle \in BundleRecords
      /\ load.request.align \in BOOLEAN
  BY LoadFacts
<1> DEFINE place == IF load.bundle.evidence = Unknown THEN "commit" ELSE "reference"
           misaligned == load.request.align /\ load.bundle.evidence = Unknown
           made == [load.bundle EXCEPT !.trust = "decoded-image", !.misaligned = misaligned]
           new == [load EXCEPT !.at = place, !.bundle = made]
<1>3. Checked(new)
  <2>1. new = [load EXCEPT !.at = IF load.bundle.evidence = Unknown THEN "commit" ELSE "reference",
                      !.bundle.trust = "decoded-image",
                      !.bundle.misaligned = load.request.align /\ load.bundle.evidence = Unknown]
    BY <1>2 DEF LoadRecords, BundleRecords
  <2> HIDE DEF new
  <2> QED
    BY <1>1, <2>1
<1>4. /\ place \in Stations /\ misaligned \in BOOLEAN
      /\ \/ place = "commit" /\ misaligned = load.request.align
         \/ place = "reference" /\ ~misaligned /\ load.bundle.evidence \in Nat
  BY <1>2 DEF Stations, BundleRecords, Generations
<1> HIDE DEF place, misaligned
<1>5. /\ made \in BundleRecords /\ made.trust = "decoded-image" /\ made.misaligned = misaligned
      /\ made.shot = load.bundle.shot /\ made.evidence = load.bundle.evidence /\ made.scene = load.bundle.scene
      /\ made.reference = load.bundle.reference /\ made.scaled = load.bundle.scaled
      /\ made.balance = load.bundle.balance /\ made.degraded = load.bundle.degraded
      /\ made.decoder = load.bundle.decoder /\ made.version = load.bundle.version
  BY <1>2, <1>4 DEF BundleRecords
<1> HIDE DEF made
<1>6. /\ new \in LoadRecords /\ new.at = place /\ new.bundle = made /\ new.request = load.request
      /\ new.decoder = load.decoder /\ new.nested = load.nested /\ new.carried = load.carried
      /\ new.hash = load.hash /\ new.failures = load.failures
  BY <1>2, <1>4, <1>5 DEF LoadRecords
<1> HIDE DEF new
<1>7. Fresh(new)
  BY <1>2, <1>5, <1>6 DEF Fresh, OfSource
<1>8. Attempts(new)
  BY <1>1, <1>2, <1>4, <1>5, <1>6 DEF Attempts
<1>9. load.decoder = "coreimage" /\ load.bundle.scaled \in BOOLEAN
  BY <1>1, <1>2 DEF Attempts, BundleRecords
<1>10. LoadClaims(new)
  BY <1>1, <1>2, <1>4, <1>5, <1>6, <1>9 DEF LoadClaims
<1> QED
  BY <1>3, <1>4, <1>6, <1>7, <1>8, <1>10, CheckedKeeps DEF LoadSound

\* A step after the scene that changes what is said of reference, scale and trust.
LEMMA AfterScene ==
    ASSUME LoadInv, load.at \in {"reference", "clipped"}, UNCHANGED <<file, session>>,
           NEW place \in {"clipped", "commit"}, NEW made \in BundleRecords,
           load' = [load EXCEPT !.at = place, !.bundle = made],
           made.shot = load.bundle.shot, made.evidence = load.bundle.evidence, made.scene = load.bundle.scene,
           made.balance = load.bundle.balance, made.degraded = load.bundle.degraded,
           made.decoder = load.bundle.decoder, made.version = load.bundle.version,
           made.reference # Unknown => made.reference = load.bundle.reference \/ made.reference.of = Read,
           place = "clipped" => made.trust = "sensor-reference",
           load.request.align => made.scaled # made.misaligned,
           made.trust = "sensor-reference" => made.evidence \in Nat,
           made.reference # Unknown => made.trust = "sensor-reference"
    PROVE  LoadInv'
<1>1. /\ load \in LoadRecords /\ Fresh(load) /\ Attempts(load) /\ LoadClaims(load)
      /\ session.identity # Unknown /\ file.generation = session.identity => Read = session.identity
  BY LoadFacts
<1>2. /\ load' \in LoadRecords /\ load'.at = place /\ load'.bundle = made /\ load'.request = load.request
      /\ load'.decoder = load.decoder /\ load'.nested = load.nested /\ load'.carried = load.carried
      /\ load'.hash = load.hash /\ load'.failures = load.failures
  <2>1. place \in Stations
    BY DEF Stations
  <2> QED
    BY <1>1, <2>1 DEF LoadRecords
<1>3. Fresh(load')
  BY <1>1, <1>2 DEF Fresh, OfSource
<1>4. Attempts(load')
  BY <1>1, <1>2 DEF Attempts
<1>5. LoadClaims(load')
  BY <1>1, <1>2 DEF LoadClaims
<1> QED
  BY <1>2, <1>3, <1>4, <1>5, UncheckedKeeps DEF LoadSound

\* The reference is of the file as it is, and the scale is given up aloud without one.
LEMMA AlignKeeps == LoadInv /\ AlignScene => LoadInv'
<1> SUFFICES ASSUME LoadInv, AlignScene PROVE LoadInv'
  OBVIOUS
<1>1. load.at = "reference" /\ UNCHANGED <<file, session>>
  BY DEF AlignScene, ReferenceFails
<1>2. /\ load \in LoadRecords /\ LoadClaims(load) /\ load.bundle \in BundleRecords
      /\ load.request.align \in BOOLEAN /\ Read \in Generations
  BY LoadFacts
<1>3. /\ load.bundle.reference = Unknown /\ ~load.bundle.scaled /\ load.bundle.trust # "sensor-reference"
      /\ ~load.bundle.misaligned /\ load.bundle.evidence \in Nat /\ load.bundle.scaled \in BOOLEAN
      /\ load.bundle.misaligned \in BOOLEAN
  BY <1>1, <1>2 DEF LoadClaims, BundleRecords
<1>4. ASSUME ReferenceFails PROVE LoadInv'
  <2> DEFINE made == [load.bundle EXCEPT !.misaligned = load.request.align]
  <2>1. load' = [load EXCEPT !.at = "commit", !.bundle = made]
    BY <1>2, <1>4 DEF ReferenceFails, LoadRecords
  <2>2. /\ made \in BundleRecords /\ made.misaligned = load.request.align
        /\ made.shot = load.bundle.shot /\ made.evidence = load.bundle.evidence /\ made.scene = load.bundle.scene
        /\ made.reference = load.bundle.reference /\ made.scaled = load.bundle.scaled
        /\ made.balance = load.bundle.balance /\ made.degraded = load.bundle.degraded
        /\ made.decoder = load.bundle.decoder /\ made.version = load.bundle.version
        /\ made.trust = load.bundle.trust
    BY <1>2 DEF BundleRecords
  <2> HIDE DEF made
  <2> QED
    BY <1>1, <1>3, <2>1, <2>2, AfterScene
<1>5. ASSUME NEW certified \in BOOLEAN, NEW sampled \in BOOLEAN,
             load' = [load EXCEPT !.at = IF certified THEN "commit" ELSE "clipped", !.bundle = [@ EXCEPT
                          !.scaled = load.request.align,
                          !.reference = IF certified /\ sampled THEN [of |-> Read, mode |-> "reconstruct"]
                                        ELSE load.bundle.reference,
                          !.trust = IF certified /\ ~sampled THEN load.bundle.trust ELSE "sensor-reference"]]
      PROVE  LoadInv'
  <2> DEFINE place == IF certified THEN "commit" ELSE "clipped"
             reference == IF certified /\ sampled THEN [of |-> Read, mode |-> "reconstruct"] ELSE Unknown
             trust == IF certified /\ ~sampled THEN load.bundle.trust ELSE "sensor-reference"
             made == [load.bundle EXCEPT !.scaled = load.request.align, !.reference = reference, !.trust = trust]
             inner == [load.bundle EXCEPT
                          !.scaled = load.request.align,
                          !.reference = IF certified /\ sampled THEN [of |-> Read, mode |-> "reconstruct"]
                                        ELSE load.bundle.reference,
                          !.trust = IF certified /\ ~sampled THEN load.bundle.trust ELSE "sensor-reference"]
  <2>0. inner = made
    BY <1>2, <1>3 DEF BundleRecords
  <2>1. load' = [load EXCEPT !.at = place, !.bundle = made]
    <3>1. load' = [load EXCEPT !.at = place, !.bundle = inner]
      <4> HIDE DEF made
      <4> QED
        BY <1>2, <1>5 DEF LoadRecords
    <3> HIDE DEF inner, made
    <3> QED
      BY <2>0, <3>1
  <2>2. /\ place \in {"clipped", "commit"} /\ (place = "clipped" => trust = "sensor-reference")
        /\ reference # Unknown => reference.of = Read /\ trust = "sensor-reference"
    OBVIOUS
  <2>3. [of |-> Read, mode |-> "reconstruct"] \in References
    BY <1>2 DEF References
  <2>4. reference \in References \cup {Unknown}
    BY <2>3
  <2>5. trust \in {"none", "sensor-spatial", "untrusted", "decoded-image", "sensor-reference"}
    BY <1>2 DEF BundleRecords
  <2> HIDE DEF place, reference, trust
  <2>6. /\ made \in BundleRecords /\ made.scaled = load.request.align
        /\ made.reference = reference /\ made.trust = trust
        /\ made.shot = load.bundle.shot /\ made.evidence = load.bundle.evidence /\ made.scene = load.bundle.scene
        /\ made.misaligned = load.bundle.misaligned
        /\ made.balance = load.bundle.balance /\ made.degraded = load.bundle.degraded
        /\ made.decoder = load.bundle.decoder /\ made.version = load.bundle.version
    BY <1>2, <2>4, <2>5 DEF BundleRecords
  <2> HIDE DEF made
  <2>7. load.request.align => made.scaled # made.misaligned
    BY <1>2, <1>3, <2>6
  <2> QED
    BY <1>1, <1>3, <2>1, <2>2, <2>6, <2>7, AfterScene
<1> QED
  BY <1>4, <1>5 DEF AlignScene

\* A clipping decode lends its samples, or nobody does.
LEMMA ClippedKeeps == LoadInv /\ SampleClipped => LoadInv'
<1> SUFFICES ASSUME LoadInv, SampleClipped PROVE LoadInv'
  OBVIOUS
<1>1. /\ load.at = "clipped" /\ UNCHANGED <<file, session>>
      /\ \/ load' = Bundled("commit", "reference", [of |-> Read, mode |-> "clip"])
         \/ load' = Goes("commit")
  BY DEF SampleClipped
<1>2. /\ load \in LoadRecords /\ LoadClaims(load) /\ Attempts(load) /\ load.bundle \in BundleRecords /\ Read \in Generations
  BY LoadFacts
<1>3. /\ load.bundle.trust = "sensor-reference" /\ load.bundle.evidence \in Nat
      /\ load.request.align => load.bundle.scaled # load.bundle.misaligned
  BY <1>1, <1>2 DEF LoadClaims, Attempts
<1> DEFINE reference == [of |-> Read, mode |-> "clip"]
<1>4. reference \in References /\ reference.of = Read
  BY <1>2 DEF References
<1> HIDE DEF reference
<1>5. CASE load' = Goes("commit")
  <2>1. load' = [load EXCEPT !.at = "commit", !.bundle = load.bundle]
    BY <1>2, <1>5 DEF Goes, LoadRecords
  <2> QED
    BY <1>1, <1>2, <1>3, <2>1, AfterScene
<1>6. CASE load' = Bundled("commit", "reference", reference)
  <2> DEFINE made == [load.bundle EXCEPT !.reference = reference]
  <2>1. load' = [load EXCEPT !.at = "commit", !.bundle = made]
    BY <1>2, <1>6 DEF Bundled, LoadRecords
  <2>2. /\ made \in BundleRecords /\ made.reference = reference
        /\ made.shot = load.bundle.shot /\ made.evidence = load.bundle.evidence /\ made.scene = load.bundle.scene
        /\ made.scaled = load.bundle.scaled /\ made.misaligned = load.bundle.misaligned
        /\ made.balance = load.bundle.balance /\ made.degraded = load.bundle.degraded
        /\ made.decoder = load.bundle.decoder /\ made.version = load.bundle.version
        /\ made.trust = load.bundle.trust
    BY <1>2, <1>4 DEF BundleRecords
  <2> HIDE DEF made
  <2> QED
    BY <1>1, <1>3, <1>4, <2>1, <2>2, AfterScene
<1> QED
  BY <1>1, <1>5, <1>6 DEF reference

\* The last look at the file, and at the balance.
LEMMA CommitKeeps == LoadInv /\ CommitLoad => LoadInv'
<1> SUFFICES ASSUME LoadInv, CommitLoad PROVE LoadInv'
  OBVIOUS
<1>1. PICK dropped \in IF load.bundle.balance = "kelvin" THEN BOOLEAN ELSE {FALSE} :
         Checked([load EXCEPT !.at = "returned", !.bundle.degraded = @ \/ dropped,
                              !.bundle.balance = IF dropped THEN "camera" ELSE @])
  BY DEF CommitLoad
<1>2. /\ load.at = "commit" /\ load \in LoadRecords /\ Fresh(load) /\ Attempts(load) /\ LoadClaims(load)
      /\ load.bundle \in BundleRecords /\ load.request.kelvin \in BOOLEAN
  BY LoadFacts DEF CommitLoad
<1>3. /\ load.bundle.degraded <=> (load.request.kelvin /\ load.bundle.balance = "camera")
      /\ load.bundle.balance = "kelvin" => load.request.kelvin
      /\ load.bundle.degraded \in BOOLEAN /\ load.bundle.balance \in {"camera", "kelvin"}
  BY <1>2 DEF LoadClaims, BundleRecords
<1> DEFINE degraded == load.bundle.degraded \/ dropped
           balance == IF dropped THEN "camera" ELSE load.bundle.balance
           made == [load.bundle EXCEPT !.degraded = degraded, !.balance = balance]
           new == [load EXCEPT !.at = "returned", !.bundle = made]
<1>4. Checked(new)
  <2>1. new = [load EXCEPT !.at = "returned", !.bundle.degraded = @ \/ dropped,
                           !.bundle.balance = IF dropped THEN "camera" ELSE @]
    BY <1>2 DEF LoadRecords, BundleRecords
  <2> HIDE DEF new
  <2> QED
    BY <1>1, <2>1
<1>5. /\ degraded \in BOOLEAN /\ balance \in {"camera", "kelvin"}
      /\ degraded <=> (load.request.kelvin /\ balance = "camera")
      /\ balance = "kelvin" => load.request.kelvin
  BY <1>1, <1>3
<1> HIDE DEF degraded, balance
<1>6. /\ made \in BundleRecords /\ made.degraded = degraded /\ made.balance = balance
      /\ made.shot = load.bundle.shot /\ made.evidence = load.bundle.evidence /\ made.scene = load.bundle.scene
      /\ made.reference = load.bundle.reference /\ made.scaled = load.bundle.scaled
      /\ made.misaligned = load.bundle.misaligned /\ made.trust = load.bundle.trust
      /\ made.decoder = load.bundle.decoder /\ made.version = load.bundle.version
  BY <1>2, <1>5 DEF BundleRecords
<1> HIDE DEF made
<1>7. /\ new \in LoadRecords /\ new.at = "returned" /\ new.bundle = made /\ new.request = load.request
      /\ new.decoder = load.decoder /\ new.nested = load.nested /\ new.carried = load.carried
      /\ new.hash = load.hash /\ new.failures = load.failures
  <2>1. "returned" \in Stations
    BY DEF Stations
  <2> QED
    BY <1>2, <1>6, <2>1 DEF LoadRecords
<1> HIDE DEF new
<1>8. Fresh(new)
  BY <1>2, <1>6, <1>7 DEF Fresh, OfSource
<1>9. Attempts(new)
  BY <1>2, <1>6, <1>7 DEF Attempts
<1>10. LoadClaims(new)
  BY <1>2, <1>5, <1>6, <1>7 DEF LoadClaims
<1> QED
  BY <1>4, <1>7, <1>8, <1>9, <1>10, CheckedKeeps DEF LoadSound

\* From a request, every step keeps the invariant.
THEOREM LoadInvariant == LoadSpec => []LoadInv
<1>1. LoadInit => LoadInv
  <2> SUFFICES ASSUME LoadInit PROVE LoadInv
    OBVIOUS
  <2>1. /\ file = [generation |-> 0, present |-> TRUE]
        /\ session = [identity |-> Unknown, status |-> "closed"]
    BY DEF LoadInit, LoadFrom
  <2>2. PICK r \in LoadRequests :
          load = [at |-> "open", request |-> r, decoder |-> r.decoder, nested |-> FALSE,
                  carried |-> Unknown, hash |-> Unknown, todo |-> {}, failures |-> {}, error |-> "none",
                  bundle |-> NoBundle]
    BY DEF LoadInit, LoadFrom
  <2>3. SessionSound
    BY <2>1 DEF SessionSound, SessionRecords, Generations
  <2>4. r.decoder \in {"libraw", "coreimage"}
    BY LoadAssumption
  <2>5. load \in LoadRecords
    BY <2>2, <2>4, EmptyBundle DEF LoadRecords, Stations, Generations
  <2>6. Fresh(load)
    BY <2>1 DEF Fresh
  <2>7. Attempts(load)
    BY <2>2 DEF Attempts
  <2>8. LoadClaims(load)
    <3>1. load.at = "open" /\ load.bundle = NoBundle
      BY <2>2
    <3> QED
      BY <3>1, EmptyBundle DEF LoadClaims, Generations
  <2> QED
    BY <2>1, <2>2, <2>3, <2>5, <2>6, <2>7, <2>8 DEF LoadInv, LoadSound
<1>2. LoadInv /\ UNCHANGED loadVars => LoadInv'
  BY DEF loadVars, LoadInv, SessionSound, LoadSound, Fresh, OfSource, Attempts, LoadClaims
<1>3. LoadInv /\ [LoadNext]_loadVars => LoadInv'
  BY <1>2, ChangeFileKeeps, OpenKeeps, StartKeeps, EvidenceKeeps, BalanceKeeps, SceneKeeps, HashKeeps,
     CandidateKeeps, HandoffKeeps, AlignKeeps, ClippedKeeps, CommitKeeps DEF LoadNext
<1> QED
  BY <1>1, <1>3, PTL DEF LoadSpec

\* What the invariant says of a bundle that is returned.
LEMMA LoadHonest == LoadInv => BundlesHonest
<1> SUFFICES ASSUME LoadInv, load.at = "returned" PROVE BundlesHonest
  BY DEF BundlesHonest, OneSource, DecoderAsDeclared, Returned
<1>1. /\ load \in LoadRecords /\ Fresh(load) /\ Attempts(load) /\ LoadClaims(load) /\ load.bundle \in BundleRecords
      /\ session.identity \in Generations /\ Unknown \notin Nat
  BY LoadFacts
<1>2. session.identity # Unknown => file.generation = session.identity
  BY DEF LoadInv
<1>3. load.bundle.scene \in Nat /\ load.bundle.decoder = load.decoder
  BY <1>1 DEF Attempts
<1>4. OneSource
  BY <1>1, <1>2, <1>3 DEF OneSource, Fresh, OfSource, FromFile, Attempts
<1>5. load.bundle.reference # Unknown => load.bundle.reference.mode # "untrusted"
  BY <1>1 DEF BundleRecords, References
<1>6. load.decoder \in {"libraw", "coreimage"}
  BY <1>1 DEF LoadRecords
<1>7. DecoderAsDeclared
  BY <1>1, <1>3, <1>5, <1>6 DEF DecoderAsDeclared, Attempts, LoadClaims
<1> QED
  BY <1>4, <1>7 DEF BundlesHonest

\* However often the file is replaced or taken away: a bundle that is returned is of one
\* generation of it, through a fallback, too, and says truly how it came about.
THEOREM BundlesAlwaysHonest == LoadSpec => []BundlesHonest
BY LoadInvariant, LoadHonest, PTL

-----------------------------------------------------------------------------
(* The analysis of a frame

   Analysts read the recording at the white level they saw, and one of them
   may file its summary after the level was edited. What is on its way is the
   summary of the level it was asked for, whatever the level is by then; the
   models are functions of the recording, made once, in the order of the code. *)

\* Some of the ISOs has none above it, and some none below.
LEMMA EndsOfIsos ==
    ASSUME NEW S \in SUBSET Isos, S # {}
    PROVE  /\ Max(S) \in S /\ \A y \in S : y <= Max(S)
           /\ Min(S) \in S /\ \A y \in S : Min(S) <= y
<1>1. Isos = {1, 2, 3, 4}
  BY DEF Isos
<1>2. \E x \in S : \A y \in S : x >= y
  <2>1. CASE 4 \in S
    BY <1>1, <2>1
  <2>2. CASE 4 \notin S /\ 3 \in S
    BY <1>1, <2>2
  <2>3. CASE 4 \notin S /\ 3 \notin S /\ 2 \in S
    BY <1>1, <2>3
  <2>4. CASE 4 \notin S /\ 3 \notin S /\ 2 \notin S
    <3>1. S = {1}
      BY <1>1, <2>4
    <3> QED
      BY <3>1
  <2> QED
    BY <2>1, <2>2, <2>3, <2>4
<1>3. \E x \in S : \A y \in S : x <= y
  <2>1. CASE 1 \in S
    BY <1>1, <2>1
  <2>2. CASE 1 \notin S /\ 2 \in S
    BY <1>1, <2>2
  <2>3. CASE 1 \notin S /\ 2 \notin S /\ 3 \in S
    BY <1>1, <2>3
  <2>4. CASE 1 \notin S /\ 2 \notin S /\ 3 \notin S
    <3>1. S = {4}
      BY <1>1, <2>4
    <3> QED
      BY <3>1
  <2> QED
    BY <2>1, <2>2, <2>3, <2>4
<1>4. Max(S) \in S /\ \A y \in S : Max(S) >= y
  BY <1>2 DEF Max
<1>5. Min(S) \in S /\ \A y \in S : Min(S) <= y
  BY <1>3 DEF Min
<1> QED
  BY <1>1, <1>4, <1>5

\* A read noise that is found is one that was measured there, or on both sides with no
\* failure between.
LEMMA ReadNoiseSupported ==
    ASSUME recording \in Recordings, Calibration # Missing, ReadNoise
    PROVE  ReadSupported
<1> DEFINE iso == Calibration.iso
           reads == Calibration.reads
<1>0. iso \in Isos /\ reads \in [Isos -> {"measured", "failed", "absent"}]
  BY RecordingsAssumption DEF Calibration
<1> SUFFICES ASSUME reads[iso] # "measured" PROVE ReadSupported
  BY DEF ReadSupported
<1>1. PICK i \in Reads("measured"), j \in Reads("measured") : i < iso /\ iso < j
  BY DEF ReadNoise
<1>2. ~Calibration.jump /\ ~ReadIssue
  BY DEF ReadNoise
<1> DEFINE below == {k \in Reads("measured") : k < iso}
           above == {k \in Reads("measured") : k > iso}
           first == Max(below)
           last == Min(above)
<1>3. i \in below /\ j \in above /\ below \in SUBSET Isos /\ above \in SUBSET Isos
  BY <1>0, <1>1 DEF Reads, Isos
<1>4. first \in below /\ last \in above
  BY <1>3, EndsOfIsos
<1> HIDE DEF first, last
<1>5. reads[iso] = "absent" /\ Reads("measured") # {}
  BY <1>0, <1>1, <1>2 DEF ReadIssue
<1>6. ASSUME NEW f \in first..last, reads[f] = "failed" PROVE FALSE
  <2>1. first \in Isos /\ last \in Isos /\ reads[first] = "measured" /\ reads[last] = "measured"
    BY <1>4 DEF Reads
  <2>2. f \in Reads("failed") /\ f > first /\ f < last
    BY <1>6, <2>1 DEF Reads, Isos
  <2>3. below # {} /\ above # {}
    BY <1>3
  <2> HIDE DEF below, above
  <2>4. \E g \in Reads("failed") :
          /\ below # {} => g > Max(below)
          /\ above # {} => g < Min(above)
          /\ below = {} => g >= iso
          /\ above = {} => g <= iso
    BY <2>2, <2>3 DEF first, last
  <2> QED
    BY <1>2, <1>5, <2>4 DEF ReadIssue, below, above
<1>7. first \in Reads("measured") /\ last \in Reads("measured") /\ first < iso /\ iso < last
  BY <1>4
<1> QED
  BY <1>2, <1>6, <1>7 DEF ReadSupported

\* A cell that has lost one colour has the photosites of the others.
LEMMA OneLost ==
    ASSUME NEW well, NEW cell, LostColours(well, cell) = 1
    PROVE  \E c \in Colours : \A site \in Sites : ColourOf(site) # c => ~Clipped(well, cell, site)
<1> DEFINE gone == {ColourOf(site) : site \in {s \in Sites : Clipped(well, cell, s)}}
<1>1. gone \subseteq Colours
  BY DEF Sites, ColourOf, Colours
<1>2. IsFiniteSet(Colours)
  <2>1. IsFiniteSet({"R"}) /\ IsFiniteSet({"G"}) /\ IsFiniteSet({"B"})
    BY FS_Singleton
  <2>2. IsFiniteSet({"R"} \cup {"G"})
    BY <2>1, FS_Union
  <2>3. IsFiniteSet(({"R"} \cup {"G"}) \cup {"B"})
    BY <2>1, <2>2, FS_Union
  <2> QED
    BY <2>3 DEF Colours
<1>3. IsFiniteSet(gone) /\ Cardinality(gone) = 1
  BY <1>1, <1>2, FS_Subset DEF LostColours
<1>4. PICK c : gone = {c}
  BY <1>3, FS_Singleton
<1>5. c \in Colours
  BY <1>1, <1>4
<1>6. \A site \in Sites : Clipped(well, cell, site) => ColourOf(site) \in gone
  OBVIOUS
<1> QED
  BY <1>4, <1>5, <1>6

\* The model of the calibration's noise, as ModelFromPrior finds it.
PriorFound ==
    CASE Calibration = Missing -> Model("unavailable", "none", "no-calibration")
      [] Calibration # Missing /\ Calibration.suspect -> Model("rejected", "prior", "suspect-iso")
      [] Calibration # Missing /\ ~Calibration.suspect /\ Spectrum = "invalid" -> Model("rejected", "prior", "spectrum")
      [] OTHER -> [Qualification EXCEPT !.spectrum = Spectrum]
NoiseFound == IF recording.kind = "cfa" THEN Resolved(PriorFound, FileModel) ELSE Model("unavailable", "none", "no-samples")

\* A model that is valid has passed everything, and only a calibration has a spectrum.
PriorSound(m) ==
    /\ m = [status |-> m.status, source |-> m.source, reason |-> m.reason, spectrum |-> m.spectrum,
            colours |-> m.colours, fallback |-> m.fallback]
    /\ m.status \in {"valid", "unresolved", "unavailable", "rejected"}
    /\ m.status = "valid" =>
         /\ Calibration # Missing /\ Calibration.usable /\ ~Calibration.suspect /\ Calibration.scaled /\ ReadNoise
         /\ m.source = "prior" /\ m.colours = Coefficients
    /\ m.source = "none" => m.status = "unavailable" /\ m.spectrum = "none"

LEMMA PriorFoundSound == PriorSound(PriorFound)
<1> DEFINE q == Qualification
<1>1. ASSUME Calibration # Missing, ~Calibration.suspect
      PROVE  /\ q = [status |-> q.status, source |-> "prior", reason |-> q.reason, spectrum |-> "none",
                     colours |-> q.colours, fallback |-> Missing]
             /\ q.status \in {"valid", "unresolved", "unavailable", "rejected"}
             /\ q.status = "valid" => /\ Calibration.usable /\ Calibration.scaled /\ ReadNoise
                                      /\ q.colours = Coefficients
  <2>1. CASE ~Calibration.usable
    <3>1. q = Model("rejected", "prior", "unusable")
      BY <2>1 DEF Qualification
    <3> QED
      BY <3>1 DEF Model
  <2>2. CASE Calibration.usable /\ ReadIssue
    <3>1. q = Model("unresolved", "prior", "read-noise")
      BY <2>2 DEF Qualification
    <3> QED
      BY <3>1 DEF Model
  <2>3. CASE Calibration.usable /\ ~ReadIssue /\ ~ReadNoise
    <3>1. q = Model("unavailable", "prior", "read-noise")
      BY <2>3 DEF Qualification
    <3> QED
      BY <3>1 DEF Model
  <2>4. CASE Calibration.usable /\ ~ReadIssue /\ ReadNoise /\ ~Calibration.scaled
    <3>1. q = Model("rejected", "prior", "scale")
      BY <2>4 DEF Qualification
    <3> QED
      BY <3>1 DEF Model
  <2>5. CASE Calibration.usable /\ ~ReadIssue /\ ReadNoise /\ Calibration.scaled /\ Calibration.stored = "contradicts"
    <3>1. q = Model("unresolved", "prior", "stored-variance")
      BY <2>5 DEF Qualification
    <3> QED
      BY <3>1 DEF Model
  <2>6. CASE Calibration.usable /\ ~ReadIssue /\ ReadNoise /\ Calibration.scaled /\ Calibration.stored # "contradicts"
    <3>1. q = [Model("valid", "prior", "matched") EXCEPT !.colours = Coefficients]
      BY <2>6 DEF Qualification
    <3>2. q = [status |-> "valid", source |-> "prior", reason |-> "matched", spectrum |-> "none",
               colours |-> Coefficients, fallback |-> Missing]
      BY <3>1 DEF Model
    <3> QED
      BY <2>6, <3>2
  <2> QED
    BY <2>1, <2>2, <2>3, <2>4, <2>5, <2>6
<1> HIDE DEF q
<1>2. CASE Calibration = Missing
  <2>1. PriorFound = Model("unavailable", "none", "no-calibration")
    BY <1>2 DEF PriorFound
  <2> QED
    BY <2>1 DEF PriorSound, Model
<1>3. CASE Calibration # Missing /\ Calibration.suspect
  <2>1. PriorFound = Model("rejected", "prior", "suspect-iso")
    BY <1>3 DEF PriorFound
  <2> QED
    BY <2>1 DEF PriorSound, Model
<1>4. CASE Calibration # Missing /\ ~Calibration.suspect /\ Spectrum = "invalid"
  <2>1. PriorFound = Model("rejected", "prior", "spectrum")
    BY <1>4 DEF PriorFound
  <2> QED
    BY <2>1 DEF PriorSound, Model
<1>5. CASE Calibration # Missing /\ ~Calibration.suspect /\ Spectrum # "invalid"
  <2>1. PriorFound = [q EXCEPT !.spectrum = Spectrum]
    BY <1>5 DEF PriorFound, q
  <2>2. PriorFound = [status |-> q.status, source |-> "prior", reason |-> q.reason, spectrum |-> Spectrum,
                      colours |-> q.colours, fallback |-> Missing]
    BY <1>1, <1>5, <2>1
  <2> QED
    BY <1>1, <1>5, <2>2 DEF PriorSound
<1> QED
  BY <1>2, <1>3, <1>4, <1>5

\* A profile of a file is valid where the codes were left alone; a file has no spectrum.
FileSound(m) ==
    /\ m = [status |-> m.status, source |-> m.source, reason |-> m.reason, spectrum |-> "none",
            colours |-> m.colours, fallback |-> Missing]
    /\ m.status \in {"valid", "unavailable", "rejected"}
    /\ m.status = "valid" => /\ recording.reduction = "none" /\ m.source = "file"
                             /\ m.colours = [c \in Colours |-> "file"]
    /\ m.reason = "reduction" => m.status = "rejected"
    /\ recording.reduction \in {"applied", "invalid"} => m.reason = "reduction"

LEMMA FileModelSound ==
    ASSUME recording \in Recordings
    PROVE  FileSound(FileModel)
<1>0. recording.reduction \in {"none", "unreadable", "applied", "invalid"}
  BY RecordingsAssumption
<1>1. CASE recording.reduction = "unreadable"
  <2>1. FileModel = Model("unavailable", "none", "unreadable")
    BY <1>1 DEF FileModel
  <2> QED
    BY <1>1, <2>1 DEF Model, FileSound
<1>2. CASE recording.reduction \in {"applied", "invalid"}
  <2>1. FileModel = Model("rejected", "file", "reduction")
    BY <1>2 DEF FileModel
  <2> QED
    BY <1>2, <2>1 DEF Model, FileSound
<1>3. CASE recording.reduction = "none" /\ recording.profile = "absent"
  <2>1. FileModel = Model("unavailable", "none", "no-profile")
    BY <1>3 DEF FileModel
  <2> QED
    BY <1>3, <2>1 DEF Model, FileSound
<1>4. CASE recording.reduction = "none" /\ recording.profile = "of-rgb"
  <2>1. FileModel = Model("unavailable", "file", "profile-of-rgb")
    BY <1>4 DEF FileModel
  <2> QED
    BY <1>4, <2>1 DEF Model, FileSound
<1>5. CASE recording.reduction = "none" /\ recording.profile = "malformed"
  <2>1. FileModel = Model("rejected", "file", "malformed")
    BY <1>5 DEF FileModel
  <2> QED
    BY <1>5, <2>1 DEF Model, FileSound
<1>6. CASE recording.reduction = "none" /\ recording.profile \notin {"absent", "of-rgb", "malformed"}
  <2>1. FileModel = [Model("valid", "file", "declared") EXCEPT !.colours = [c \in Colours |-> "file"]]
    BY <1>6 DEF FileModel
  <2>2. FileModel = [status |-> "valid", source |-> "file", reason |-> "declared", spectrum |-> "none",
                     colours |-> [c \in Colours |-> "file"], fallback |-> Missing]
    BY <2>1 DEF Model
  <2> QED
    BY <1>6, <2>2 DEF FileSound
<1> QED
  BY <1>0, <1>1, <1>2, <1>3, <1>4, <1>5, <1>6

\* Whichever model wins, it is one of the two, or the file's that says for what.
LEMMA ResolvedSound ==
    ASSUME recording \in Recordings, recording.kind = "cfa", noise = NoiseFound, prior = PriorFound
    PROVE  /\ noise.status = "valid" => recording.reduction \in {"none", "unreadable"}
           /\ noise.status = "valid" /\ noise.source = "prior" => prior.status = "valid" /\ noise = prior
           /\ prior.spectrum = "imbalanced" => noise.spectrum = "imbalanced" \/ noise.status = "rejected"
           /\ noise.status = "valid" /\ noise.source = "file" /\ prior.status \in {"unresolved", "rejected"} =>
                noise.fallback = prior.reason
           /\ noise.status = "valid" => \A c \in Colours : noise.colours[c] = "phases" => noise = prior
<1> DEFINE declared == FileModel
<1>0. FileSound(declared) /\ PriorSound(prior) /\ recording.reduction \in {"none", "unreadable", "applied", "invalid"}
  BY FileModelSound, PriorFoundSound, RecordingsAssumption
<1>1. noise = Resolved(prior, declared)
  BY DEF NoiseFound
<1> HIDE DEF declared
<1>2. /\ Fallback(declared, prior) = [status |-> declared.status, source |-> declared.source, reason |-> declared.reason, spectrum |-> "none",
                                  colours |-> declared.colours, fallback |-> prior.reason]
      /\ Carried(declared, prior) = [status |-> declared.status, source |-> declared.source, reason |-> declared.reason,
                                 spectrum |-> prior.spectrum, colours |-> declared.colours, fallback |-> prior.reason]
  <2>1. declared = [status |-> declared.status, source |-> declared.source, reason |-> declared.reason, spectrum |-> "none",
                colours |-> declared.colours, fallback |-> Missing]
    BY <1>0 DEF FileSound
  <2>2. Fallback(declared, prior) = [status |-> declared.status, source |-> declared.source, reason |-> declared.reason, spectrum |-> "none",
                                 colours |-> declared.colours, fallback |-> prior.reason]
    BY <2>1 DEF Fallback
  <2>3. Carried(declared, prior) = [Fallback(declared, prior) EXCEPT !.spectrum = prior.spectrum]
    BY DEF Carried
  <2> QED
    BY <2>2, <2>3
<1>3. CASE declared.reason = "reduction"
  BY <1>0, <1>1, <1>3 DEF Resolved, FileSound
<1>4. CASE declared.reason # "reduction" /\ prior.status = "valid"
  <2>1. noise = prior
    BY <1>1, <1>4 DEF Resolved
  <2> QED
    BY <1>0, <1>4, <2>1 DEF FileSound, PriorSound
<1>5. CASE /\ declared.reason # "reduction" /\ prior.status # "valid" /\ declared.status = "valid"
           /\ prior.status \in {"unresolved", "rejected"} \/ prior.spectrum # "none"
  <2>1. noise = Carried(declared, prior)
    BY <1>1, <1>5 DEF Resolved
  <2> QED
    BY <1>0, <1>2, <1>5, <2>1 DEF FileSound
<1>6. CASE /\ declared.reason # "reduction" /\ prior.status # "valid" /\ declared.status = "unavailable"
           /\ prior.status \in {"unresolved", "rejected"} \/ prior.spectrum # "none"
  <2>1. noise = prior
    BY <1>1, <1>6 DEF Resolved
  <2> QED
    BY <1>0, <1>6, <2>1 DEF FileSound
<1>7. CASE /\ declared.reason # "reduction" /\ prior.status # "valid"
           /\ declared.status = "rejected" \/ (prior.status \notin {"unresolved", "rejected"} /\ prior.spectrum = "none")
  <2>1. noise = prior \/ (noise = declared /\ prior.source = "none") \/ noise = Fallback(declared, prior)
    <3>1. declared.status \in {"unavailable", "rejected", "valid"} /\ (declared.reason = "reduction") = FALSE
          /\ (prior.status = "valid") = FALSE
      BY <1>0, <1>7 DEF FileSound
    <3>2. ~(declared.status \in {"valid", "unavailable"} /\ (prior.status \in {"unresolved", "rejected"} \/ prior.spectrum # "none"))
      BY <1>7
    <3>3. noise = IF declared.source = "none" THEN prior
                  ELSE IF prior.source = "none" THEN declared ELSE Fallback(declared, prior)
      BY <1>1, <3>1, <3>2 DEF Resolved
    <3> QED
      BY <3>3
  <2>2. CASE noise = prior
    BY <1>0, <1>7, <2>2 DEF PriorSound, FileSound
  <2>3. CASE noise = declared /\ prior.source = "none"
    BY <1>0, <1>7, <2>3 DEF PriorSound, FileSound
  <2>4. CASE noise = Fallback(declared, prior)
    BY <1>0, <1>2, <1>7, <2>4 DEF PriorSound, FileSound
  <2> QED
    BY <2>1, <2>2, <2>3, <2>4
<1> QED
  BY <1>0, <1>3, <1>4, <1>5, <1>6, <1>7 DEF FileSound

\* A summary on its way is that of its key; what is filed, that of its white level.
ScanSound(a) ==
    /\ scan[a] = [at |-> scan[a].at, key |-> scan[a].key, summary |-> scan[a].summary]
    /\ scan[a].at \in {"idle", "scan", "publish", "have", "failed"}
    /\ scan[a].at # "idle" => scan[a].key \in Nat
    /\ scan[a].at \in {"publish", "have"} => scan[a].summary = Summary(scan[a].key)

AnalysisInv ==
    /\ recording \in Recordings /\ white \in Nat
    /\ filed # Missing => filed.summary = Summary(filed.white)
    /\ scan = [a \in Analysts |-> scan[a]] /\ \A a \in Analysts : ScanSound(a)
    /\ prior \in {Missing, PriorFound}
    /\ noise # Missing => prior = PriorFound /\ noise = NoiseFound
    /\ electrons # Missing => noise # Missing /\ electrons = Electrons

LEMMA AnalysisInitially == AnalysisInit => AnalysisInv
<1> SUFFICES ASSUME AnalysisInit PROVE AnalysisInv
  OBVIOUS
<1>1. recording \in Recordings /\ white \in Nat /\ filed = Missing /\ prior = Missing /\ noise = Missing /\ electrons = Missing
  BY RecordingsAssumption DEF AnalysisInit, AnalysisFrom
<1>2. scan = [a \in Analysts |-> Unscanned]
  BY DEF AnalysisInit, AnalysisFrom
<1>3. scan = [a \in Analysts |-> scan[a]] /\ \A a \in Analysts : ScanSound(a)
  BY <1>2 DEF ScanSound, Unscanned
<1> QED
  BY <1>1, <1>3 DEF AnalysisInv

\* A step of one analyst.
LEMMA ScanStep ==
    ASSUME AnalysisInv, NEW a \in Analysts, NEW new, scan' = [scan EXCEPT ![a] = new],
           new = [at |-> new.at, key |-> new.key, summary |-> new.summary],
           new.at \in {"idle", "scan", "publish", "have", "failed"},
           new.at # "idle" => new.key \in Nat,
           new.at \in {"publish", "have"} => new.summary = Summary(new.key),
           recording' = recording
    PROVE  scan' = [b \in Analysts |-> scan'[b]] /\ \A b \in Analysts : ScanSound(b)'
<1>1. \A b \in Analysts : scan'[b] = IF b = a THEN new ELSE scan[b]
  BY DEF AnalysisInv
<1>2. scan' = [b \in Analysts |-> scan'[b]]
  BY DEF AnalysisInv
<1>3. \A level : Summary(level)' = Summary(level)
  BY DEF Summary, Fullwell, Saturates, Piles, Ceiling, Codes, CfaCells, Code, LostColours, Clipped
<1>4. ASSUME NEW b \in Analysts PROVE ScanSound(b)'
  <2>1. CASE b = a
    BY <1>1, <1>3, <2>1 DEF ScanSound
  <2>2. CASE b # a
    BY <1>1, <1>3, <2>2 DEF ScanSound, AnalysisInv
  <2> QED
    BY <2>1, <2>2
<1> QED
  BY <1>2, <1>4

\* What is found of a recording stays as long as the recording.
LEMMA FoundStay ==
    ASSUME recording' = recording
    PROVE  /\ \A level : Summary(level)' = Summary(level)
           /\ PriorFound' = PriorFound /\ NoiseFound' = NoiseFound
<1>1. \A level : Summary(level)' = Summary(level)
  BY DEF Summary, Fullwell, Saturates, Piles, Ceiling, Codes, CfaCells, Code, LostColours, Clipped
<1>2. Calibration' = Calibration
  BY DEF Calibration
<1>3. ReadIssue' = ReadIssue /\ ReadNoise' = ReadNoise /\ Spectrum' = Spectrum /\ Coefficients' = Coefficients
  BY <1>2 DEF ReadIssue, ReadNoise, Reads, Spectrum, Coefficients, FromPhases, PhaseMeasured
<1>4. Qualification' = Qualification
  BY <1>2, <1>3 DEF Qualification
<1>5. PriorFound' = PriorFound
  BY <1>2, <1>3, <1>4 DEF PriorFound
<1>6. FileModel' = FileModel
  BY DEF FileModel
<1> QED
  BY <1>1, <1>5, <1>6 DEF NoiseFound

LEMMA AnalysisStep == AnalysisInv /\ [AnalysisNext]_analysisVars => AnalysisInv'
<1> SUFFICES ASSUME AnalysisInv, [AnalysisNext]_analysisVars PROVE AnalysisInv'
  OBVIOUS
<1>0. recording' = recording
  BY DEF AnalysisNext, EditWhite, Lookup, Reduce, PublishSummary, Rescan, ModelFromPrior, ResolveNoise, ReportElectrons, analysisVars
<1>1. /\ \A level : Summary(level)' = Summary(level)
      /\ PriorFound' = PriorFound /\ NoiseFound' = NoiseFound /\ Calibration' = Calibration
  BY <1>0, FoundStay DEF Calibration
<1>2. Electrons' = Electrons \/ noise' # noise
  BY <1>0 DEF Electrons, Calibration, ReadNoise, ReadIssue, Reads
<1> DEFINE Models == prior' = prior /\ noise' = noise /\ electrons' = electrons
           ModelsSound == /\ prior' \in {Missing, PriorFound'}
                          /\ noise' # Missing => prior' = PriorFound' /\ noise' = NoiseFound'
                          /\ electrons' # Missing => noise' # Missing /\ electrons' = Electrons'
<1>3. Models => ModelsSound
  BY <1>1, <1>2 DEF AnalysisInv
<1>4. ASSUME scan' = scan PROVE scan' = [a \in Analysts |-> scan'[a]] /\ \A a \in Analysts : ScanSound(a)'
  BY <1>1, <1>4 DEF AnalysisInv, ScanSound
<1> HIDE DEF ModelsSound
<1>5. CASE EditWhite
  <2>1. white' \in Nat
    BY <1>5, RecordingsAssumption DEF EditWhite
  <2>2. filed' = filed /\ scan' = scan /\ Models
    BY <1>5 DEF EditWhite
  <2> QED
    BY <1>0, <1>1, <1>3, <1>4, <2>1, <2>2 DEF AnalysisInv, ModelsSound
<1>6. ASSUME NEW a \in Analysts, Lookup(a) PROVE AnalysisInv'
  <2> DEFINE new == IF filed # Missing /\ Key # Missing /\ filed.white = Key
                    THEN [at |-> "have", key |-> white, summary |-> filed.summary]
                    ELSE [at |-> "scan", key |-> white, summary |-> Missing]
  <2>1. scan' = [scan EXCEPT ![a] = new] /\ white' = white /\ filed' = filed /\ Models
    BY <1>6 DEF Lookup
  <2>2. white \in Nat /\ (filed # Missing => filed.summary = Summary(filed.white))
    BY DEF AnalysisInv
  <2>3. filed # Missing /\ Key # Missing /\ filed.white = Key => filed.summary = Summary(white)
    BY <2>2 DEF Key
  <2>4. /\ new = [at |-> new.at, key |-> new.key, summary |-> new.summary] /\ new.at \in {"scan", "have"}
        /\ new.key \in Nat /\ (new.at = "have" => new.summary = Summary(new.key))
    BY <2>2, <2>3
  <2> HIDE DEF new
  <2>5. scan' = [b \in Analysts |-> scan'[b]] /\ \A b \in Analysts : ScanSound(b)'
    BY <1>0, <2>1, <2>4, ScanStep
  <2> QED
    BY <1>0, <1>1, <1>3, <2>1, <2>2, <2>5 DEF AnalysisInv, ModelsSound
<1>7. ASSUME NEW a \in Analysts, Reduce(a) PROVE AnalysisInv'
  <2>1. PICK kernel \in {"agrees", "absent", "miscounts"} :
          scan' = [scan EXCEPT ![a] =
            IF kernel = "miscounts" /\ recording.strict
              THEN [@ EXCEPT !.at = "failed"]
              ELSE [at |-> "publish", key |-> @.key, summary |-> Summary(ScannedWhite(a))]]
    BY <1>7 DEF Reduce
  <2> DEFINE failed == [scan[a] EXCEPT !.at = "failed"]
             read == [at |-> "publish", key |-> scan[a].key, summary |-> Summary(scan[a].key)]
             new == IF kernel = "miscounts" /\ recording.strict THEN failed ELSE read
  <2>2. scan' = [scan EXCEPT ![a] = new]
    BY <2>1 DEF ScannedWhite, AnalysisInv
  <2>3. /\ scan[a] = [at |-> scan[a].at, key |-> scan[a].key, summary |-> scan[a].summary]
        /\ scan[a].at = "scan" /\ scan[a].key \in Nat
    BY <1>7 DEF Reduce, AnalysisInv, ScanSound
  <2>4. failed = [at |-> "failed", key |-> scan[a].key, summary |-> scan[a].summary]
    BY <2>3
  <2>5. white' = white /\ filed' = filed /\ Models
    BY <1>7 DEF Reduce
  <2> HIDE DEF failed
  <2>6. /\ new = [at |-> new.at, key |-> new.key, summary |-> new.summary] /\ new.at \in {"publish", "failed"}
        /\ new.key \in Nat /\ (new.at = "publish" => new.summary = Summary(new.key))
    BY <2>3, <2>4
  <2> HIDE DEF new
  <2>7. scan' = [b \in Analysts |-> scan'[b]] /\ \A b \in Analysts : ScanSound(b)'
    BY <1>0, <2>2, <2>6, ScanStep
  <2> QED
    BY <1>0, <1>1, <1>3, <2>5, <2>7 DEF AnalysisInv, ModelsSound
<1>8. ASSUME NEW a \in Analysts, PublishSummary(a) PROVE AnalysisInv'
  <2> DEFINE new == [scan[a] EXCEPT !.at = "have"]
  <2>1. scan[a].at = "publish" /\ scan' = [scan EXCEPT ![a] = new] /\ white' = white /\ Models
    BY <1>8 DEF PublishSummary, AnalysisInv
  <2>2. /\ scan[a] = [at |-> scan[a].at, key |-> scan[a].key, summary |-> scan[a].summary]
        /\ scan[a].key \in Nat /\ scan[a].summary = Summary(scan[a].key)
    BY <2>1 DEF AnalysisInv, ScanSound
  <2>3. new = [at |-> "have", key |-> scan[a].key, summary |-> scan[a].summary]
    BY <2>2
  <2> HIDE DEF new
  <2>4. scan' = [b \in Analysts |-> scan'[b]] /\ \A b \in Analysts : ScanSound(b)'
    BY <1>0, <2>1, <2>2, <2>3, ScanStep
  <2>5. filed' = IF recording.frozen /\ white = scan[a].key THEN [white |-> white, summary |-> scan[a].summary] ELSE filed
    BY <1>8 DEF PublishSummary
  <2>6. filed' # Missing => filed'.summary = Summary(filed'.white)
    BY <2>2, <2>5 DEF AnalysisInv
  <2> QED
    BY <1>0, <1>1, <1>3, <2>1, <2>4, <2>6 DEF AnalysisInv, ModelsSound
<1>9. ASSUME NEW a \in Analysts, Rescan(a) PROVE AnalysisInv'
  <2>1. scan' = [scan EXCEPT ![a] = Unscanned] /\ white' = white /\ filed' = filed /\ Models
    BY <1>9 DEF Rescan
  <2>2. Unscanned = [at |-> Unscanned.at, key |-> Unscanned.key, summary |-> Unscanned.summary] /\ Unscanned.at = "idle"
    BY DEF Unscanned
  <2>3. scan' = [b \in Analysts |-> scan'[b]] /\ \A b \in Analysts : ScanSound(b)'
    BY <1>0, <2>1, <2>2, ScanStep
  <2> QED
    BY <1>0, <1>1, <1>3, <2>1, <2>3 DEF AnalysisInv, ModelsSound
<1>10. CASE ModelFromPrior
  <2>1. prior = Missing /\ prior' = PriorFound
    BY <1>10 DEF ModelFromPrior, PriorFound
  <2>2. white' = white /\ filed' = filed /\ scan' = scan /\ noise' = noise /\ electrons' = electrons
    BY <1>10 DEF ModelFromPrior
  <2>3. ModelsSound
    BY <1>1, <1>2, <2>1, <2>2 DEF AnalysisInv, ModelsSound
  <2> QED
    BY <1>0, <1>1, <1>4, <2>2, <2>3 DEF AnalysisInv, ModelsSound
<1>11. CASE ResolveNoise
  <2>1. prior = PriorFound /\ noise = Missing /\ noise' = NoiseFound
    BY <1>11 DEF ResolveNoise, NoiseFound, AnalysisInv
  <2>2. white' = white /\ filed' = filed /\ scan' = scan /\ prior' = prior /\ electrons' = electrons
    BY <1>11 DEF ResolveNoise
  <2>3. electrons = Missing
    BY <2>1 DEF AnalysisInv
  <2>4. ModelsSound
    BY <1>1, <2>1, <2>2, <2>3 DEF ModelsSound
  <2> QED
    BY <1>0, <1>1, <1>4, <2>2, <2>4 DEF AnalysisInv, ModelsSound
<1>12. CASE ReportElectrons
  <2>1. noise # Missing /\ electrons' = Electrons
    BY <1>12 DEF ReportElectrons
  <2>2. white' = white /\ filed' = filed /\ scan' = scan /\ prior' = prior /\ noise' = noise
    BY <1>12 DEF ReportElectrons
  <2>3. ModelsSound
    BY <1>1, <1>2, <2>1, <2>2 DEF AnalysisInv, ModelsSound
  <2> QED
    BY <1>0, <1>1, <1>4, <2>2, <2>3 DEF AnalysisInv, ModelsSound
<1>13. CASE UNCHANGED analysisVars
  <2>1. white' = white /\ filed' = filed /\ scan' = scan /\ Models
    BY <1>13 DEF analysisVars
  <2> QED
    BY <1>0, <1>1, <1>3, <1>4, <2>1 DEF AnalysisInv, ModelsSound
<1> QED
  BY <1>5, <1>6, <1>7, <1>8, <1>9, <1>10, <1>11, <1>12, <1>13 DEF AnalysisNext

\* A full well is near the white level it is of.
LEMMA SaturationSound == AnalysisInv => SaturationMeasured
<1> SUFFICES ASSUME AnalysisInv PROVE SaturationMeasured
  OBVIOUS
<1>1. ASSUME NEW a \in Analysts, scan[a].at = "have"
      PROVE  /\ scan[a].summary = Summary(scan[a].key)
             /\ \A c \in Colours : NearWhite(scan[a].summary.well[c], scan[a].key)
             /\ \A cell \in CfaCells : scan[a].summary.lost[cell] = 1 =>
                  \E c \in Colours : \A site \in Sites : ColourOf(site) # c => ~Clipped(scan[a].summary.well, cell, site)
  <2> DEFINE level == scan[a].key
             well == Fullwell(level)
  <2>1. level \in Nat /\ scan[a].summary = Summary(level)
    BY <1>1 DEF AnalysisInv, ScanSound
  <2>2. Summary(level) = [well |-> well, lost |-> [cell \in CfaCells |-> LostColours(well, cell)]]
    BY DEF Summary
  <2> HIDE DEF well
  <2>3. scan[a].summary.well = well /\ scan[a].summary.lost = [cell \in CfaCells |-> LostColours(well, cell)]
    BY <2>1, <2>2
  <2>4. ASSUME NEW c \in Colours PROVE NearWhite(well[c], level)
    <3>1. well[c] = IF Saturates(c, level) THEN Ceiling(c) ELSE level
      BY DEF well, Fullwell
    <3>2. CASE Saturates(c, level)
      BY <3>1, <3>2 DEF Saturates
    <3>3. CASE ~Saturates(c, level)
      BY <2>1, <3>1, <3>3 DEF NearWhite
    <3> QED
      BY <3>2, <3>3
  <2>5. ASSUME NEW cell \in CfaCells, scan[a].summary.lost[cell] = 1
        PROVE  \E c \in Colours : \A site \in Sites : ColourOf(site) # c => ~Clipped(well, cell, site)
    <3>1. LostColours(well, cell) = 1
      BY <2>3, <2>5
    <3> QED
      BY <3>1, OneLost
  <2> QED
    BY <2>1, <2>3, <2>4, <2>5
<1>2. filed # Missing => filed.summary = Summary(filed.white)
  BY DEF AnalysisInv
<1> QED
  BY <1>1, <1>2 DEF SaturationMeasured

\* What was resolved is what was found, and what was found is earned.
LEMMA NoiseSound == AnalysisInv => NoiseHonest /\ ElectronsSupported
<1> SUFFICES ASSUME AnalysisInv, noise # Missing PROVE NoiseHonest /\ ElectronsSupported
  BY DEF NoiseHonest, ElectronsSupported, AnalysisInv
<1>1. recording \in Recordings /\ prior = PriorFound /\ noise = NoiseFound /\ (electrons # Missing => electrons = Electrons)
  BY DEF AnalysisInv
<1>2. PriorSound(prior)
  BY <1>1, PriorFoundSound
<1>3. CASE recording.kind # "cfa"
  <2>1. noise = Model("unavailable", "none", "no-samples")
    BY <1>1, <1>3 DEF NoiseFound
  <2>2. noise.status = "unavailable"
    BY <2>1 DEF Model
  <2>3. ASSUME electrons # Missing PROVE ~electrons.floor /\ ~electrons.read
    <3> DEFINE standing == /\ Calibration # Missing /\ Calibration.usable /\ ~Calibration.suspect /\ Calibration.scaled
                           /\ noise.status \in {"valid", "unresolved"}
    <3>1. electrons = [gain |-> standing, range |-> standing, read |-> standing /\ ReadNoise,
                       floor |-> standing /\ ReadNoise /\ noise.status = "valid" /\ noise.reason = "matched"]
      BY <1>1, <2>3 DEF Electrons
    <3>2. ~standing
      BY <2>2
    <3> HIDE DEF standing
    <3> QED
      BY <3>1, <3>2, Zenon
  <2> QED
    BY <1>3, <2>2, <2>3 DEF NoiseHonest, ElectronsSupported
<1>4. CASE recording.kind = "cfa"
  <2>1. /\ noise.status = "valid" => recording.reduction \in {"none", "unreadable"}
        /\ noise.status = "valid" /\ noise.source = "prior" => prior.status = "valid" /\ noise = prior
        /\ prior.spectrum = "imbalanced" => noise.spectrum = "imbalanced" \/ noise.status = "rejected"
        /\ noise.status = "valid" /\ noise.source = "file" /\ prior.status \in {"unresolved", "rejected"} =>
             noise.fallback = prior.reason
        /\ noise.status = "valid" => \A c \in Colours : noise.colours[c] = "phases" => noise = prior
    BY <1>1, <1>4, ResolvedSound
  <2>2. noise.status = "valid" /\ noise.source = "prior" =>
          ReadSupported /\ Calibration.usable /\ ~Calibration.suspect /\ Calibration.scaled
    BY <1>1, <1>2, <2>1, ReadNoiseSupported DEF PriorSound
  <2>3. ASSUME noise.status = "valid", NEW c \in Colours, noise.colours[c] = "phases"
        PROVE  \A site \in Sites : ColourOf(site) = c => Calibration.phases[site] = "ok"
    <3>1. Coefficients[c] = "phases"
      BY <1>2, <2>1, <2>3 DEF PriorSound
    <3>2. FromPhases(c)
      BY <3>1 DEF Coefficients
    <3> QED
      BY <3>2 DEF FromPhases, PhaseMeasured
  <2>4. NoiseHonest
    BY <1>4, <2>1, <2>2, <2>3 DEF NoiseHonest
  <2>5. ElectronsSupported
    <3> SUFFICES ASSUME electrons # Missing PROVE ElectronsSupported
      BY DEF ElectronsSupported
    <3> DEFINE standing == /\ Calibration # Missing /\ Calibration.usable /\ ~Calibration.suspect /\ Calibration.scaled
                           /\ noise.status \in {"valid", "unresolved"}
    <3>1. electrons = [gain |-> standing, range |-> standing, read |-> standing /\ ReadNoise,
                       floor |-> standing /\ ReadNoise /\ noise.status = "valid" /\ noise.reason = "matched"]
      BY <1>1 DEF Electrons
    <3>2. electrons.floor => electrons.read /\ electrons.gain
      BY <3>1, Zenon
    <3>3. electrons.read => standing /\ ReadNoise
      BY <3>1, Zenon
    <3>4. electrons.read => ReadSupported /\ noise.status # "rejected"
      BY <1>1, <3>3, ReadNoiseSupported
    <3> QED
      BY <3>2, <3>4 DEF ElectronsSupported
  <2> QED
    BY <2>4, <2>5
<1> QED
  BY <1>3, <1>4

\* For any recordings and any number of analysts: a summary is that of the white level
\* it was asked for, a valid noise is of samples left alone and measured, or of the
\* file, which then says for what, and electrons are of a calibration that stands.
THEOREM AnalysisAlwaysHonest == AnalysisSpec => []AnalysisHonest
<1>1. AnalysisInv => AnalysisHonest
  BY SaturationSound, NoiseSound DEF AnalysisHonest
<1> QED
  BY <1>1, AnalysisInitially, AnalysisStep, PTL DEF AnalysisSpec

-----------------------------------------------------------------------------
(* The bands of a frame

   A group of pixels is measured by the first and the second generator of noise
   in turn, chunk by chunk as the workers give them back.  The group in progress
   begins at a base; what lies before it is written with the two values of the
   whole generator for each pixel, and the tail held of it is the brightest of
   all its pixels, since the brightest of a tail and a chunk are the brightest
   of what both were taken of. *)

\* The quotient of naturals is the one whose multiple is next below.
LEMMA Quotient ==
    ASSUME NEW a \in Nat, NEW b \in Nat, b > 0
    PROVE  /\ a \div b \in Nat /\ (a \div b) * b <= a /\ a < (a \div b) * b + b
           /\ \A k \in Nat : k * b <= a /\ a < k * b + b => a \div b = k
  OBVIOUS

\* A multiple below another is below by a whole factor.
LEMMA WholeFactor ==
    ASSUME NEW a \in Nat, NEW b \in Nat, NEW c \in Nat, a * c < b * c
    PROVE  (a + 1) * c <= b * c
<1>1. a < b
  OBVIOUS
<1>2. PICK d \in Nat : b = a + 1 + d
  BY <1>1
<1> QED
  BY <1>2

\* The multiple after one.
LEMMA NextMultiple ==
    ASSUME NEW g \in Nat, NEW c \in Nat, c > 0
    PROVE  (g + 1) * c = g * c + c /\ g <= g * c
  OBVIOUS

\* Fields of a job.
LEMMA JobFacts ==
    ASSUME job \in Jobs
    PROVE  /\ job.pixels \in Nat /\ job.pixels > 0 /\ job.chunk \in Nat /\ job.chunk > 0
           /\ job.group \in Nat /\ job.group > 0 /\ job.workers \in Nat /\ job.workers > 0
           /\ \E m \in Nat : m > 0 /\ job.group = m * job.chunk
<1>1. /\ job.pixels \in Nat /\ job.pixels > 0 /\ job.chunk \in Nat /\ job.chunk > 0
      /\ job.group \in Nat /\ job.group > 0 /\ job.workers \in Nat /\ job.workers > 0
      /\ job.group % job.chunk = 0
  BY JobsAssumption
<1> DEFINE c == job.chunk
           g == job.group
<1>2. c \in Nat /\ c > 0 /\ g \in Nat /\ g > 0 /\ g % c = 0
  BY <1>1
<1> HIDE DEF c, g
<1>3. g \div c \in Nat /\ g = c * (g \div c) + (g % c)
  BY <1>2
<1>4. g = (g \div c) * c /\ g \div c > 0
  BY <1>2, <1>3
<1> QED
  BY <1>1, <1>3, <1>4 DEF c, g

\* The chunks cover the frame without a gap.
LEMMA ChunkFacts ==
    ASSUME job \in Jobs
    PROVE  /\ Chunks \in Nat /\ Chunks > 0 /\ (Chunks - 1) * job.chunk < job.pixels /\ job.pixels <= Chunks * job.chunk
           /\ Workers \in Nat /\ Workers > 0
<1>1. /\ job.pixels \in Nat /\ job.pixels > 0 /\ job.chunk \in Nat /\ job.chunk > 0
      /\ job.workers \in Nat /\ job.workers > 0
  BY JobFacts
<1> DEFINE c == job.chunk
           n == job.pixels
<1>2. c \in Nat /\ c > 0 /\ n \in Nat /\ n > 0 /\ n + c - 1 \in Nat
  BY <1>1
<1> HIDE DEF c, n
<1> DEFINE k == (n + c - 1) \div c
<1>3. k \in Nat /\ k * c <= n + c - 1 /\ n + c - 1 < k * c + c
  BY <1>2, Quotient
<1>4. Chunks = k
  BY DEF Chunks, CeilDiv, c, n
<1> HIDE DEF k
<1>5. k > 0 /\ n <= k * c /\ (k - 1) * c = k * c - c
  BY <1>2, <1>3
<1>6. (k - 1) * c < n
  BY <1>2, <1>3, <1>5
<1>7. Workers \in Nat /\ Workers > 0
  BY <1>1, <1>3, <1>4, <1>5 DEF Workers, Fewer
<1> QED
  BY <1>3, <1>4, <1>5, <1>6, <1>7 DEF c, n

\* The pixels of the chunks taken back.
Done == Fewer(consumed * job.chunk, job.pixels)

\* Where a chunk begins and ends.
LEMMA NextChunk ==
    ASSUME job \in Jobs, consumed \in 0..Chunks
    PROVE  /\ Done \in Nat /\ Done <= job.pixels /\ (consumed = Chunks => Done = job.pixels)
           /\ consumed # Chunks =>
                /\ From(consumed + 1) = Done /\ Done = consumed * job.chunk /\ Done < job.pixels
                /\ To(consumed + 1) \in Nat /\ Done < To(consumed + 1) /\ To(consumed + 1) <= job.pixels
                /\ To(consumed + 1) = Fewer((consumed + 1) * job.chunk, job.pixels)
                /\ consumed + 1 = Chunks => To(consumed + 1) = job.pixels
                /\ consumed + 1 # Chunks => To(consumed + 1) = (consumed + 1) * job.chunk /\ To(consumed + 1) < job.pixels
<1> DEFINE c == job.chunk
           n == job.pixels
           k == Chunks
           x == consumed
<1>1. /\ c \in Nat /\ c > 0 /\ n \in Nat /\ n > 0 /\ k \in Nat /\ k > 0 /\ (k - 1) * c < n /\ n <= k * c
      /\ x \in 0..k
  BY JobFacts, ChunkFacts
<1>2. /\ Done = Fewer(x * c, n) /\ From(x + 1) = ((x + 1) - 1) * c /\ To(x + 1) = Fewer((x + 1) * c, n)
  BY DEF Done, From, To
<1> HIDE DEF c, n, k, x
<1>3. x * c \in Nat /\ (x + 1) * c \in Nat /\ (x + 1) * c = x * c + c /\ ((x + 1) - 1) * c = x * c
  BY <1>1
<1>4. x = k => Done = n
  BY <1>1, <1>2 DEF Fewer
<1>5. ASSUME x # k PROVE x * c < n
  <2>1. PICK d \in Nat : k - 1 = x + d
    BY <1>1, <1>5
  <2>2. (k - 1) * c = x * c + d * c /\ d * c >= 0
    BY <1>1, <2>1
  <2> QED
    BY <1>1, <1>3, <2>2
<1>6. ASSUME x # k, x + 1 # k PROVE (x + 1) * c < n
  <2>1. PICK d \in Nat : k - 1 = (x + 1) + d
    BY <1>1, <1>6
  <2>2. (k - 1) * c = (x + 1) * c + d * c /\ d * c >= 0
    BY <1>1, <2>1
  <2> QED
    BY <1>1, <1>3, <2>2
<1>7. x + 1 = k => n <= (x + 1) * c
  BY <1>1
<1> HIDE DEF Done
<1>8. /\ Done \in Nat /\ Done <= n /\ (x # k => Done = x * c /\ Done < n)
  BY <1>1, <1>2, <1>3, <1>5 DEF Fewer
<1>9. ASSUME x # k
      PROVE  /\ To(x + 1) \in Nat /\ Done < To(x + 1) /\ To(x + 1) <= n
             /\ x + 1 = k => To(x + 1) = n
             /\ x + 1 # k => To(x + 1) = (x + 1) * c /\ To(x + 1) < n
  BY <1>1, <1>2, <1>3, <1>6, <1>7, <1>8, <1>9 DEF Fewer
<1>10. x # k => From(x + 1) = Done
  BY <1>2, <1>3, <1>8
<1> QED
  BY <1>2, <1>4, <1>8, <1>9, <1>10 DEF c, n, k, x

\* The pixels before p in the order of brightness.
Brighter(q, p) == Peak(q) > Peak(p) \/ (Peak(q) = Peak(p) /\ q > p)
Above(S, p) == {q \in S : Brighter(q, p)}

\* The order of brightness is one.
LEMMA BrightnessOrders ==
    /\ \A p \in Nat : Peak(p) \in Nat
    /\ \A p, q, r \in Nat : Brighter(r, q) /\ Brighter(q, p) => Brighter(r, p)
    /\ \A p \in Nat : ~Brighter(p, p)
<1>1. \A p \in Nat : Peak(p) \in Nat
  BY DEF Peak
<1> QED
  BY <1>1 DEF Brighter

\* Fewer pixels have no more of them above a pixel.
LEMMA AboveGrows ==
    ASSUME NEW T \in SUBSET Nat, IsFiniteSet(T), NEW S \in SUBSET T, NEW p
    PROVE  /\ IsFiniteSet(Above(S, p)) /\ IsFiniteSet(Above(T, p))
           /\ Cardinality(Above(S, p)) \in Nat /\ Cardinality(Above(T, p)) \in Nat
           /\ Cardinality(Above(S, p)) <= Cardinality(Above(T, p))
<1>1. Above(S, p) \in SUBSET Above(T, p) /\ Above(T, p) \in SUBSET T
  BY DEF Above
<1>2. IsFiniteSet(Above(T, p))
  BY <1>1, FS_Subset
<1> QED
  BY <1>1, <1>2, FS_Subset, FS_CardinalityType

\* A pixel above another has fewer above it.
LEMMA AboveFewer ==
    ASSUME NEW T \in SUBSET Nat, IsFiniteSet(T), NEW p \in T, NEW q \in T, Brighter(q, p)
    PROVE  Cardinality(Above(T, q)) < Cardinality(Above(T, p))
<1>1. Above(T, q) \in SUBSET Above(T, p) /\ q \in Above(T, p) /\ q \notin Above(T, q)
  BY BrightnessOrders DEF Above
<1>2. IsFiniteSet(Above(T, p)) /\ Cardinality(Above(T, p)) \in Nat /\ Cardinality(Above(T, q)) \in Nat
  BY AboveGrows
<1>3. Cardinality(Above(T, q)) <= Cardinality(Above(T, p))
      /\ (Cardinality(Above(T, q)) = Cardinality(Above(T, p)) => Above(T, q) = Above(T, p))
  BY <1>1, <1>2, FS_Subset
<1> QED
  BY <1>1, <1>2, <1>3

\* What counts the pixels above is the definition of the tail.
LEMMA BrightestMeans ==
    ASSUME NEW S, NEW n
    PROVE  Brightest(S, n) = {p \in S : Cardinality(Above(S, p)) < n}
BY DEF Brightest, Above, Brighter

\* The brightest of a tail and a chunk are the brightest of all the tail was taken of.
LEMMA TailsMerge ==
    ASSUME NEW A \in SUBSET Nat, NEW B \in SUBSET Nat, IsFiniteSet(A), IsFiniteSet(B), NEW n \in Int
    PROVE  Brightest(Brightest(A, n) \cup B, n) = Brightest(A \cup B, n)
<1> DEFINE M == Brightest(A, n) \cup B
           U == A \cup B
<1>1. Brightest(A, n) = {p \in A : Cardinality(Above(A, p)) < n}
  BY BrightestMeans
<1>2. U \in SUBSET Nat /\ IsFiniteSet(U) /\ M \in SUBSET U /\ A \in SUBSET U /\ B \in SUBSET M
  BY <1>1, FS_Union
<1>3. IsFiniteSet(M)
  BY <1>2, FS_Subset
<1>4. \A p \in A : p \in M \/ Cardinality(Above(A, p)) >= n
  <2> SUFFICES ASSUME NEW p \in A, p \notin M PROVE Cardinality(Above(A, p)) >= n
    OBVIOUS
  <2>1. Cardinality(Above(A, p)) \in Nat
    BY AboveGrows
  <2> QED
    BY <1>1, <2>1
<1>5. \A p \in U : p \notin M => p \in A
  OBVIOUS
<1>6. \A p \in A : Cardinality(Above(A, p)) < n => p \in M
  BY <1>1
<1> HIDE DEF M, U
<1>7. Brightest(M, n) = {p \in M : Cardinality(Above(M, p)) < n} /\ Brightest(U, n) = {p \in U : Cardinality(Above(U, p)) < n}
  BY BrightestMeans
<1>8. ASSUME NEW p \in U, Cardinality(Above(U, p)) < n PROVE p \in M /\ Cardinality(Above(M, p)) < n
  <2>1. /\ Cardinality(Above(M, p)) <= Cardinality(Above(U, p)) /\ Cardinality(Above(A, p)) <= Cardinality(Above(U, p))
        /\ Cardinality(Above(M, p)) \in Nat /\ Cardinality(Above(A, p)) \in Nat /\ Cardinality(Above(U, p)) \in Nat
    BY <1>2, AboveGrows
  <2>2. Cardinality(Above(M, p)) < n /\ Cardinality(Above(A, p)) < n
    BY <1>8, <2>1
  <2> QED
    BY <1>5, <1>6, <2>2
<1>9. ASSUME NEW p \in M, Cardinality(Above(M, p)) < n PROVE Cardinality(Above(U, p)) < n
  <2> DEFINE D == Above(U, p) \ M
             counts == {Cardinality(Above(A, q)) : q \in D}
  <2>1. CASE D = {}
    <3>1. Above(U, p) = Above(M, p)
      BY <1>2, <2>1 DEF Above
    <3> QED
      BY <1>9, <3>1
  <2>2. CASE D # {}
    <3>1. D \in SUBSET A
      BY <1>5 DEF Above
    <3>2. \A q \in D : Cardinality(Above(A, q)) \in Nat
      BY AboveGrows
    <3>3. counts \in SUBSET Nat /\ counts # {}
      BY <2>2, <3>2
    <3>4. PICK least \in counts : \A m \in counts : least <= m
      BY <3>3, LeastNumber
    <3>5. PICK q \in D : least = Cardinality(Above(A, q))
      BY <3>4
    <3>6. \A y \in D : Cardinality(Above(A, q)) <= Cardinality(Above(A, y))
      BY <3>4, <3>5
    <3>7. q \in A /\ q \in Nat /\ Brighter(q, p) /\ p \in Nat /\ q \notin M
      BY <1>2, <3>1 DEF Above
    <3> HIDE DEF counts
    <3>8. ASSUME NEW y \in Above(A, q) PROVE y \in Above(M, p)
      <4>1. y \in A /\ y \in Nat /\ Brighter(y, q)
        BY DEF Above
      <4>2. Brighter(y, p) /\ y \in U
        BY <1>2, <3>7, <4>1, BrightnessOrders
      <4>3. y \in M
        <5> SUFFICES ASSUME y \notin M PROVE FALSE
          OBVIOUS
        <5>1. y \in D
          BY <4>2 DEF Above
        <5>2. Cardinality(Above(A, y)) < Cardinality(Above(A, q))
          BY <3>7, <4>1, AboveFewer
        <5>3. Cardinality(Above(A, q)) <= Cardinality(Above(A, y)) /\ Cardinality(Above(A, q)) \in Nat /\ Cardinality(Above(A, y)) \in Nat
          BY <3>2, <3>6, <5>1
        <5> QED
          BY <5>2, <5>3
      <4> QED
        BY <4>2, <4>3 DEF Above
    <3>9. Above(A, q) \in SUBSET Above(M, p)
      BY <3>8
    <3>10. IsFiniteSet(Above(M, p)) /\ Cardinality(Above(M, p)) \in Nat
      BY <1>2, <1>3, AboveGrows
    <3>11. Cardinality(Above(A, q)) <= Cardinality(Above(M, p))
      BY <3>9, <3>10, FS_Subset
    <3>12. Cardinality(Above(A, q)) >= n
      BY <1>4, <3>7
    <3>13. Cardinality(Above(A, q)) \in Nat
      BY <3>2
    <3> QED
      BY <1>9, <3>10, <3>11, <3>12, <3>13
  <2> QED
    BY <2>1, <2>2
<1> QED
  BY <1>2, <1>7, <1>8, <1>9 DEF M, U

\* The group that is being joined begins at base: what came before is written, with
\* two values of the generator for each pixel.
Joining(base) ==
    /\ base <= Done /\ parts = base..(Done - 1) /\ DOMAIN bytes = 0..(base - 1)
    /\ IF consumed = Chunks THEN base = job.pixels
       ELSE \E g \in 0..base : base = g * job.group /\ Done < base + job.group
    /\ drawn \in Nat /\ (~job.cached => drawn = 2 * base)

BandsInv ==
    /\ job \in Jobs
    /\ consumed \in 0..Chunks /\ submitted \in consumed..Chunks /\ submitted <= consumed + Workers
    /\ DOMAIN flying = (consumed + 1)..submitted /\ flying = [i \in DOMAIN flying |-> flying[i]]
    /\ \A p \in DOMAIN bytes : bytes[p] = PlaneNoise(p)
    /\ \E base \in 0..Done : Joining(base)
    /\ job.pair => tail = Brightest(0..(Done - 1), KeptRanks)
    /\ outcome = "returned" => consumed = Chunks

\* No chunk has been handed out.
LEMMA BandsInitially == BandsInit => BandsInv
<1> SUFFICES ASSUME BandsInit PROVE BandsInv
  OBVIOUS
<1>1. /\ job \in Jobs /\ flying = <<>> /\ submitted = 0 /\ consumed = 0 /\ parts = {} /\ drawn = 0
      /\ bytes = <<>> /\ tail = {} /\ outcome = "rendering"
  BY DEF BandsInit, BandsFrom
<1>2. Chunks \in Nat /\ Chunks > 0 /\ Workers \in Nat /\ Workers > 0
  BY <1>1, ChunkFacts
<1>3. /\ job.pixels \in Nat /\ job.pixels > 0 /\ job.chunk \in Nat /\ job.chunk > 0
      /\ job.group \in Nat /\ job.group > 0
  BY <1>1, JobFacts
<1>4. Done = 0
  BY <1>1, <1>3 DEF Done, Fewer
<1>5. DOMAIN flying = (consumed + 1)..submitted /\ flying = [i \in DOMAIN flying |-> flying[i]]
  BY <1>1
<1>6. DOMAIN bytes = {} /\ 0..(0 - 1) = {}
  BY <1>1
<1>7. 0 = 0 * job.group /\ Done < 0 + job.group
  BY <1>3, <1>4
<1>8. Joining(0)
  BY <1>1, <1>2, <1>4, <1>6, <1>7 DEF Joining
<1>9. Brightest({}, KeptRanks) = {}
  BY DEF Brightest
<1> QED
  BY <1>1, <1>2, <1>4, <1>5, <1>6, <1>8, <1>9 DEF BandsInv

\* What a group draws is the noise of the planes.
LEMMA GroupDraws ==
    ASSUME job \in Jobs, NEW g \in Nat, NEW base \in Nat, base = g * job.group,
           NEW end \in Nat, end = LastOf(g), job.cached \/ drawn = 2 * base,
           NEW p \in base..(end - 1)
    PROVE  Drawn(p, base, end, drawn) = PlaneNoise(p)
<1>1. job.group \in Nat /\ job.group > 0 /\ job.pixels \in Nat
  BY JobFacts
<1>2. (g + 1) * job.group = base + job.group
  BY <1>1
<1>3. end <= base + job.group
  BY <1>1, <1>2 DEF LastOf, Fewer
<1>4. p \in Nat /\ g * job.group <= p /\ p < g * job.group + job.group
  BY <1>1, <1>3
<1>5. GroupOf(p) = g
  BY <1>1, <1>4, Quotient DEF GroupOf
<1>6. PlaneNoise(p) = <<PlaneA(2 * base, base, p), PlaneB(2 * base, base, end, p)>>
  BY <1>5 DEF PlaneNoise, FirstOf
<1> QED
  BY <1>6 DEF Drawn

\* The ends of a run of pixels.
LEMMA EndsOfRun ==
    ASSUME NEW a \in Nat, NEW b \in Nat, a < b
    PROVE  First(a..(b - 1)) = a /\ EndOf(a..(b - 1)) = b
<1>1. a \in a..(b - 1) /\ \A q \in a..(b - 1) : a <= q
  OBVIOUS
<1>2. b - 1 \in a..(b - 1) /\ \A q \in a..(b - 1) : q <= b - 1
  OBVIOUS
<1>3. \A p, r \in a..(b - 1) : (\A q \in a..(b - 1) : p <= q) /\ (\A q \in a..(b - 1) : r <= q) => p = r
  OBVIOUS
<1>4. \A p, r \in a..(b - 1) : (\A q \in a..(b - 1) : q <= p) /\ (\A q \in a..(b - 1) : q <= r) => p = r
  OBVIOUS
<1> HIDE DEF First
<1>5. First(a..(b - 1)) = a
  BY <1>1, <1>3 DEF First
<1>6. EndOf(a..(b - 1)) = (b - 1) + 1
  BY <1>2, <1>4 DEF EndOf
<1> QED
  BY <1>5, <1>6

\* The chunk that is taken back.
LEMMA ConsumeKeeps == ASSUME BandsInv, NEW i \in Nat, Consume(i) PROVE BandsInv'
<1>1. /\ job \in Jobs /\ consumed \in 0..Chunks /\ submitted \in consumed..Chunks /\ submitted <= consumed + Workers
      /\ DOMAIN flying = (consumed + 1)..submitted /\ flying = [j \in DOMAIN flying |-> flying[j]]
      /\ \A p \in DOMAIN bytes : bytes[p] = PlaneNoise(p)
      /\ job.pair => tail = Brightest(0..(Done - 1), KeptRanks)
  BY DEF BandsInv
<1>2. PICK base \in 0..Done : Joining(base)
  BY DEF BandsInv
<1>3. /\ i = consumed + 1 /\ i \in DOMAIN flying /\ outcome = "rendering" /\ consumed' = consumed + 1
      /\ flying' = [j \in DOMAIN flying \ {i} |-> flying[j]]
      /\ tail' = IF job.pair THEN TailWith(i) ELSE tail
      /\ job' = job /\ submitted' = submitted /\ outcome' = outcome
  BY DEF Consume, Ready
<1>4. Chunks \in Nat /\ Workers \in Nat /\ consumed # Chunks /\ consumed \in Nat /\ i <= Chunks
  BY <1>1, <1>3, ChunkFacts
<1>5. /\ job.pixels \in Nat /\ job.pixels > 0 /\ job.chunk \in Nat /\ job.chunk > 0
      /\ job.group \in Nat /\ job.group > 0
  BY <1>1, JobFacts
<1>0. To(i) \in Nat
  BY <1>1, <1>3, <1>4, NextChunk
<1> PICK end \in Nat : end = To(i)
  BY <1>0
<1>6. /\ Done \in Nat /\ From(i) = Done /\ Done = consumed * job.chunk /\ Done < job.pixels
      /\ end \in Nat /\ Done < end /\ end <= job.pixels
      /\ end = Fewer(i * job.chunk, job.pixels)
      /\ i = Chunks => end = job.pixels
      /\ i # Chunks => end = i * job.chunk /\ end < job.pixels
  BY <1>1, <1>3, <1>4, NextChunk
<1>7. Chunks' = Chunks /\ Workers' = Workers /\ KeptRanks' = KeptRanks /\ \A p : PlaneNoise(p)' = PlaneNoise(p)
  BY <1>3 DEF Chunks, Workers, KeptRanks, PlaneNoise, GroupOf, FirstOf, LastOf
<1>8. Done' = end
  BY <1>3, <1>6 DEF Done
<1>9. /\ (consumed \in 0..Chunks)' /\ (submitted \in consumed..Chunks)' /\ (submitted <= consumed + Workers)'
      /\ (DOMAIN flying = (consumed + 1)..submitted)' /\ (flying = [j \in DOMAIN flying |-> flying[j]])'
  <2>1. (consumed \in 0..Chunks)' /\ (submitted \in consumed..Chunks)' /\ (submitted <= consumed + Workers)'
    BY <1>1, <1>3, <1>4, <1>7
  <2>2. DOMAIN flying \ {i} = ((consumed + 1) + 1)..submitted
    BY <1>1, <1>3, <1>4
  <2> QED
    BY <1>3, <2>1, <2>2
<1>10. /\ base \in Nat /\ base <= Done /\ parts = base..(Done - 1) /\ DOMAIN bytes = 0..(base - 1)
       /\ drawn \in Nat /\ (~job.cached => drawn = 2 * base)
  BY <1>2, <1>6 DEF Joining
<1>11. PICK g \in Nat : base = g * job.group /\ Done < base + job.group
  BY <1>2, <1>4 DEF Joining
<1>12. GroupOf(Done) = g
  BY <1>5, <1>6, <1>10, <1>11, Quotient DEF GroupOf
<1>13. i * job.chunk <= (g + 1) * job.group
  <2>1. PICK m \in Nat : job.group = m * job.chunk
    BY <1>1, JobFacts
  <2>2. (g + 1) * job.group = base + job.group
    BY <1>5, <1>11, NextMultiple
  <2>3. (g + 1) * job.group = ((g + 1) * m) * job.chunk /\ (g + 1) * m \in Nat
    BY <1>5, <2>1
  <2>4. consumed * job.chunk < ((g + 1) * m) * job.chunk
    BY <1>6, <1>11, <2>2, <2>3
  <2> QED
    BY <1>3, <1>4, <1>5, <2>3, <2>4, WholeFactor
<1>14. LastOf(g) \in Nat /\ end <= LastOf(g) /\ LastOf(g) = Fewer((g + 1) * job.group, job.pixels)
  <2>1. (g + 1) * job.group \in Nat /\ i * job.chunk \in Nat
    BY <1>4, <1>3, <1>5
  <2> QED
    BY <1>5, <1>6, <1>13, <2>1 DEF LastOf, Fewer
<1>15. JoinedParts(i) = base..(end - 1) /\ ChunkPixels(i) = Done..(end - 1)
  <2>1. ChunkPixels(i) = Done..(end - 1)
    BY <1>6 DEF ChunkPixels
  <2>2. base..(Done - 1) \cup Done..(end - 1) = base..(end - 1)
    BY <1>6, <1>10
  <2> QED
    BY <1>10, <2>1, <2>2 DEF JoinedParts
<1>16. (job.pair => tail = Brightest(0..(Done - 1), KeptRanks))'
  <2> SUFFICES ASSUME job.pair PROVE tail' = Brightest(0..(end - 1), KeptRanks)
    BY <1>3, <1>7, <1>8 DEF Brightest, Peak
  <2>1. tail' = Brightest(tail \cup ChunkPixels(i), KeptRanks)
    BY <1>3 DEF TailWith
  <2>2. tail' = Brightest(Brightest(0..(Done - 1), KeptRanks) \cup Done..(end - 1), KeptRanks)
    BY <1>1, <1>15, <2>1
  <2>3. KeptRanks \in Int
    BY <1>5 DEF KeptRanks
  <2>4. 0..(Done - 1) \in SUBSET Nat /\ Done..(end - 1) \in SUBSET Nat
    BY <1>6
  <2>5. Done - 1 \in Int /\ end - 1 \in Int /\ Done \in Int
    BY <1>6
  <2>6. IsFiniteSet(0..(Done - 1)) /\ IsFiniteSet(Done..(end - 1))
    <3>1. \A a, b \in Int : IsFiniteSet(a..b)
      BY FS_Interval
    <3>2. 0 \in Int
      OBVIOUS
    <3> QED
      BY <2>5, <3>1, <3>2, Zenon
  <2>7. 0..(Done - 1) \cup Done..(end - 1) = 0..(end - 1)
    BY <1>6
  <2>8. \A A, B \in SUBSET Nat : IsFiniteSet(A) /\ IsFiniteSet(B) =>
          Brightest(Brightest(A, KeptRanks) \cup B, KeptRanks) = Brightest(A \cup B, KeptRanks)
    BY <2>3, TailsMerge
  <2> QED
    BY <2>2, <2>4, <2>6, <2>7, <2>8, Zenon
<1>17. /\ \A p \in DOMAIN bytes' : bytes'[p] = PlaneNoise(p)
       /\ \E b \in 0..end : Joining(b)'
  <2>1. CASE GroupEnds(i)
    <3>1. end = LastOf(g)
      BY <1>6, <1>12, <2>1 DEF GroupEnds
    <3>2. /\ bytes' = Quantized(i) /\ parts' = {}
          /\ drawn' = IF job.cached THEN drawn ELSE drawn + 2 * Cardinality(JoinedParts(i))
      BY <2>1 DEF Consume
    <3>3. base < end /\ First(base..(end - 1)) = base /\ EndOf(base..(end - 1)) = end
      BY <1>6, <1>10, EndsOfRun
    <3>4. bytes' = [p \in DOMAIN bytes \cup base..(end - 1) |->
                      IF p \in base..(end - 1) THEN Drawn(p, base, end, drawn) ELSE bytes[p]]
      BY <1>15, <3>2, <3>3 DEF Quantized
    <3>5. \A p \in base..(end - 1) : Drawn(p, base, end, drawn) = PlaneNoise(p)
      BY <1>1, <1>6, <1>10, <1>11, <3>1, GroupDraws
    <3>6. DOMAIN bytes' = 0..(end - 1)
      <4>1. 0..(base - 1) \cup base..(end - 1) = 0..(end - 1)
        BY <1>10, <3>3, <1>6
      <4> QED
        BY <1>10, <3>4, <4>1
    <3>7. \A p \in DOMAIN bytes' : bytes'[p] = PlaneNoise(p)
      BY <1>1, <3>4, <3>5
    <3>8. drawn' \in Nat /\ (~job.cached => drawn' = 2 * end)
      <4>1. Cardinality(base..(end - 1)) = end - base
        BY <1>6, <1>10, <3>3, FS_Interval
      <4>2. ~job.cached => drawn' = drawn + 2 * (end - base)
        BY <1>15, <3>2, <4>1
      <4>3. job.cached => drawn' = drawn
        BY <3>2
      <4>4. 2 * base + 2 * (end - base) = 2 * end /\ drawn + 2 * (end - base) \in Nat
        BY <1>6, <1>10, <3>3
      <4> QED
        BY <1>10, <4>2, <4>3, <4>4
    <3>9. IF consumed' = Chunks THEN end = job.pixels
          ELSE \E h \in 0..end : end = h * job.group /\ end < end + job.group
      <4>1. CASE i = Chunks
        BY <1>3, <1>6, <4>1
      <4>2. CASE i # Chunks
        <5>1. end < job.pixels /\ end = (g + 1) * job.group
          BY <1>5, <1>6, <1>14, <3>1, <4>2 DEF Fewer
        <5>2. g + 1 <= (g + 1) * job.group
          BY <1>5
        <5> QED
          BY <1>3, <1>5, <1>6, <4>2, <5>1, <5>2
      <4> QED
        BY <4>1, <4>2
    <3>10. parts' = end..(end - 1)
      BY <1>6, <3>2
    <3>11. Joining(end)'
      BY <1>3, <1>6, <1>7, <1>8, <3>6, <3>8, <3>9, <3>10 DEF Joining
    <3> QED
      BY <1>6, <3>7, <3>11
  <2>2. CASE ~GroupEnds(i)
    <3>1. end < LastOf(g)
      BY <1>6, <1>12, <1>14, <2>2 DEF GroupEnds
    <3>2. parts' = base..(end - 1) /\ bytes' = bytes /\ drawn' = drawn
      BY <1>15, <2>2 DEF Consume
    <3>3. i # Chunks /\ end < (g + 1) * job.group
      BY <1>5, <1>6, <1>14, <3>1 DEF Fewer
    <3>4. (g + 1) * job.group = base + job.group /\ g <= base
      BY <1>5, <1>11, NextMultiple
    <3>5. Joining(base)'
      BY <1>3, <1>6, <1>7, <1>8, <1>10, <1>11, <3>2, <3>3, <3>4 DEF Joining
    <3> QED
      BY <1>1, <1>6, <1>10, <3>2, <3>5
  <2> QED
    BY <2>1, <2>2
<1> QED
  BY <1>1, <1>3, <1>7, <1>8, <1>9, <1>16, <1>17 DEF BandsInv

\* Handing out, rendering, failing and returning leave what is written alone.
LEMMA BandsStep == BandsInv /\ [BandsNext]_bandVars => BandsInv'
<1> SUFFICES ASSUME BandsInv, [BandsNext]_bandVars PROVE BandsInv'
  OBVIOUS
<1>0. /\ job \in Jobs /\ Chunks \in Nat /\ Workers \in Nat
      /\ consumed \in 0..Chunks /\ submitted \in consumed..Chunks /\ submitted <= consumed + Workers
      /\ DOMAIN flying = (consumed + 1)..submitted /\ flying = [j \in DOMAIN flying |-> flying[j]]
  BY ChunkFacts DEF BandsInv
<1>1. ASSUME job' = job, consumed' = consumed, parts' = parts, drawn' = drawn, bytes' = bytes, tail' = tail
      PROVE  /\ Chunks' = Chunks /\ Workers' = Workers
             /\ (\A p \in DOMAIN bytes : bytes[p] = PlaneNoise(p))'
             /\ (\E base \in 0..Done : Joining(base))'
             /\ (job.pair => tail = Brightest(0..(Done - 1), KeptRanks))'
  <2>1. /\ Chunks' = Chunks /\ Workers' = Workers /\ KeptRanks' = KeptRanks /\ Done' = Done
        /\ \A p : PlaneNoise(p)' = PlaneNoise(p)
    BY <1>1 DEF Chunks, Workers, KeptRanks, PlaneNoise, GroupOf, FirstOf, LastOf, Done
  <2>2. \A base : Joining(base) => Joining(base)'
    BY <1>1, <2>1 DEF Joining
  <2>3. \E base \in 0..Done : Joining(base)
    BY DEF BandsInv
  <2>4. (\E base \in 0..Done : Joining(base))'
    BY <2>1, <2>2, <2>3
  <2>5. (job.pair => tail = Brightest(0..(Done - 1), KeptRanks))'
    BY <1>1, <2>1 DEF BandsInv, Brightest, Peak
  <2> QED
    BY <1>1, <2>1, <2>4, <2>5 DEF BandsInv
<1> DEFINE Rest == job' = job /\ consumed' = consumed /\ parts' = parts /\ drawn' = drawn /\ bytes' = bytes /\ tail' = tail
<1>2. CASE Submit
  <2>1. /\ submitted < Chunks /\ submitted < consumed + Workers /\ flying' = With(flying, submitted + 1, "running")
        /\ submitted' = submitted + 1 /\ outcome' = outcome /\ outcome = "rendering" /\ Rest
    BY <1>2 DEF Submit
  <2>2. (DOMAIN flying = (consumed + 1)..submitted)' /\ (flying = [j \in DOMAIN flying |-> flying[j]])'
    <3>1. flying' = [j \in DOMAIN flying \cup {submitted + 1} |-> IF j = submitted + 1 THEN "running" ELSE flying[j]]
      BY <2>1 DEF With
    <3>2. DOMAIN flying \cup {submitted + 1} = (consumed + 1)..(submitted + 1)
      BY <1>0
    <3> QED
      BY <2>1, <3>1, <3>2
  <2> QED
    BY <1>0, <1>1, <2>1, <2>2 DEF BandsInv
<1>3. ASSUME NEW i \in 1..Chunks, RenderChunk(i) PROVE BandsInv'
  <2>1. PICK result \in {"rendered", "failed"} : flying' = [flying EXCEPT ![i] = result]
    BY <1>3 DEF RenderChunk
  <2>2. submitted' = submitted /\ outcome' = outcome /\ Rest
    BY <1>3 DEF RenderChunk
  <2>3. DOMAIN flying' = DOMAIN flying /\ flying' = [j \in DOMAIN flying' |-> flying'[j]]
    BY <1>0, <2>1
  <2> QED
    BY <1>0, <1>1, <2>2, <2>3 DEF BandsInv
<1>4. ASSUME NEW i \in 1..Chunks, Consume(i) PROVE BandsInv'
  BY <1>0, <1>4, ConsumeKeeps
<1>5. ASSUME NEW i \in 1..Chunks, Raises(i) PROVE BandsInv'
  <2>1. submitted' = submitted /\ flying' = flying /\ outcome' = "raised" /\ Rest
    BY <1>5 DEF Raises
  <2> QED
    BY <1>0, <1>1, <2>1 DEF BandsInv
<1>6. CASE Return
  <2>1. submitted' = submitted /\ flying' = flying /\ consumed = Chunks /\ Rest
    BY <1>6 DEF Return
  <2> QED
    BY <1>0, <1>1, <2>1 DEF BandsInv
<1>7. CASE UNCHANGED bandVars
  <2>1. submitted' = submitted /\ flying' = flying /\ outcome' = outcome /\ Rest
    BY <1>7 DEF bandVars
  <2> QED
    BY <1>0, <1>1, <2>1 DEF BandsInv
<1> QED
  BY <1>2, <1>3, <1>4, <1>5, <1>6, <1>7 DEF BandsNext

\* What is written is right and what has returned is whole; the chunks in memory are
\* one for each worker at most.
LEMMA BandsRight == BandsInv => BandsAgree
<1> SUFFICES ASSUME BandsInv PROVE BandsAgree
  OBVIOUS
<1>1. /\ job \in Jobs /\ Chunks \in Nat /\ Workers \in Nat
      /\ consumed \in 0..Chunks /\ submitted \in consumed..Chunks /\ submitted <= consumed + Workers
      /\ DOMAIN flying = (consumed + 1)..submitted /\ flying = [j \in DOMAIN flying |-> flying[j]]
      /\ \A p \in DOMAIN bytes : bytes[p] = PlaneNoise(p)
      /\ job.pair => tail = Brightest(0..(Done - 1), KeptRanks)
      /\ outcome = "returned" => consumed = Chunks
  BY ChunkFacts DEF BandsInv
<1>2. consumed = Chunks => Done = job.pixels
  BY <1>1, NextChunk
<1>3. ASSUME outcome = "returned" PROVE DOMAIN bytes = 0..(job.pixels - 1) /\ flying = <<>>
  <2>1. PICK base \in 0..Done : Joining(base)
    BY DEF BandsInv
  <2>2. base = job.pixels /\ DOMAIN bytes = 0..(base - 1)
    BY <1>1, <1>3, <2>1 DEF Joining
  <2>3. DOMAIN flying = {}
    BY <1>1, <1>3
  <2>4. flying = <<>>
    BY <1>1, <2>3
  <2> QED
    BY <2>2, <2>4
<1>4. ChunksBounded
  <2>1. Cardinality((consumed + 1)..submitted) = submitted - consumed
    <3>1. consumed + 1 \in Int /\ submitted \in Int
      BY <1>1
    <3>2. Cardinality((consumed + 1)..submitted) = IF consumed + 1 > submitted THEN 0 ELSE submitted - (consumed + 1) + 1
      BY <3>1, FS_Interval
    <3> QED
      BY <1>1, <3>2
  <2> QED
    BY <1>1, <2>1 DEF ChunksBounded
<1>5. HeadroomExact
  BY <1>1, <1>2 DEF HeadroomExact
<1> QED
  BY <1>1, <1>3, <1>4, <1>5 DEF BandsAgree, BytesOfThePlanes

\* For any frames, chunks, groups and workers: the invariant of the bands.
THEOREM BandsInvariant == BandsSpec => []BandsInv
BY BandsInitially, BandsStep, PTL DEF BandsSpec

\* For any frames, cut and shared out in any way, and any order in which the workers
\* finish: a frame that is returned has every pixel with the noise of the cached planes
\* and the headroom of the whole frame, and memory holds no more chunks than workers.
THEOREM BandsAlwaysAgree == BandsSpec => []BandsAgree
BY BandsInvariant, BandsRight, PTL

-----------------------------------------------------------------------------
(* The maps of a scene

   Whatever the crop, the orientation and the reduction, the sensels of a pixel
   of the scene are known: they come from its place before it was turned, in the
   window the recipe's crop names.  A crop of a mask that is resampled has its
   edges within half a pixel of the ones that were rounded, so a footprint holds
   the pixel the scene took; a mask on cells sees both sensels of a cell. *)

\* Rounding moves by half a pixel at most.
LEMMA RoundNear ==
    ASSUME NEW n \in Nat, NEW d \in Nat, d > 0
    PROVE  /\ Round(n, d) \in Nat
           /\ 2 * (Round(n, d) * d) <= 2 * n + d /\ 2 * n <= 2 * (Round(n, d) * d) + d
<1> DEFINE q == (2 * n + d) \div (2 * d)
<1>1. 2 * n + d \in Nat /\ 2 * d \in Nat /\ 2 * d > 0
  OBVIOUS
<1>2. q \in Nat /\ q * (2 * d) <= 2 * n + d /\ 2 * n + d < q * (2 * d) + 2 * d
  BY <1>1, Quotient
<1>3. (2 * n + d) % (2 * d) = 0 => 2 * n + d = q * (2 * d)
  BY <1>1
<1>4. Round(n, d) = IF (2 * n + d) % (2 * d) = 0 /\ q % 2 = 1 THEN q - 1 ELSE q
  BY DEF Round
<1> HIDE DEF q
<1>5. q * (2 * d) = 2 * (q * d) /\ (q - 1) * d = q * d - d /\ q * d \in Nat
  BY <1>2
<1>6. CASE (2 * n + d) % (2 * d) = 0 /\ q % 2 = 1
  <2>1. Round(n, d) = q - 1 /\ q - 1 \in Nat
    BY <1>2, <1>4, <1>6
  <2> QED
    BY <1>2, <1>3, <1>5, <1>6, <2>1
<1>7. CASE ~((2 * n + d) % (2 * d) = 0 /\ q % 2 = 1)
  <2>1. Round(n, d) = q
    BY <1>4, <1>7
  <2> QED
    BY <1>2, <1>5, <2>1
<1> QED
  BY <1>6, <1>7

\* Whole pixels stay where they are.
LEMMA RoundExact ==
    ASSUME NEW k \in Nat, NEW d \in Nat, d > 0
    PROVE  Round(k * d, d) = k
<1>1. k * d \in Nat /\ k * (2 * d) = 2 * (k * d) /\ 2 * d \in Nat /\ 2 * d > 0 /\ 2 * (k * d) + d \in Nat
  OBVIOUS
<1>2. (2 * (k * d) + d) \div (2 * d) = k
  BY <1>1, Quotient
<1>3. (2 * (k * d) + d) % (2 * d) # 0
  <2>1. 2 * (k * d) + d = (2 * d) * ((2 * (k * d) + d) \div (2 * d)) + ((2 * (k * d) + d) % (2 * d))
    BY <1>1
  <2> QED
    BY <1>1, <1>2, <2>1
<1> QED
  BY <1>2, <1>3 DEF Round

\* No pixel is rounded beyond the image.
LEMMA RoundWithin ==
    ASSUME NEW n \in Nat, NEW d \in Nat, d > 0, NEW k \in Nat, n <= k * d
    PROVE  Round(n, d) <= k
<1>1. Round(n, d) \in Nat /\ 2 * (Round(n, d) * d) <= 2 * n + d
  BY RoundNear
<1> DEFINE r == Round(n, d)
<1> HIDE DEF r
<1>2. SUFFICES ASSUME r > k PROVE FALSE
  BY <1>1 DEF r
<1>3. r \in Nat /\ 2 * (r * d) <= 2 * n + d
  BY <1>1 DEF r
<1>4. PICK e \in Nat : r = k + 1 + e
  BY <1>2, <1>3
<1>5. r * d = k * d + d + e * d /\ e * d \in Nat /\ k * d \in Nat
  BY <1>4
<1> QED
  BY <1>3, <1>5

\* The next whole number from above.
LEMMA CeilIs ==
    ASSUME NEW n \in Nat, NEW d \in Nat, d > 0
    PROVE  Ceil(n, d) \in Int /\ (\A k \in Nat : k * d < n => k + 1 <= Ceil(n, d))
<1> DEFINE c == (-n) \div d
<1>1. c \in Int /\ c * d <= -n /\ -n < c * d + d
  OBVIOUS
<1>2. Ceil(n, d) = -c
  BY DEF Ceil
<1> HIDE DEF c
<1>3. ASSUME NEW k \in Nat, k * d < n PROVE k + 1 <= -c
  <2> SUFFICES ASSUME -c <= k PROVE FALSE
    BY <1>1
  <2>1. PICK e \in Nat : k = -c + e
    BY <1>1
  <2>2. k * d = -(c * d) + e * d /\ e * d \in Nat /\ c * d \in Int /\ k * d \in Nat
    BY <1>1, <2>1
  <2> QED
    BY <1>1, <1>3, <2>2
<1> QED
  BY <1>1, <1>2, <1>3
\* A factor that is not negative keeps an order.
LEMMA Factor ==
    ASSUME NEW a \in Int, NEW b \in Int, NEW c \in Nat, a <= b
    PROVE  a * c <= b * c
<1>1. PICK d \in Nat : b = a + d
  OBVIOUS
<1>2. b * c = a * c + d * c /\ d * c \in Nat
  BY <1>1
<1> QED
  BY <1>2

\* Points at equal distances between two ends lie where the rounded ends would put
\* them, up to half a pixel.
LEMMA Between ==
    ASSUME NEW x \in Int, NEW y \in Int, NEW D \in Nat, D > 0, NEW from \in Int, NEW to \in Int,
           2 * x <= 2 * (from * D) + D, 2 * (from * D) - D <= 2 * x,
           2 * y <= 2 * (to * D) + D, 2 * (to * D) - D <= 2 * y,
           NEW out \in Nat, out = to - from, NEW j \in 0..out
    PROVE  /\ 2 * (x * (out - j) + y * j) <= (2 * (from + j) + 1) * (out * D)
           /\ (2 * (from + j) - 1) * (out * D) <= 2 * (x * (out - j) + y * j)
<1> DEFINE k == out - j
           F == from * D
           T == to * D
<1>1. k \in Nat /\ j \in Nat /\ F \in Int /\ T \in Int /\ out = k + j
  OBVIOUS
<1>2. (2 * x) * k <= (2 * F + D) * k /\ (2 * F - D) * k <= (2 * x) * k
  BY <1>1, Factor
<1>3. (2 * y) * j <= (2 * T + D) * j /\ (2 * T - D) * j <= (2 * y) * j
  BY <1>1, Factor
<1>4. T = F + out * D
  <2>1. to = from + out
    OBVIOUS
  <2> QED
    BY <2>1
<1> HIDE DEF k, F, T
<1>5. /\ (2 * x) * k = 2 * (x * k) /\ (2 * y) * j = 2 * (y * j)
      /\ (2 * F + D) * k = 2 * (F * k) + D * k /\ (2 * F - D) * k = 2 * (F * k) - D * k
      /\ (2 * T + D) * j = 2 * (T * j) + D * j /\ (2 * T - D) * j = 2 * (T * j) - D * j
  BY <1>1
<1>6. T * j = F * j + (out * D) * j
  BY <1>1, <1>4
<1>7. F * k + F * j = F * out /\ D * k + D * j = D * out /\ D * out = out * D
  BY <1>1
<1>8. F * out = from * (out * D)
  BY DEF F
<1>9. (out * D) * j = j * (out * D)
  OBVIOUS
<1>10. /\ (2 * (from + j) + 1) * (out * D) = 2 * (from * (out * D)) + 2 * (j * (out * D)) + out * D
       /\ (2 * (from + j) - 1) * (out * D) = 2 * (from * (out * D)) + 2 * (j * (out * D)) - out * D
  <2> DEFINE Q == out * D
  <2>1. Q \in Int
    OBVIOUS
  <2> HIDE DEF Q
  <2>2. /\ (2 * (from + j) + 1) * Q = 2 * (from * Q) + 2 * (j * Q) + Q
        /\ (2 * (from + j) - 1) * Q = 2 * (from * Q) + 2 * (j * Q) - Q
    BY <2>1, <1>1
  <2> QED
    BY <2>2 DEF Q
<1>11. /\ x * k \in Int /\ y * j \in Int /\ F * k \in Int /\ F * j \in Int /\ D * k \in Int /\ D * j \in Int
       /\ out * D \in Int /\ j * (out * D) \in Int /\ from * (out * D) \in Int
  BY <1>1
<1>12. /\ 2 * (x * k) + 2 * (y * j) <= 2 * (F * k) + D * k + 2 * (F * j) + 2 * (j * (out * D)) + D * j
       /\ 2 * (F * k) - D * k + 2 * (F * j) + 2 * (j * (out * D)) - D * j <= 2 * (x * k) + 2 * (y * j)
  BY <1>2, <1>3, <1>5, <1>6, <1>9, <1>11
<1>13. F * k + F * j = from * (out * D) /\ D * k + D * j = out * D
  BY <1>7, <1>8
<1> DEFINE fk == F * k
           fj == F * j
           dk == D * k
           dj == D * j
           q == out * D
           jq == j * (out * D)
           fq == from * (out * D)
<1>14. /\ fk \in Int /\ fj \in Int /\ dk \in Int /\ dj \in Int /\ q \in Int /\ jq \in Int /\ fq \in Int
       /\ fk + fj = fq /\ dk + dj = q
  BY <1>11, <1>13
<1>15. /\ (2 * (from + j) + 1) * (out * D) = 2 * fq + 2 * jq + q
       /\ (2 * (from + j) - 1) * (out * D) = 2 * fq + 2 * jq - q
  BY <1>10
<1>16. /\ 2 * (x * k) + 2 * (y * j) <= 2 * fk + dk + 2 * fj + 2 * jq + dj
       /\ 2 * fk - dk + 2 * fj + 2 * jq - dj <= 2 * (x * k) + 2 * (y * j)
  BY <1>12
<1> HIDE DEF fk, fj, dk, dj, q, jq, fq
<1>17. /\ 2 * fk + dk + 2 * fj + 2 * jq + dj = 2 * fq + 2 * jq + q
       /\ 2 * fk - dk + 2 * fj + 2 * jq - dj = 2 * fq + 2 * jq - q
  BY <1>14
<1>18. /\ 2 * (x * k) + 2 * (y * j) <= (2 * (from + j) + 1) * (out * D)
       /\ (2 * (from + j) - 1) * (out * D) <= 2 * (x * k) + 2 * (y * j)
  BY <1>15, <1>16, <1>17
<1>19. 2 * (x * k) + 2 * (y * j) = 2 * (x * k + y * j)
  BY <1>11
<1> QED
  BY <1>18, <1>19 DEF k

\* A pixel is in a footprint that begins before its end and ends after its beginning.
LEMMA InFootprint ==
    ASSUME Parts \in Nat, Parts > 0, NEW S \in Nat, S > 0, NEW out \in Nat, NEW j \in 0..(out - 1),
           NEW a \in Nat, NEW e \in Nat, NEW g \in Nat, NEW r \in Nat,
           (a * (out - j) + e * j) * g < (r + 1) * (out * (Parts * S)),
           r * (out * (Parts * S)) < (a * (out - (j + 1)) + e * (j + 1)) * g
    PROVE  r \in Footprint(j, out, a, e, g, S)
<1> DEFINE Q == out * Parts * S
           first == (a * (out - j) + e * j) * g
           last == (a * (out - (j + 1)) + e * (j + 1)) * g
<1>1. /\ out * (Parts * S) = Q /\ Q \in Nat /\ Q > 0
  <2>1. out * Parts \in Nat /\ out * Parts > 0
    OBVIOUS
  <2>2. Q \in Nat /\ Q > 0
    BY <2>1
  <2> QED
    BY <2>2
<1>2. first \in Nat /\ last \in Nat
  <2>1. a * (out - j) \in Nat /\ e * j \in Nat /\ a * (out - (j + 1)) \in Nat /\ e * (j + 1) \in Nat
    OBVIOUS
  <2> QED
    BY <2>1
<1>3. Footprint(j, out, a, e, g, S) = Floor(first, Q)..(Ceil(last, Q) - 1)
  BY DEF Footprint
<1> HIDE DEF Q, first, last
<1>4. first < (r + 1) * Q /\ r * Q < last
  BY <1>1 DEF first, last
<1>5. first \div Q \in Nat /\ (first \div Q) * Q <= first
  BY <1>1, <1>2, Quotient
<1>6. first \div Q <= r
  <2> SUFFICES ASSUME first \div Q >= r + 1 PROVE FALSE
    BY <1>5
  <2>1. (r + 1) * Q <= (first \div Q) * Q
    BY <1>1, <1>5, Factor
  <2>2. (r + 1) * Q \in Int /\ (first \div Q) * Q \in Int
    BY <1>1, <1>5
  <2> QED
    BY <1>2, <1>4, <1>5, <2>1, <2>2
<1>7. r + 1 <= Ceil(last, Q) /\ Ceil(last, Q) \in Int
  BY <1>1, <1>2, <1>4, CeilIs
<1> QED
  BY <1>3, <1>5, <1>6, <1>7 DEF Floor

\* The edges of a footprint, in pixels of the image that was cut out.
LEMMA Edges ==
    ASSUME Parts \in Nat, Parts > 0, NEW S \in Nat, S > 0, NEW a \in Nat, NEW e \in Nat, NEW n \in Nat,
           NEW out \in Nat, out = Round(e * n, Parts * S) - Round(a * n, Parts * S), NEW j \in 0..out
    PROVE  /\ Round(a * n, Parts * S) \in Nat /\ out * (Parts * S) \in Nat
           /\ (a * (out - j) + e * j) \in Nat
           /\ 2 * ((a * (out - j) + e * j) * n) <= (2 * (Round(a * n, Parts * S) + j) + 1) * (out * (Parts * S))
           /\ (2 * (Round(a * n, Parts * S) + j) - 1) * (out * (Parts * S)) <= 2 * ((a * (out - j) + e * j) * n)
<1> DEFINE D == Parts * S
           x == a * n
           y == e * n
           from == Round(x, D)
           to == Round(y, D)
<1>1. D \in Nat /\ D > 0 /\ x \in Nat /\ y \in Nat
  OBVIOUS
<1>2. (a * (out - j) + e * j) * n = x * (out - j) + y * j
  <2> DEFINE k == out - j
  <2>1. k \in Int
    OBVIOUS
  <2> HIDE DEF k
  <2>2. (a * k + e * j) * n = (a * n) * k + (e * n) * j
    BY <2>1
  <2> QED
    BY <2>2 DEF k
<1>3. out = to - from
  OBVIOUS
<1> HIDE DEF D, x, y
<1>4. /\ from \in Nat /\ 2 * (from * D) <= 2 * x + D /\ 2 * x <= 2 * (from * D) + D
      /\ to \in Nat /\ 2 * (to * D) <= 2 * y + D /\ 2 * y <= 2 * (to * D) + D
  BY <1>1, RoundNear
<1> HIDE DEF from, to
<1>5. from * D \in Int /\ to * D \in Int /\ out * D \in Nat
  BY <1>1, <1>4
<1>6. /\ 2 * x <= 2 * (from * D) + D /\ 2 * (from * D) - D <= 2 * x
      /\ 2 * y <= 2 * (to * D) + D /\ 2 * (to * D) - D <= 2 * y
  BY <1>1, <1>4, <1>5
<1>7. /\ 2 * (x * (out - j) + y * j) <= (2 * (from + j) + 1) * (out * D)
      /\ (2 * (from + j) - 1) * (out * D) <= 2 * (x * (out - j) + y * j)
  BY <1>1, <1>3, <1>4, <1>6, Between
<1>8. a * (out - j) + e * j \in Nat
  OBVIOUS
<1> QED
  BY <1>2, <1>4, <1>5, <1>7, <1>8 DEF D, x, from

\* An image cut from its own pixels: each is in its footprint.
LEMMA SameGrid ==
    ASSUME Parts \in Nat, Parts > 0, NEW S \in Nat, S > 0, NEW a \in Nat, NEW e \in Nat, NEW n \in Nat,
           NEW out \in Nat, out = Round(e * n, Parts * S) - Round(a * n, Parts * S), NEW j \in 0..(out - 1)
    PROVE  Round(a * n, Parts * S) + j \in Footprint(j, out, a, e, n, S)
<1> DEFINE r == Round(a * n, Parts * S) + j
           Q == out * (Parts * S)
<1> DEFINE from == Round(a * n, Parts * S)
           E(i) == (a * (out - i) + e * i) * n
<1>1. out > 0 /\ j \in 0..out /\ j + 1 \in 0..out
  OBVIOUS
<1>2. from \in Nat /\ Q \in Nat
      /\ \A i \in 0..out : E(i) \in Nat /\ 2 * E(i) <= (2 * (from + i) + 1) * Q /\ (2 * (from + i) - 1) * Q <= 2 * E(i)
  <2>1. ASSUME NEW i \in 0..out
        PROVE  /\ from \in Nat /\ Q \in Nat /\ a * (out - i) + e * i \in Nat
               /\ 2 * E(i) <= (2 * (from + i) + 1) * Q /\ (2 * (from + i) - 1) * Q <= 2 * E(i)
    BY Edges
  <2> QED
    BY <1>1, <2>1
<1> HIDE DEF from, E
<1>3. /\ E(j) \in Nat /\ 2 * E(j) <= (2 * r + 1) * Q
      /\ E(j + 1) \in Nat /\ (2 * (r + 1) - 1) * Q <= 2 * E(j + 1)
  <2>1. from + (j + 1) = r + 1
    BY <1>2 DEF from
  <2> QED
    BY <1>1, <1>2, <2>1 DEF from
<1>4. Q > 0
  BY <1>1
<1>5. r \in Nat
  BY <1>2 DEF from
<1> HIDE DEF r, Q
<1>6. /\ (2 * r + 1) * Q = 2 * (r * Q) + Q /\ (r + 1) * Q = r * Q + Q /\ r * Q \in Int
      /\ (2 * (r + 1) - 1) * Q = 2 * (r * Q) + Q
  BY <1>2, <1>5
<1>7. E(j) < (r + 1) * Q /\ r * Q < E(j + 1)
  BY <1>2, <1>3, <1>4, <1>6
<1>8. r \in Footprint(j, out, a, e, n, S)
  BY <1>5, <1>7, InFootprint DEF Q, E
<1> QED
  BY <1>8 DEF r

\* Sensels cut out, their cells looked up.
LEMMA CellsOfSensels ==
    ASSUME Parts \in Nat, Parts > 0, NEW c \in Nat, c > 0, NEW a \in Nat, NEW e \in Nat,
           NEW out \in Nat, out = Round(e * (2 * c), Parts * (2 * c)) - Round(a * (2 * c), Parts * (2 * c)),
           NEW j \in 0..(out - 1)
    PROVE  (Round(a * (2 * c), Parts * (2 * c)) + j) \div 2 \in Footprint(j, out, a, e, c, 2 * c)
<1> DEFINE s == Round(a * (2 * c), Parts * (2 * c)) + j
           Q == out * (Parts * (2 * c))
           A == a * (out - j) + e * j
           B == a * (out - (j + 1)) + e * (j + 1)
           r == s \div 2
<1>1. out > 0 /\ j \in 0..out /\ j + 1 \in 0..out /\ 2 * c \in Nat /\ 2 * c > 0
  OBVIOUS
<1> DEFINE from == Round(a * (2 * c), Parts * (2 * c))
           E(i) == a * (out - i) + e * i
<1>2. from \in Nat /\ Q \in Nat
      /\ \A i \in 0..out : E(i) \in Nat /\ 2 * (E(i) * (2 * c)) <= (2 * (from + i) + 1) * Q
                                       /\ (2 * (from + i) - 1) * Q <= 2 * (E(i) * (2 * c))
  <2>1. ASSUME NEW i \in 0..out
        PROVE  /\ from \in Nat /\ Q \in Nat /\ E(i) \in Nat
               /\ 2 * (E(i) * (2 * c)) <= (2 * (from + i) + 1) * Q /\ (2 * (from + i) - 1) * Q <= 2 * (E(i) * (2 * c))
    BY <1>1, Edges
  <2> QED
    BY <1>1, <2>1
<1> HIDE DEF from, E
<1>3. /\ A \in Nat /\ 2 * (A * (2 * c)) <= (2 * s + 1) * Q
      /\ B \in Nat /\ (2 * (s + 1) - 1) * Q <= 2 * (B * (2 * c))
  <2>1. from + (j + 1) = s + 1 /\ A = E(j) /\ B = E(j + 1)
    BY <1>2 DEF from, E
  <2> HIDE DEF A, B
  <2> QED
    BY <1>1, <1>2, <2>1 DEF from
<1>4. Q > 0
  <2>1. Parts * (2 * c) \in Nat /\ Parts * (2 * c) > 0
    OBVIOUS
  <2> QED
    BY <1>1, <2>1
<1>5. s \in Nat
  BY <1>2 DEF from
<1> HIDE DEF s, Q, A, B
<1>6. r \in Nat /\ (s = 2 * r \/ s = 2 * r + 1)
  BY <1>5
<1> HIDE DEF r
<1>7. /\ A * (2 * c) = 2 * (A * c) /\ B * (2 * c) = 2 * (B * c) /\ A * c \in Nat /\ B * c \in Nat
      /\ (2 * s + 1) * Q = 2 * (s * Q) + Q /\ (2 * (s + 1) - 1) * Q = 2 * (s * Q) + Q
      /\ (r + 1) * Q = r * Q + Q /\ r * Q \in Int /\ s * Q \in Int
      /\ (s * Q = 2 * (r * Q) \/ s * Q = 2 * (r * Q) + Q)
  <2>1. /\ A * (2 * c) = 2 * (A * c) /\ B * (2 * c) = 2 * (B * c) /\ A * c \in Nat /\ B * c \in Nat
    BY <1>2, <1>3
  <2>2. /\ (2 * s + 1) * Q = 2 * (s * Q) + Q /\ (2 * (s + 1) - 1) * Q = 2 * (s * Q) + Q
        /\ (r + 1) * Q = r * Q + Q /\ r * Q \in Int /\ s * Q \in Int
    BY <1>2, <1>5, <1>6
  <2>3. s * Q = 2 * (r * Q) \/ s * Q = 2 * (r * Q) + Q
    BY <1>2, <1>6
  <2> QED
    BY <2>1, <2>2, <2>3
<1>8. A * c < (r + 1) * Q /\ r * Q < B * c
  BY <1>2, <1>3, <1>4, <1>7
<1>9. r \in Footprint(j, out, a, e, c, 2 * c)
  BY <1>1, <1>6, <1>8, InFootprint DEF Q, A, B
<1> QED
  BY <1>9 DEF r, s

\* A place of the crop, on an image of so many pixels.
Rounded(x, n, S) == Round(x * n, Parts * S)

\* Cells cut out, their sensels looked up: one of them is in the footprint.
LEMMA SenselsOfCells ==
    ASSUME Parts \in Nat, Parts > 0, NEW S \in Nat, S > 0, NEW c \in Nat, 2 * c = S \/ 2 * c = S + 1,
           NEW a \in Nat, NEW e \in Nat, a <= e, e <= Parts * S,
           NEW out \in Nat, out = Rounded(e, c, S) - Rounded(a, c, S),
           NEW j \in 0..(out - 1), Rounded(a, c, S) + j < c
    PROVE  \E r \in Footprint(j, out, a, e, S, S) :
             r \in 0..(S - 1) /\ r \div 2 = Rounded(a, c, S) + j
<1> USE DEF Rounded
<1> DEFINE from == Round(a * c, Parts * S)
           i == from + j
           D == Parts * S
           Q == out * D
           E(k) == a * (out - k) + e * k
           A == E(j)
           B == E(j + 1)
<1>1. out > 0 /\ j \in 0..out /\ j + 1 \in 0..out /\ j \in Nat /\ c > 0
  OBVIOUS
<1>2. from \in Nat /\ Q \in Nat
      /\ \A k \in 0..out : E(k) \in Nat /\ 2 * (E(k) * c) <= (2 * (from + k) + 1) * Q
                                       /\ (2 * (from + k) - 1) * Q <= 2 * (E(k) * c)
  <2>1. ASSUME NEW k \in 0..out
        PROVE  /\ from \in Nat /\ Q \in Nat /\ E(k) \in Nat
               /\ 2 * (E(k) * c) <= (2 * (from + k) + 1) * Q /\ (2 * (from + k) - 1) * Q <= 2 * (E(k) * c)
    BY Edges
  <2> QED
    BY <1>1, <2>1
<1>3. D \in Nat /\ D > 0 /\ Q > 0
  <2>1. D \in Nat /\ D > 0
    OBVIOUS
  <2> HIDE DEF D
  <2> QED
    BY <1>1, <2>1
<1>4. i \in Nat /\ i < c
  BY <1>2
<1>5. B <= Q
  <2>1. a * (out - (j + 1)) <= D * (out - (j + 1)) /\ e * (j + 1) <= D * (j + 1)
    <3>1. out - (j + 1) \in Nat /\ a <= D /\ D \in Int
      BY <1>1, <1>3
    <3>2. \A x, y \in Int, z \in Nat : x <= y => x * z <= y * z
      BY Factor
    <3> HIDE DEF D
    <3> QED
      BY <1>1, <3>1, <3>2 DEF D
  <2> HIDE DEF D
  <2>2. D * (out - (j + 1)) + D * (j + 1) = out * D
    BY <1>1, <1>3
  <2>3. /\ a * (out - (j + 1)) \in Int /\ e * (j + 1) \in Int
        /\ D * (out - (j + 1)) \in Int /\ D * (j + 1) \in Int
    BY <1>1, <1>3
  <2> QED
    BY <2>1, <2>2, <2>3
<1>6. B = A + (e - a)
  <2>1. /\ a * (out - (j + 1)) = a * (out - j) - a /\ e * (j + 1) = e * j + e
        /\ a * (out - j) \in Int /\ e * j \in Int
    BY <1>1
  <2> QED
    BY <2>1
<1>7. a < e
  <2> SUFFICES ASSUME a = e PROVE FALSE
    OBVIOUS
  <2> DEFINE end == Round(a * c, Parts * S)
  <2>1. out = end - end /\ end \in Nat
    BY <1>2
  <2> HIDE DEF end
  <2>2. out = 0
    BY <2>1
  <2> QED
    BY <1>1, <2>2
<1>8. /\ A \in Nat /\ 2 * (A * c) <= (2 * i + 1) * Q
      /\ B \in Nat /\ (2 * i + 1) * Q <= 2 * (B * c)
  <2>1. 2 * (from + (j + 1)) - 1 = 2 * i + 1
    BY <1>2
  <2> HIDE DEF E, Q
  <2> QED
    BY <1>1, <1>2, <2>1
<1>9. ASSUME NEW r \in Nat, A * S < (r + 1) * Q, r * Q < B * S PROVE r \in Footprint(j, out, a, e, S, S)
  BY <1>1, <1>9, InFootprint
<1> HIDE DEF from, i, D, Q, E, A, B
<1>10. (2 * i + 1) * Q = 2 * (i * Q) + Q /\ (2 * i) * Q = 2 * (i * Q) /\ i * Q \in Nat
       /\ (2 * i + 1 + 1) * Q = 2 * (i * Q) + 2 * Q
  BY <1>2, <1>4
<1>11. /\ A * c \in Nat /\ B * c \in Nat
       /\ 2 * c = S => A * S = 2 * (A * c) /\ B * S = 2 * (B * c)
       /\ 2 * c = S + 1 => A * S = 2 * (A * c) - A /\ B * S = 2 * (B * c) - B
  BY <1>8
<1>12. B * S = A * S + (e - a) * S /\ (e - a) * S > 0 /\ A * S \in Nat /\ (e - a) * S \in Nat
  <2>1. B * S = A * S + (e - a) * S
    BY <1>6, <1>8
  <2>2. e - a \in Nat /\ e - a > 0
    BY <1>7
  <2> QED
    BY <1>8, <2>1, <2>2
\* The products as numbers of their own.
<1> DEFINE iq == i * Q
           ac == A * c
           bc == B * c
           as == A * S
           bs == B * S
<1>13. /\ iq \in Nat /\ ac \in Nat /\ bc \in Nat /\ as \in Nat /\ bs \in Int /\ as < bs
       /\ (2 * i) * Q = 2 * iq /\ (2 * i + 1) * Q = 2 * iq + Q /\ (2 * i + 1 + 1) * Q = 2 * iq + 2 * Q
       /\ 2 * ac <= 2 * iq + Q /\ 2 * iq + Q <= 2 * bc
       /\ 2 * c = S => as = 2 * ac /\ bs = 2 * bc
       /\ 2 * c = S + 1 => as = 2 * ac - A /\ bs = 2 * bc - B
       /\ A \in Nat /\ B \in Nat
  BY <1>8, <1>10, <1>11, <1>12
<1>14. 2 * c = S + 1 /\ B = Q => 2 * iq < bs
  <2> SUFFICES ASSUME 2 * c = S + 1, B = Q PROVE (2 * i) * Q < Q * S
    BY <1>13
  <2>1. S - 2 * i \in Nat /\ S - 2 * i > 0
    BY <1>4
  <2>2. Q * S = (2 * i) * Q + (S - 2 * i) * Q /\ (S - 2 * i) * Q > 0 /\ (2 * i) * Q \in Int /\ (S - 2 * i) * Q \in Int
    BY <1>2, <1>3, <1>4, <2>1
  <2> QED
    BY <2>2
<1>15. A = 0 => as = 0
  BY <1>8
<1>16. as = A * S /\ bs = B * S
  OBVIOUS
<1> HIDE DEF iq, ac, bc, as, bs
<1>17. CASE as < 2 * iq + Q
  <2>1. 2 * iq < bs
    <3>1. CASE 2 * c = S
      <4>1. bs = 2 * bc /\ bc \in Nat /\ iq \in Nat /\ 2 * iq + Q <= 2 * bc
        BY <1>13, <3>1
      <4> QED
        BY <1>2, <1>3, <4>1
    <3>2. CASE 2 * c = S + 1 /\ B < Q
      <4>1. bs = 2 * bc - B /\ bc \in Nat /\ iq \in Nat /\ B \in Nat /\ 2 * iq + Q <= 2 * bc
        BY <1>13, <3>2
      <4> QED
        BY <1>2, <3>2, <4>1
    <3>3. CASE 2 * c = S + 1 /\ B = Q
      BY <1>14, <3>3
    <3>4. B \in Nat /\ Q \in Nat
      BY <1>2, <1>13
    <3> QED
      BY <1>5, <3>1, <3>2, <3>3, <3>4
  <2>2. 2 * i \in Nat /\ 2 * i \in 0..(S - 1) /\ (2 * i) \div 2 = i
    BY <1>4
  <2>3. 2 * i \in Footprint(j, out, a, e, S, S)
    BY <1>9, <1>13, <1>16, <1>17, <2>1, <2>2
  <2> QED
    BY <2>2, <2>3 DEF i, from
<1>18. CASE ~(as < 2 * iq + Q)
  <2>1. 2 * c = S
    <3> SUFFICES ASSUME 2 * c = S + 1 PROVE FALSE
      OBVIOUS
    <3>1. as = 2 * ac - A /\ ac \in Nat /\ iq \in Nat /\ A \in Nat /\ 2 * ac <= 2 * iq + Q
      BY <1>13
    <3> QED
      BY <1>2, <1>3, <1>15, <1>18, <3>1
  <2>2. as < 2 * iq + 2 * Q /\ 2 * iq + Q < bs
    BY <1>2, <1>3, <1>13, <1>18, <2>1
  <2>3. 2 * i + 1 \in Nat /\ 2 * i + 1 \in 0..(S - 1) /\ (2 * i + 1) \div 2 = i
    BY <1>4, <2>1
  <2>4. 2 * i + 1 \in Footprint(j, out, a, e, S, S)
    BY <1>9, <1>13, <1>16, <2>2, <2>3
  <2> QED
    BY <2>3, <2>4 DEF i, from
<1> QED
  BY <1>17, <1>18

\* Pairs of sensels cut out from a whole sensel on: both are in the footprint, and so
\* are their cells.
LEMMA PairsOfSensels ==
    ASSUME Parts \in Nat, Parts > 0, NEW S \in Nat, S > 0, NEW k \in Nat, NEW out \in Nat, NEW j \in 0..(out - 1),
           NEW s, s = k + 2 * j \/ s = k + 2 * j + 1, NEW a, a = Parts * k, NEW e, e = Parts * (k + 2 * out)
    PROVE  /\ s \in Footprint(j, out, a, e, S, S)
           /\ \A c \in Nat : S = 2 * c => s \div 2 \in Footprint(j, out, a, e, c, S)
<1> DEFINE Q == out * (Parts * S)
           E(i) == a * (out - i) + e * i
<1>1. out > 0 /\ j \in 0..out /\ j + 1 \in 0..out /\ j \in Nat
  OBVIOUS
<1>2. a \in Nat /\ e \in Nat /\ Q \in Nat /\ Q > 0
  <2>1. Parts * S \in Nat /\ Parts * S > 0
    OBVIOUS
  <2>2. Q \in Nat /\ Q > 0
    BY <1>1, <2>1
  <2> QED
    BY <2>2
<1>3. ASSUME NEW i \in 0..out PROVE E(i) = (Parts * out) * (k + 2 * i)
  <2> DEFINE p == Parts
             h == out - i
  <2>1. p \in Nat /\ h \in Int /\ out = h + i
    OBVIOUS
  <2>2. (p * k) * h + (p * (k + 2 * out)) * i = (p * out) * (k + 2 * i)
    <3> HIDE DEF p, h
    <3>1. (p * (k + 2 * out)) * i = (p * k) * i + 2 * ((p * out) * i)
      BY <2>1
    <3>2. (p * k) * h + (p * k) * i = (p * k) * out
      BY <2>1
    <3>3. (p * out) * (k + 2 * i) = (p * k) * out + 2 * ((p * out) * i)
      BY <2>1
    <3>4. /\ (p * k) * h \in Int /\ (p * k) * i \in Int /\ (p * k) * out \in Int /\ (p * out) * i \in Int
      BY <2>1
    <3> QED
      BY <3>1, <3>2, <3>3, <3>4
  <2> QED
    BY <2>2
<1>4. ASSUME NEW i \in 0..out PROVE E(i) \in Nat /\ E(i) * S = (k + 2 * i) * Q
  <2>1. E(i) = (Parts * out) * (k + 2 * i)
    BY <1>3
  <2>2. ((Parts * out) * (k + 2 * i)) * S = (k + 2 * i) * (out * (Parts * S))
    OBVIOUS
  <2>3. (Parts * out) * (k + 2 * i) \in Nat
    OBVIOUS
  <2> HIDE DEF E
  <2> QED
    BY <2>1, <2>2, <2>3
<1>5. /\ E(j) \in Nat /\ E(j) * S = (k + 2 * j) * Q
      /\ E(j + 1) \in Nat /\ E(j + 1) * S = (k + 2 * j + 2) * Q
  <2>1. k + 2 * (j + 1) = k + 2 * j + 2
    BY <1>1
  <2> HIDE DEF E, Q
  <2> QED
    BY <1>1, <1>4, <2>1
<1>6. ASSUME NEW g \in Nat, NEW r \in Nat, E(j) * g < (r + 1) * Q, r * Q < E(j + 1) * g
      PROVE  r \in Footprint(j, out, a, e, g, S)
  BY <1>2, <1>6, InFootprint
<1> HIDE DEF Q, E
<1>7. ASSUME NEW x \in Int, NEW y \in Int, x < y PROVE x * Q < y * Q
  <2>1. PICK d \in Nat : y = x + 1 + d
    BY <1>7
  <2>2. y * Q = x * Q + Q + d * Q /\ x * Q \in Int /\ d * Q \in Nat
    BY <1>2, <2>1
  <2> QED
    BY <1>2, <2>2
<1>8. s \in Nat /\ k + 2 * j < s + 1 /\ s < k + 2 * j + 2
  BY <1>1
<1>9. s \in Footprint(j, out, a, e, S, S)
  <2>1. (k + 2 * j) * Q < (s + 1) * Q /\ s * Q < (k + 2 * j + 2) * Q
    BY <1>1, <1>7, <1>8
  <2> QED
    BY <1>5, <1>6, <1>8, <2>1
<1>10. ASSUME NEW c \in Nat, S = 2 * c PROVE s \div 2 \in Footprint(j, out, a, e, c, S)
  <2> DEFINE r == s \div 2
  <2>1. r \in Nat /\ 2 * r <= s /\ s < 2 * r + 2
    BY <1>8
  <2> HIDE DEF r
  <2>2. (k + 2 * j) * Q < (2 * r + 2) * Q /\ (2 * r) * Q < (k + 2 * j + 2) * Q
    BY <1>1, <1>7, <1>8, <2>1
  <2>3. /\ (2 * r + 2) * Q = 2 * ((r + 1) * Q) /\ (2 * r) * Q = 2 * (r * Q)
        /\ (r + 1) * Q \in Int /\ r * Q \in Int
    BY <1>2, <2>1
  <2>4. /\ E(j) * S = 2 * (E(j) * c) /\ E(j + 1) * S = 2 * (E(j + 1) * c)
        /\ E(j) * c \in Int /\ E(j + 1) * c \in Int
    BY <1>5, <1>10
  <2>5. E(j) * c < (r + 1) * Q /\ r * Q < E(j + 1) * c
    BY <1>5, <2>2, <2>3, <2>4
  <2>6. r \in Footprint(j, out, a, e, c, S)
    BY <1>6, <2>1, <2>5
  <2> QED
    BY <2>6 DEF r
<1> QED
  BY <1>9, <1>10

\* Where the crop begins and ends with pixels, a footprint is one of them.
LEMMA WholeFootprint ==
    ASSUME Parts \in Nat, Parts > 0, NEW S \in Nat, S > 0, NEW a \in Nat, NEW e \in Nat, NEW g \in Nat,
           NEW x \in Nat, NEW y \in Nat, a * g = x * (Parts * S), e * g = y * (Parts * S),
           NEW out \in Nat, out = y - x, NEW j \in 0..(out - 1)
    PROVE  Footprint(j, out, a, e, g, S) \subseteq {x + j}
<1> DEFINE D == Parts * S
           Q == out * Parts * S
           E(i) == (a * (out - i) + e * i) * g
<1>1. out > 0 /\ j \in 0..out /\ j + 1 \in 0..out /\ j \in Nat
  OBVIOUS
<1>2. out * D = Q /\ Q \in Nat /\ Q > 0
  <2>1. out * Parts \in Nat /\ out * Parts > 0
    BY <1>1
  <2>2. Q \in Nat /\ Q > 0
    BY <2>1
  <2> QED
    BY <2>2
<1>3. ASSUME NEW i \in 0..out PROVE E(i) = (x + i) * Q
  <2> DEFINE h == out - i
  <2>1. h \in Int /\ out = h + i /\ y = x + out /\ D \in Nat
    OBVIOUS
  <2>2. a * g = x * D /\ e * g = y * D
    OBVIOUS
  <2> HIDE DEF h, D, Q
  <2>3. (a * h + e * i) * g = (a * g) * h + (e * g) * i
    BY <2>1
  <2>4. (a * g) * h + (e * g) * i = (x * h + y * i) * D
    BY <2>1, <2>2
  <2>5. x * h + y * i = (x + i) * out
    BY <2>1
  <2>6. ((x + i) * out) * D = (x + i) * (out * D)
    BY <2>1
  <2> QED
    BY <1>2, <2>3, <2>4, <2>5, <2>6 DEF h
<1>4. E(j) = (x + j) * Q /\ E(j + 1) = (x + j + 1) * Q
  <2>1. x + (j + 1) = x + j + 1
    BY <1>1
  <2> HIDE DEF E, Q
  <2> QED
    BY <1>1, <1>3, <2>1
<1>5. Footprint(j, out, a, e, g, S) = Floor(E(j), Q)..(Ceil(E(j + 1), Q) - 1)
  BY DEF Footprint
<1> HIDE DEF E, Q
<1>6. ((x + j) * Q) \div Q = x + j
  BY <1>1, <1>2
<1>7. (-((x + j + 1) * Q)) \div Q = -(x + j + 1)
  BY <1>1, <1>2
<1>8. Floor(E(j), Q) = x + j /\ Ceil(E(j + 1), Q) = x + j + 1
  BY <1>1, <1>4, <1>6, <1>7 DEF Floor, Ceil
<1> QED
  BY <1>1, <1>5, <1>8

\* What lies beyond the last pixel is rounded to it at least.
LEMMA RoundBeyond ==
    ASSUME NEW m \in Nat, NEW D \in Nat, D > 0, NEW n \in Nat, m >= n * D
    PROVE  Round(m, D) >= n
<1> DEFINE r == Round(m, D)
<1>1. r \in Nat /\ 2 * m <= 2 * (r * D) + D
  BY RoundNear
<1> SUFFICES ASSUME r < n PROVE FALSE
  BY <1>1
<1> HIDE DEF r
<1>2. PICK d \in Nat : n = r + 1 + d
  BY <1>1
<1>3. n * D = r * D + D + d * D /\ d * D \in Nat /\ r * D \in Nat
  BY <1>1, <1>2
<1> QED
  BY <1>1, <1>3

\* The window of a crop, and of what is left of it on the sensor.
LEMMA WindowIs ==
    ASSUME Parts \in Nat, Parts > 0, NEW S \in Nat, S > 0, NEW n \in Nat, NEW start \in Nat, NEW length \in Nat
    PROVE  /\ CropEnd(start, length, S) \in Nat /\ CropEnd(start, length, S) <= Parts * S
           /\ Window(start, length, n, S).from = Round(start * n, Parts * S)
           /\ Window(start, length, n, S).to = Round(CropEnd(start, length, S) * n, Parts * S)
           /\ Window(start, length, n, S).from \in Nat /\ Window(start, length, n, S).to \in 0..n
<1> DEFINE D == Parts * S
           m == (start + length) * n
           end == CropEnd(start, length, S)
<1>1. D \in Nat /\ D > 0 /\ m \in Nat /\ start * n \in Nat /\ n * D \in Nat
  OBVIOUS
<1>2. end = IF D < start + length THEN D ELSE start + length
  BY DEF CropEnd, Least
<1>3. /\ Window(start, length, n, S).from = Round(start * n, D)
      /\ Window(start, length, n, S).to = IF n < Round(m, D) THEN n ELSE Round(m, D)
  BY DEF Window, Least
<1>4. end \in Nat /\ end <= D
  BY <1>1, <1>2
<1>5. Round(start * n, D) \in Nat /\ Round(m, D) \in Nat /\ 2 * m <= 2 * (Round(m, D) * D) + D
  BY <1>1, RoundNear
<1>6. CASE D < start + length
  <2>1. Round(end * n, D) = n
    <3>1. end * n = n * D
      BY <1>1, <1>2, <1>6
    <3> QED
      BY <1>1, <3>1, RoundExact
  <2>2. Round(m, D) >= n
    <3>1. D * n <= (start + length) * n
      BY <1>1, <1>6, Factor
    <3>2. m >= n * D
      BY <1>1, <3>1
    <3> QED
      BY <1>1, <3>2, RoundBeyond
  <2> QED
    BY <1>1, <1>3, <1>4, <1>5, <2>1, <2>2
<1>7. CASE ~(D < start + length)
  <2>1. end = start + length
    BY <1>2, <1>7
  <2>2. m <= n * D
    <3>1. (start + length) * n <= D * n
      BY <1>1, <1>7, Factor
    <3> QED
      BY <1>1, <3>1
  <2>3. Round(m, D) <= n
    BY <1>1, <2>2, RoundWithin
  <2> QED
    BY <1>3, <1>4, <1>5, <2>1, <2>3
<1> QED
  BY <1>6, <1>7

\* A window that is not empty begins on the sensor.
LEMMA WindowBegins ==
    ASSUME Parts \in Nat, Parts > 0, NEW S \in Nat, S > 0, NEW n \in Nat, NEW start \in Nat, NEW length \in Nat,
           Window(start, length, n, S).to > Window(start, length, n, S).from
    PROVE  start <= CropEnd(start, length, S)
<1> SUFFICES ASSUME start > Parts * S PROVE FALSE
  BY DEF CropEnd, Least
<1>1. Parts * S \in Nat /\ Parts * S > 0 /\ start * n \in Nat
  OBVIOUS
<1>2. (Parts * S) * n <= start * n
  BY <1>1, Factor
<1>3. start * n >= n * (Parts * S)
  BY <1>1, <1>2
<1>4. Round(start * n, Parts * S) >= n
  BY <1>1, <1>3, RoundBeyond
<1> DEFINE w == Window(start, length, n, S)
<1>5. w.from >= n /\ w.from \in Nat /\ w.to \in 0..n /\ w.to > w.from
  <2>1. w.from = Round(start * n, Parts * S) /\ w.from \in Nat /\ w.to \in 0..n
    BY WindowIs
  <2> QED
    BY <1>4, <2>1
<1> HIDE DEF w
<1> QED
  BY <1>5

\* The cells of so many sensels.
CellsOf(S) == (S + 1) \div 2

\* A cell has two sensels, the last of an odd number one.
LEMMA CellCount ==
    ASSUME NEW S \in Nat
    PROVE  /\ CellsOf(S) \in Nat /\ (2 * CellsOf(S) = S \/ 2 * CellsOf(S) = S + 1)
           /\ (S > 0 => CellsOf(S) > 0) /\ (S % 2 # 1 => 2 * CellsOf(S) = S)
           /\ \A s \in 0..(S - 1) : s \div 2 \in 0..(CellsOf(S) - 1)
  BY DEF CellsOf

\* The sensels of pixel i of a stored image, by how it is decoded, in one dimension: of
\* S sensels a crop from start, of some length, leaves out pixels.
ComesFrom(way, s, i, out, start, length, S) ==
    CASE way = "full" ->
           LET cut == Window(start, length, S, S) IN out = cut.to - cut.from /\ s = cut.from + i
      [] way = "half" ->
           LET cut == Window(start, length, CellsOf(S), S)
           IN  out = cut.to - cut.from /\ s \in 0..(S - 1) /\ s \div 2 = cut.from + i
      [] way = "reduced" ->
           \E k \in Nat : start = Parts * k /\ length = Parts * (2 * out) /\ k + 2 * out <= S /\ s \in {k + 2 * i, k + 2 * i + 1}

\* A sensel of the same cell is looked at.
SeesCell(s, i, out, start, length, S) ==
    \E r \in Footprint(i, out, start, CropEnd(start, length, S), S, S) : r \in 0..(S - 1) /\ r \div 2 = s \div 2

\* A mask of sensels looks at a sensel of the same cell.
LEMMA SeenOnSensels ==
    ASSUME Parts \in Nat, Parts > 0, NEW S \in Nat, S > 0, NEW start \in Nat, NEW length \in Nat,
           NEW out \in Nat, NEW i \in 0..(out - 1), NEW s, NEW way \in {"full", "half", "reduced"},
           ComesFrom(way, s, i, out, start, length, S)
    PROVE  SeesCell(s, i, out, start, length, S)
<1> DEFINE end == CropEnd(start, length, S)
           c == CellsOf(S)
<1>1. c \in Nat /\ (2 * c = S \/ 2 * c = S + 1)
  BY CellCount
<1>2. end \in Nat /\ end <= Parts * S
  BY WindowIs
<1>3. CASE way = "full"
  <2> DEFINE cut == Window(start, length, S, S)
  <2>1. out = cut.to - cut.from /\ s = cut.from + i
    BY <1>3 DEF ComesFrom
  <2>2. cut.from = Round(start * S, Parts * S) /\ cut.to = Round(end * S, Parts * S) /\ cut.from \in Nat /\ cut.to \in 0..S
    BY WindowIs
  <2> HIDE DEF cut, end
  <2>3. s \in Footprint(i, out, start, end, S, S)
    BY <1>2, <2>1, <2>2, SameGrid
  <2>4. s \in 0..(S - 1)
    BY <2>1, <2>2
  <2> QED
    BY <2>3, <2>4 DEF end, SeesCell
<1>4. CASE way = "half"
  <2> DEFINE cut == Window(start, length, c, S)
  <2>1. out = cut.to - cut.from /\ s \div 2 = cut.from + i
    BY <1>4 DEF ComesFrom
  <2>2. cut.from = Rounded(start, c, S) /\ cut.to = Rounded(end, c, S) /\ cut.from \in Nat /\ cut.to \in 0..c
    BY <1>1, WindowIs DEF Rounded
  <2>3. start <= end
    BY <1>1, <2>1, <2>2, WindowBegins
  <2> HIDE DEF cut, end, c
  <2>4. out = Rounded(end, c, S) - Rounded(start, c, S) /\ Rounded(start, c, S) + i < c
    <3>1. cut.from \in Nat /\ cut.to \in 0..c /\ out = cut.to - cut.from
      BY <2>1, <2>2
    <3>2. cut.from + i < c
      BY <1>1, <3>1
    <3> QED
      BY <2>1, <2>2, <3>2
  <2>5. \E r \in Footprint(i, out, start, end, S, S) : r \in 0..(S - 1) /\ r \div 2 = Rounded(start, c, S) + i
    BY <1>1, <1>2, <2>3, <2>4, SenselsOfCells
  <2> QED
    BY <2>1, <2>2, <2>5 DEF end, SeesCell
<1>5. CASE way = "reduced"
  <2>1. PICK k \in Nat : start = Parts * k /\ length = Parts * (2 * out) /\ k + 2 * out <= S /\ s \in {k + 2 * i, k + 2 * i + 1}
    BY <1>5 DEF ComesFrom
  <2>2. end = Parts * (k + 2 * out)
    <3>1. (k + 2 * out) * Parts <= S * Parts
      BY <2>1, Factor
    <3>2. Parts * (k + 2 * out) = start + length /\ Parts * (k + 2 * out) <= Parts * S
      BY <2>1, <3>1
    <3> QED
      BY <2>1, <3>2 DEF CropEnd, Least
  <2>3. s \in Footprint(i, out, start, end, S, S)
    <3>1. s = k + 2 * i \/ s = k + 2 * i + 1
      BY <2>1
    <3> HIDE DEF end
    <3> QED
      BY <2>1, <2>2, <3>1, PairsOfSensels
  <2>4. s \in 0..(S - 1)
    BY <2>1
  <2> QED
    BY <2>3, <2>4 DEF SeesCell
<1> QED
  BY <1>3, <1>4, <1>5

\* A mask of cells looks at the cell.
LEMMA SeenOnCells ==
    ASSUME Parts \in Nat, Parts > 0, NEW S \in Nat, S > 0, NEW start \in Nat, NEW length \in Nat,
           NEW out \in Nat, NEW i \in 0..(out - 1), NEW s, NEW way \in {"full", "half", "reduced"},
           ComesFrom(way, s, i, out, start, length, S),
           2 * CellsOf(S) = S \/ (start = 0 /\ length = Parts * S /\ out = CellsOf(S))
    PROVE  s \div 2 \in Footprint(i, out, start, CropEnd(start, length, S), CellsOf(S), S)
<1> DEFINE end == CropEnd(start, length, S)
           c == CellsOf(S)
<1>1. c \in Nat /\ c > 0 /\ (2 * c = S \/ 2 * c = S + 1)
  BY CellCount
<1>2. end \in Nat /\ end <= Parts * S
  BY WindowIs
<1>3. CASE way = "full"
  <2> DEFINE cut == Window(start, length, S, S)
  <2>1. out = cut.to - cut.from /\ s = cut.from + i
    BY <1>3 DEF ComesFrom
  <2>2. cut.from = Round(start * S, Parts * S) /\ cut.to = Round(end * S, Parts * S) /\ cut.from \in Nat /\ cut.to \in 0..S
    BY WindowIs
  <2> HIDE DEF cut, end, c
  <2>3. CASE 2 * c = S
    <3>1. (Round(start * (2 * c), Parts * (2 * c)) + i) \div 2 \in Footprint(i, out, start, end, c, 2 * c)
      BY <1>1, <1>2, <2>1, <2>2, <2>3, CellsOfSensels
    <3> QED
      BY <2>1, <2>2, <2>3, <3>1 DEF end, c
  <2>4. CASE 2 * c # S
    <3>1. start = 0 /\ length = Parts * S /\ out = c
      BY <2>4 DEF c
    <3>2. end = Parts * S
      BY <3>1 DEF end, CropEnd, Least
    <3>3. cut.from = 0 /\ cut.to = S
      <4>1. start * S = 0 * (Parts * S) /\ end * S = S * (Parts * S) /\ Parts * S \in Nat /\ Parts * S > 0
        BY <3>1, <3>2
      <4> QED
        BY <2>2, <4>1, RoundExact
    <3>4. S = 1 /\ c = 1 /\ s = 0 /\ i = 0
      BY <1>1, <2>1, <3>1, <3>3
    <3>5. Round(start * c, Parts * S) + i \in Footprint(i, out, start, end, c, S)
      BY <1>1, <1>2, <2>1, <2>2, <3>4, SameGrid
    <3> QED
      BY <2>1, <2>2, <3>3, <3>4, <3>5 DEF end, c
  <2> QED
    BY <2>3, <2>4
<1>4. CASE way = "half"
  <2> DEFINE cut == Window(start, length, c, S)
  <2>1. out = cut.to - cut.from /\ s \div 2 = cut.from + i
    BY <1>4 DEF ComesFrom
  <2>2. cut.from = Round(start * c, Parts * S) /\ cut.to = Round(end * c, Parts * S) /\ cut.from \in Nat /\ cut.to \in 0..c
    BY <1>1, WindowIs
  <2> HIDE DEF cut, end, c
  <2>3. Round(start * c, Parts * S) + i \in Footprint(i, out, start, end, c, S)
    BY <1>1, <1>2, <2>1, <2>2, SameGrid
  <2> QED
    BY <2>1, <2>2, <2>3 DEF end, c
<1>5. CASE way = "reduced"
  <2>1. PICK k \in Nat : start = Parts * k /\ length = Parts * (2 * out) /\ k + 2 * out <= S /\ s \in {k + 2 * i, k + 2 * i + 1}
    BY <1>5 DEF ComesFrom
  <2>2. 2 * c = S
    <3> SUFFICES ASSUME length = Parts * S, out = c PROVE 2 * c = S
      BY DEF c
    <3>1. Parts * (2 * c) = Parts * S
      BY <2>1
    <3> HIDE DEF c
    <3> QED
      BY <1>1, <3>1
  <2>3. end = Parts * (k + 2 * out)
    <3>1. (k + 2 * out) * Parts <= S * Parts
      BY <2>1, Factor
    <3>2. Parts * (k + 2 * out) = start + length /\ Parts * (k + 2 * out) <= Parts * S
      BY <2>1, <3>1
    <3> QED
      BY <2>1, <3>2 DEF CropEnd, Least
  <2>4. s \div 2 \in Footprint(i, out, start, end, c, S)
    <3> HIDE DEF end, c
    <3> QED
      BY <1>1, <2>1, <2>2, <2>3, PairsOfSensels
  <2> QED
    BY <2>4
<1> QED
  BY <1>3, <1>4, <1>5

\* What is cut out.
LEMMA CropIs ==
    ASSUME NEW image, NEW crop, NEW f
    PROVE  LET rows == Window(crop.y, crop.h, image.h, f.h)
               cols == Window(crop.x, crop.w, image.w, f.w)
               cut == CropImage(image, crop, f)
           IN  /\ cut.h = rows.to - rows.from /\ cut.w = cols.to - cols.from
               /\ DOMAIN cut.of = (0..(cut.h - 1)) \X (0..(cut.w - 1))
               /\ \A y \in 0..(cut.h - 1), x \in 0..(cut.w - 1) :
                    At(cut, y, x) = At(image, rows.from + y, cols.from + x)
  BY DEF CropImage, Raster, At

\* Where pixel y, x of an image of h by w is found before it was turned.
PlaceBefore(flip, h, w, y, x) ==
    LET spot == IF Bit(flip, 4) THEN <<x, y>> ELSE <<y, x>>
    IN  <<IF Bit(flip, 2) THEN h - 1 - spot[1] ELSE spot[1], IF Bit(flip, 1) THEN w - 1 - spot[2] ELSE spot[2]>>

\* What is turned.
LEMMA OrientIs ==
    ASSUME NEW image, NEW flip
    PROVE  /\ Orient(image, flip).h = (IF Bit(flip, 4) THEN image.w ELSE image.h)
           /\ Orient(image, flip).w = (IF Bit(flip, 4) THEN image.h ELSE image.w)
           /\ DOMAIN Orient(image, flip).of = (0..(Orient(image, flip).h - 1)) \X (0..(Orient(image, flip).w - 1))
           /\ \A y \in 0..(Orient(image, flip).h - 1), x \in 0..(Orient(image, flip).w - 1) :
                At(Orient(image, flip), y, x) = At(image, PlaceBefore(flip, image.h, image.w, y, x)[1], PlaceBefore(flip, image.h, image.w, y, x)[2])
  BY DEF Orient, Raster, At, PlaceBefore

\* What is boxed.
LEMMA BoxIs ==
    ASSUME NEW image
    PROVE  LET boxed == Box(image)
           IN  /\ boxed.h = image.h \div 2 /\ boxed.w = image.w \div 2
               /\ DOMAIN boxed.of = (0..(boxed.h - 1)) \X (0..(boxed.w - 1))
               /\ boxed = [h |-> boxed.h, w |-> boxed.w, of |-> boxed.of]
               /\ boxed.of = [p \in (0..(boxed.h - 1)) \X (0..(boxed.w - 1)) |-> boxed.of[p]]
               /\ \A y \in 0..(boxed.h - 1), x \in 0..(boxed.w - 1) :
                    boxed.of[<<y, x>>] = Joined(image, {2 * y, 2 * y + 1}, {2 * x, 2 * x + 1})
  BY DEF Box, Raster

\* A sensel by itself.
LEMMA SensorIs ==
    ASSUME NEW f
    PROVE  /\ Sensor(f).h = f.h /\ Sensor(f).w = f.w
           /\ \A y \in 0..(f.h - 1), x \in 0..(f.w - 1) : At(Sensor(f), y, x) = {<<y, x>>}
  BY DEF Sensor, Raster, At

\* The sensels of a cell.
LEMMA CellsAre ==
    ASSUME NEW f, f.h \in Nat, f.w \in Nat
    PROVE  LET cells == Cells(Sensor(f))
           IN  /\ cells.h = CellsOf(f.h) /\ cells.w = CellsOf(f.w)
               /\ \A y \in 0..(f.h - 1), x \in 0..(f.w - 1) : <<y, x>> \in At(cells, y \div 2, x \div 2)
               /\ \A r \in 0..(cells.h - 1), k \in 0..(cells.w - 1) : \A q \in At(cells, r, k) :
                    \E y \in 0..(f.h - 1), x \in 0..(f.w - 1) : q = <<y, x>> /\ y \div 2 = r /\ x \div 2 = k
<1> DEFINE cells == Cells(Sensor(f))
<1>1. /\ cells.h = CellsOf(f.h) /\ cells.w = CellsOf(f.w)
      /\ \A r \in 0..(cells.h - 1), k \in 0..(cells.w - 1) :
           At(cells, r, k) = Joined(Sensor(f), {2 * r, 2 * r + 1}, {2 * k, 2 * k + 1})
  BY SensorIs DEF Cells, Raster, At, CellsOf
<1>2. /\ CellsOf(f.h) \in Nat /\ CellsOf(f.w) \in Nat
      /\ \A s \in 0..(f.h - 1) : s \div 2 \in 0..(CellsOf(f.h) - 1)
      /\ \A s \in 0..(f.w - 1) : s \div 2 \in 0..(CellsOf(f.w) - 1)
  BY CellCount
<1> HIDE DEF cells
<1>3. ASSUME NEW y \in 0..(f.h - 1), NEW x \in 0..(f.w - 1) PROVE <<y, x>> \in At(cells, y \div 2, x \div 2)
  <2>1. y \div 2 \in 0..(cells.h - 1) /\ x \div 2 \in 0..(cells.w - 1)
    BY <1>1, <1>2
  <2>2. At(cells, y \div 2, x \div 2)
          = Joined(Sensor(f), {2 * (y \div 2), 2 * (y \div 2) + 1}, {2 * (x \div 2), 2 * (x \div 2) + 1})
    BY <1>1, <2>1
  <2>3. y \in {2 * (y \div 2), 2 * (y \div 2) + 1} \cap 0..(f.h - 1) /\ x \in {2 * (x \div 2), 2 * (x \div 2) + 1} \cap 0..(f.w - 1)
    OBVIOUS
  <2>4. <<y, x>> \in At(Sensor(f), y, x) /\ Sensor(f).h = f.h /\ Sensor(f).w = f.w
    BY SensorIs
  <2> QED
    BY <2>2, <2>3, <2>4 DEF Joined
<1>4. ASSUME NEW r \in 0..(cells.h - 1), NEW k \in 0..(cells.w - 1), NEW q \in At(cells, r, k)
      PROVE  \E y \in 0..(f.h - 1), x \in 0..(f.w - 1) : q = <<y, x>> /\ y \div 2 = r /\ x \div 2 = k
  <2>1. q \in Joined(Sensor(f), {2 * r, 2 * r + 1}, {2 * k, 2 * k + 1}) /\ r \in Nat /\ k \in Nat
    BY <1>1, <1>2
  <2>2. Sensor(f).h = f.h /\ Sensor(f).w = f.w
    BY SensorIs
  <2>3. PICK y \in {2 * r, 2 * r + 1} \cap 0..(f.h - 1), x \in {2 * k, 2 * k + 1} \cap 0..(f.w - 1) : q \in At(Sensor(f), y, x)
    BY <2>1, <2>2 DEF Joined
  <2>4. q = <<y, x>>
    BY <2>3, SensorIs
  <2>5. y \div 2 = r /\ x \div 2 = k
    BY <2>1
  <2> QED
    BY <2>3, <2>4, <2>5
<1> QED
  BY <1>1, <1>3, <1>4 DEF cells

\* On the grid, a footprint is the pixel that is cut out.
LEMMA AlignedIs ==
    ASSUME Parts \in Nat, Parts > 0, NEW S \in Nat, S > 0, NEW n \in Nat, NEW start \in Nat, NEW length \in Nat,
           OnGrid(start, length, n, S), NEW out \in Nat, NEW j \in 0..(out - 1),
           out = Window(start, length, n, S).to - Window(start, length, n, S).from,
           NEW r \in Footprint(j, out, start, CropEnd(start, length, S), n, S)
    PROVE  r = Window(start, length, n, S).from + j
<1> DEFINE D == Parts * S
           end == CropEnd(start, length, S)
           cut == Window(start, length, n, S)
<1>1. D \in Nat /\ D > 0
  OBVIOUS
<1>2. /\ end \in Nat /\ cut.from = Round(start * n, D) /\ cut.to = Round(end * n, D)
      /\ cut.from \in Nat /\ cut.to \in 0..n
  BY WindowIs
<1>3. (start * n) % D = 0 /\ (end * n) % D = 0
  BY DEF OnGrid
<1>4. out = cut.to - cut.from /\ r \in Footprint(j, out, start, end, n, S)
  OBVIOUS
<1> HIDE DEF D, end, cut
<1> DEFINE a == start * n
           e == end * n
           x == a \div D
           y == e \div D
<1>5. a \in Nat /\ e \in Nat
  BY <1>2
<1> HIDE DEF a, e
<1>6. x \in Nat /\ y \in Nat /\ a = x * D /\ e = y * D
  <2>1. a = x * D + (a % D) /\ e = y * D + (e % D) /\ a \div D \in Nat /\ e \div D \in Nat
    BY <1>1, <1>5
  <2>2. a % D = 0 /\ e % D = 0
    BY <1>3 DEF a, e
  <2> HIDE DEF x, y
  <2>3. x \in Nat /\ y \in Nat
    BY <2>1 DEF x, y
  <2> QED
    BY <1>1, <2>1, <2>2, <2>3
<1> HIDE DEF x, y
<1>7. cut.from = x /\ cut.to = y
  BY <1>1, <1>2, <1>6, RoundExact DEF a, e
<1>8. Footprint(j, out, start, end, n, S) \subseteq {x + j}
  BY <1>2, <1>4, <1>6, <1>7, WholeFootprint DEF a, e, D
<1> QED
  BY <1>4, <1>7, <1>8 DEF cut

\* How a frame is decoded.
Way(f) == IF f.decode \in {"half", "reduced"} THEN f.decode ELSE "full"

\* A frame, and a crop, as a file may give them.
IsCrop(crop) == crop.y \in Nat /\ crop.x \in Nat /\ crop.h \in Nat /\ crop.w \in Nat
IsFrame(f) == f.h \in Nat \ {0} /\ f.w \in Nat \ {0} /\ IsCrop(f.crop)

\* The extent of a scene as it was stored, before it was turned.
StoredH(flip, s) == IF Bit(flip, 4) THEN s.w ELSE s.h
StoredW(flip, s) == IF Bit(flip, 4) THEN s.h ELSE s.w

\* What is turned stays within the image.
LEMMA PlaceWithin ==
    ASSUME NEW flip, NEW h \in Nat, NEW w \in Nat,
           NEW u \in 0..((IF Bit(flip, 4) THEN w ELSE h) - 1), NEW v \in 0..((IF Bit(flip, 4) THEN h ELSE w) - 1)
    PROVE  /\ PlaceBefore(flip, h, w, u, v)[1] \in 0..(h - 1) /\ PlaceBefore(flip, h, w, u, v)[2] \in 0..(w - 1)
           /\ PlaceBefore(flip, h, w, u, v)[1] = (IF Bit(flip, 2) THEN h - 1 - (IF Bit(flip, 4) THEN v ELSE u)
                                                           ELSE IF Bit(flip, 4) THEN v ELSE u)
           /\ PlaceBefore(flip, h, w, u, v)[2] = (IF Bit(flip, 1) THEN w - 1 - (IF Bit(flip, 4) THEN u ELSE v)
                                                           ELSE IF Bit(flip, 4) THEN u ELSE v)
<1>1. CASE Bit(flip, 4)
  BY <1>1 DEF PlaceBefore
<1>2. CASE ~Bit(flip, 4)
  BY <1>2 DEF PlaceBefore
<1> QED
  BY <1>1, <1>2

\* A crop of the sensels.
LEMMA SenselsCut ==
    ASSUME Parts \in Nat, Parts > 0, NEW f, IsFrame(f), NEW crop, IsCrop(crop)
    PROVE  LET rows == Window(crop.y, crop.h, f.h, f.h)
               cols == Window(crop.x, crop.w, f.w, f.w)
               cut == CropImage(Sensor(f), crop, f)
           IN  /\ cut.h = rows.to - rows.from /\ cut.w = cols.to - cols.from
               /\ rows.from \in Nat /\ rows.to \in 0..f.h /\ cols.from \in Nat /\ cols.to \in 0..f.w
               /\ \A y \in 0..(cut.h - 1), x \in 0..(cut.w - 1) : At(cut, y, x) = {<<rows.from + y, cols.from + x>>}
<1> DEFINE rows == Window(crop.y, crop.h, f.h, f.h)
           cols == Window(crop.x, crop.w, f.w, f.w)
           cut == CropImage(Sensor(f), crop, f)
<1>0. f.h \in Nat /\ f.h > 0 /\ f.w \in Nat /\ f.w > 0 /\ crop.y \in Nat /\ crop.x \in Nat /\ crop.h \in Nat /\ crop.w \in Nat
  BY DEF IsFrame, IsCrop
<1>1. rows.from \in Nat /\ rows.to \in 0..f.h
  BY <1>0, WindowIs
<1>2. cols.from \in Nat /\ cols.to \in 0..f.w
  BY <1>0, WindowIs
<1>3. /\ cut.h = rows.to - rows.from /\ cut.w = cols.to - cols.from
      /\ \A y \in 0..(cut.h - 1), x \in 0..(cut.w - 1) : At(cut, y, x) = At(Sensor(f), rows.from + y, cols.from + x)
  BY CropIs, SensorIs
<1> HIDE DEF rows, cols, cut
<1>4. ASSUME NEW y \in 0..(cut.h - 1), NEW x \in 0..(cut.w - 1)
      PROVE  At(cut, y, x) = {<<rows.from + y, cols.from + x>>}
  <2>1. rows.from + y \in 0..(f.h - 1) /\ cols.from + x \in 0..(f.w - 1)
    BY <1>1, <1>2, <1>3 DEF IsFrame
  <2> QED
    BY <1>3, <2>1, SensorIs
<1> QED
  BY <1>1, <1>2, <1>3, <1>4 DEF rows, cols, cut

\* A crop of whole sensels.
LEMMA WholeWindow ==
    ASSUME Parts \in Nat, Parts > 0, NEW S \in Nat, S > 0, NEW k \in Nat, NEW m \in Nat, k + m <= S
    PROVE  Window(Parts * k, Parts * m, S, S).from = k /\ Window(Parts * k, Parts * m, S, S).to = k + m
<1>1. (Parts * k) * S = k * (Parts * S) /\ (Parts * k + Parts * m) * S = (k + m) * (Parts * S)
  OBVIOUS
<1>2. Parts * S \in Nat /\ Parts * S > 0 /\ k + m \in Nat
  OBVIOUS
<1>3. Round((Parts * k) * S, Parts * S) = k /\ Round((Parts * k + Parts * m) * S, Parts * S) = k + m
  BY <1>1, <1>2, RoundExact
<1> QED
  BY <1>3 DEF Window, Least

\* Sensel y, x is of pixel a, b of a scene.
OfPixel(f, s, crop, a, b, y, x) ==
    LET spot == PlaceBefore(f.flip, StoredH(f.flip, s), StoredW(f.flip, s), a, b)
    IN  /\ ComesFrom(Way(f), y, spot[1], StoredH(f.flip, s), crop.y, crop.h, f.h)
        /\ ComesFrom(Way(f), x, spot[2], StoredW(f.flip, s), crop.x, crop.w, f.w)

\* A scene is of the sensels that its recipe's crop holds, pixel by pixel.
Sees(f, s, crop) ==
    /\ s.h \in Nat /\ s.w \in Nat /\ IsCrop(crop)
    /\ DOMAIN s.of = (0..(s.h - 1)) \X (0..(s.w - 1))
    /\ \A a \in 0..(s.h - 1), b \in 0..(s.w - 1) : \A q \in s.of[<<a, b>>] :
         \E y \in 0..(f.h - 1), x \in 0..(f.w - 1) : q = <<y, x>> /\ OfPixel(f, s, crop, a, b, y, x)

\* ... of a decode at its own size.
LEMMA FullSees ==
    ASSUME Parts \in Nat, Parts > 0, NEW f, IsFrame(f), Way(f) = "full", DecodedCrop(f).h > 0, DecodedCrop(f).w > 0
    PROVE  Sees(f, Scene(f), RecipeCrop(f)) /\ Exclusion(f) = Scene(f)
<1> DEFINE rows == Window(f.crop.y, f.crop.h, f.h, f.h)
           cols == Window(f.crop.x, f.crop.w, f.w, f.w)
           cut == CropImage(Sensor(f), f.crop, f)
           s == Orient(cut, f.flip)
<1>1. Decoded(f) = Sensor(f) /\ Reduction(f) = 1
  BY DEF Way, Decoded, Reduction
<1>2. Scene(f) = s /\ RecipeCrop(f) = f.crop /\ Exclusion(f) = s
  BY <1>1 DEF Scene, RecipeCrop, Exclusion, Finished
<1>3. /\ cut.h = rows.to - rows.from /\ cut.w = cols.to - cols.from
      /\ rows.from \in Nat /\ rows.to \in 0..f.h /\ cols.from \in Nat /\ cols.to \in 0..f.w
      /\ \A y \in 0..(cut.h - 1), x \in 0..(cut.w - 1) : At(cut, y, x) = {<<rows.from + y, cols.from + x>>}
  BY SenselsCut DEF IsFrame
<1>4. rows.to - rows.from > 0 /\ cols.to - cols.from > 0
  BY <1>1, SensorIs DEF DecodedCrop
<1>5. /\ s.h = (IF Bit(f.flip, 4) THEN cut.w ELSE cut.h) /\ s.w = (IF Bit(f.flip, 4) THEN cut.h ELSE cut.w)
      /\ DOMAIN s.of = (0..(s.h - 1)) \X (0..(s.w - 1))
      /\ \A y \in 0..(s.h - 1), x \in 0..(s.w - 1) :
           At(s, y, x) = At(cut, PlaceBefore(f.flip, cut.h, cut.w, y, x)[1], PlaceBefore(f.flip, cut.h, cut.w, y, x)[2])
  BY OrientIs
<1>6. f.h \in Nat /\ f.w \in Nat /\ IsCrop(f.crop)
  BY DEF IsFrame
<1> HIDE DEF rows, cols, cut, s
<1>7. cut.h \in Nat /\ cut.w \in Nat
  BY <1>3, <1>4, <1>6
<1>8. ASSUME NEW a \in 0..(s.h - 1), NEW b \in 0..(s.w - 1), NEW q \in s.of[<<a, b>>]
      PROVE  \E y \in 0..(f.h - 1), x \in 0..(f.w - 1) : q = <<y, x>> /\ OfPixel(f, s, f.crop, a, b, y, x)
  <2> DEFINE i == PlaceBefore(f.flip, cut.h, cut.w, a, b)[1]
             j == PlaceBefore(f.flip, cut.h, cut.w, a, b)[2]
  <2>0. /\ a \in 0..((IF Bit(f.flip, 4) THEN cut.w ELSE cut.h) - 1)
        /\ b \in 0..((IF Bit(f.flip, 4) THEN cut.h ELSE cut.w) - 1)
    BY <1>5
  <2>1. i \in 0..(cut.h - 1) /\ j \in 0..(cut.w - 1)
    BY <1>7, <2>0, PlaceWithin
  <2>2. At(s, a, b) = {<<rows.from + i, cols.from + j>>}
    BY <1>3, <1>5, <2>1
  <2>3. StoredH(f.flip, s) = cut.h /\ StoredW(f.flip, s) = cut.w
    BY <1>5 DEF StoredH, StoredW
  <2>4. q = <<rows.from + i, cols.from + j>>
    BY <2>2 DEF At
  <2>5. OfPixel(f, s, f.crop, a, b, rows.from + i, cols.from + j)
    <3>1. ComesFrom("full", rows.from + i, i, cut.h, f.crop.y, f.crop.h, f.h)
      BY <1>3 DEF ComesFrom, rows
    <3>2. ComesFrom("full", cols.from + j, j, cut.w, f.crop.x, f.crop.w, f.w)
      BY <1>3 DEF ComesFrom, cols
    <3> QED
      BY <2>3, <3>1, <3>2 DEF OfPixel
  <2>6. rows.from + i \in 0..(f.h - 1) /\ cols.from + j \in 0..(f.w - 1)
    BY <1>3, <1>6, <2>1
  <2> QED
    BY <2>4, <2>5, <2>6
<1>9. s.h \in Nat /\ s.w \in Nat
  BY <1>5, <1>7
<1> QED
  BY <1>2, <1>5, <1>6, <1>8, <1>9 DEF Sees

\* ... of LibRaw's half size.
LEMMA HalfSees ==
    ASSUME Parts \in Nat, Parts > 0, NEW f, IsFrame(f), Way(f) = "half", DecodedCrop(f).h > 0, DecodedCrop(f).w > 0
    PROVE  Sees(f, Scene(f), RecipeCrop(f)) /\ Exclusion(f) = Scene(f)
<1> DEFINE cells == Cells(Sensor(f))
           rows == Window(f.crop.y, f.crop.h, CellsOf(f.h), f.h)
           cols == Window(f.crop.x, f.crop.w, CellsOf(f.w), f.w)
           cut == CropImage(cells, f.crop, f)
           s == Orient(cut, f.flip)
<1>0. f.h \in Nat /\ f.w \in Nat /\ f.h > 0 /\ f.w > 0 /\ IsCrop(f.crop)
  BY DEF IsFrame
<1>1. Decoded(f) = cells /\ Reduction(f) = 1
  BY DEF Way, Decoded, Reduction
<1>2. Scene(f) = s /\ RecipeCrop(f) = f.crop /\ Exclusion(f) = s
  BY <1>1 DEF Scene, RecipeCrop, Exclusion, Finished
<1>3. /\ cells.h = CellsOf(f.h) /\ cells.w = CellsOf(f.w)
      /\ \A r \in 0..(cells.h - 1), k \in 0..(cells.w - 1) : \A q \in At(cells, r, k) :
           \E y \in 0..(f.h - 1), x \in 0..(f.w - 1) : q = <<y, x>> /\ y \div 2 = r /\ x \div 2 = k
  BY <1>0, CellsAre
<1>4. rows.to - rows.from > 0 /\ cols.to - cols.from > 0
  BY <1>1, <1>3 DEF DecodedCrop
<1>5. CellsOf(f.h) \in Nat /\ CellsOf(f.w) \in Nat
  BY <1>0, CellCount
<1>6. rows.from \in Nat /\ rows.to \in 0..CellsOf(f.h)
  BY <1>0, <1>5, WindowIs DEF IsCrop
<1>7. cols.from \in Nat /\ cols.to \in 0..CellsOf(f.w)
  BY <1>0, <1>5, WindowIs DEF IsCrop
<1>8. /\ cut.h = rows.to - rows.from /\ cut.w = cols.to - cols.from
      /\ \A y \in 0..(cut.h - 1), x \in 0..(cut.w - 1) : At(cut, y, x) = At(cells, rows.from + y, cols.from + x)
  <2> HIDE DEF cells
  <2> QED
    BY <1>3, CropIs
<1>9. /\ s.h = (IF Bit(f.flip, 4) THEN cut.w ELSE cut.h) /\ s.w = (IF Bit(f.flip, 4) THEN cut.h ELSE cut.w)
      /\ DOMAIN s.of = (0..(s.h - 1)) \X (0..(s.w - 1))
      /\ \A y \in 0..(s.h - 1), x \in 0..(s.w - 1) :
           At(s, y, x) = At(cut, PlaceBefore(f.flip, cut.h, cut.w, y, x)[1], PlaceBefore(f.flip, cut.h, cut.w, y, x)[2])
  BY OrientIs
<1> HIDE DEF rows, cols, cells, cut, s
<1>10. cut.h \in Nat /\ cut.w \in Nat /\ s.h \in Nat /\ s.w \in Nat
  BY <1>4, <1>6, <1>7, <1>8, <1>9
<1>11. ASSUME NEW a \in 0..(s.h - 1), NEW b \in 0..(s.w - 1), NEW q \in s.of[<<a, b>>]
       PROVE  \E y \in 0..(f.h - 1), x \in 0..(f.w - 1) : q = <<y, x>> /\ OfPixel(f, s, f.crop, a, b, y, x)
  <2> DEFINE i == PlaceBefore(f.flip, cut.h, cut.w, a, b)[1]
             j == PlaceBefore(f.flip, cut.h, cut.w, a, b)[2]
  <2>0. /\ a \in 0..((IF Bit(f.flip, 4) THEN cut.w ELSE cut.h) - 1)
        /\ b \in 0..((IF Bit(f.flip, 4) THEN cut.h ELSE cut.w) - 1)
    BY <1>9
  <2>1. i \in 0..(cut.h - 1) /\ j \in 0..(cut.w - 1)
    BY <1>10, <2>0, PlaceWithin
  <2>2. q \in At(cut, i, j)
    BY <1>9 DEF At
  <2>3. StoredH(f.flip, s) = cut.h /\ StoredW(f.flip, s) = cut.w
    BY <1>9 DEF StoredH, StoredW
  <2>4. rows.from + i \in 0..(cells.h - 1) /\ cols.from + j \in 0..(cells.w - 1)
    BY <1>3, <1>5, <1>6, <1>7, <1>8, <2>1
  <2>5. q \in At(cells, rows.from + i, cols.from + j)
    BY <1>8, <2>1, <2>2
  <2>6. PICK y \in 0..(f.h - 1), x \in 0..(f.w - 1) : q = <<y, x>> /\ y \div 2 = rows.from + i /\ x \div 2 = cols.from + j
    BY <1>3, <2>4, <2>5
  <2>7. ComesFrom("half", y, i, cut.h, f.crop.y, f.crop.h, f.h)
    BY <1>8, <2>6 DEF ComesFrom, rows
  <2>8. ComesFrom("half", x, j, cut.w, f.crop.x, f.crop.w, f.w)
    BY <1>8, <2>6 DEF ComesFrom, cols
  <2>9. OfPixel(f, s, f.crop, a, b, y, x)
    BY <2>3, <2>7, <2>8 DEF OfPixel
  <2> QED
    BY <2>6, <2>9
<1> QED
  BY <1>0, <1>2, <1>9, <1>10, <1>11 DEF Sees

\* Two pixels of a box were two pixels before it was turned.
LEMMA PlaceBoxed ==
    ASSUME NEW flip, NEW h \in Nat, NEW w \in Nat, NEW a, NEW b, NEW u \in {2 * a, 2 * a + 1}, NEW v \in {2 * b, 2 * b + 1},
           a \in 0..((IF Bit(flip, 4) THEN w ELSE h) - 1), b \in 0..((IF Bit(flip, 4) THEN h ELSE w) - 1)
    PROVE  /\ PlaceBefore(flip, 2 * h, 2 * w, u, v)[1] \in {2 * PlaceBefore(flip, h, w, a, b)[1], 2 * PlaceBefore(flip, h, w, a, b)[1] + 1}
           /\ PlaceBefore(flip, 2 * h, 2 * w, u, v)[2] \in {2 * PlaceBefore(flip, h, w, a, b)[2], 2 * PlaceBefore(flip, h, w, a, b)[2] + 1}
<1>1. CASE Bit(flip, 4)
  BY <1>1 DEF PlaceBefore
<1>2. CASE ~Bit(flip, 4)
  BY <1>2 DEF PlaceBefore
<1> QED
  BY <1>1, <1>2

\* A pixel of h by w that are left of m by n is found where it was.
SamePlace(flip, h, w, m, n, u, v) ==
    /\ (IF Bit(flip, 2) THEN m - h ELSE 0) + PlaceBefore(flip, h, w, u, v)[1] = PlaceBefore(flip, m, n, u, v)[1]
    /\ (IF Bit(flip, 1) THEN n - w ELSE 0) + PlaceBefore(flip, h, w, u, v)[2] = PlaceBefore(flip, m, n, u, v)[2]

\* The box drops the last rows and columns of what was turned, wherever they were.
LEMMA PlaceKept ==
    ASSUME NEW flip, NEW h \in Nat, NEW w \in Nat, NEW m \in Nat, NEW n \in Nat,
           NEW u \in 0..((IF Bit(flip, 4) THEN w ELSE h) - 1), NEW v \in 0..((IF Bit(flip, 4) THEN h ELSE w) - 1)
    PROVE  SamePlace(flip, h, w, m, n, u, v)
<1>1. CASE Bit(flip, 4)
  BY <1>1 DEF PlaceBefore, SamePlace
<1>2. CASE ~Bit(flip, 4)
  BY <1>2 DEF PlaceBefore, SamePlace
<1> QED
  BY <1>1, <1>2

\* Images that show the same, and of which the box takes all, are boxed alike.
LEMMA BoxedAlike ==
    ASSUME NEW o, NEW t, NEW h \in Nat, NEW w \in Nat, o.h \in Nat, o.w \in Nat, o.h \div 2 = h, o.w \div 2 = w,
           t.h = 2 * h, t.w = 2 * w, \A u \in 0..(2 * h - 1), v \in 0..(2 * w - 1) : At(o, u, v) = At(t, u, v)
    PROVE  Box(o) = Box(t)
<1>1. /\ Box(o).h = h /\ Box(o).w = w
      /\ Box(o) = [h |-> Box(o).h, w |-> Box(o).w, of |-> Box(o).of]
      /\ Box(o).of = [p \in (0..(Box(o).h - 1)) \X (0..(Box(o).w - 1)) |-> Box(o).of[p]]
      /\ \A y \in 0..(Box(o).h - 1), x \in 0..(Box(o).w - 1) :
           Box(o).of[<<y, x>>] = Joined(o, {2 * y, 2 * y + 1}, {2 * x, 2 * x + 1})
  BY BoxIs
<1> t.h \div 2 = h /\ t.w \div 2 = w
  OBVIOUS
<1>2. /\ Box(t).h = h /\ Box(t).w = w
      /\ Box(t) = [h |-> Box(t).h, w |-> Box(t).w, of |-> Box(t).of]
      /\ Box(t).of = [p \in (0..(Box(t).h - 1)) \X (0..(Box(t).w - 1)) |-> Box(t).of[p]]
      /\ \A y \in 0..(Box(t).h - 1), x \in 0..(Box(t).w - 1) :
           Box(t).of[<<y, x>>] = Joined(t, {2 * y, 2 * y + 1}, {2 * x, 2 * x + 1})
  BY BoxIs
<1>3. ASSUME NEW y \in 0..(h - 1), NEW x \in 0..(w - 1)
      PROVE  Joined(o, {2 * y, 2 * y + 1}, {2 * x, 2 * x + 1}) = Joined(t, {2 * y, 2 * y + 1}, {2 * x, 2 * x + 1})
  <2> DEFINE rows == {2 * y, 2 * y + 1}
             cols == {2 * x, 2 * x + 1}
  <2>1. /\ rows \cap 0..(o.h - 1) = rows /\ cols \cap 0..(o.w - 1) = cols
        /\ rows \cap 0..(t.h - 1) = rows /\ cols \cap 0..(t.w - 1) = cols
    OBVIOUS
  <2>2. \A u \in rows, v \in cols : At(o, u, v) = At(t, u, v)
    OBVIOUS
  <2> HIDE DEF rows, cols
  <2>3. {At(o, u, v) : u \in rows, v \in cols} = {At(t, u, v) : u \in rows, v \in cols}
    BY <2>2
  <2> QED
    BY <2>1, <2>3 DEF Joined
<1> DEFINE one == Box(o)
           other == Box(t)
<1>4. \A y \in 0..(h - 1), x \in 0..(w - 1) : one.of[<<y, x>>] = other.of[<<y, x>>]
  <2> SUFFICES ASSUME NEW y \in 0..(h - 1), NEW x \in 0..(w - 1) PROVE one.of[<<y, x>>] = other.of[<<y, x>>]
    OBVIOUS
  <2>1. one.of[<<y, x>>] = Joined(o, {2 * y, 2 * y + 1}, {2 * x, 2 * x + 1})
    BY <1>1
  <2>2. other.of[<<y, x>>] = Joined(t, {2 * y, 2 * y + 1}, {2 * x, 2 * x + 1})
    BY <1>2
  <2> QED
    BY <1>3, <2>1, <2>2
<1> HIDE DEF one, other
<1>5. \A p \in (0..(h - 1)) \X (0..(w - 1)) : one.of[p] = other.of[p]
  BY <1>4
<1>6. one.of = other.of
  BY <1>1, <1>2, <1>5 DEF one, other
<1> QED
  BY <1>1, <1>2, <1>6 DEF one, other

\* ... of a preview that is reduced at the very end.
LEMMA ReducedSees ==
    ASSUME Parts \in Nat, Parts > 0, NEW f, IsFrame(f), Way(f) = "reduced", DecodedCrop(f).h > 0, DecodedCrop(f).w > 0
    PROVE  Sees(f, Scene(f), RecipeCrop(f)) /\ Exclusion(f) = Scene(f)
<1> DEFINE rows == Window(f.crop.y, f.crop.h, f.h, f.h)
           cols == Window(f.crop.x, f.crop.w, f.w, f.w)
           c == DecodedCrop(f)
           cut == CropImage(Sensor(f), f.crop, f)
           o == Orient(cut, f.flip)
           s == Box(o)
           H == StoredH(f.flip, s)
           W == StoredW(f.flip, s)
           k == Kept(f, c, s)
           crop == RecipeCrop(f)
           again == CropImage(Sensor(f), crop, f)
           t == Orient(again, f.flip)
<1>0. f.h \in Nat /\ f.w \in Nat /\ f.h > 0 /\ f.w > 0 /\ IsCrop(f.crop)
  BY DEF IsFrame
<1>1. f.decode = "reduced" /\ Decoded(f) = Sensor(f) /\ Reduction(f) = 2
  BY DEF Way, Decoded, Reduction
<1>2. Scene(f) = s /\ Exclusion(f) = Box(t)
  BY <1>1 DEF Scene, Exclusion, Finished
<1>3. crop.y = Parts * k.y /\ crop.x = Parts * k.x /\ crop.h = Parts * k.h /\ crop.w = Parts * k.w
  BY <1>1, <1>2 DEF RecipeCrop
<1>4. c.y = rows.from /\ c.x = cols.from /\ c.h = rows.to - rows.from /\ c.w = cols.to - cols.from
  BY <1>1, SensorIs DEF DecodedCrop
<1>5. /\ cut.h = rows.to - rows.from /\ cut.w = cols.to - cols.from
      /\ rows.from \in Nat /\ rows.to \in 0..f.h /\ cols.from \in Nat /\ cols.to \in 0..f.w
      /\ \A y \in 0..(cut.h - 1), x \in 0..(cut.w - 1) : At(cut, y, x) = {<<rows.from + y, cols.from + x>>}
  BY SenselsCut DEF IsFrame
<1>6. /\ o.h = (IF Bit(f.flip, 4) THEN cut.w ELSE cut.h) /\ o.w = (IF Bit(f.flip, 4) THEN cut.h ELSE cut.w)
      /\ \A y \in 0..(o.h - 1), x \in 0..(o.w - 1) :
           At(o, y, x) = At(cut, PlaceBefore(f.flip, cut.h, cut.w, y, x)[1], PlaceBefore(f.flip, cut.h, cut.w, y, x)[2])
  BY OrientIs
<1>7. /\ s.h = o.h \div 2 /\ s.w = o.w \div 2
      /\ DOMAIN s.of = (0..(s.h - 1)) \X (0..(s.w - 1))
      /\ \A y \in 0..(s.h - 1), x \in 0..(s.w - 1) : s.of[<<y, x>>] = Joined(o, {2 * y, 2 * y + 1}, {2 * x, 2 * x + 1})
  BY BoxIs
<1>8. /\ k.h = 2 * H /\ k.w = 2 * W
      /\ k.y = c.y + (IF Bit(f.flip, 2) THEN c.h - 2 * H ELSE 0)
      /\ k.x = c.x + (IF Bit(f.flip, 1) THEN c.w - 2 * W ELSE 0)
  BY DEF Kept, StoredH, StoredW
<1>9. /\ H = (IF Bit(f.flip, 4) THEN s.w ELSE s.h) /\ W = (IF Bit(f.flip, 4) THEN s.h ELSE s.w)
      /\ s.h = (IF Bit(f.flip, 4) THEN W ELSE H) /\ s.w = (IF Bit(f.flip, 4) THEN H ELSE W)
  BY DEF StoredH, StoredW
<1>10. /\ again.h = Window(crop.y, crop.h, f.h, f.h).to - Window(crop.y, crop.h, f.h, f.h).from
       /\ again.w = Window(crop.x, crop.w, f.w, f.w).to - Window(crop.x, crop.w, f.w, f.w).from
       /\ (IsCrop(crop) => \A y \in 0..(again.h - 1), x \in 0..(again.w - 1) :
             At(again, y, x) = {<<Window(crop.y, crop.h, f.h, f.h).from + y, Window(crop.x, crop.w, f.w, f.w).from + x>>})
  <2> HIDE DEF crop
  <2>1. IsCrop(crop) => \A y \in 0..(again.h - 1), x \in 0..(again.w - 1) :
             At(again, y, x) = {<<Window(crop.y, crop.h, f.h, f.h).from + y, Window(crop.x, crop.w, f.w, f.w).from + x>>}
    BY SenselsCut
  <2>2. /\ again.h = Window(crop.y, crop.h, f.h, f.h).to - Window(crop.y, crop.h, f.h, f.h).from
        /\ again.w = Window(crop.x, crop.w, f.w, f.w).to - Window(crop.x, crop.w, f.w, f.w).from
    BY CropIs, SensorIs
  <2> QED
    BY <2>1, <2>2
<1>11. /\ t.h = (IF Bit(f.flip, 4) THEN again.w ELSE again.h) /\ t.w = (IF Bit(f.flip, 4) THEN again.h ELSE again.w)
       /\ \A y \in 0..(t.h - 1), x \in 0..(t.w - 1) :
            At(t, y, x) = At(again, PlaceBefore(f.flip, again.h, again.w, y, x)[1], PlaceBefore(f.flip, again.h, again.w, y, x)[2])
  <2> HIDE DEF again
  <2> QED
    BY OrientIs
<1>12. c.h > 0 /\ c.w > 0
  OBVIOUS
<1> HIDE DEF rows, cols, c, cut, o, s, H, W, k, crop, again, t
<1>13. cut.h \in Nat /\ cut.w \in Nat /\ o.h \in Nat /\ o.w \in Nat /\ s.h \in Nat /\ s.w \in Nat
  BY <1>0, <1>4, <1>5, <1>6, <1>7, <1>12
<1>14. /\ H \in Nat /\ W \in Nat /\ 2 * H <= cut.h /\ 2 * W <= cut.w
  <2>1. 2 * s.h <= o.h /\ 2 * s.w <= o.w
    BY <1>7, <1>13
  <2>2. CASE Bit(f.flip, 4)
    BY <1>6, <1>9, <1>13, <2>1, <2>2
  <2>3. CASE ~Bit(f.flip, 4)
    BY <1>6, <1>9, <1>13, <2>1, <2>3
  <2> QED
    BY <2>2, <2>3
<1>15. /\ k.y \in Nat /\ k.x \in Nat /\ k.y + 2 * H <= f.h /\ k.x + 2 * W <= f.w
  <2>1. k.y \in Nat /\ k.y + 2 * H <= f.h
    <3>1. CASE Bit(f.flip, 2)
      BY <1>0, <1>4, <1>5, <1>8, <1>14, <3>1
    <3>2. CASE ~Bit(f.flip, 2)
      BY <1>0, <1>4, <1>5, <1>8, <1>14, <3>2
    <3> QED
      BY <3>1, <3>2
  <2>2. k.x \in Nat /\ k.x + 2 * W <= f.w
    <3>1. CASE Bit(f.flip, 1)
      BY <1>0, <1>4, <1>5, <1>8, <1>14, <3>1
    <3>2. CASE ~Bit(f.flip, 1)
      BY <1>0, <1>4, <1>5, <1>8, <1>14, <3>2
    <3> QED
      BY <3>1, <3>2
  <2> QED
    BY <2>1, <2>2
<1>16. IsCrop(crop)
  BY <1>3, <1>8, <1>14, <1>15 DEF IsCrop
<1>17. /\ Window(crop.y, crop.h, f.h, f.h).from = k.y /\ Window(crop.y, crop.h, f.h, f.h).to = k.y + 2 * H
       /\ Window(crop.x, crop.w, f.w, f.w).from = k.x /\ Window(crop.x, crop.w, f.w, f.w).to = k.x + 2 * W
  <2>1. crop.y = Parts * k.y /\ crop.h = Parts * (2 * H) /\ crop.x = Parts * k.x /\ crop.w = Parts * (2 * W)
    BY <1>3, <1>8
  <2>2. Window(Parts * k.y, Parts * (2 * H), f.h, f.h).from = k.y /\ Window(Parts * k.y, Parts * (2 * H), f.h, f.h).to = k.y + 2 * H
    <3>1. 2 * H \in Nat
      BY <1>14
    <3> QED
      BY <1>0, <1>15, <3>1, WholeWindow
  <2>3. Window(Parts * k.x, Parts * (2 * W), f.w, f.w).from = k.x /\ Window(Parts * k.x, Parts * (2 * W), f.w, f.w).to = k.x + 2 * W
    <3>1. 2 * W \in Nat
      BY <1>14
    <3> QED
      BY <1>0, <1>15, <3>1, WholeWindow
  <2> QED
    BY <2>1, <2>2, <2>3
<1>18. /\ again.h = 2 * H /\ again.w = 2 * W /\ t.h = 2 * s.h /\ t.w = 2 * s.w
       /\ \A y \in 0..(2 * H - 1), x \in 0..(2 * W - 1) : At(again, y, x) = {<<k.y + y, k.x + x>>}
  <2>1. again.h = 2 * H /\ again.w = 2 * W
    BY <1>10, <1>14, <1>15, <1>17
  <2>2. \A y \in 0..(2 * H - 1), x \in 0..(2 * W - 1) : At(again, y, x) = {<<k.y + y, k.x + x>>}
    BY <1>10, <1>16, <1>17, <2>1
  <2>3. t.h = 2 * s.h /\ t.w = 2 * s.w
    BY <1>9, <1>11, <2>1
  <2> QED
    BY <2>1, <2>2, <2>3
<1>19. ASSUME NEW u \in 0..(2 * s.h - 1), NEW v \in 0..(2 * s.w - 1)
       PROVE  LET spot == PlaceBefore(f.flip, 2 * H, 2 * W, u, v)
              IN  /\ spot[1] \in 0..(2 * H - 1) /\ spot[2] \in 0..(2 * W - 1)
                  /\ At(o, u, v) = {<<k.y + spot[1], k.x + spot[2]>>} /\ At(t, u, v) = {<<k.y + spot[1], k.x + spot[2]>>}
  <2> DEFINE spot == PlaceBefore(f.flip, 2 * H, 2 * W, u, v)
             was == PlaceBefore(f.flip, cut.h, cut.w, u, v)
  <2>1. /\ 2 * H \in Nat /\ 2 * W \in Nat
        /\ u \in 0..((IF Bit(f.flip, 4) THEN 2 * W ELSE 2 * H) - 1) /\ v \in 0..((IF Bit(f.flip, 4) THEN 2 * H ELSE 2 * W) - 1)
    BY <1>9, <1>14
  <2>2. spot[1] \in 0..(2 * H - 1) /\ spot[2] \in 0..(2 * W - 1)
    BY <2>1, PlaceWithin
  <2>3. /\ (IF Bit(f.flip, 2) THEN cut.h - 2 * H ELSE 0) + spot[1] = was[1]
        /\ (IF Bit(f.flip, 1) THEN cut.w - 2 * W ELSE 0) + spot[2] = was[2]
    <3> DEFINE h == 2 * H
               w == 2 * W
    <3>1. /\ h \in Nat /\ w \in Nat
          /\ u \in 0..((IF Bit(f.flip, 4) THEN w ELSE h) - 1) /\ v \in 0..((IF Bit(f.flip, 4) THEN h ELSE w) - 1)
      BY <2>1
    <3> HIDE DEF h, w
    <3>2. SamePlace(f.flip, h, w, cut.h, cut.w, u, v)
      BY <1>13, <3>1, PlaceKept
    <3> QED
      BY <3>2 DEF h, w, SamePlace
  <2>4. u \in 0..(o.h - 1) /\ v \in 0..(o.w - 1) /\ u \in 0..(t.h - 1) /\ v \in 0..(t.w - 1)
    BY <1>7, <1>13, <1>18
  <2>5. was[1] \in 0..(cut.h - 1) /\ was[2] \in 0..(cut.w - 1)
    <3>1. u \in 0..((IF Bit(f.flip, 4) THEN cut.w ELSE cut.h) - 1) /\ v \in 0..((IF Bit(f.flip, 4) THEN cut.h ELSE cut.w) - 1)
      BY <1>6, <2>4
    <3> QED
      BY <1>13, <3>1, PlaceWithin
  <2>6. At(t, u, v) = At(again, spot[1], spot[2])
    BY <1>11, <1>18, <2>4
  <2>7. At(o, u, v) = At(cut, was[1], was[2])
    BY <1>6, <2>4
  <2> HIDE DEF spot, was
  <2>8. At(t, u, v) = {<<k.y + spot[1], k.x + spot[2]>>}
    BY <1>18, <2>2, <2>6
  <2>9. At(o, u, v) = {<<rows.from + was[1], cols.from + was[2]>>}
    BY <1>5, <2>5, <2>7
  <2>10. rows.from + was[1] = k.y + spot[1] /\ cols.from + was[2] = k.x + spot[2]
    BY <1>4, <1>5, <1>8, <1>13, <1>14, <2>2, <2>3
  <2> QED
    BY <2>2, <2>8, <2>9, <2>10 DEF spot
<1>20. Box(o) = Box(t)
  <2>1. \A u \in 0..(2 * s.h - 1), v \in 0..(2 * s.w - 1) : At(o, u, v) = At(t, u, v)
    BY <1>19
  <2>2. o.h \div 2 = s.h /\ o.w \div 2 = s.w
    BY <1>7
  <2> QED
    BY <1>13, <1>18, <2>1, <2>2, BoxedAlike
<1>21. ASSUME NEW a \in 0..(s.h - 1), NEW b \in 0..(s.w - 1), NEW q \in s.of[<<a, b>>]
       PROVE  \E y \in 0..(f.h - 1), x \in 0..(f.w - 1) : q = <<y, x>> /\ OfPixel(f, s, crop, a, b, y, x)
  <2> DEFINE spot == PlaceBefore(f.flip, H, W, a, b)
  <2>1. PICK u \in {2 * a, 2 * a + 1}, v \in {2 * b, 2 * b + 1} : q \in At(o, u, v)
    BY <1>7 DEF Joined
  <2> DEFINE was == PlaceBefore(f.flip, 2 * H, 2 * W, u, v)
  <2>2. u \in 0..(2 * s.h - 1) /\ v \in 0..(2 * s.w - 1)
    BY <1>13
  <2>3. /\ was[1] \in 0..(2 * H - 1) /\ was[2] \in 0..(2 * W - 1) /\ q = <<k.y + was[1], k.x + was[2]>>
    BY <1>19, <2>1, <2>2
  <2>4. a \in 0..((IF Bit(f.flip, 4) THEN W ELSE H) - 1) /\ b \in 0..((IF Bit(f.flip, 4) THEN H ELSE W) - 1)
    BY <1>9
  <2>5. was[1] \in {2 * spot[1], 2 * spot[1] + 1} /\ was[2] \in {2 * spot[2], 2 * spot[2] + 1}
    BY <1>14, <2>4, PlaceBoxed
  <2>6. spot[1] \in 0..(H - 1) /\ spot[2] \in 0..(W - 1)
    BY <1>14, <2>4, PlaceWithin
  <2> HIDE DEF spot, was
  <2>7. k.y + was[1] \in 0..(f.h - 1) /\ k.x + was[2] \in 0..(f.w - 1)
    BY <1>0, <1>14, <1>15, <2>3
  <2>8. ComesFrom("reduced", k.y + was[1], spot[1], H, crop.y, crop.h, f.h)
    <3>1. k.y + was[1] \in {k.y + 2 * spot[1], k.y + 2 * spot[1] + 1}
      BY <1>15, <2>5, <2>6
    <3>2. k.y \in Nat /\ crop.y = Parts * k.y /\ crop.h = Parts * (2 * H) /\ k.y + 2 * H <= f.h
      BY <1>3, <1>8, <1>15
    <3> QED
      BY <3>1, <3>2 DEF ComesFrom
  <2>9. ComesFrom("reduced", k.x + was[2], spot[2], W, crop.x, crop.w, f.w)
    <3>1. k.x + was[2] \in {k.x + 2 * spot[2], k.x + 2 * spot[2] + 1}
      BY <1>15, <2>5, <2>6
    <3>2. k.x \in Nat /\ crop.x = Parts * k.x /\ crop.w = Parts * (2 * W) /\ k.x + 2 * W <= f.w
      BY <1>3, <1>8, <1>15
    <3> QED
      BY <3>1, <3>2 DEF ComesFrom
  <2>10. OfPixel(f, s, crop, a, b, k.y + was[1], k.x + was[2])
    BY <2>8, <2>9 DEF OfPixel, H, W, spot
  <2> QED
    BY <2>3, <2>7, <2>10
<1>22. Sees(f, s, crop)
  BY <1>7, <1>13, <1>16, <1>21 DEF Sees
<1>23. Exclusion(f) = s
  BY <1>2, <1>20 DEF s
<1> QED
  BY <1>2, <1>22, <1>23 DEF crop

\* The mask as it was stored, before it was turned: on cells, or on the sensels of them.
Grid(f, whole) ==
    IF whole THEN Cells(Sensor(f)) ELSE Raster(f.h, f.w, LAMBDA y, x : At(Cells(Sensor(f)), y \div 2, x \div 2))
StoredMask(f, grid, crop, h, w) ==
    IF Aligned(grid, crop, f) THEN CropImage(grid, crop, f) ELSE FractionalCrop(grid, crop, f, h, w)

\* A pixel of it has seen what its footprint holds.
LEMMA MaskHolds ==
    ASSUME Parts \in Nat, Parts > 0, NEW f, IsFrame(f), NEW crop, IsCrop(crop), NEW grid, grid.h \in Nat, grid.w \in Nat,
           NEW h \in Nat, NEW w \in Nat, StoredMask(f, grid, crop, h, w).h = h, StoredMask(f, grid, crop, h, w).w = w,
           NEW i \in 0..(h - 1), NEW j \in 0..(w - 1),
           NEW r \in Footprint(i, h, crop.y, CropEnd(crop.y, crop.h, f.h), grid.h, f.h), r \in 0..(grid.h - 1),
           NEW k \in Footprint(j, w, crop.x, CropEnd(crop.x, crop.w, f.w), grid.w, f.w), k \in 0..(grid.w - 1)
    PROVE  At(grid, r, k) \subseteq At(StoredMask(f, grid, crop, h, w), i, j)
<1>0. f.h \in Nat /\ f.h > 0 /\ f.w \in Nat /\ f.w > 0 /\ crop.y \in Nat /\ crop.x \in Nat /\ crop.h \in Nat /\ crop.w \in Nat
  BY DEF IsFrame, IsCrop
<1>1. CASE Aligned(grid, crop, f)
  <2> DEFINE rows == Window(crop.y, crop.h, grid.h, f.h)
             cols == Window(crop.x, crop.w, grid.w, f.w)
             cut == CropImage(grid, crop, f)
  <2>1. StoredMask(f, grid, crop, h, w) = cut
    BY <1>1 DEF StoredMask
  <2>2. /\ cut.h = rows.to - rows.from /\ cut.w = cols.to - cols.from
        /\ \A y \in 0..(cut.h - 1), x \in 0..(cut.w - 1) : At(cut, y, x) = At(grid, rows.from + y, cols.from + x)
    BY CropIs
  <2>3. OnGrid(crop.y, crop.h, grid.h, f.h) /\ OnGrid(crop.x, crop.w, grid.w, f.w)
    BY <1>1 DEF Aligned
  <2>4. h = rows.to - rows.from /\ w = cols.to - cols.from /\ cut.h = h /\ cut.w = w
    BY <2>1, <2>2
  <2>5. r = rows.from + i
    BY <1>0, <2>3, <2>4, AlignedIs
  <2>6. k = cols.from + j
    BY <1>0, <2>3, <2>4, AlignedIs
  <2> HIDE DEF rows, cols, cut
  <2> QED
    BY <2>1, <2>2, <2>4, <2>5, <2>6
<1>2. CASE ~Aligned(grid, crop, f)
  <2> DEFINE rows == Footprint(i, h, crop.y, CropEnd(crop.y, crop.h, f.h), grid.h, f.h)
             cols == Footprint(j, w, crop.x, CropEnd(crop.x, crop.w, f.w), grid.w, f.w)
             mask == StoredMask(f, grid, crop, h, w)
  <2>1. At(mask, i, j) = Joined(grid, rows, cols)
    BY <1>2 DEF StoredMask, FractionalCrop, Raster, At
  <2>2. r \in rows \cap 0..(grid.h - 1) /\ k \in cols \cap 0..(grid.w - 1)
    OBVIOUS
  <2> HIDE DEF rows, cols, mask
  <2>3. At(grid, r, k) \subseteq Joined(grid, rows, cols)
    BY <2>2 DEF Joined
  <2> QED
    BY <2>1, <2>3 DEF mask
<1> QED
  BY <1>1, <1>2

\* A mask of a scene's extent has seen every sensel of each pixel.
LEMMA MaskSees ==
    ASSUME Parts \in Nat, Parts > 0, NEW f, IsFrame(f), NEW s, s.h \in Nat, s.w \in Nat, NEW crop, IsCrop(crop),
           ClipMask(f, crop, s).h = s.h, ClipMask(f, crop, s).w = s.w,
           NEW a \in 0..(s.h - 1), NEW b \in 0..(s.w - 1), NEW y \in 0..(f.h - 1), NEW x \in 0..(f.w - 1),
           OfPixel(f, s, crop, a, b, y, x)
    PROVE  <<y, x>> \in ClipMask(f, crop, s).of[<<a, b>>]
<1> DEFINE h == StoredH(f.flip, s)
           w == StoredW(f.flip, s)
           cells == Cells(Sensor(f))
           whole == crop = [y |-> 0, x |-> 0, h |-> Parts * f.h, w |-> Parts * f.w]
           expand == (f.h % 2 = 1 \/ f.w % 2 = 1) /\ (~whole \/ cells.h # h \/ cells.w # w)
           grid == Grid(f, ~expand)
           mask == StoredMask(f, grid, crop, h, w)
           spot == PlaceBefore(f.flip, h, w, a, b)
           i == spot[1]
           j == spot[2]
<1>0. f.h \in Nat /\ f.h > 0 /\ f.w \in Nat /\ f.w > 0 /\ crop.y \in Nat /\ crop.x \in Nat /\ crop.h \in Nat /\ crop.w \in Nat
  BY DEF IsFrame, IsCrop
<1>1. ClipMask(f, crop, s) = Orient(mask, f.flip)
  BY DEF ClipMask, Grid, StoredMask, StoredH, StoredW
<1>2. /\ cells.h = CellsOf(f.h) /\ cells.w = CellsOf(f.w)
      /\ \A y1 \in 0..(f.h - 1), x1 \in 0..(f.w - 1) : <<y1, x1>> \in At(cells, y1 \div 2, x1 \div 2)
  BY <1>0, CellsAre
<1>3. /\ CellsOf(f.h) \in Nat /\ (f.h % 2 # 1 => 2 * CellsOf(f.h) = f.h) /\ y \div 2 \in 0..(CellsOf(f.h) - 1)
      /\ CellsOf(f.w) \in Nat /\ (f.w % 2 # 1 => 2 * CellsOf(f.w) = f.w) /\ x \div 2 \in 0..(CellsOf(f.w) - 1)
  BY <1>0, CellCount
<1>4. /\ Orient(mask, f.flip).h = (IF Bit(f.flip, 4) THEN mask.w ELSE mask.h)
      /\ Orient(mask, f.flip).w = (IF Bit(f.flip, 4) THEN mask.h ELSE mask.w)
      /\ \A y1 \in 0..(Orient(mask, f.flip).h - 1), x1 \in 0..(Orient(mask, f.flip).w - 1) :
           At(Orient(mask, f.flip), y1, x1) = At(mask, PlaceBefore(f.flip, mask.h, mask.w, y1, x1)[1], PlaceBefore(f.flip, mask.h, mask.w, y1, x1)[2])
  <2> HIDE DEF mask
  <2> QED
    BY OrientIs
<1>5. /\ h = (IF Bit(f.flip, 4) THEN s.w ELSE s.h) /\ w = (IF Bit(f.flip, 4) THEN s.h ELSE s.w)
  BY DEF StoredH, StoredW
<1>6. ComesFrom(Way(f), y, i, h, crop.y, crop.h, f.h) /\ ComesFrom(Way(f), x, j, w, crop.x, crop.w, f.w)
  BY DEF OfPixel
<1>7. Way(f) \in {"full", "half", "reduced"}
  BY DEF Way
<1>8. grid = IF expand THEN Raster(f.h, f.w, LAMBDA y1, x1 : At(cells, y1 \div 2, x1 \div 2)) ELSE cells
  BY DEF Grid
<1>9. whole => crop.y = 0 /\ crop.x = 0 /\ crop.h = Parts * f.h /\ crop.w = Parts * f.w
  OBVIOUS
<1> HIDE DEF h, w, cells, whole, grid, mask
<1>10. h \in Nat /\ w \in Nat /\ mask.h = h /\ mask.w = w
  BY <1>1, <1>4, <1>5
<1>11. a \in 0..((IF Bit(f.flip, 4) THEN w ELSE h) - 1) /\ b \in 0..((IF Bit(f.flip, 4) THEN h ELSE w) - 1)
  BY <1>5
<1>12. i \in 0..(h - 1) /\ j \in 0..(w - 1)
  BY <1>10, <1>11, PlaceWithin
<1>13. ClipMask(f, crop, s).of[<<a, b>>] = At(mask, i, j)
  BY <1>1, <1>4, <1>10 DEF At
<1> HIDE DEF spot, i, j
<1>14. \E r, k : /\ At(grid, r, k) = At(cells, y \div 2, x \div 2) /\ grid.h \in Nat /\ grid.w \in Nat
                 /\ r \in Footprint(i, h, crop.y, CropEnd(crop.y, crop.h, f.h), grid.h, f.h) /\ r \in 0..(grid.h - 1)
                 /\ k \in Footprint(j, w, crop.x, CropEnd(crop.x, crop.w, f.w), grid.w, f.w) /\ k \in 0..(grid.w - 1)
  <2>1. CASE expand
    <3>1. PICK r \in Footprint(i, h, crop.y, CropEnd(crop.y, crop.h, f.h), f.h, f.h) : r \in 0..(f.h - 1) /\ r \div 2 = y \div 2
      <4> DEFINE way == Way(f)
      <4>1. /\ f.h \in Nat /\ f.h > 0 /\ crop.y \in Nat /\ crop.h \in Nat /\ h \in Nat /\ i \in 0..(h - 1)
            /\ way \in {"full", "half", "reduced"} /\ ComesFrom(way, y, i, h, crop.y, crop.h, f.h)
        BY <1>0, <1>6, <1>7, <1>10, <1>12
      <4> HIDE DEF way
      <4>2. SeesCell(y, i, h, crop.y, crop.h, f.h)
        BY <4>1, SeenOnSensels
      <4> QED
        BY <4>2 DEF SeesCell
    <3>2. PICK k \in Footprint(j, w, crop.x, CropEnd(crop.x, crop.w, f.w), f.w, f.w) : k \in 0..(f.w - 1) /\ k \div 2 = x \div 2
      <4> DEFINE way == Way(f)
      <4>1. /\ f.w \in Nat /\ f.w > 0 /\ crop.x \in Nat /\ crop.w \in Nat /\ w \in Nat /\ j \in 0..(w - 1)
            /\ way \in {"full", "half", "reduced"} /\ ComesFrom(way, x, j, w, crop.x, crop.w, f.w)
        BY <1>0, <1>6, <1>7, <1>10, <1>12
      <4> HIDE DEF way
      <4>2. SeesCell(x, j, w, crop.x, crop.w, f.w)
        BY <4>1, SeenOnSensels
      <4> QED
        BY <4>2 DEF SeesCell
    <3>3. /\ grid.h = f.h /\ grid.w = f.w
          /\ \A y1 \in 0..(f.h - 1), x1 \in 0..(f.w - 1) : At(grid, y1, x1) = At(cells, y1 \div 2, x1 \div 2)
      BY <1>8, <2>1 DEF Raster, At
    <3>4. At(grid, r, k) = At(cells, y \div 2, x \div 2)
      BY <3>1, <3>2, <3>3
    <3> QED
      BY <1>0, <3>1, <3>2, <3>3, <3>4
  <2>2. CASE ~expand
    <3>1. grid = cells /\ grid.h = CellsOf(f.h) /\ grid.w = CellsOf(f.w)
      BY <1>2, <1>8, <2>2
    <3>2. \/ 2 * CellsOf(f.h) = f.h /\ 2 * CellsOf(f.w) = f.w
          \/ whole /\ CellsOf(f.h) = h /\ CellsOf(f.w) = w
      BY <1>2, <1>3, <2>2
    <3>3. y \div 2 \in Footprint(i, h, crop.y, CropEnd(crop.y, crop.h, f.h), CellsOf(f.h), f.h)
      <4>1. 2 * CellsOf(f.h) = f.h \/ (crop.y = 0 /\ crop.h = Parts * f.h /\ h = CellsOf(f.h))
        BY <1>9, <3>2
      <4> QED
        BY <1>0, <1>6, <1>7, <1>10, <1>12, <4>1, SeenOnCells
    <3>4. x \div 2 \in Footprint(j, w, crop.x, CropEnd(crop.x, crop.w, f.w), CellsOf(f.w), f.w)
      <4>1. 2 * CellsOf(f.w) = f.w \/ (crop.x = 0 /\ crop.w = Parts * f.w /\ w = CellsOf(f.w))
        BY <1>9, <3>2
      <4> QED
        BY <1>0, <1>6, <1>7, <1>10, <1>12, <4>1, SeenOnCells
    <3> QED
      BY <1>3, <3>1, <3>3, <3>4
  <2> QED
    BY <2>1, <2>2
<1>15. PICK r, k : /\ At(grid, r, k) = At(cells, y \div 2, x \div 2) /\ grid.h \in Nat /\ grid.w \in Nat
                   /\ r \in Footprint(i, h, crop.y, CropEnd(crop.y, crop.h, f.h), grid.h, f.h) /\ r \in 0..(grid.h - 1)
                   /\ k \in Footprint(j, w, crop.x, CropEnd(crop.x, crop.w, f.w), grid.w, f.w) /\ k \in 0..(grid.w - 1)
  BY <1>14
<1>16. At(grid, r, k) \subseteq At(mask, i, j)
  BY <1>10, <1>12, <1>15, MaskHolds DEF mask
<1> QED
  BY <1>2, <1>13, <1>15, <1>16

\* ... so a scene and its maps agree when the decode returns.
MapsAgree(made, exclusion, masks) ==
    /\ exclusion = made
    /\ masks.h = made.h /\ masks.w = made.w =>
         \A p \in DOMAIN made.of : made.of[p] \subseteq masks.of[p]

\* Whatever frame is decoded, with a crop that has a pixel.
LEMMA DecodedAgree ==
    ASSUME Parts \in Nat, Parts > 0, NEW f, IsFrame(f), DecodedCrop(f).h > 0, DecodedCrop(f).w > 0
    PROVE  MapsAgree(Scene(f), Exclusion(f), ClipMask(f, RecipeCrop(f), Scene(f)))
<1> DEFINE s == Scene(f)
           crop == RecipeCrop(f)
           m == ClipMask(f, crop, s)
<1>1. Sees(f, s, crop) /\ Exclusion(f) = s
  <2>1. Way(f) \in {"full", "half", "reduced"}
    BY DEF Way
  <2> QED
    BY <2>1, FullSees, HalfSees, ReducedSees
<1> HIDE DEF s, crop
<1>2. ASSUME m.h = s.h, m.w = s.w, NEW p \in DOMAIN s.of, NEW q \in s.of[p] PROVE q \in m.of[p]
  <2>1. s.h \in Nat /\ s.w \in Nat /\ IsCrop(crop)
    BY <1>1 DEF Sees
  <2>2. PICK a \in 0..(s.h - 1), b \in 0..(s.w - 1) : p = <<a, b>>
    BY <1>1, <1>2 DEF Sees
  <2>3. PICK y \in 0..(f.h - 1), x \in 0..(f.w - 1) : q = <<y, x>> /\ OfPixel(f, s, crop, a, b, y, x)
    BY <1>1, <1>2, <2>2 DEF Sees
  <2>4. <<y, x>> \in m.of[<<a, b>>]
    BY <1>2, <2>1, <2>3, MaskSees
  <2> QED
    BY <2>2, <2>3, <2>4
<1>3. MapsAgree(s, Exclusion(f), m)
  <2> HIDE DEF m
  <2> QED
    BY <1>1, <1>2 DEF MapsAgree
<1> QED
  BY <1>3 DEF s, crop

\* A frame of the inputs is decoded at most once.
GeometryInv ==
    /\ frame \in Frames
    /\ \A v \in views : MapsAgree(v.scene, v.exclusion, v.masks)

\* "Masks, the Apple reference and the sampling ruler must all describe this same
\* retained window": for any sensor and crop, however it is decoded, turned and reduced,
\* the exclusion map is of the sensels of the scene and the clip masks have seen them.
THEOREM MapsAlwaysFollowScene == GeometrySpec => []MapsFollowScene
<1>1. Parts \in Nat /\ Parts > 0 /\ \A f \in Frames : IsFrame(f)
  BY FramesAssumption DEF IsFrame, IsCrop
<1>2. GeometryInit => GeometryInv
  BY DEF GeometryInit, GeometryFrom, GeometryInv
<1>3. GeometryInv /\ [GeometryNext]_geometryVars => GeometryInv'
  <2> SUFFICES ASSUME GeometryInv, [GeometryNext]_geometryVars PROVE GeometryInv'
    OBVIOUS
  <2>1. CASE DecodeFrame
    <3>1. MapsAgree(Scene(frame), Exclusion(frame), ClipMask(frame, RecipeCrop(frame), Scene(frame)))
      BY <1>1, <2>1, DecodedAgree DEF DecodeFrame, GeometryInv
    <3> QED
      BY <2>1, <3>1 DEF DecodeFrame, GeometryInv
  <2>2. CASE UNCHANGED geometryVars
    BY <2>2 DEF geometryVars, GeometryInv
  <2> QED
    BY <2>1, <2>2 DEF GeometryNext
<1>4. GeometryInv => MapsFollowScene
  BY DEF GeometryInv, MapsAgree, MapsFollowScene
<1> QED
  BY <1>2, <1>3, <1>4, PTL DEF GeometrySpec

=============================================================================
