--------------------------- MODULE Library_proofs ---------------------------
(***************************************************************************)
(* Proofs about parts MCLibrary puts side by side: FrameReuse, for any     *)
(* settings a session may begin with and any number of requests, exports   *)
(* and evictions; CalibrationStore, for any number of commands and         *)
(* requests, any packages and any number of mishaps; CollectGroups, for    *)
(* any tables of a package; CommandRun, for any arguments, directory and   *)
(* failure; PageFlow and PageControls, for any photos and any number of    *)
(* sessions and frames; PriorChoice, for any lookups; ReadoutScope, for    *)
(* any edits; FileFacts, for any facts a file may state.                   *)
(***************************************************************************)
EXTENDS FrameReuse, CalibrationStore, CollectGroups, CommandRun, PageFlow, PriorChoice, ReadoutScope,
        FileFacts, WellFoundedInduction, FiniteSetTheorems, SequenceTheorems, TLAPS

-----------------------------------------------------------------------------
(* Reuse of frames

   A frame is right although its parts were made for other requests: what is
   stored was made by some request of the same owner whose key is the same, and
   two such requests would make the same of it. *)

RealDials == [Dials -> 0..1]
\* The dials as run_preview and run_export go on with them.
NormalDials == {Normal(d) : d \in RealDials}

\* What a request for dials d stores when nothing was stored before.
FreshPixelKey(d, photo) == PixelKey(d, FreshEv(d, photo), AutoResult(d, photo))
FreshPixels(d, photo) == PixelsOf(d, photo, FreshPlan(d, photo), FreshEv(d, photo))
FreshItems(d, photo) ==
    {Item(d, "auto", AutoKey(d), AutoResult(d, photo)),
     Item(d, "plan", PlanKey(d), BasePlan(d, photo)),
     Item(d, "pixels", FreshPixelKey(d, photo), FreshPixels(d, photo)),
     Item(d, "histogram", HistogramKey(d), Histogram(d, photo)),
     Item(d, "frame", FrameKey(d, FreshPixelKey(d, photo), AutoResult(d, photo)),
          FreshFrame(d, photo))}

Entry(d, actual) == [decoded |-> DecodedAs(d), actual |-> actual]

\* A file has one proxy, of a decoder that could have made it.
ProxiesKept ==
    /\ \A e \in entries : \E d \in NormalDials : \E actual \in Actuals(d) : e = Entry(d, actual)
    /\ \A e, f \in entries : e.decoded = f.decoded => e = f

\* What is stored was made for some dials on a proxy that is still at hand.
StoredIn(held, items) ==
    \A i \in items : \E d \in NormalDials : \E actual \in Actuals(d) :
        Entry(d, actual) \in held /\ i \in FreshItems(d, SceneOf(d, actual))

ReuseInv == dials \in RealDials /\ ProxiesKept /\ StoredIn(entries, stored) /\ FramesFollowDials

-----------------------------------------------------------------------------
(* Dials and keys *)

\* Dials that agree on a set agree on every dial of it, and on its subsets.
LEMMA OnlyLess ==
  ASSUME NEW d, NEW e, NEW names, NEW fewer \in SUBSET names, Only(d, names) = Only(e, names)
  PROVE  /\ Only(d, fewer) = Only(e, fewer)
         /\ \A x \in names : d[x] = e[x]
<1>1. \A x \in names : d[x] = e[x]
  <2>1. SUFFICES ASSUME NEW x \in names PROVE d[x] = e[x]
    OBVIOUS
  <2>2. Only(d, names)[x] = d[x] /\ Only(e, names)[x] = e[x]
    BY DEF Only
  <2>3. QED BY <2>2
<1>2. \A x \in fewer : d[x] = e[x]
  BY <1>1
<1>3. QED BY <1>1, <1>2 DEF Only

\* Apple's decoder, and HDR, take the dials they do not have to one place; the
\* exposure, the balance and the decoder are left as they were.
LEMMA NormalShape ==
  ASSUME NEW d \in NormalDials
  PROVE  /\ d \in [Dials -> 0..2]
         /\ d["auto"] \in 0..1 /\ d["wb"] \in 0..1
         /\ DecodedAs(d) \in [DecodeDials -> 0..2]
         /\ Only(d, AutoDials) \in [AutoDials -> 0..1]
<1>1. PICK r \in RealDials : d = Normal(r)
  BY DEF NormalDials
<1>2. r \in [Dials -> 0..2]
  BY DEF RealDials
<1>3. {"highlight", "demosaic", "scale", "gamut", "auto", "wb", "decoder", "format"} \subseteq Dials
  BY DEF Dials, DecodeDials, AutoDials, PlanDials
<1>4. d \in [Dials -> 0..2]
  BY <1>1, <1>2, <1>3 DEF Normal
<1>5. \A x \in Dials : x \notin {"highlight", "demosaic", "scale", "gamut"} => d[x] = r[x]
  BY <1>1, <1>2, <1>3 DEF Normal
<1>6. d["gamut"] \in 0..1
  BY <1>1, <1>2, <1>3 DEF Normal, RealDials
<1>7. d["auto"] \in 0..1 /\ d["wb"] \in 0..1
  BY <1>5, <1>3 DEF RealDials
<1>8. \A x \in AutoDials : x \in Dials /\ d[x] \in 0..1
  BY <1>5, <1>6 DEF RealDials, Dials, AutoDials, PlanDials
<1>9. DecodedAs(d) \in [DecodeDials -> 0..2]
  BY <1>4 DEF DecodedAs, Only, Dials
<1>10. Only(d, AutoDials) \in [AutoDials -> 0..1]
  BY <1>8 DEF Only
<1>11. QED BY <1>4, <1>7, <1>9, <1>10

\* An automatic exposure's plan is never taken for the absence of one.
LEMMA AutomaticPlansTold ==
  ASSUME NEW d \in NormalDials, NEW e \in NormalDials, NEW actual \in {"asked", "fallback"}
  PROVE  AutoResult(d, SceneOf(e, actual)).plan # NoFrame
<1>1. SceneOf(e, actual) \in ScenesOfPlans
  BY NormalShape DEF SceneOf, ScenesOfPlans
<1>2. Only(d, AutoDials) \in [AutoDials -> 0..1]
  BY NormalShape
<1>3. AutoResult(d, SceneOf(e, actual)).plan
        \in [auto : ScenesOfPlans, by : [AutoDials -> 0..1]]
  BY <1>1, <1>2 DEF AutoResult
<1>4. QED BY <1>3, NoFrameAssumption

\* Dials that agree on the pixel key agree on the plan, the exposure and the
\* pixels, and on whether the exposure is automatic.
LEMMA PixelKeyTells ==
  ASSUME NEW d \in NormalDials, NEW e \in NormalDials, NEW actual \in {"asked", "fallback"},
         SceneOf(d, actual) = SceneOf(e, actual),
         FreshPixelKey(d, SceneOf(d, actual)) = FreshPixelKey(e, SceneOf(d, actual))
  PROVE  /\ d["auto"] = 1 <=> e["auto"] = 1
         /\ FreshPlan(d, SceneOf(d, actual)) = FreshPlan(e, SceneOf(d, actual))
         /\ FreshEv(d, SceneOf(d, actual)) = FreshEv(e, SceneOf(d, actual))
         /\ FreshPixels(d, SceneOf(d, actual)) = FreshPixels(e, SceneOf(d, actual))
         /\ Histogram(d, SceneOf(d, actual)) = Histogram(e, SceneOf(d, actual))
<1> DEFINE photo == SceneOf(d, actual)
           seen == RenderDials \cup {"punch", "endpoint", "adjust"}
           told(x) == IF x["auto"] = 1 THEN AutoResult(x, photo).plan ELSE NoFrame
<1>1. /\ Only(d, seen) = Only(e, seen)
      /\ FreshEv(d, photo) = FreshEv(e, photo)
      /\ told(d) = told(e)
  BY DEF FreshPixelKey, PixelKey
<1>2. AutoResult(d, photo).plan # NoFrame /\ AutoResult(e, photo).plan # NoFrame
  BY AutomaticPlansTold
<1>3. d["auto"] = 1 <=> e["auto"] = 1
  BY <1>1, <1>2
<1>4. /\ Only(d, PlanDials) = Only(e, PlanDials)
      /\ d["adjust"] = e["adjust"]
      /\ Only(d, RenderDials) = Only(e, RenderDials)
      /\ Only(d, HistogramDials) = Only(e, HistogramDials)
  <2>1. /\ PlanDials \subseteq seen /\ RenderDials \subseteq seen /\ HistogramDials \subseteq seen
        /\ "adjust" \in seen
    BY DEF PlanDials, RenderDials, HistogramDials
  <2> HIDE DEF seen
  <2>2. QED BY <1>1, <2>1, OnlyLess
<1>5. FreshPlan(d, photo) = FreshPlan(e, photo)
  <2>1. CASE d["auto"] = 1
    BY <2>1, <1>1, <1>3 DEF FreshPlan
  <2>2. CASE d["auto"] # 1
    BY <2>2, <1>3, <1>4 DEF FreshPlan, ManualPlan, BasePlan
  <2>3. QED BY <2>1, <2>2
<1>6. FreshPixels(d, photo) = FreshPixels(e, photo)
  BY <1>1, <1>4, <1>5 DEF FreshPixels, PixelsOf
<1>7. Histogram(d, photo) = Histogram(e, photo)
  BY <1>4 DEF Histogram
<1>8. QED BY <1>1, <1>3, <1>5, <1>6, <1>7

\* The keys tell apart what the dials make different: two requests that would
\* store something of a shot under one key would store the same.
LEMMA KeysTell ==
  ASSUME NEW d \in NormalDials, NEW e \in NormalDials, NEW actual \in {"asked", "fallback"},
         SceneOf(d, actual) = SceneOf(e, actual),
         NEW i \in FreshItems(d, SceneOf(d, actual)), NEW j \in FreshItems(e, SceneOf(d, actual)),
         i.kind = j.kind, i.key = j.key
  PROVE  i.value = j.value
<1> DEFINE photo == SceneOf(d, actual)
           exposed(x) == Item(x, "auto", AutoKey(x), AutoResult(x, photo))
           plan(x) == Item(x, "plan", PlanKey(x), BasePlan(x, photo))
           pixels(x) == Item(x, "pixels", FreshPixelKey(x, photo), FreshPixels(x, photo))
           histogram(x) == Item(x, "histogram", HistogramKey(x), Histogram(x, photo))
           framed(x) == Item(x, "frame", FrameKey(x, FreshPixelKey(x, photo), AutoResult(x, photo)),
                            FreshFrame(x, photo))
<1>1. CASE i = exposed(d) /\ j = exposed(e)
  <2>1. AutoKey(d) = AutoKey(e)
    BY <1>1 DEF Item
  <2>2. AutoResult(d, photo) = AutoResult(e, photo)
    BY <2>1 DEF AutoKey, AutoResult
  <2>3. QED BY <1>1, <2>2 DEF Item
<1>2. CASE i = plan(d) /\ j = plan(e)
  <2>1. PlanKey(d) = PlanKey(e)
    BY <1>2 DEF Item
  <2>2. BasePlan(d, photo) = BasePlan(e, photo)
    BY <2>1 DEF PlanKey, BasePlan, PlanDials
  <2>3. QED BY <1>2, <2>2 DEF Item
<1>3. CASE i = pixels(d) /\ j = pixels(e)
  <2>1. FreshPixelKey(d, photo) = FreshPixelKey(e, photo)
    BY <1>3 DEF Item
  <2>2. FreshPixels(d, photo) = FreshPixels(e, photo)
    BY <2>1, PixelKeyTells
  <2>3. QED BY <1>3, <2>2 DEF Item
<1>4. CASE i = histogram(d) /\ j = histogram(e)
  <2>1. HistogramKey(d) = HistogramKey(e)
    BY <1>4 DEF Item
  <2>2. Histogram(d, photo) = Histogram(e, photo)
    BY <2>1 DEF HistogramKey, Histogram, HistogramDials
  <2>3. QED BY <1>4, <2>2 DEF Item
<1>5. CASE i = framed(d) /\ j = framed(e)
  <2>1. /\ FreshPixelKey(d, photo) = FreshPixelKey(e, photo)
        /\ d["metrics"] = e["metrics"]
    BY <1>5 DEF Item, FrameKey
  <2>2. /\ d["auto"] = 1 <=> e["auto"] = 1
        /\ FreshPlan(d, photo) = FreshPlan(e, photo)
        /\ FreshEv(d, photo) = FreshEv(e, photo)
        /\ FreshPixels(d, photo) = FreshPixels(e, photo)
        /\ Histogram(d, photo) = Histogram(e, photo)
    BY <2>1, PixelKeyTells
  <2>3. FreshFrame(d, photo) = FreshFrame(e, photo)
    <3>1. \A x : FreshFrame(x, photo)
                   = Frame(x, FreshPixels(x, photo), FreshPlan(x, photo), FreshEv(x, photo),
                           Histogram(x, photo))
      BY DEF FreshFrame, FreshPixels
    <3>2. (d["auto"] = 1 /\ d["metrics"] = 1) = (e["auto"] = 1 /\ e["metrics"] = 1)
      BY <2>1, <2>2
    <3>3. QED BY <2>1, <2>2, <3>1, <3>2 DEF Frame
  <2>4. QED BY <1>5, <2>3 DEF Item
<1>6. /\ i \in {exposed(d), plan(d), pixels(d), histogram(d), framed(d)}
      /\ j \in {exposed(e), plan(e), pixels(e), histogram(e), framed(e)}
  BY DEF FreshItems
<1>7. \A x : /\ exposed(x).kind = "auto" /\ plan(x).kind = "plan" /\ pixels(x).kind = "pixels"
             /\ histogram(x).kind = "histogram" /\ framed(x).kind = "frame"
  BY DEF Item
<1> HIDE DEF exposed, plan, pixels, histogram, framed
<1>8. QED BY <1>1, <1>2, <1>3, <1>4, <1>5, <1>6, <1>7

-----------------------------------------------------------------------------
(* What is found in store *)

\* What is found was made on the one proxy of the file, hence of the same shot;
\* the key does the rest.
LEMMA FoundIsFresh ==
  ASSUME StoredIn(entries, stored), NEW d \in NormalDials, NEW actual \in Actuals(d),
         \A e \in entries : e.decoded = DecodedAs(d) => e.actual = actual,
         NEW i \in stored, i.owner = Owner(d),
         NEW made \in FreshItems(d, SceneOf(d, actual)), i.kind = made.kind, i.key = made.key
  PROVE  i.value = made.value
<1>0. PICK e \in NormalDials : \E other \in Actuals(e) :
        Entry(e, other) \in entries /\ i \in FreshItems(e, SceneOf(e, other))
  BY DEF StoredIn
<1>1. PICK other \in Actuals(e) :
        Entry(e, other) \in entries /\ i \in FreshItems(e, SceneOf(e, other))
  BY <1>0
<1>2. i.owner = Owner(e)
  BY <1>1 DEF FreshItems, Item
<1>3. DecodedAs(e) = DecodedAs(d) /\ e["wb"] = d["wb"]
  BY <1>2 DEF Owner
<1>4. other = actual
  BY <1>1, <1>3 DEF Entry
<1>5. SceneOf(e, actual) = SceneOf(d, actual)
  BY <1>3 DEF SceneOf
<1>6. actual \in {"asked", "fallback"}
  BY DEF Actuals
<1>7. QED BY <1>1, <1>4, <1>5, <1>6, KeysTell

\* A lookup yields what would be made without it.
LEMMA LookUpIsFresh ==
  ASSUME StoredIn(entries, stored), NEW d \in NormalDials, NEW actual \in Actuals(d),
         \A e \in entries : e.decoded = DecodedAs(d) => e.actual = actual,
         NEW kind, NEW key, NEW value,
         Item(d, kind, key, value) \in FreshItems(d, SceneOf(d, actual))
  PROVE  LookUp(d, kind, key, value) = value
<1> DEFINE made == Item(d, kind, key, value)
<1>1. made.kind = kind /\ made.key = key /\ made.value = value
  BY DEF Item
<1>2. \A i \in StoredFor(d, kind, key) : i.value = value
  <2>1. SUFFICES ASSUME NEW i \in StoredFor(d, kind, key) PROVE i.value = value
    OBVIOUS
  <2>2. i \in stored /\ i.kind = kind /\ i.owner = Owner(d) /\ i.key = key
    BY DEF StoredFor
  <2> HIDE DEF made
  <2>3. QED BY <1>1, <2>2, FoundIsFresh DEF made
<1>3. QED BY <1>2 DEF LookUp

\* The frame served is the fresh one, and what comes into store is fresh too.
LEMMA AnswerIsFresh ==
  ASSUME StoredIn(entries, stored), NEW d \in NormalDials, NEW actual \in Actuals(d),
         \A e \in entries : e.decoded = DecodedAs(d) => e.actual = actual,
         AnswerWith(d, SceneOf(d, actual),
                    LookUp(d, "auto", AutoKey(d), AutoResult(d, SceneOf(d, actual))))
  PROVE  /\ served' = FreshFrame(d, SceneOf(d, actual))
         /\ \A i \in stored' :
              \/ i \in stored /\ \E e \in entries' : e.decoded = i.owner[1]
              \/ i \in FreshItems(d, SceneOf(d, actual))
<1> DEFINE photo == SceneOf(d, actual)
           exposed == AutoResult(d, photo)
           ev == FreshEv(d, photo)
           plan == FreshPlan(d, photo)
           pixelKey == FreshPixelKey(d, photo)
           pixels == FreshPixels(d, photo)
           histogram == Histogram(d, photo)
           framed == FreshFrame(d, photo)
           frameKey == FrameKey(d, pixelKey, exposed)
           others == {i \in stored : \E e \in entries' : e.decoded = i.owner[1]}
<1>1. /\ Item(d, "auto", AutoKey(d), exposed) \in FreshItems(d, photo)
      /\ Item(d, "plan", PlanKey(d), BasePlan(d, photo)) \in FreshItems(d, photo)
      /\ Item(d, "pixels", pixelKey, pixels) \in FreshItems(d, photo)
      /\ Item(d, "histogram", HistogramKey(d), histogram) \in FreshItems(d, photo)
      /\ Item(d, "frame", frameKey, framed) \in FreshItems(d, photo)
  BY DEF FreshItems
<1>2. /\ LookUp(d, "auto", AutoKey(d), exposed) = exposed
      /\ LookUp(d, "plan", PlanKey(d), BasePlan(d, photo)) = BasePlan(d, photo)
      /\ LookUp(d, "pixels", pixelKey, pixels) = pixels
      /\ LookUp(d, "histogram", HistogramKey(d), histogram) = histogram
  BY <1>1, LookUpIsFresh
<1>3. \A i \in StoredFor(d, "frame", frameKey) : i.value = framed
  <2>1. SUFFICES ASSUME NEW i \in StoredFor(d, "frame", frameKey) PROVE i.value = framed
    OBVIOUS
  <2>2. i \in stored /\ i.kind = "frame" /\ i.owner = Owner(d) /\ i.key = frameKey
    BY DEF StoredFor
  <2>3. PICK made \in FreshItems(d, photo) : made = Item(d, "frame", frameKey, framed)
    BY <1>1
  <2>4. made.kind = "frame" /\ made.key = frameKey /\ made.value = framed
    BY <2>3 DEF Item
  <2> HIDE DEF photo, frameKey, framed
  <2>5. i.value = made.value
    BY <2>2, <2>4, FoundIsFresh DEF photo
  <2>6. QED BY <2>4, <2>5
<1>4. Answer(d, photo, ev, exposed, pixelKey)
  <2>1. ev = IF d["auto"] = 1 THEN exposed.ev ELSE d["ev"]
    BY DEF FreshEv
  <2>2. pixelKey = PixelKey(d, ev, exposed)
    BY DEF FreshPixelKey
  <2>3. AnswerWith(d, photo, exposed)
    BY <1>2
  <2> HIDE DEF photo, exposed, ev, pixelKey
  <2>4. QED BY <2>1, <2>2, <2>3 DEF AnswerWith, AnswerAt
<1>5. /\ plan = IF d["auto"] = 1 THEN exposed.plan ELSE ManualPlan(d, BasePlan(d, photo))
      /\ pixels = PixelsOf(d, photo, plan, ev)
      /\ framed = Frame(d, pixels, plan, ev, histogram)
  BY DEF FreshPlan, FreshPixels, FreshFrame
<1>6. \E items : /\ items \subseteq FreshItems(d, photo)
                 /\ Served(d, items, framed)
  <2> DEFINE exposure == IF d["auto"] = 1 THEN {Item(d, "auto", AutoKey(d), exposed)} ELSE {}
             more == exposure
                        \cup (IF d["auto"] = 1 THEN {} ELSE {Item(d, "plan", PlanKey(d), BasePlan(d, photo))})
                        \cup {Item(d, "pixels", pixelKey, pixels),
                              Item(d, "histogram", HistogramKey(d), histogram),
                              Item(d, "frame", frameKey, framed)}
             frames == StoredFor(d, "frame", frameKey)
  <2>1. exposure \subseteq FreshItems(d, photo) /\ more \subseteq FreshItems(d, photo)
    BY <1>1
  <2>2. IF frames # {} THEN Served(d, exposure, (CHOOSE i \in frames : TRUE).value)
                       ELSE Served(d, more, framed)
    <3> DEFINE base == LookUp(d, "plan", PlanKey(d), BasePlan(d, photo))
               chosen == IF d["auto"] = 1 THEN exposed.plan ELSE ManualPlan(d, base)
               picture == LookUp(d, "pixels", pixelKey, PixelsOf(d, photo, chosen, ev))
               counted == LookUp(d, "histogram", HistogramKey(d), Histogram(d, photo))
               reply == Frame(d, picture, chosen, ev, counted)
    <3>1. base = BasePlan(d, photo) /\ counted = histogram
      BY <1>2
    <3>2. chosen = plan
      BY <1>5, <3>1
    <3>3. picture = pixels
      <4>1. PixelsOf(d, photo, chosen, ev) = pixels
        <5> HIDE DEF chosen, photo, plan, pixels, ev
        <5>1. QED BY <1>5, <3>2
      <4>2. Item(d, "pixels", pixelKey, PixelsOf(d, photo, chosen, ev)) \in FreshItems(d, photo)
        <5> HIDE DEF chosen, photo, pixels, ev, pixelKey
        <5>1. QED BY <1>1, <4>1
      <4>3. picture = PixelsOf(d, photo, chosen, ev)
        <5> HIDE DEF chosen, ev, pixelKey
        <5>1. QED BY <4>2, LookUpIsFresh
      <4>4. QED BY <4>1, <4>3
    <3>4. reply = framed
      <4> HIDE DEF picture, chosen, ev, counted, framed, pixels, plan, histogram
      <4>1. QED BY <1>5, <3>1, <3>2, <3>3
    <3>5. IF frames # {}
            THEN Served(d, exposure, (CHOOSE i \in frames : TRUE).value)
            ELSE Served(d, exposure
                             \cup (IF d["auto"] = 1 THEN {} ELSE {Item(d, "plan", PlanKey(d), base)})
                             \cup {Item(d, "pixels", pixelKey, picture),
                                   Item(d, "histogram", HistogramKey(d), counted),
                                   Item(d, "frame", frameKey, reply)}, reply)
      <4> HIDE DEF photo, exposed, ev, pixelKey
      <4>1. QED BY <1>4 DEF Answer
    <3> HIDE DEF photo, exposed, ev, plan, pixelKey, pixels, histogram, framed, frames, frameKey, base,
                 chosen, picture, counted, reply, exposure
    <3>6. QED BY <3>1, <3>3, <3>4, <3>5 DEF Served
  <2>3. frames # {} => (CHOOSE i \in frames : TRUE).value = framed
    <3> HIDE DEF framed, frameKey
    <3>1. QED BY <1>3
  <2> HIDE DEF exposure, more, frames, photo, framed
  <2>4. QED BY <2>1, <2>2, <2>3
<1>7. QED BY <1>6 DEF Served

-----------------------------------------------------------------------------
(* The steps *)

\* Turning a dial, or none, stays among the dials.
LEMMA DialsStay ==
  ASSUME ReuseInv, NEW d \in {dials} \cup Turned(dials)
  PROVE  d \in RealDials /\ Normal(d) \in NormalDials
<1>1. dials \in [Dials -> 0..1]
  BY DEF ReuseInv, RealDials
<1>2. CASE d \in Turned(dials)
  <2>1. PICK x \in Dials : d = [dials EXCEPT ![x] = 1 - dials[x]]
    BY <1>2 DEF Turned
  <2>2. 1 - dials[x] \in 0..1
    BY <1>1
  <2>3. d \in [Dials -> 0..1]
    BY <1>1, <2>1, <2>2
  <2>4. QED BY <2>3 DEF RealDials, NormalDials
<1>3. CASE d = dials
  BY <1>3 DEF ReuseInv, NormalDials
<1>4. QED BY <1>2, <1>3

\* Once a file has a proxy, whatever decodes it turns out as the proxy did.
LEMMA DecodesAgree ==
  ASSUME ProxiesKept, NEW d \in NormalDials,
         NEW actual \in Decodes(d, {e \in entries : e.decoded = DecodedAs(d)})
  PROVE  /\ actual \in Actuals(d)
         /\ \A e \in entries : e.decoded = DecodedAs(d) => e.actual = actual
<1> DEFINE held == {e \in entries : e.decoded = DecodedAs(d)}
<1>1. CASE held = {}
  BY <1>1 DEF Decodes
<1>2. CASE held # {}
  <2>1. PICK e \in entries : e.decoded = DecodedAs(d) /\ actual = e.actual
    BY <1>2 DEF Decodes
  <2>2. PICK f \in NormalDials : \E other \in Actuals(f) : e = Entry(f, other)
    BY DEF ProxiesKept
  <2>3. DecodedAs(f) = DecodedAs(d) /\ actual \in Actuals(f)
    BY <2>1, <2>2 DEF Entry
  <2>4. f["decoder"] = d["decoder"] /\ f["version"] = d["version"]
    <3>1. "decoder" \in DecodeDials /\ "version" \in DecodeDials
      BY DEF DecodeDials
    <3>2. Only(f, DecodeDials) = Only(d, DecodeDials)
      BY <2>3 DEF DecodedAs
    <3>3. QED BY <3>1, <3>2, OnlyLess
  <2>5. actual \in Actuals(d)
    BY <2>3, <2>4 DEF Actuals
  <2>6. QED BY <2>1, <2>5 DEF ProxiesKept
<1>3. QED BY <1>1, <1>2

\* A preview adds the proxy of its file, and what it stores is fresh.
LEMMA AskKeeps ==
  ASSUME ReuseInv, NEW d \in {dials} \cup Turned(dials), dials' = d, Ask(Normal(d))
  PROVE  ReuseInv'
<1> DEFINE n == Normal(d)
<1>1. d \in RealDials /\ n \in NormalDials
  BY DialsStay
<1> HIDE DEF n
<1>2. PICK actual \in Decodes(n, {e \in entries : e.decoded = DecodedAs(n)}) :
        /\ entries' = entries \cup {[decoded |-> DecodedAs(n), actual |-> actual]}
        /\ AnswerWith(n, SceneOf(n, actual),
                      LookUp(n, "auto", AutoKey(n), AutoResult(n, SceneOf(n, actual))))
  BY DEF Ask, n
<1>3. /\ actual \in Actuals(n)
      /\ \A e \in entries : e.decoded = DecodedAs(n) => e.actual = actual
  BY <1>1, DecodesAgree DEF ReuseInv
<1>4. /\ served' = FreshFrame(n, SceneOf(n, actual))
      /\ \A i \in stored' :
           \/ i \in stored /\ \E e \in entries' : e.decoded = i.owner[1]
           \/ i \in FreshItems(n, SceneOf(n, actual))
  BY <1>1, <1>2, <1>3, AnswerIsFresh DEF ReuseInv
<1>5. entries' = entries \cup {Entry(n, actual)}
  BY <1>2 DEF Entry
<1>6. ProxiesKept'
  <2>1. \A e \in entries' : \E x \in NormalDials : \E a \in Actuals(x) : e = Entry(x, a)
    BY <1>1, <1>3, <1>5 DEF ReuseInv, ProxiesKept
  <2>2. ASSUME NEW e \in entries', NEW f \in entries', e.decoded = f.decoded
        PROVE  e = f
    <3>1. CASE e \in entries /\ f \in entries
      BY <2>2, <3>1 DEF ReuseInv, ProxiesKept
    <3>2. ASSUME NEW g \in entries, g.decoded = DecodedAs(n)
          PROVE  g = Entry(n, actual)
      <4>1. PICK x \in NormalDials : \E a \in Actuals(x) : g = Entry(x, a)
        BY DEF ReuseInv, ProxiesKept
      <4>2. g.actual = actual
        BY <1>3, <3>2
      <4>3. QED BY <3>2, <4>1, <4>2 DEF Entry
    <3>3. Entry(n, actual).decoded = DecodedAs(n)
      BY DEF Entry
    <3>4. QED BY <1>5, <2>2, <3>1, <3>2, <3>3
  <2>3. QED BY <2>1, <2>2 DEF ProxiesKept
<1>7. StoredIn(entries', stored')
  <2>1. Entry(n, actual) \in entries' /\ entries \subseteq entries'
    BY <1>5
  <2>2. StoredIn(entries, stored)
    BY DEF ReuseInv
  <2>3. QED BY <1>1, <1>3, <1>4, <2>1, <2>2 DEF StoredIn
<1>8. FrameOfItsDials'
  BY <1>3, <1>4 DEF FrameOfItsDials, n
<1>9. ExportAsShown'
  <2>1. files' = files
    BY DEF Ask
  <2>2. QED BY <2>1 DEF ReuseInv, FramesFollowDials, ExportAsShown
<1>10. QED BY <1>1, <1>6, <1>7, <1>8, <1>9 DEF ReuseInv, FramesFollowDials

\* An export is decoded as the proxy was, and its analysis is of that decode.
LEMMA ExportKeeps ==
  ASSUME ReuseInv, NEW d \in {dials} \cup Turned(dials), dials' = d, Export(Normal(d))
  PROVE  ReuseInv'
<1> DEFINE n == Normal(d)
           held == {e \in entries : e.decoded = DecodedAs(n)}
<1>1. d \in RealDials /\ n \in NormalDials
  BY DialsStay
<1>2. PICK actual \in Decodes(n, held) :
        /\ files' = {f \in files : f.name # File(n, actual, held).name} \cup {File(n, actual, held)}
        /\ served' = NoFrame
        /\ entries' = entries /\ stored' = stored
  BY DEF Export, ExportWith, ExportOver
<1> HIDE DEF n
<1>3. \A e \in held : e.actual = actual
  BY <1>1, DecodesAgree DEF ReuseInv
<1>4. AnalysisFor(n, held, actual) = Analysis(n, actual)
  <2>1. CASE n["png"] = 0 /\ n["wb"] = 0 /\ \E e \in held : e.actual = actual
    <3>1. (CHOOSE e \in held : TRUE) \in held
      BY <2>1
    <3>2. ProxyAnalysis(n, CHOOSE e \in held : TRUE) = Analysis(n, actual)
      BY <1>3, <2>1, <3>1 DEF ProxyAnalysis
    <3>3. QED BY <2>1, <3>2 DEF AnalysisFor
  <2>2. CASE ~(n["png"] = 0 /\ n["wb"] = 0 /\ \E e \in held : e.actual = actual)
    BY <2>2 DEF AnalysisFor
  <2>3. QED BY <2>1, <2>2
<1>5. /\ File(n, actual, held).shown = {e.actual : e \in held}
      /\ File(n, actual, held).pixels.of.actual = actual
      /\ File(n, actual, held).pixels.of.decoded = DecodedAs(n)
      /\ File(n, actual, held).analysis = AnalysisFor(n, held, actual)
  BY DEF File, Rendered, PixelsOf, SceneOf
<1>6. ASSUME NEW f \in files'
      PROVE  /\ f.shown # {} => f.pixels.of.actual \in f.shown
             /\ f.analysis = [decoded |-> f.pixels.of.decoded, actual |-> f.pixels.of.actual, of |-> "frame"]
  <2>1. CASE f \in files
    BY <2>1 DEF ReuseInv, FramesFollowDials, ExportAsShown
  <2>2. CASE f = File(n, actual, held)
    BY <1>3, <1>4, <1>5, <2>2 DEF Analysis
  <2>3. QED BY <1>2, <2>1, <2>2
<1>7. ExportAsShown'
  BY <1>6 DEF ExportAsShown
<1>8. FrameOfItsDials'
  BY <1>2 DEF FrameOfItsDials
<1>9. ProxiesKept' /\ StoredIn(entries', stored')
  BY <1>2 DEF ReuseInv, ProxiesKept
<1>10. QED BY <1>1, <1>7, <1>8, <1>9 DEF ReuseInv, FramesFollowDials

\* To evict or to forget leaves less of the same.
LEMMA LosingKeeps ==
  ASSUME ReuseInv, Evict \/ Forget
  PROVE  ReuseInv'
<1>1. /\ stored' \subseteq stored /\ entries' \subseteq entries
      /\ entries' = entries \/ stored' = {}
      /\ UNCHANGED <<dials, served, files>>
  BY DEF Evict, Forget
<1>2. ProxiesKept' /\ StoredIn(entries', stored')
  BY <1>1 DEF ReuseInv, ProxiesKept, StoredIn
<1>3. FrameOfItsDials' /\ ExportAsShown'
  BY <1>1 DEF ReuseInv, FramesFollowDials, FrameOfItsDials, ExportAsShown
<1>4. QED BY <1>1, <1>2, <1>3 DEF ReuseInv, FramesFollowDials

\* Whatever earlier requests stored, and whatever of it was evicted, what is kept
\* in store is what the dials of the request would make anew.
THEOREM ReuseInvariant == ReuseSpec => []ReuseInv
<1>1. ReuseInit => ReuseInv
  <2> SUFFICES ASSUME ReuseInit PROVE ReuseInv
    OBVIOUS
  <2>1. dials \in RealDials
    BY SettingsAssumption DEF ReuseInit, ReuseFrom, RealDials
  <2>2. ProxiesKept /\ StoredIn(entries, stored)
    BY DEF ReuseInit, ReuseFrom, ProxiesKept, StoredIn
  <2>3. FramesFollowDials
    BY DEF ReuseInit, ReuseFrom, FramesFollowDials, FrameOfItsDials, ExportAsShown
  <2>4. QED BY <2>1, <2>2, <2>3 DEF ReuseInv
<1>2. ReuseInv /\ [ReuseNext]_reuseVars => ReuseInv'
  <2> SUFFICES ASSUME ReuseInv, [ReuseNext]_reuseVars PROVE ReuseInv'
    OBVIOUS
  <2>1. ASSUME NEW d \in {dials} \cup Turned(dials), dials' = d, Ask(Normal(d)) PROVE ReuseInv'
    BY <2>1, AskKeeps
  <2>2. ASSUME NEW d \in {dials} \cup Turned(dials), dials' = d, Export(Normal(d)) PROVE ReuseInv'
    BY <2>2, ExportKeeps
  <2>3. CASE Evict \/ Forget
    BY <2>3, LosingKeeps
  <2>4. CASE UNCHANGED reuseVars
    BY <2>4 DEF reuseVars, ReuseInv, ProxiesKept, FramesFollowDials, FrameOfItsDials, ExportAsShown
  <2>5. QED BY <2>1, <2>2, <2>3, <2>4 DEF ReuseNext
<1>3. QED BY <1>1, <1>2, PTL DEF ReuseSpec

\* However requests, exports and evictions follow one another, a frame is the one
\* its own dials would make from nothing, and a file is decoded as its preview was
\* and analysed on its own decode.
THEOREM FramesAlwaysFollowDials == ReuseSpec => []FramesFollowDials
<1>1. ReuseInv => FramesFollowDials
  BY DEF ReuseInv
<1>2. QED BY <1>1, ReuseInvariant, PTL

-----------------------------------------------------------------------------
(* The calibration store

   The commands share the directory of records and nothing else; EditInv says
   what each knows of the records while it edits them, and what an activation
   that has read a record may still write back. *)

PackageGroups == Ids \cup {Unusable}
Records == [kind : {"record"}, payload : Ids, active : BOOLEAN, stamp : Nat]
Editing == {"groups", "temporary", "replace"}
Places == {"idle", "files", "generations"} \cup Editing \cup Over
States ==
    [at : Places, op : {"none", "import", "activate", "remove"}, todo : Seq(PackageGroups), id : PackageGroups,
     record : Records \cup {Absent}]

Types ==
    /\ store \in [Ids -> Records \cup {Absent}]
    /\ cmd \in [Commands -> States]
    /\ temporaries \subseteq Commands /\ directories \subseteq FromGui /\ stale \subseteq Commands
    /\ clock \in Nat
    /\ history \in [removed : SUBSET Ids, newest : [Ids -> Nat]]

\* A record lies under the digest of its payload, and is written there.
NamedForPayload ==
    /\ \A i \in Ids : store[i] \in Records => store[i].payload = i
    /\ \A c \in Commands :
         /\ cmd[c].record \in Records => cmd[c].record.payload = cmd[c].id
         /\ Is(c, "temporary") \/ Is(c, "replace") => cmd[c].record \in Records

\* An import has a group left to import when it writes a record of it.
Importing(state) == state.op = "import" /\ state.todo # <<>>

\* Where a command has a temporary or the files it was sent, and what it is doing
\* when it writes.
Tidy ==
    /\ \A c \in temporaries : Is(c, "replace") \/ Is(c, "killed")
    /\ \A c \in directories : Is(c, "files") \/ (cmd[c].op = "import" /\ cmd[c].at \in Editing)
    /\ \A c \in Commands :
         /\ Is(c, "groups") => cmd[c].op = "import"
         /\ Is(c, "temporary") \/ Is(c, "replace") => cmd[c].op = "activate" \/ Importing(cmd[c])

\* An activation under way holds a record that may be written back: it is as
\* young as the last import, and nobody counts on its removal.
ReadsRemembered ==
    /\ \A i \in Ids : i \in history.removed => store[i] = Absent /\ ~ReadBy(i)
    /\ \A i \in Ids : store[i] \in Records => store[i].stamp >= history.newest[i]
    /\ \A c \in Commands :
         cmd[c].op = "activate" /\ (Is(c, "temporary") \/ Is(c, "replace"))
           => cmd[c].record.stamp >= history.newest[cmd[c].id]

EditInv == Types /\ NamedForPayload /\ Tidy /\ ReadsRemembered /\ EditsForgetPreviews

-----------------------------------------------------------------------------
(* Steps that leave the records alone *)

\* There is no record where there is none.
LEMMA AbsentIsNoRecord == Absent \notin Records /\ Absent.kind = "absent"
  BY DEF Absent, Records

\* A command that becomes something, while the others stay as they are.
LEMMA OneBecomes ==
  ASSUME Types, NEW c \in Commands, NEW new \in States, Becomes(c, new)
  PROVE  /\ cmd' \in [Commands -> States]
         /\ cmd'[c] = new
         /\ \A d \in Commands : d # c => cmd'[d] = cmd[d]
  BY DEF Types, Becomes

\* What a command may become while no record changes: nothing it writes later is
\* older than the last import, and it leaves no file it does not account for.
Allowed(c, new) ==
    /\ new.record \in Records => new.record.payload = new.id
    /\ new.at \in {"temporary", "replace"} => new.record \in Records
    /\ new.at = "groups" => new.op = "import"
    /\ new.at \in {"temporary", "replace"} => new.op = "activate" \/ Importing(new)
    /\ new.op = "activate" /\ new.at \in {"temporary", "replace"} =>
         new.id \notin history.removed /\ new.record.stamp >= history.newest[new.id]
    /\ temporaries' \subseteq temporaries \cup {c}
    /\ c \in temporaries' => new.at \in {"replace", "killed"}
    /\ directories' \subseteq directories \cup ({c} \cap FromGui)
    /\ c \in directories' => new.at = "files" \/ (new.op = "import" /\ new.at \in Editing)
    /\ stale' \subseteq stale
    /\ c \in stale' /\ c \in FromGui => new.at # "answered"

\* Such a step keeps the invariant.
LEMMA QuietStep ==
  ASSUME EditInv, NEW c \in Commands, NEW new \in States, Becomes(c, new), Allowed(c, new),
         clock' \in Nat, UNCHANGED <<store, history>>
  PROVE  EditInv'
<1>1. /\ cmd' \in [Commands -> States]
      /\ cmd'[c] = new
      /\ \A d \in Commands : d # c => cmd'[d] = cmd[d]
  BY OneBecomes DEF EditInv
<1>2. Types'
  BY <1>1 DEF EditInv, Types, Allowed
<1>3. NamedForPayload'
  <2>1. \A i \in Ids : store'[i] \in Records => store'[i].payload = i
    BY DEF EditInv, NamedForPayload
  <2>2. ASSUME NEW d \in Commands
        PROVE  /\ cmd'[d].record \in Records => cmd'[d].record.payload = cmd'[d].id
               /\ cmd'[d].at \in {"temporary", "replace"} => cmd'[d].record \in Records
    <3>1. CASE d = c
      BY <1>1, <3>1 DEF Allowed
    <3>2. CASE d # c
      BY <1>1, <3>2 DEF EditInv, NamedForPayload, Is
    <3>3. QED BY <3>1, <3>2
  <2>3. QED BY <2>1, <2>2 DEF NamedForPayload, Is
<1>4. Tidy'
  <2>1. ASSUME NEW d \in temporaries' PROVE cmd'[d].at \in {"replace", "killed"}
    <3>1. CASE d = c
      BY <1>1, <3>1 DEF Allowed
    <3>2. CASE d # c
      BY <1>1, <3>2 DEF EditInv, Types, Tidy, Is, Allowed
    <3>3. QED BY <3>1, <3>2
  <2>2. ASSUME NEW d \in directories'
        PROVE  cmd'[d].at = "files" \/ (cmd'[d].op = "import" /\ cmd'[d].at \in Editing)
    <3>1. CASE d = c
      BY <1>1, <3>1 DEF Allowed
    <3>2. CASE d # c
      BY <1>1, <3>2, StoreAssumption DEF EditInv, Types, Tidy, Is, Allowed
    <3>3. QED BY <3>1, <3>2
  <2>3. ASSUME NEW d \in Commands
        PROVE  /\ cmd'[d].at = "groups" => cmd'[d].op = "import"
               /\ cmd'[d].at \in {"temporary", "replace"} => cmd'[d].op = "activate" \/ Importing(cmd'[d])
    <3>1. CASE d = c
      BY <1>1, <3>1 DEF Allowed
    <3>2. CASE d # c
      BY <1>1, <3>2 DEF EditInv, Tidy, Is
    <3>3. QED BY <3>1, <3>2
  <2>4. QED BY <2>1, <2>2, <2>3 DEF Tidy, Is
<1>5. ReadsRemembered'
  <2>1. ASSUME NEW d \in Commands, cmd'[d].op = "activate", cmd'[d].at \in {"temporary", "replace"}
        PROVE  /\ cmd'[d].id \notin history.removed
               /\ cmd'[d].record.stamp >= history.newest[cmd'[d].id]
    <3>1. CASE d = c
      BY <1>1, <2>1, <3>1 DEF Allowed
    <3>2. CASE d # c
      <4>1. cmd[d] = cmd'[d]
        BY <1>1, <3>2
      <4>2. ReadBy(cmd[d].id)
        BY <2>1, <4>1 DEF ReadBy
      <4>3. history.removed \subseteq Ids
        BY DEF EditInv, Types
      <4>4. QED BY <2>1, <4>1, <4>2, <4>3 DEF EditInv, ReadsRemembered, Is
    <3>3. QED BY <3>1, <3>2
  <2>2. \A i \in Ids : i \in history.removed => store[i] = Absent /\ ~ReadBy(i)'
    BY <2>1 DEF EditInv, ReadsRemembered, ReadBy
  <2>3. QED BY <2>1, <2>2 DEF EditInv, ReadsRemembered, Is
<1>6. EditsForgetPreviews'
  <2>1. ASSUME NEW d \in stale', d \in FromGui PROVE cmd'[d].at # "answered"
    <3>1. CASE d = c
      BY <1>1, <2>1, <3>1 DEF Allowed
    <3>2. CASE d # c
      BY <1>1, <2>1, <3>2 DEF EditInv, Types, EditsForgetPreviews, Is, Allowed
    <3>3. QED BY <3>1, <3>2
  <2>2. QED BY <2>1 DEF EditsForgetPreviews, Is
<1>7. QED BY <1>2, <1>3, <1>4, <1>5, <1>6 DEF EditInv

\* A command that has not begun.
LEMMA NoCommandStands == NoCommand \in States /\ NoCommand.record = Absent
<1>1. <<>> \in Seq(PackageGroups)
  OBVIOUS
<1>2. QED BY <1>1 DEF NoCommand, States, Places, PackageGroups

\* A command that is over has given back everything but what a kill left.
LEMMA LeavingKeeps ==
  ASSUME EditInv, NEW c \in Commands, NEW place \in Over, Leaves(c, place),
         temporaries' \subseteq temporaries, c \in temporaries' => place = "killed",
         directories' \subseteq directories \ {c}, stale' \subseteq stale,
         c \in stale' /\ c \in FromGui => place # "answered",
         clock' = clock, UNCHANGED <<store, history>>
  PROVE  EditInv'
<1> DEFINE new == [cmd[c] EXCEPT !.at = place, !.id = Unusable, !.record = Absent, !.todo = <<>>]
<1>1. cmd[c] \in States
  BY DEF EditInv, Types
<1>2. new \in States /\ new.at = place /\ new.record = Absent
  <2> DEFINE named == [cmd[c] EXCEPT !.at = place, !.id = Unusable]
             bare == [named EXCEPT !.record = Absent]
  <2>1. named \in States /\ named.at = place
    BY <1>1 DEF States, Places, PackageGroups
  <2>2. bare \in States /\ bare.at = place /\ bare.record = Absent
    <3> HIDE DEF named
    <3>1. QED BY <2>1 DEF States
  <2>3. [bare EXCEPT !.todo = <<>>] = new
    BY <1>1 DEF States
  <2>4. <<>> \in Seq(PackageGroups)
    OBVIOUS
  <2> HIDE DEF bare, new
  <2>5. QED BY <2>2, <2>3, <2>4 DEF States
<1>3. Becomes(c, new)
  BY DEF Leaves
<1>4. place \notin {"files", "groups", "temporary", "replace"}
  BY DEF Over
<1> HIDE DEF new
<1>5. Allowed(c, new)
  BY <1>2, <1>4, AbsentIsNoRecord DEF Allowed
<1>6. QED BY <1>2, <1>3, <1>5, QuietStep DEF EditInv, Types

\* The files of a request are written, or refused.
LEMMA ReadFilesKeeps ==
  ASSUME EditInv, NEW c \in Commands, ReadFiles(c)
  PROVE  EditInv'
<1>1. cmd[c] \in States /\ cmd[c].at = "idle" /\ c \in FromGui
  BY DEF EditInv, Types, ReadFiles, Is
<1>2. c \notin temporaries /\ c \notin directories /\ Absent \notin Records
  BY <1>1, AbsentIsNoRecord DEF EditInv, Tidy, Is, Editing
<1>3. CASE directories' = directories \cup {c} /\ Reaches(c, "files")
  <2> DEFINE new == [cmd[c] EXCEPT !.at = "files"]
  <2>1. new \in States /\ new.at = "files" /\ new.record = cmd[c].record /\ new.id = cmd[c].id
    BY <1>1 DEF States, Places
  <2>2. Becomes(c, new)
    BY <1>1, <1>3 DEF Reaches, Becomes, EditInv, Types
  <2>3. cmd[c].record \in Records => cmd[c].record.payload = cmd[c].id
    BY DEF EditInv, NamedForPayload
  <2> HIDE DEF new
  <2>4. Allowed(c, new)
    BY <1>1, <1>2, <1>3, <2>1, <2>3 DEF ReadFiles, Allowed
  <2>5. QED BY <2>1, <2>2, <2>4, QuietStep DEF ReadFiles, EditInv, Types
<1>4. CASE Leaves(c, "raised") /\ UNCHANGED directories
  <2>1. "raised" \in Over
    BY DEF Over
  <2>2. QED BY <1>2, <1>4, <2>1, LeavingKeeps DEF ReadFiles
<1>5. QED BY <1>3, <1>4 DEF ReadFiles

\* Failing, being killed and forgetting the previews end a command.
LEMMA EndsKeep ==
  ASSUME EditInv, NEW c \in Commands, CommandFails(c) \/ Kill(c) \/ Invalidate(c)
  PROVE  EditInv'
<1>1. {"raised", "killed", "answered"} \subseteq Over
  BY DEF Over
<1>2. CASE CommandFails(c)
  BY <1>1, <1>2, LeavingKeeps DEF CommandFails
<1>3. CASE Kill(c)
  <2>1. c \notin directories
    BY <1>3 DEF Kill, EditInv, Types
  <2>2. QED BY <1>1, <1>3, <2>1, LeavingKeeps DEF Kill
<1>4. CASE Invalidate(c)
  <2>1. cmd[c].at = "generations"
    BY <1>4 DEF Invalidate, Is
  <2>2. c \notin temporaries /\ c \notin directories
    BY <2>1 DEF EditInv, Tidy, Is, Editing
  <2>3. QED BY <1>1, <1>4, <2>2, LeavingKeeps DEF Invalidate
<1>5. QED BY <1>2, <1>3, <1>4

\* The groups of an import are found, left out, made records of, and come to an
\* end; a temporary is written.
LEMMA ImportKeeps ==
  ASSUME EditInv, NEW c \in Commands,
         BeginImport(c) \/ SkipGroup(c) \/ InstallPayload(c) \/ EndImport(c) \/ WriteTemporary(c)
  PROVE  EditInv'
<1>1. cmd[c] \in States /\ Absent \notin Records
  BY AbsentIsNoRecord DEF EditInv, Types
<1>2. /\ cmd[c].record \in Records => cmd[c].record.payload = cmd[c].id
      /\ cmd[c].at = "groups" => cmd[c].op = "import"
      /\ cmd[c].at = "temporary" =>
           cmd[c].record \in Records /\ (cmd[c].op = "activate" \/ Importing(cmd[c]))
      /\ c \in temporaries => cmd[c].at \in {"replace", "killed"}
      /\ c \in directories => cmd[c].at = "files" \/ (cmd[c].op = "import" /\ cmd[c].at \in Editing)
      /\ c \in stale /\ c \in FromGui => cmd[c].at # "answered"
  BY DEF EditInv, NamedForPayload, Tidy, EditsForgetPreviews, Is
<1>3. clock \in Nat
  BY DEF EditInv, Types
<1>4. CASE BeginImport(c)
  <2>1. PICK imported \in Packages :
          Becomes(c, [NoCommand EXCEPT !.at = "groups", !.op = "import", !.todo = imported])
    BY <1>4 DEF BeginImport
  <2> DEFINE new == [NoCommand EXCEPT !.at = "groups", !.op = "import", !.todo = imported]
  <2>2. imported \in Seq(PackageGroups)
    BY StoreAssumption DEF PackageGroups
  <2>3. \E began : /\ began \in States /\ began.at = "groups" /\ began.op = "import"
                   /\ began.record = Absent /\ new = [began EXCEPT !.todo = imported]
    <3> DEFINE began == [NoCommand EXCEPT !.at = "groups", !.op = "import"]
    <3>1. began \in States /\ began.at = "groups" /\ began.op = "import" /\ began.record = Absent
      BY NoCommandStands DEF States, Places, Editing
    <3>2. new = [began EXCEPT !.todo = imported]
      BY NoCommandStands DEF States
    <3> HIDE DEF began, new
    <3>3. QED BY <3>1, <3>2
  <2>4. new \in States /\ new.at = "groups" /\ new.op = "import" /\ new.record = Absent
    <3> HIDE DEF new
    <3>1. QED BY <2>2, <2>3 DEF States
  <2>5. cmd[c].at \in {"files", "idle"}
    BY <1>4 DEF BeginImport, Is
  <2>6. "groups" \in Editing /\ c \notin temporaries
    BY <1>2, <2>5 DEF Editing
  <2> HIDE DEF new
  <2>7. Allowed(c, new)
    BY <1>1, <1>4, <2>4, <2>6 DEF BeginImport, Allowed
  <2>8. QED BY <1>3, <1>4, <2>1, <2>4, <2>7, QuietStep DEF BeginImport, new
<1>5. CASE SkipGroup(c)
  <2> DEFINE new == [cmd[c] EXCEPT !.todo = Tail(@)]
  <2>1. Tail(cmd[c].todo) \in Seq(PackageGroups)
    BY <1>1, <1>5 DEF SkipGroup, States
  <2>2. /\ new \in States /\ new.at = "groups" /\ new.op = cmd[c].op
        /\ new.record = cmd[c].record /\ new.id = cmd[c].id
    BY <1>1, <1>5, <2>1 DEF SkipGroup, States, Is
  <2>3. Becomes(c, new)
    BY <1>5 DEF SkipGroup
  <2>4. cmd[c].at = "groups" /\ "groups" \in Editing
    BY <1>5 DEF SkipGroup, Is, Editing
  <2> HIDE DEF new
  <2>5. Allowed(c, new)
    BY <1>2, <1>5, <2>2, <2>4 DEF SkipGroup, Allowed
  <2>6. QED BY <1>3, <1>5, <2>2, <2>3, <2>5, QuietStep DEF SkipGroup
<1>6. CASE InstallPayload(c)
  <2> DEFINE id == Head(cmd[c].todo)
             record == Record(id, TRUE, clock')
             new == [cmd[c] EXCEPT !.at = "temporary", !.id = id, !.record = record]
             placed == [cmd[c] EXCEPT !.at = "temporary", !.id = id]
  <2>1. id \in Ids
    BY <1>1, <1>6 DEF InstallPayload, States, PackageGroups
  <2>2. clock' \in Nat
    BY <1>3, <1>6 DEF InstallPayload
  <2>3. record \in Records /\ record.payload = id
    BY <2>1, <2>2 DEF Record, Records
  <2>4. /\ placed \in States /\ placed.at = "temporary" /\ placed.id = id /\ placed.op = cmd[c].op
        /\ placed.todo = cmd[c].todo /\ cmd[c].todo # <<>>
    BY <1>1, <1>6, <2>1 DEF InstallPayload, States, Places, Editing, PackageGroups
  <2>5. new = [placed EXCEPT !.record = record]
    BY <1>1 DEF States
  <2>6. Becomes(c, new)
    BY <1>6 DEF InstallPayload
  <2>7. cmd[c].at = "groups" /\ {"groups", "temporary"} \subseteq Editing
    BY <1>6 DEF InstallPayload, Is, Editing
  <2> HIDE DEF id, record, placed
  <2>8. /\ new \in States /\ new.at = "temporary" /\ new.id = id /\ new.op = "import"
        /\ new.record = record /\ Importing(new)
    BY <1>2, <2>3, <2>4, <2>5, <2>7 DEF States, Importing
  <2> HIDE DEF new
  <2>9. Allowed(c, new)
    BY <1>2, <1>6, <2>3, <2>7, <2>8 DEF InstallPayload, Allowed
  <2>10. QED BY <1>6, <2>2, <2>6, <2>8, <2>9, QuietStep DEF InstallPayload
<1>7. CASE EndImport(c)
  <2> DEFINE new == [cmd[c] EXCEPT !.at = Edited(c)]
  <2>1. Edited(c) \in {"generations", "answered"} /\ (c \in FromGui => Edited(c) # "answered")
    BY DEF Edited
  <2>2. /\ new \in States /\ new.at = Edited(c) /\ new.op = cmd[c].op
        /\ new.record = cmd[c].record /\ new.id = cmd[c].id
    BY <1>1, <2>1 DEF States, Places, Over
  <2>3. Becomes(c, new)
    BY <1>7 DEF EndImport, Reaches, Becomes, EditInv, Types
  <2>4. cmd[c].at = "groups"
    BY <1>7 DEF EndImport, Is
  <2> HIDE DEF new
  <2>5. Allowed(c, new)
    BY <1>2, <1>7, <2>1, <2>2, <2>4 DEF EndImport, Allowed
  <2>6. QED BY <1>3, <1>7, <2>2, <2>3, <2>5, QuietStep DEF EndImport
<1>8. CASE WriteTemporary(c)
  <2> DEFINE new == [cmd[c] EXCEPT !.at = "replace"]
  <2>1. /\ new \in States /\ new.at = "replace" /\ new.op = cmd[c].op
        /\ new.record = cmd[c].record /\ new.id = cmd[c].id
        /\ Importing(cmd[c]) => Importing(new)
    BY <1>1 DEF States, Places, Editing, Importing
  <2>2. Becomes(c, new)
    BY <1>8 DEF WriteTemporary, Reaches, Becomes, EditInv, Types
  <2>3. cmd[c].at = "temporary" /\ {"temporary", "replace"} \subseteq Editing
    BY <1>8 DEF WriteTemporary, Is, Editing
  <2>4. cmd[c].op = "activate" => cmd[c].id \notin history.removed
                                    /\ cmd[c].record.stamp >= history.newest[cmd[c].id]
    BY <2>3 DEF EditInv, Types, ReadsRemembered, ReadBy, Is
  <2> HIDE DEF new
  <2>5. Allowed(c, new)
    BY <1>2, <1>8, <2>1, <2>3, <2>4 DEF WriteTemporary, Allowed
  <2>6. QED BY <1>3, <1>8, <2>1, <2>2, <2>5, QuietStep DEF WriteTemporary
<1>9. QED BY <1>4, <1>5, <1>6, <1>7, <1>8

\* An activation reads a record nobody has removed, as young as the last import.
LEMMA BeginActivationKeeps ==
  ASSUME EditInv, NEW c \in Commands, BeginActivation(c)
  PROVE  EditInv'
<1>1. PICK i \in Ids, active \in BOOLEAN :
        Becomes(c, IF store[i] = Absent
                     THEN [NoCommand EXCEPT !.at = "raised", !.op = "activate"]
                     ELSE [NoCommand EXCEPT !.at = "temporary", !.op = "activate", !.id = i,
                                            !.record = [store[i] EXCEPT !.active = active]])
  BY DEF BeginActivation
<1>2. /\ cmd[c].at = "idle" /\ clock \in Nat /\ i \in PackageGroups /\ Absent \notin Records
      /\ c \notin temporaries /\ c \notin directories
  BY AbsentIsNoRecord DEF BeginActivation, EditInv, Types, Tidy, Is, Editing, PackageGroups
<1>3. CASE store[i] = Absent
  <2> DEFINE new == [NoCommand EXCEPT !.at = "raised", !.op = "activate"]
  <2>1. Becomes(c, new)
    BY <1>1, <1>3
  <2>2. new \in States /\ new.at = "raised" /\ new.record = Absent
    BY NoCommandStands DEF States, Places, Over
  <2> HIDE DEF new
  <2>3. Allowed(c, new)
    BY <1>2, <2>2 DEF BeginActivation, Allowed
  <2>4. QED BY <1>2, <2>1, <2>2, <2>3, QuietStep DEF BeginActivation
<1>4. CASE store[i] # Absent
  <2> DEFINE record == [store[i] EXCEPT !.active = active]
             begun == [NoCommand EXCEPT !.at = "temporary", !.op = "activate"]
             new == [NoCommand EXCEPT !.at = "temporary", !.op = "activate", !.id = i, !.record = record]
  <2>1. Becomes(c, new)
    BY <1>1, <1>4
  <2>2. store[i] \in Records
    BY <1>4 DEF EditInv, Types
  <2>3. /\ record \in Records /\ record.payload = store[i].payload /\ record.stamp = store[i].stamp
    BY <2>2 DEF Records
  <2> HIDE DEF record
  <2>4. /\ new \in States /\ new.at = "temporary" /\ new.op = "activate" /\ new.id = i
        /\ new.record = record
    <3>1. begun \in States /\ begun.at = "temporary" /\ begun.op = "activate"
      BY NoCommandStands DEF States, Places, Editing
    <3>2. new = [begun EXCEPT !.id = i, !.record = record]
      BY NoCommandStands DEF States
    <3> HIDE DEF begun, new
    <3>3. QED BY <1>2, <2>3, <3>1, <3>2 DEF States
  <2>5. /\ store[i].payload = i /\ store[i].stamp >= history.newest[i] /\ i \notin history.removed
    BY <1>4, <2>2 DEF EditInv, NamedForPayload, ReadsRemembered
  <2> HIDE DEF new
  <2>6. Allowed(c, new)
    BY <1>2, <2>3, <2>4, <2>5 DEF BeginActivation, Allowed
  <2>7. QED BY <1>2, <2>1, <2>4, <2>6, QuietStep DEF BeginActivation
<1>5. QED BY <1>3, <1>4

-----------------------------------------------------------------------------
(* Steps that change a record *)

\* A command that edits a record, and what the others still hold to: their places,
\* their temporaries and their previews.
LEMMA LoudStep ==
  ASSUME EditInv, NEW c \in Commands, NEW new \in States, Becomes(c, new),
         new.record \in Records => new.record.payload = new.id,
         new.at \notin {"temporary", "replace"}, new.at = "groups" => new.op = "import",
         store' \in [Ids -> Records \cup {Absent}],
         \A i \in Ids : store'[i] \in Records => store'[i].payload = i,
         history' \in [removed : SUBSET Ids, newest : [Ids -> Nat]],
         temporaries' \subseteq temporaries, c \notin temporaries', directories' = directories,
         c \in directories => new.op = "import" /\ new.at \in Editing,
         stale' = stale \cup {c}, c \in FromGui => new.at # "answered", clock' = clock
  PROVE  Types' /\ NamedForPayload' /\ Tidy' /\ EditsForgetPreviews'
<1>1. /\ cmd' \in [Commands -> States]
      /\ cmd'[c] = new
      /\ \A d \in Commands : d # c => cmd'[d] = cmd[d]
  BY OneBecomes DEF EditInv
<1>2. Types'
  BY <1>1 DEF EditInv, Types
<1>3. NamedForPayload'
  <2>1. ASSUME NEW d \in Commands
        PROVE  /\ cmd'[d].record \in Records => cmd'[d].record.payload = cmd'[d].id
               /\ cmd'[d].at \in {"temporary", "replace"} => cmd'[d].record \in Records
    <3>1. CASE d = c
      BY <1>1, <3>1
    <3>2. CASE d # c
      BY <1>1, <3>2 DEF EditInv, NamedForPayload, Is
    <3>3. QED BY <3>1, <3>2
  <2>2. QED BY <2>1 DEF NamedForPayload, Is
<1>4. Tidy'
  <2>1. ASSUME NEW d \in temporaries' PROVE cmd'[d].at \in {"replace", "killed"}
    BY <1>1 DEF EditInv, Types, Tidy, Is
  <2>2. ASSUME NEW d \in directories'
        PROVE  cmd'[d].at = "files" \/ (cmd'[d].op = "import" /\ cmd'[d].at \in Editing)
    <3>1. CASE d = c
      BY <1>1, <3>1
    <3>2. CASE d # c
      BY <1>1, <3>2, StoreAssumption DEF EditInv, Types, Tidy, Is
    <3>3. QED BY <3>1, <3>2
  <2>3. ASSUME NEW d \in Commands
        PROVE  /\ cmd'[d].at = "groups" => cmd'[d].op = "import"
               /\ cmd'[d].at \in {"temporary", "replace"} => cmd'[d].op = "activate" \/ Importing(cmd'[d])
    <3>1. CASE d = c
      BY <1>1, <3>1
    <3>2. CASE d # c
      BY <1>1, <3>2 DEF EditInv, Tidy, Is
    <3>3. QED BY <3>1, <3>2
  <2>4. QED BY <2>1, <2>2, <2>3 DEF Tidy, Is
<1>5. EditsForgetPreviews'
  <2>1. ASSUME NEW d \in stale', d \in FromGui PROVE cmd'[d].at # "answered"
    <3>1. CASE d = c
      BY <1>1, <2>1, <3>1
    <3>2. CASE d # c
      BY <1>1, <2>1, <3>2 DEF EditInv, Types, EditsForgetPreviews, Is
    <3>3. QED BY <3>1, <3>2
  <2>2. QED BY <2>1 DEF EditsForgetPreviews, Is
<1>6. QED BY <1>2, <1>3, <1>4, <1>5

\* What an import puts in place is the newest there is, and what an activation
\* puts in place was read since.
LEMMA ReplaceRecordKeeps ==
  ASSUME EditInv, NEW c \in Commands, ReplaceRecord(c)
  PROVE  EditInv'
<1> DEFINE id == cmd[c].id
           record == cmd[c].record
           new == Written(c)
<1>1. /\ cmd[c] \in States /\ cmd[c].at = "replace" /\ record \in Records /\ record.payload = id
      /\ cmd[c].op = "activate" \/ Importing(cmd[c])
      /\ id \in Ids /\ record.stamp \in Nat
  BY DEF ReplaceRecord, EditInv, Types, NamedForPayload, Tidy, Is, Records
<1>2. Edited(c) \in {"generations", "answered"} /\ (c \in FromGui => Edited(c) # "answered")
  BY DEF Edited
<1>3. /\ new \in States /\ new.at \notin {"temporary", "replace"} /\ new.op = cmd[c].op
      /\ new.at = "groups" => new.op = "import"
      /\ new.op = "import" => new.at = "groups"
      /\ new.record \in Records => new.record.payload = new.id
      /\ c \in FromGui => new.at # "answered"
  <2>1. CASE Importing(cmd[c])
    <3>1. Tail(cmd[c].todo) \in Seq(PackageGroups)
      BY <1>1, <2>1 DEF States, Importing
    <3>2. /\ new \in States /\ new.at = "groups" /\ new.op = "import"
          /\ new.record = record /\ new.id = id
      BY <1>1, <2>1, <3>1 DEF Written, States, Places, Editing, Importing
    <3>3. QED BY <1>1, <2>1, <3>2 DEF Importing
  <2>2. CASE cmd[c].op = "activate"
    <3>1. new = [NoCommand EXCEPT !.at = Edited(c), !.op = "activate"]
      BY <2>2 DEF Written
    <3>2. new \in States /\ new.at = Edited(c) /\ new.op = "activate" /\ new.record = Absent
      BY <1>2, <3>1, NoCommandStands DEF States, Places, Over
    <3>3. QED BY <1>2, <2>2, <3>2, AbsentIsNoRecord
  <2>3. QED BY <1>1, <2>1, <2>2
<1>4. /\ store' = [store EXCEPT ![id] = record] /\ store \in [Ids -> Records \cup {Absent}]
      /\ \A i \in Ids : store[i] \in Records => store[i].payload = i
  BY DEF ReplaceRecord, EditInv, Types, NamedForPayload
<1>5. /\ store' \in [Ids -> Records \cup {Absent}]
      /\ store'[id] = record
      /\ \A i \in Ids : i # id => store'[i] = store[i]
  BY <1>1, <1>4
<1>6. /\ history \in [removed : SUBSET Ids, newest : [Ids -> Nat]]
      /\ history' \in [removed : SUBSET Ids, newest : [Ids -> Nat]]
      /\ history'.removed \subseteq history.removed \ {id}
      /\ history'.newest[id] <= record.stamp
      /\ ReadBy(id) => history'.newest[id] <= history.newest[id] \/ history'.newest[id] = 0
      /\ \A i \in Ids : i # id => history'.newest[i] = history.newest[i]
  <2>1. history \in [removed : SUBSET Ids, newest : [Ids -> Nat]]
    BY DEF EditInv, Types
  <2>2. CASE Importing(cmd[c])
    <3> DEFINE stamp == IF ReadBy(id) THEN 0 ELSE record.stamp
               absent == history.removed \ {id}
    <3>1. history' = [history EXCEPT !.removed = absent, !.newest[id] = stamp]
      BY <2>2 DEF ReplaceRecord, Importing
    <3>2. stamp \in Nat /\ stamp <= record.stamp /\ (ReadBy(id) => stamp = 0) /\ absent \in SUBSET Ids
      BY <1>1, <2>1
    <3>3. [history.newest EXCEPT ![id] = stamp] \in [Ids -> Nat]
      BY <2>1, <3>2
    <3> HIDE DEF stamp, absent
    <3>4. history'.removed = absent /\ history'.newest = [history.newest EXCEPT ![id] = stamp]
      BY <2>1, <3>1
    <3>5. history' = [removed |-> absent, newest |-> [history.newest EXCEPT ![id] = stamp]]
      BY <2>1, <3>1
    <3>6. history' \in [removed : SUBSET Ids, newest : [Ids -> Nat]]
      BY <3>2, <3>3, <3>5
    <3>7. QED BY <1>1, <2>1, <3>2, <3>4, <3>6 DEF absent
  <2>3. CASE cmd[c].op = "activate"
    <3>1. history' = history
      BY <2>3 DEF ReplaceRecord
    <3>2. record.stamp >= history.newest[id] /\ ReadBy(id)
      BY <1>1, <2>3 DEF EditInv, ReadsRemembered, ReadBy, Is
    <3>3. id \notin history.removed
      BY <1>1, <3>2 DEF EditInv, ReadsRemembered
    <3>4. QED BY <1>1, <2>1, <3>1, <3>2, <3>3
  <2>4. QED BY <1>1, <2>2, <2>3
<1>7. Becomes(c, new) /\ temporaries' = temporaries \ {c} /\ directories' = directories
      /\ stale' = stale \cup {c} /\ clock' = clock
  BY DEF ReplaceRecord
<1>8. c \in directories => new.op = "import" /\ new.at \in Editing
  BY <1>1, <1>3 DEF EditInv, Tidy, Is, Editing
<1>9. /\ cmd'[c] = new
      /\ \A d \in Commands : d # c => cmd'[d] = cmd[d]
  BY <1>3, <1>7, OneBecomes DEF EditInv
<1> HIDE DEF id, record, new
<1>10. Types' /\ NamedForPayload' /\ Tidy' /\ EditsForgetPreviews'
  <2>1. \A i \in Ids : store'[i] \in Records => store'[i].payload = i
    BY <1>1, <1>4, <1>5
  <2>2. QED BY <1>3, <1>5, <1>6, <1>7, <1>8, <2>1, LoudStep
<1>11. ReadsRemembered'
  <2>1. \A i \in Ids : ReadBy(i)' => ReadBy(i)
    BY <1>3, <1>9 DEF ReadBy
  <2>2. ASSUME NEW i \in Ids, i \in history'.removed PROVE store'[i] = Absent /\ ~ReadBy(i)'
    BY <1>5, <1>6, <2>1, <2>2 DEF EditInv, ReadsRemembered
  <2>3. ASSUME NEW i \in Ids, store'[i] \in Records PROVE store'[i].stamp >= history'.newest[i]
    <3>1. CASE i = id
      BY <1>1, <1>5, <1>6, <3>1
    <3>2. CASE i # id
      BY <1>5, <1>6, <2>3, <3>2 DEF EditInv, ReadsRemembered
    <3>3. QED BY <3>1, <3>2
  <2>4. ASSUME NEW d \in Commands, cmd'[d].op = "activate", cmd'[d].at \in {"temporary", "replace"}
        PROVE  cmd'[d].record.stamp >= history'.newest[cmd'[d].id]
    <3>1. d # c /\ cmd'[d] = cmd[d]
      BY <1>3, <1>9, <2>4
    <3>2. /\ cmd[d].record \in Records /\ cmd[d].record.payload = cmd[d].id
          /\ cmd[d].record.stamp >= history.newest[cmd[d].id] /\ cmd[d].id \in Ids
          /\ cmd[d].record.stamp \in Nat
      BY <2>4, <3>1 DEF EditInv, Types, NamedForPayload, ReadsRemembered, Is, Records
    <3>3. CASE cmd[d].id = id
      <4>1. ReadBy(id)
        BY <2>4, <3>1, <3>3 DEF ReadBy
      <4>2. history'.newest[id] \in Nat /\ history.newest[id] \in Nat
        BY <1>1, <1>6
      <4>3. QED BY <1>6, <3>1, <3>2, <3>3, <4>1, <4>2
    <3>4. CASE cmd[d].id # id
      BY <1>6, <3>1, <3>2, <3>4
    <3>5. QED BY <3>3, <3>4
  <2>5. QED BY <2>2, <2>3, <2>4 DEF ReadsRemembered, Is
<1>12. QED BY <1>10, <1>11 DEF EditInv

\* What is removed is counted on unless an activation holds it.
LEMMA RemoveRecordKeeps ==
  ASSUME EditInv, NEW c \in Commands, RemoveRecord(c)
  PROVE  EditInv'
<1>1. PICK i \in Ids :
        IF store[i] = Absent
          THEN /\ Becomes(c, [NoCommand EXCEPT !.at = "raised", !.op = "remove"])
               /\ UNCHANGED <<store, stale, history>>
          ELSE /\ store' = [store EXCEPT ![i] = Absent]
               /\ Becomes(c, [NoCommand EXCEPT !.at = Edited(c), !.op = "remove"])
               /\ stale' = stale \cup {c}
               /\ history' = [history EXCEPT !.removed = IF ReadBy(i) THEN @ ELSE @ \cup {i}]
  BY DEF RemoveRecord
<1>2. /\ cmd[c].at = "idle" /\ Absent \notin Records
      /\ c \notin temporaries /\ c \notin directories
      /\ UNCHANGED <<directories, temporaries, clock>>
  BY AbsentIsNoRecord DEF RemoveRecord, EditInv, Types, Tidy, Is, Editing
<1>3. CASE store[i] = Absent
  <2> DEFINE new == [NoCommand EXCEPT !.at = "raised", !.op = "remove"]
  <2>1. new \in States /\ new.at = "raised" /\ new.record = Absent
    BY NoCommandStands DEF States, Places, Over
  <2>2. Becomes(c, new) /\ UNCHANGED <<store, stale, history>>
    BY <1>1, <1>3
  <2> HIDE DEF new
  <2>3. Allowed(c, new)
    BY <1>2, <2>1, <2>2 DEF Allowed
  <2>4. clock' \in Nat
    BY <1>2 DEF EditInv, Types
  <2>5. QED BY <2>1, <2>2, <2>3, <2>4, QuietStep
<1>4. CASE store[i] # Absent
  <2> DEFINE new == [NoCommand EXCEPT !.at = Edited(c), !.op = "remove"]
             absent == IF ReadBy(i) THEN history.removed ELSE history.removed \cup {i}
  <2>1. Edited(c) \in {"generations", "answered"} /\ (c \in FromGui => Edited(c) # "answered")
    BY DEF Edited
  <2>2. new \in States /\ new.at = Edited(c) /\ new.op = "remove" /\ new.record = Absent
    BY <2>1, NoCommandStands DEF States, Places, Over
  <2>3. /\ Becomes(c, new) /\ stale' = stale \cup {c} /\ store' = [store EXCEPT ![i] = Absent]
        /\ history' = [history EXCEPT !.removed = absent]
    BY <1>1, <1>4
  <2>4. /\ history \in [removed : SUBSET Ids, newest : [Ids -> Nat]]
        /\ store \in [Ids -> Records \cup {Absent}]
    BY DEF EditInv, Types
  <2>5. absent \in SUBSET Ids
    BY <2>4
  <2>6. /\ cmd'[c] = new
        /\ \A d \in Commands : d # c => cmd'[d] = cmd[d]
    BY <2>2, <2>3, OneBecomes DEF EditInv
  <2> HIDE DEF new
  <2>7. /\ history' \in [removed : SUBSET Ids, newest : [Ids -> Nat]]
        /\ history'.removed = absent /\ history'.newest = history.newest
    <3> HIDE DEF absent
    <3>1. QED BY <2>3, <2>4, <2>5
  <2>8. /\ store' \in [Ids -> Records \cup {Absent}]
        /\ store'[i] = Absent
        /\ \A j \in Ids : j # i => store'[j] = store[j]
    BY <2>3, <2>4
  <2>9. Types' /\ NamedForPayload' /\ Tidy' /\ EditsForgetPreviews'
    <3>1. \A j \in Ids : store'[j] \in Records => store'[j].payload = j
      BY <1>2, <2>8 DEF EditInv, NamedForPayload
    <3>2. QED BY <1>2, <2>1, <2>2, <2>3, <2>7, <2>8, <3>1, LoudStep
  <2>10. ReadsRemembered'
    <3>1. \A j \in Ids : ReadBy(j)' => ReadBy(j)
      BY <2>2, <2>6 DEF ReadBy
    <3>2. ASSUME NEW j \in Ids, j \in history'.removed PROVE store'[j] = Absent /\ ~ReadBy(j)'
      BY <2>7, <2>8, <3>1, <3>2 DEF EditInv, ReadsRemembered
    <3>3. ASSUME NEW j \in Ids, store'[j] \in Records PROVE store'[j].stamp >= history'.newest[j]
      BY <1>2, <2>7, <2>8, <3>3 DEF EditInv, ReadsRemembered
    <3>4. ASSUME NEW d \in Commands, cmd'[d].op = "activate", cmd'[d].at \in {"temporary", "replace"}
          PROVE  cmd'[d].record.stamp >= history'.newest[cmd'[d].id]
      <4>1. d # c /\ cmd'[d] = cmd[d]
        BY <2>2, <2>6, <3>4
      <4>2. QED BY <2>7, <3>4, <4>1 DEF EditInv, ReadsRemembered, Is
    <3>5. QED BY <3>2, <3>3, <3>4 DEF ReadsRemembered, Is
  <2>11. QED BY <2>9, <2>10 DEF EditInv
<1>5. QED BY <1>3, <1>4

-----------------------------------------------------------------------------
(* The theorems *)

\* Through any interleaving of imports, activations and removals, of failures and
\* kills, each command knows of the records what EditInv says.
THEOREM EditInvariant == StoreSpec => []EditInv
<1>1. StoreInit => EditInv
  <2> SUFFICES ASSUME StoreInit PROVE EditInv
    OBVIOUS
  <2>1. NoCommand \in States /\ NoCommand.record = Absent /\ Absent \notin Records
    BY NoCommandStands, AbsentIsNoRecord
  <2>2. NoCommand.at = "idle" /\ NoCommand.op = "none"
    BY DEF NoCommand
  <2>3. cmd \in [Commands -> States] /\ \A c \in Commands : cmd[c] = NoCommand
    BY <2>1 DEF StoreInit
  <2>4. store \in [Ids -> Records \cup {Absent}] /\ \A i \in Ids : store[i] = Absent
    BY DEF StoreInit
  <2>5. history.removed = {} /\ history \in [removed : SUBSET Ids, newest : [Ids -> Nat]]
    BY DEF StoreInit
  <2>6. Types
    BY <2>3, <2>4, <2>5 DEF StoreInit, Types
  <2>7. NamedForPayload /\ Tidy
    BY <2>1, <2>2, <2>3, <2>4 DEF StoreInit, NamedForPayload, Tidy, Is
  <2>8. ReadsRemembered /\ EditsForgetPreviews
    BY <2>1, <2>2, <2>3, <2>4, <2>5 DEF StoreInit, ReadsRemembered, EditsForgetPreviews
  <2>9. QED BY <2>6, <2>7, <2>8 DEF EditInv
<1>2. EditInv /\ [StoreNext]_storeVars => EditInv'
  <2> SUFFICES ASSUME EditInv, [StoreNext]_storeVars PROVE EditInv'
    OBVIOUS
  <2>1. ASSUME NEW c \in Commands, ReadFiles(c) PROVE EditInv'
    BY <2>1, ReadFilesKeeps
  <2>2. ASSUME NEW c \in Commands,
               BeginImport(c) \/ SkipGroup(c) \/ InstallPayload(c) \/ EndImport(c) \/ WriteTemporary(c)
        PROVE  EditInv'
    BY <2>2, ImportKeeps
  <2>3. ASSUME NEW c \in Commands, ReplaceRecord(c) PROVE EditInv'
    BY <2>3, ReplaceRecordKeeps
  <2>4. ASSUME NEW c \in Commands, CommandFails(c) \/ Kill(c) \/ Invalidate(c) PROVE EditInv'
    BY <2>4, EndsKeep
  <2>5. ASSUME NEW c \in Commands, BeginActivation(c) PROVE EditInv'
    BY <2>5, BeginActivationKeeps
  <2>6. ASSUME NEW c \in Commands, RemoveRecord(c) PROVE EditInv'
    BY <2>6, RemoveRecordKeeps
  <2>7. CASE UNCHANGED storeVars
    BY <2>7 DEF storeVars, EditInv, Types, NamedForPayload, Tidy, ReadsRemembered,
                EditsForgetPreviews, ReadBy, Is
  <2>8. QED BY <2>1, <2>2, <2>3, <2>4, <2>5, <2>6, <2>7 DEF StoreNext
<1>3. QED BY <1>1, <1>2, PTL DEF StoreSpec

\* Edits without a lock leave whole records of their names and no file of their
\* own, undo nothing but what an activation had read before, and no request of the
\* GUI is answered while a preview still knows what it edited.
THEOREM EditsAlwaysHold == StoreSpec => []EditsHold
<1>1. EditInv => EditsHold
  <2> SUFFICES ASSUME EditInv PROVE EditsHold
    OBVIOUS
  <2>1. StoreTypeOK
    <3>1. ASSUME NEW i \in Ids
          PROVE  store[i] = Absent \/ (store[i].payload = i /\ store[i].active \in BOOLEAN)
      BY DEF EditInv, Types, NamedForPayload, Records
    <3>2. ASSUME NEW c \in Commands, cmd[c].record # Absent
          PROVE  cmd[c].record.payload = cmd[c].id
      BY <3>2 DEF EditInv, Types, States, NamedForPayload
    <3>3. \A c \in temporaries : cmd[c].at \in {"replace", "killed"}
      BY DEF EditInv, Tidy, Is
    <3>4. \A c \in directories : cmd[c].at \notin Over
      BY DEF EditInv, Tidy, Is, Over, Editing
    <3>5. QED BY <3>1, <3>2, <3>3, <3>4 DEF StoreTypeOK
  <2>2. EditsOutlast
    BY DEF EditInv, Types, ReadsRemembered, EditsOutlast
  <2>3. QED BY <2>1, <2>2 DEF EditInv, EditsHold
<1>2. QED BY <1>1, EditInvariant, PTL

-----------------------------------------------------------------------------
(* Groups of a package

   A table's group is named by what it and all its kin declare, and a table whose kin
   contradict each other is in none: so the name repeats what the table declares, and
   two tables with one name cannot differ in a field both declare. *)

GroupInv == manifest = {} \/ manifest = Groups(package)

\* The name of a group holds what each of its tables declares.
LEMMA NamedAsDeclared ==
    ASSUME NEW sheets, NEW f \in sheets, ~Ambiguous(f, sheets), NEW field \in DOMAIN f.declared
    PROVE  field \in DOMAIN Combined(f, sheets) /\ Combined(f, sheets)[field] = f.declared[field]
<1>1. f \in Kin(f, sheets)
  BY DEF Kin, Agree
<1>2. field \in Fields(Kin(f, sheets))
  BY <1>1 DEF Fields
<1>3. f.declared[field] \in Said(Kin(f, sheets), field)
  BY <1>1 DEF Said, Declares
<1>4. (CHOOSE v \in Said(Kin(f, sheets), field) : TRUE) \in Said(Kin(f, sheets), field)
  BY <1>3
<1>5. (CHOOSE v \in Said(Kin(f, sheets), field) : TRUE) = f.declared[field]
  BY <1>2, <1>3, <1>4 DEF Ambiguous
<1> QED
  BY <1>2, <1>5 DEF Combined

\* A table that declares whatever the package declares contradicts none of its kin.
LEMMA CompleteIsClear ==
    ASSUME NEW sheets, NEW f \in sheets, DOMAIN f.declared = Fields(sheets)
    PROVE  ~Ambiguous(f, sheets)
<1> SUFFICES ASSUME NEW field \in Fields(Kin(f, sheets)),
                    NEW v \in Said(Kin(f, sheets), field), NEW w \in Said(Kin(f, sheets), field)
             PROVE  v = w
  BY DEF Ambiguous
<1>1. field \in DOMAIN f.declared
  BY DEF Fields, Kin
<1>2. \A o \in Kin(f, sheets) : Declares(o, field) => o.declared[field] = f.declared[field]
  BY <1>1 DEF Kin, Agree, Declares
<1> QED
  BY <1>2 DEF Said

\* A product is computed from tables of its group.
LEMMA SourcesAreFiles ==
    ASSUME NEW sheets, NEW p \in Products
    PROVE  Sources(p, sheets) \subseteq sheets
<1>1. \A kind : Of(kind, sheets) \subseteq sheets
  BY DEF Of
<1>2. PtcSources(sheets) \subseteq sheets
  BY <1>1 DEF PtcSources
<1>3. Sources(p, sheets) \in {PtcSources(sheets), Of("dark", sheets) \cup Of("gain", sheets),
           PtcSources(sheets) \cup (IF Of("gain", sheets) = {} THEN {} ELSE Of("dark", sheets) \cup Of("gain", sheets)),
           Of("dark", sheets), PtcSources(sheets) \cup Of("dark", sheets),
           Of("dark", sheets) \cup Of("spectrum", sheets)}
  BY DEF Sources, Products
<1> QED
  BY <1>1, <1>2, <1>3

\* The tables that are left, and those of them with one name.
Clear(sheets) == {f \in sheets : ~Ambiguous(f, sheets)}
Sharing(contract, sheets) == {f \in Clear(sheets) : Combined(f, sheets) = contract}

\* What a group is made of.
LEMMA GroupFacts ==
    ASSUME NEW sheets, NEW g \in Groups(sheets)
    PROVE  /\ g = Group(g.contract, Sharing(g.contract, sheets))
           /\ \A f \in g.files : f \in sheets /\ ~Ambiguous(f, sheets) /\ Combined(f, sheets) = g.contract
           /\ \A p \in g.products : p \in Products /\ Qualified(p, g.files)
<1>1. PICK c : g = Group(c, Sharing(c, sheets))
  BY DEF Groups, Sharing, Clear
<1>2. g.contract = c /\ g.files = Sharing(c, sheets) /\ g.products = {p \in Products : Qualified(p, Sharing(c, sheets))}
  BY <1>1 DEF Group
<1> QED
  BY <1>1, <1>2 DEF Sharing, Clear

\* What the groups of a package keep apart.
LEMMA GroupsHold == GroupInv => MeasurementsNeverMixed
<1> SUFFICES ASSUME GroupInv PROVE MeasurementsNeverMixed
  OBVIOUS
<1>0. ASSUME NEW g \in manifest PROVE g \in Groups(package)
  BY <1>0 DEF GroupInv
<1>1. ASSUME NEW g \in manifest, NEW a \in g.files, NEW b \in g.files PROVE Agree(a, b)
  <2>1. \A f \in {a, b} : f \in package /\ ~Ambiguous(f, package) /\ Combined(f, package) = g.contract
    BY <1>0, <1>1, GroupFacts
  <2>2. \A field \in DOMAIN a.declared : Combined(a, package)[field] = a.declared[field]
    BY <2>1, NamedAsDeclared
  <2>3. \A field \in DOMAIN b.declared : Combined(b, package)[field] = b.declared[field]
    BY <2>1, NamedAsDeclared
  <2> QED
    BY <2>1, <2>2, <2>3 DEF Agree
<1>2. ASSUME NEW g \in manifest, NEW h \in manifest, g # h PROVE g.files \cap h.files = {}
  <2>1. g.contract # h.contract
    BY <1>0, <1>2, GroupFacts
  <2>2. \A f \in g.files : Combined(f, package) = g.contract
    BY <1>0, GroupFacts
  <2>3. \A f \in h.files : Combined(f, package) = h.contract
    BY <1>0, GroupFacts
  <2> QED
    BY <2>1, <2>2, <2>3
<1>3. ASSUME manifest # {}, NEW f \in package, DOMAIN f.declared = Fields(package)
      PROVE  \E g \in manifest : f \in g.files
  <2>1. ~Ambiguous(f, package) /\ manifest = Groups(package)
    BY <1>3, CompleteIsClear DEF GroupInv
  <2> DEFINE clear == {o \in package : ~Ambiguous(o, package)}
             sheets == {o \in clear : Combined(o, package) = Combined(f, package)}
  <2>2. f \in sheets
    BY <2>1
  <2>3. Group(Combined(f, package), sheets) \in manifest
    BY <2>1, <2>2 DEF Groups
  <2> QED
    BY <2>2, <2>3 DEF Group
<1>4. ASSUME NEW g \in manifest, NEW p \in g.products, NEW a \in Sources(p, g.files), NEW b \in Sources(p, g.files),
             NEW field \in Required(Sources(p, g.files))
      PROVE  Declares(a, field) /\ Declares(b, field) /\ a.declared[field] = b.declared[field]
  <2>1. p \in Products /\ Qualified(p, g.files)
    BY <1>0, GroupFacts
  <2>2. a \in g.files /\ b \in g.files
    BY <2>1, SourcesAreFiles
  <2>3. field \in DOMAIN a.declared /\ field \in DOMAIN b.declared
    BY <2>1 DEF Qualified
  <2> QED
    BY <1>1, <2>2, <2>3 DEF Agree, Declares
<1> QED
  BY <1>1, <1>2, <1>3, <1>4 DEF MeasurementsNeverMixed

\* For any package of tables: tables of a group do not contradict each other, none is
\* in two groups, one that declares everything is in one, and a qualified product rests on
\* tables that declare its conditions themselves, and the same ones.
THEOREM MeasurementsAlwaysApart == GroupSpec => []MeasurementsNeverMixed
<1>1. GroupInit => GroupInv
  BY DEF GroupInit, GroupFrom, GroupInv
<1>2. GroupInv /\ [GroupNext]_groupVars => GroupInv'
  BY DEF GroupInv, GroupNext, Prepare, groupVars
<1> QED
  BY <1>1, <1>2, GroupsHold, PTL DEF GroupSpec

-----------------------------------------------------------------------------
(* One run of the command

   Each statement of main finds what the ones before it computed, and adds a product
   to those on disk; the check of the names at the start is what keeps the RAW. *)

Statements ==
    {"arguments", "preflight", "decode", "analyse", "expose", "dashboard", "plan", "export", "table",
     "report", "done", "failed"}
Untouched == {[name |-> Source, by |-> "camera", container |-> "raw"]}

\* The statements up to which something is in memory, and after which it is on disk.
BeforePlan == {"expose", "dashboard", "plan"}
BeforeTable == BeforePlan \cup {"export", "table"}
AfterDashboard == {"plan", "export", "table", "report", "done"}

BuffersKept ==
    /\ at \in {"analyse"} \cup BeforeTable => "scene" \in buffers
    /\ at \in {"analyse"} \cup BeforePlan /\ Scans(request) => "xyz" \in buffers
    /\ at \in BeforeTable => "analysis" \in buffers
    /\ at \in BeforePlan /\ Scans(request) => "planes" \in buffers
    /\ at \in BeforeTable /\ Diagnostic(request) => "gamuts" \in buffers
    /\ at = "export" /\ request.image # NoName => "plan" \in buffers

DiskSound(onDisk) ==
    \A f \in onDisk :
       /\ f.name \in Protected => f.by = "camera"
       /\ f.by = "image" /\ request.format # "sdr" => (f.container = "heic" <=> f.name[2] = "heic")

There(onDisk, by, name) == \E f \in onDisk : f.by = by /\ f.name = name
ProductsThere ==
    Distinct(request) =>
      /\ at \in AfterDashboard /\ Scans(request) => There(disk, "dashboard", Dashboard(request))
      /\ at \in AfterDashboard \ {"plan", "export"} /\ request.image # NoName => There(disk, "image", Destination(request))
      /\ at \in {"report", "done"} /\ request.table # NoName => There(disk, "table", request.table)

ExitTrue ==
    /\ exit \in {0, 1, 2, NoName}
    /\ exit = 0 => at = "done" /\ said = Listed(request)
    /\ exit = 2 => disk = Untouched /\ at = "failed"

CommandInv ==
    /\ request \in CommandLines /\ at \in Statements
    /\ at \in {"arguments", "preflight"} => disk = Untouched
    /\ at \notin {"arguments", "preflight", "failed"} => Protected \cap Outputs(request) = {}
    /\ BuffersKept /\ DiskSound(disk) /\ ProductsThere /\ ExitTrue

\* The container of an HDR image or a HEIF decides its suffix.
LEMMA SuffixTellsContainer ==
    ASSUME NEW r, r.format \in OutputFormats \ {"sdr"}
    PROVE  Container(r) = "heic" <=> Destination(r)[2] = "heic"
<1>1. CASE Heic(r.format) /\ r.image[2] # "heic"
  <2>1. Destination(r) = <<r.image[1], "heic">>
    BY <1>1 DEF Destination, Suffixed
  <2> QED
    BY <1>1, <2>1 DEF Container
<1>2. CASE Heic(r.format) /\ r.image[2] = "heic"
  <2>1. Destination(r) = r.image
    BY <1>2 DEF Destination, Heic
  <2> QED
    BY <1>2, <2>1 DEF Container
<1>3. CASE ~Heic(r.format)
  <2>0. r.format = "ultrahdr"
    BY <1>3 DEF Heic, OutputFormats
  <2>1. Container(r) # "heic"
    BY <1>3 DEF Container
  <2>2. CASE r.image[2] = "heic"
    <3>1. Destination(r) = <<r.image[1], "jpg">>
      BY <1>3, <2>0, <2>2 DEF Destination, Suffixed
    <3> QED
      BY <2>1, <3>1
  <2>3. CASE r.image[2] # "heic"
    <3>1. Destination(r) = r.image
      BY <1>3, <2>3 DEF Destination
    <3> QED
      BY <2>1, <2>3, <3>1
  <2> QED
    BY <2>2, <2>3
<1> QED
  BY <1>1, <1>2, <1>3

\* What a product leaves on disk: itself, and all that has another name.
LEMMA WriteFacts ==
    ASSUME NEW name, NEW by, NEW container, Write(name, by, container), DiskSound(disk),
           name \notin Protected,
           by = "image" /\ request.format # "sdr" => (container = "heic" <=> name[2] = "heic")
    PROVE  /\ DiskSound(disk') /\ There(disk', by, name)
           /\ \A b, n : n # name /\ There(disk, b, n) => There(disk', b, n)
<1> DEFINE new == [name |-> name, by |-> by, container |-> container]
<1>1. disk' = {f \in disk : f.name # name} \cup {new} /\ new.name = name /\ new.by = by /\ new.container = container
  BY DEF Write
<1> HIDE DEF new
<1>2. DiskSound(disk')
  BY <1>1 DEF DiskSound
<1> QED
  BY <1>1, <1>2 DEF There

\* A run starts with the file of the camera alone.
LEMMA RunStart == CommandInit => CommandInv
<1> SUFFICES ASSUME CommandInit PROVE CommandInv
  OBVIOUS
<1> USE DEF CommandInit, CommandFrom
<1>1. disk = Untouched /\ DiskSound(disk)
  BY DEF Untouched, DiskSound
<1>2. ExitTrue
  BY NoNameAssumption DEF ExitTrue
<1>3. BuffersKept /\ ProductsThere /\ at \in Statements
  BY DEF BuffersKept, ProductsThere, Statements, BeforePlan, BeforeTable, AfterDashboard
<1> QED
  BY <1>1, <1>2, <1>3 DEF CommandInv

\* The statements that write nothing.
LEMMA ComputeKeeps ==
    ASSUME CommandInv, \/ CheckArguments \/ Preflight \/ DecodeForRun \/ AnalyseForRun \/ Expose
                       \/ Plan \/ Report \/ Raise \/ UNCHANGED commandVars
    PROVE  CommandInv'
<1>0. UNCHANGED <<request, disk>>
  BY DEF CheckArguments, Preflight, DecodeForRun, AnalyseForRun, Expose, Plan, Report, Raise, Stage, commandVars
<1>1. /\ (at \in {"arguments", "preflight"} => disk = Untouched)'
      /\ (at \notin {"arguments", "preflight", "failed"} => Protected \cap Outputs(request) = {})'
      /\ (request \in CommandLines /\ at \in Statements)'
  BY <1>0 DEF CommandInv, CheckArguments, Preflight, DecodeForRun, AnalyseForRun, Expose, Plan, Report, Raise, Stage, commandVars, Statements
<1>2. DiskSound(disk)'
  BY <1>0 DEF CommandInv, DiskSound
<1>3. ProductsThere'
  <2>1. /\ at' \in AfterDashboard => at \in AfterDashboard \/ at = "dashboard"
        /\ at' \in AfterDashboard \ {"plan", "export"} => at \in AfterDashboard \ {"plan", "export"}
        /\ at' \in {"report", "done"} => at \in {"report", "done"}
        /\ at' \in AfterDashboard => at \in AfterDashboard
    BY DEF CheckArguments, Preflight, DecodeForRun, AnalyseForRun, Expose, Plan, Report, Raise, Stage, commandVars, AfterDashboard
  <2> QED
    BY <1>0, <2>1 DEF CommandInv, ProductsThere
<1>4. BuffersKept'
  BY <1>0 DEF CommandInv, BuffersKept, BeforePlan, BeforeTable, CheckArguments, Preflight, DecodeForRun, AnalyseForRun, Expose, Plan, Report, Raise, Stage, commandVars
<1>5. ExitTrue'
  BY <1>0, NoNameAssumption DEF CommandInv, ExitTrue, CheckArguments, Preflight, DecodeForRun, AnalyseForRun, Expose, Plan, Report, Raise, Stage, commandVars
<1> QED
  BY <1>1, <1>2, <1>3, <1>4, <1>5 DEF CommandInv

\* The statements that write a product.
LEMMA WritingKeeps ==
    ASSUME CommandInv, DrawDashboard \/ ExportImage \/ WriteTable
    PROVE  CommandInv'
<1>0. /\ UNCHANGED <<request, exit, buffers, said>> /\ at \notin {"arguments", "preflight", "failed", "done"}
      /\ at' \notin {"arguments", "preflight", "failed", "done"} /\ at' \in Statements
      /\ exit \notin {0, 2}
  BY DEF CommandInv, ExitTrue, DrawDashboard, ExportImage, WriteTable, Stage, Statements
<1>1. Protected \cap Outputs(request) = {} /\ DiskSound(disk)
  BY <1>0 DEF CommandInv
<1>2. BuffersKept'
  BY <1>0 DEF CommandInv, BuffersKept, BeforePlan, BeforeTable, DrawDashboard, ExportImage, WriteTable, Stage
<1>3. DiskSound(disk)' /\ ProductsThere'
  <2>1. CASE DrawDashboard
    <3>1. at = "dashboard" /\ at' = "plan"
      BY <2>1 DEF DrawDashboard, Stage
    <3>2. CASE Scans(request)
      <4>1. Write(Dashboard(request), "dashboard", "png") /\ Dashboard(request) \notin Protected
        BY <1>1, <2>1, <3>2 DEF DrawDashboard, Outputs
      <4>2. DiskSound(disk') /\ There(disk', "dashboard", Dashboard(request))
        BY <1>1, <4>1, WriteFacts
      <4> QED
        BY <1>0, <3>1, <4>2 DEF ProductsThere, AfterDashboard, DiskSound
    <3>3. CASE ~Scans(request)
      BY <1>0, <1>1, <2>1, <3>1, <3>3 DEF DrawDashboard, ProductsThere, AfterDashboard, DiskSound
    <3> QED
      BY <3>2, <3>3
  <2>2. CASE ExportImage
    <3>1. at = "export" /\ at' = "table"
      BY <2>2 DEF ExportImage, Stage
    <3>2. CASE request.image # NoName
      <4>1. Write(Destination(request), "image", Container(request)) /\ Destination(request) \notin Protected
        BY <1>1, <2>2, <3>2 DEF ExportImage, Outputs
      <4>2. request.format # "sdr" => (Container(request) = "heic" <=> Destination(request)[2] = "heic")
        BY SuffixTellsContainer, CommandLinesAssumption DEF CommandInv
      <4>3. /\ DiskSound(disk') /\ There(disk', "image", Destination(request))
            /\ Dashboard(request) # Destination(request) /\ There(disk, "dashboard", Dashboard(request))
                 => There(disk', "dashboard", Dashboard(request))
        BY <1>1, <4>1, <4>2, WriteFacts
      <4>4. Distinct(request) => Dashboard(request) # Destination(request)
        BY <3>2 DEF Distinct
      <4> QED
        BY <1>0, <3>1, <4>3, <4>4 DEF CommandInv, ProductsThere, AfterDashboard, DiskSound
    <3>3. CASE request.image = NoName
      BY <1>0, <1>1, <2>2, <3>1, <3>3 DEF CommandInv, ExportImage, ProductsThere, AfterDashboard, DiskSound
    <3> QED
      BY <3>2, <3>3
  <2>3. CASE WriteTable
    <3>1. at = "table" /\ at' = "report"
      BY <2>3 DEF WriteTable, Stage
    <3>2. CASE request.table # NoName
      <4>1. Write(request.table, "table", "csv") /\ request.table \notin Protected
        BY <1>1, <2>3, <3>2 DEF WriteTable, Outputs
      <4>3. /\ DiskSound(disk') /\ There(disk', "table", request.table)
            /\ Dashboard(request) # request.table /\ There(disk, "dashboard", Dashboard(request))
                 => There(disk', "dashboard", Dashboard(request))
            /\ Destination(request) # request.table /\ There(disk, "image", Destination(request))
                 => There(disk', "image", Destination(request))
        BY <1>1, <4>1, WriteFacts
      <4>4. /\ Distinct(request) /\ Scans(request) => Dashboard(request) # request.table
            /\ Distinct(request) /\ request.image # NoName => Destination(request) # request.table
        BY <3>2 DEF Distinct
      <4> QED
        BY <1>0, <3>1, <4>3, <4>4 DEF CommandInv, ProductsThere, AfterDashboard, DiskSound
    <3>3. CASE request.table = NoName
      BY <1>0, <1>1, <2>3, <3>1, <3>3 DEF CommandInv, WriteTable, ProductsThere, AfterDashboard, DiskSound
    <3> QED
      BY <3>2, <3>3
  <2> QED
    BY <2>1, <2>2, <2>3
<1> QED
  BY <1>0, <1>1, <1>2, <1>3 DEF CommandInv, ExitTrue

\* What the invariant says of a consumer and of the end of a run.
LEMMA RunHonest == CommandInv => RunsHonest
<1> SUFFICES ASSUME CommandInv PROVE RunsHonest
  OBVIOUS
<1>1. ReadsAreThere
  BY DEF CommandInv, BuffersKept, ReadsAreThere, BeforePlan, BeforeTable, DashboardReads, ImageReads, TableReads, Diagnostic
<1>2. ASSUME exit = 0, Distinct(request)
      PROVE  /\ said \subseteq {f.name : f \in disk}
             /\ request.image # NoName => \E f \in disk : f.by = "image" /\ f.name \in said
             /\ Scans(request) => \E f \in disk : f.by = "dashboard"
             /\ request.table # NoName => \E f \in disk : f.by = "table"
  <2>1. at = "done" /\ said = Listed(request)
    BY <1>2 DEF CommandInv, ExitTrue
  <2>2. /\ Scans(request) => There(disk, "dashboard", Dashboard(request))
        /\ request.image # NoName => There(disk, "image", Destination(request))
        /\ request.table # NoName => There(disk, "table", request.table)
    BY <1>2, <2>1 DEF CommandInv, ProductsThere, AfterDashboard
  <2>3. /\ said \subseteq {f.name : f \in disk}
        /\ request.image # NoName => Destination(request) \in said
    BY <2>1, <2>2 DEF Listed, Reported, There
  <2> QED
    BY <2>2, <2>3 DEF There
<1>3. ReportTrue
  BY <1>2 DEF CommandInv, DiskSound, ExitTrue, Untouched, ReportTrue
<1> QED
  BY <1>1, <1>3 DEF RunsHonest

\* For any command line: each consumer finds what it reads, the report names files that
\* exist, success means every product is there, and the RAW stays the camera's.
THEOREM RunsAlwaysHonest == CommandSpec => []RunsHonest
<1>1. CommandInv /\ [CommandNext]_commandVars => CommandInv'
  BY ComputeKeeps, WritingKeeps DEF CommandNext
<1> QED
  BY RunStart, <1>1, RunHonest, PTL DEF CommandSpec
-----------------------------------------------------------------------------
(* What the page shows

   An answer is taken if it was not aborted; FlowInv says that a frame or a
   preparation that was not is of the file and the session the page is on. *)

Picked == Photos \cup {NoPhoto}
RequestKinds == {"upload", "prepare", "preview", "overlay", "probe", "export"}
PageRequests == [kind : RequestKinds, file : Picked, session : Nat, frame : Nat, aborted : BOOLEAN]
ShownPlaces == {"image", "overlay", "facts", "support", "saved"}
Shows == [file : Picked, session : Nat, by : RequestKinds \cup {"page"}]

\* Requests of a page that is at this session with this file.
RequestsKept(held, of, serial) ==
    /\ held \subseteq PageRequests
    /\ \A r \in held : ~r.aborted /\ r.kind \in {"preview", "prepare"} => r.file = of /\ r.session = serial

\* The requests still wanted, and everything on the screen, are of the file and the
\* session the page is at.
FlowInv ==
    /\ pageSession \in Nat /\ pageFrame \in Nat /\ selected \in Picked
    /\ shown \in [ShownPlaces -> Shows]
    /\ RequestsKept(flights, selected, pageSession)
    /\ LayersOfSession

\* What was aborted stays a request, and what was not is as before.
LEMMA AbortFacts ==
    ASSUME NEW kinds, NEW of \in SUBSET PageRequests
    PROVE  /\ Abort(kinds, of) \subseteq PageRequests
           /\ \A r \in Abort(kinds, of) : ~r.aborted => r \in of /\ r.kind \notin kinds
<1> SUFFICES ASSUME NEW q \in Abort(kinds, of)
             PROVE  q \in PageRequests /\ (~q.aborted => q \in of /\ q.kind \notin kinds)
  OBVIOUS
<1>1. PICK r \in of : q = IF r.kind \in kinds THEN [r EXCEPT !.aborted = TRUE] ELSE r
  BY DEF Abort
<1>2. [r EXCEPT !.aborted = TRUE] \in PageRequests /\ [r EXCEPT !.aborted = TRUE].aborted
  BY DEF PageRequests
<1> QED
  BY <1>1, <1>2

\* A request is typed, as it is shown.
LEMMA RequestFacts ==
    ASSUME NEW kind \in RequestKinds, NEW of \in Picked, NEW s \in Nat, NEW f \in Nat
    PROVE  /\ Request(kind, of, s, f) \in PageRequests
           /\ Request(kind, of, s, f).kind = kind /\ Request(kind, of, s, f).file = of
           /\ Request(kind, of, s, f).session = s
  BY DEF Request, PageRequests

\* What is put on the page is of the request that brought it.
LEMMA ShowingFacts ==
    ASSUME NEW r \in PageRequests
    PROVE  /\ Showing(r) \in Shows
           /\ Showing(r).file = r.file /\ Showing(r).session = r.session /\ Showing(r).by = r.kind
  BY DEF Showing, Shows, PageRequests

\* A new session stops what the old one asked for.
LEMMA RestartedKept ==
    ASSUME FlowInv, NEW of, NEW serial
    PROVE  RequestsKept(Restarted, of, serial)
  BY AbortFacts DEF FlowInv, RequestsKept, Restarted

\* Fewer requests, or one of the page's own more.
LEMMA RequestAdded ==
    ASSUME NEW held, NEW of \in Picked, NEW serial \in Nat, RequestsKept(held, of, serial),
           NEW kind \in RequestKinds, NEW named \in Picked, NEW s \in Nat, NEW f \in Nat,
           kind \in {"preview", "prepare"} => named = of /\ s = serial
    PROVE  RequestsKept(held \cup {Request(kind, named, s, f)}, of, serial)
  BY RequestFacts DEF RequestsKept

\* Nothing blank is of any session.
LEMMA BlankedFacts == Blanked \in Shows /\ Blanked.session = 0 /\ Blanked.by = "page"
  BY DEF Blanked, Shows, Picked

\* The layers go with the session.
LEMMA WithoutLayersFacts ==
    ASSUME NEW page \in [ShownPlaces -> Shows]
    PROVE  /\ WithoutLayers(page) \in [ShownPlaces -> Shows]
           /\ WithoutLayers(page).overlay = Blanked /\ WithoutLayers(page).facts = Blanked
           /\ WithoutLayers(page).image = page.image /\ WithoutLayers(page).support = page.support
  BY BlankedFacts DEF WithoutLayers, ShownPlaces

\* What the page may change in a step.
FlowStep ==
    \A place \in {"image", "support"} :
      shown'[place] # shown[place] /\ shown'[place].by # "export"
        => /\ shown'[place].file = selected'
           /\ place = "image" => shown'[place].session = pageSession'

\* The files a user may pick.
LEMMA PickedFacts == Photos \subseteq Picked /\ NoPhoto \in Picked
  BY DEF Picked

\* A request is over and the page changed by what it brought.
LEMMA ConcludedKeeps ==
    ASSUME FlowInv, NEW r \in flights, NEW page \in [ShownPlaces -> Shows], Concluded(r, page),
           \A layer \in {"overlay", "facts"} :
             page[layer] = shown[layer] \/ page[layer] = Blanked \/ page[layer].session = pageSession
    PROVE  FlowInv'
<1>1. /\ pageSession' = pageSession /\ pageFrame' = pageFrame /\ selected' = selected
      /\ flights' = flights \ {r} /\ shown' = page
  BY DEF Concluded
<1>2. LayersOfSession'
  BY <1>1 DEF FlowInv, LayersOfSession
<1> QED
  BY <1>1, <1>2 DEF FlowInv, RequestsKept

\* A request of the page.
LEMMA FlightFacts == ASSUME FlowInv, NEW r \in flights PROVE r \in PageRequests
  BY DEF FlowInv, RequestsKept

\* A picked file begins a session with nothing selected.
LEMMA PickFileStep == ASSUME FlowInv, NEW f \in Photos, PickFile(f) PROVE FlowInv' /\ FlowStep
<1> DEFINE page == WithoutLayers(shown)
<1>1. /\ pageSession' = pageSession + 1 /\ pageFrame' = 0 /\ selected' = NoPhoto
      /\ flights' = Restarted \cup {Request("upload", f, pageSession', 0)}
      /\ shown' = [page EXCEPT !.saved = Blanked]
  BY DEF PickFile, BeginSession
<1>2. pageSession' \in Nat /\ selected' \in Picked /\ f \in Picked /\ 0 \in Nat
  BY <1>1, PickedFacts DEF FlowInv
<1>3. RequestsKept(flights', selected', pageSession')
  <2>1. RequestsKept(Restarted, selected', pageSession')
    BY RestartedKept
  <2> QED
    BY <1>1, <1>2, <2>1, RequestAdded DEF RequestKinds
<1>4. shown \in [ShownPlaces -> Shows]
  BY DEF FlowInv
<1>5. /\ shown' \in [ShownPlaces -> Shows] /\ shown'.overlay = Blanked /\ shown'.facts = Blanked
      /\ shown'.image = shown.image /\ shown'.support = shown.support
  <2>1. /\ page \in [ShownPlaces -> Shows] /\ page.overlay = Blanked /\ page.facts = Blanked
        /\ page.image = shown.image /\ page.support = shown.support
    BY <1>4, WithoutLayersFacts
  <2> HIDE DEF page
  <2> QED
    BY <1>1, <2>1, BlankedFacts DEF ShownPlaces
<1> QED
  BY <1>1, <1>2, <1>3, <1>5 DEF FlowInv, FlowStep, LayersOfSession

\* The session that is begun for a file, with the requests it stops.
LEMMA PreparedKeeps ==
    ASSUME FlowInv, NEW f \in Picked, PreparePreview(f), selected' = f,
           shown' \in [ShownPlaces -> Shows], shown'.overlay = Blanked, shown'.facts = Blanked
    PROVE  FlowInv'
<1>1. /\ pageSession' = pageSession + 1 /\ pageFrame' = 0
      /\ flights' = Restarted \cup {Request("prepare", f, pageSession', 0)}
  BY DEF PreparePreview, BeginSession
<1>2. pageSession' \in Nat /\ 0 \in Nat
  BY <1>1 DEF FlowInv
<1>3. RequestsKept(flights', f, pageSession')
  <2>1. RequestsKept(Restarted, f, pageSession')
    BY RestartedKept
  <2> QED
    BY <1>1, <1>2, <2>1, RequestAdded DEF RequestKinds
<1> QED
  BY <1>1, <1>2, <1>3 DEF FlowInv, LayersOfSession

\* An uploaded file is the one of the session it begins.
LEMMA UploadDoneStep == ASSUME FlowInv, NEW r \in flights, UploadDone(r) PROVE FlowInv' /\ FlowStep
<1>0. r \in PageRequests /\ r.file \in Picked /\ shown \in [ShownPlaces -> Shows]
  BY FlightFacts DEF FlowInv, PageRequests
<1>1. CASE Concluded(r, shown)
  <2>1. FlowInv'
    BY <1>0, <1>1, ConcludedKeeps
  <2>2. shown' = shown
    BY <1>1 DEF Concluded
  <2> QED
    BY <2>1, <2>2 DEF FlowStep
<1>2. CASE ~Concluded(r, shown)
  <2>1. /\ pageSession' = pageSession + 1 /\ pageFrame' = 0 /\ selected' = r.file
        /\ shown' = WithoutLayers(shown)
        /\ flights' = ((Restarted \ {r}) \cup {Request("prepare", r.file, pageSession', 0)})
                        \cup {Request("probe", r.file, pageSession, 0)}
    BY <1>2 DEF UploadDone, BeginSession
  <2>2. pageSession \in Nat /\ pageSession' \in Nat /\ 0 \in Nat
    BY <2>1 DEF FlowInv
  <2>3. RequestsKept(Restarted \ {r}, r.file, pageSession')
    <3>1. RequestsKept(Restarted, r.file, pageSession')
      BY RestartedKept
    <3> QED
      BY <3>1 DEF RequestsKept
  <2>4. RequestsKept((Restarted \ {r}) \cup {Request("prepare", r.file, pageSession', 0)}, r.file, pageSession')
    BY <1>0, <2>2, <2>3, RequestAdded DEF RequestKinds
  <2>5. RequestsKept(flights', selected', pageSession')
    BY <1>0, <2>1, <2>2, <2>4, RequestAdded DEF RequestKinds
  <2>6. /\ shown' \in [ShownPlaces -> Shows] /\ shown'.overlay = Blanked /\ shown'.facts = Blanked
        /\ shown'.image = shown.image /\ shown'.support = shown.support
    BY <1>0, <2>1, WithoutLayersFacts
  <2> QED
    BY <1>0, <2>1, <2>2, <2>5, <2>6 DEF FlowInv, FlowStep, LayersOfSession
<1> QED
  BY <1>1, <1>2

\* A control begins a session for the same file.
LEMMA ChangeControlStep == ASSUME FlowInv, ChangeControl PROVE FlowInv' /\ FlowStep
<1>1. PreparePreview(selected) /\ shown' = WithoutLayers(shown) /\ selected' = selected /\ selected \in Picked
  BY DEF ChangeControl, FlowInv
<1>2. /\ shown' \in [ShownPlaces -> Shows] /\ shown'.overlay = Blanked /\ shown'.facts = Blanked
      /\ shown'.image = shown.image /\ shown'.support = shown.support
  BY <1>1, WithoutLayersFacts DEF FlowInv
<1>3. FlowInv'
  BY <1>1, <1>2, PreparedKeeps
<1> QED
  BY <1>2, <1>3 DEF FlowStep

\* So does an edit of the calibrations, with a file or without.
LEMMA ChangeCalibrationStep == ASSUME FlowInv, ChangeCalibration PROVE FlowInv' /\ FlowStep
<1> DEFINE page == WithoutLayers(shown)
<1>1. /\ IF selected # NoPhoto THEN PreparePreview(selected) ELSE BeginSession /\ flights' = Restarted
      /\ shown' = [page EXCEPT !.saved = Blanked] /\ selected' = selected
      /\ selected \in Picked /\ shown \in [ShownPlaces -> Shows]
  BY DEF ChangeCalibration, FlowInv
<1>2. /\ shown' \in [ShownPlaces -> Shows] /\ shown'.overlay = Blanked /\ shown'.facts = Blanked
      /\ shown'.image = shown.image /\ shown'.support = shown.support
  <2>1. /\ page \in [ShownPlaces -> Shows] /\ page.overlay = Blanked /\ page.facts = Blanked
        /\ page.image = shown.image /\ page.support = shown.support
    BY <1>1, WithoutLayersFacts
  <2> HIDE DEF page
  <2> QED
    BY <1>1, <2>1, BlankedFacts DEF ShownPlaces
<1>3. CASE selected # NoPhoto
  <2>1. FlowInv'
    BY <1>1, <1>2, <1>3, PreparedKeeps
  <2> QED
    BY <1>2, <2>1 DEF FlowStep
<1>4. CASE selected = NoPhoto
  <2>1. /\ pageSession' = pageSession + 1 /\ pageFrame' = 0 /\ flights' = Restarted
    BY <1>1, <1>4 DEF BeginSession
  <2>2. RequestsKept(flights', selected', pageSession') /\ pageSession' \in Nat
    BY <2>1, RestartedKept DEF FlowInv
  <2> QED
    BY <1>1, <1>2, <2>1, <2>2 DEF FlowInv, FlowStep, LayersOfSession
<1> QED
  BY <1>3, <1>4

\* A frame is asked for of the page as it is.
LEMMA RequestFrameKeeps ==
    ASSUME FlowInv, NEW held, RequestsKept(held, selected, pageSession),
           NEW page \in [ShownPlaces -> Shows], RequestFrame(held, page),
           selected' = selected, pageSession' = pageSession,
           \A layer \in {"overlay", "facts"} :
             page[layer] = shown[layer] \/ page[layer] = Blanked \/ page[layer].session = pageSession
    PROVE  FlowInv'
<1>1. /\ pageFrame' = pageFrame + 1 /\ shown' = page
      /\ flights' = Abort({"preview"}, held) \cup {Request("preview", selected, pageSession, pageFrame')}
  BY DEF RequestFrame
<1>2. selected \in Picked /\ pageSession \in Nat /\ pageFrame' \in Nat
  BY <1>1 DEF FlowInv
<1>3. RequestsKept(Abort({"preview"}, held), selected, pageSession)
  BY AbortFacts DEF RequestsKept
<1>4. RequestsKept(flights', selected, pageSession)
  BY <1>1, <1>2, <1>3, RequestAdded DEF RequestKinds
<1>5. LayersOfSession'
  BY <1>1 DEF FlowInv, LayersOfSession
<1> QED
  BY <1>1, <1>2, <1>4, <1>5 DEF FlowInv

\* A preparation that is still wanted brings the facts, a layer and a frame.
LEMMA PrepareDoneStep ==
    ASSUME FlowInv, NEW r \in flights, r.kind = "prepare", PrepareDone(r) PROVE FlowInv' /\ FlowStep
<1>0. /\ r \in PageRequests /\ r.file \in Picked /\ selected \in Picked
      /\ shown \in [ShownPlaces -> Shows] /\ pageSession \in Nat
      /\ selected' = selected /\ pageSession' = pageSession /\ 0 \in Nat
      /\ RequestsKept(flights, selected, pageSession)
  BY FlightFacts DEF FlowInv, PageRequests, PrepareDone
<1> DEFINE told == [shown EXCEPT !.facts = Showing(r)]
           silent == [shown EXCEPT !.facts = Blanked]
<1>1. /\ told \in [ShownPlaces -> Shows] /\ told.facts = Showing(r) /\ told.overlay = shown.overlay
      /\ told.image = shown.image /\ told.support = shown.support
  BY <1>0, ShowingFacts DEF ShownPlaces
<1>2. /\ silent \in [ShownPlaces -> Shows] /\ silent.facts = Blanked /\ silent.overlay = shown.overlay
      /\ silent.image = shown.image /\ silent.support = shown.support
  BY <1>0, BlankedFacts DEF ShownPlaces
<1> HIDE DEF told, silent
<1>3. CASE /\ ~r.aborted /\ r.session = pageSession
           /\ RequestFrame((Abort({"overlay"}, flights) \ {r}) \cup {Request("overlay", r.file, pageSession, 0)}, told)
  <2>1. RequestsKept(Abort({"overlay"}, flights) \ {r}, selected, pageSession)
    BY <1>0, AbortFacts DEF RequestsKept
  <2>2. RequestsKept((Abort({"overlay"}, flights) \ {r}) \cup {Request("overlay", r.file, pageSession, 0)},
                     selected, pageSession)
    BY <1>0, <2>1, RequestAdded DEF RequestKinds
  <2>3. told.facts.session = pageSession
    BY <1>0, <1>1, <1>3, ShowingFacts
  <2>4. FlowInv'
    BY <1>0, <1>1, <1>3, <2>2, <2>3, RequestFrameKeeps
  <2>5. shown' = told
    BY <1>3 DEF RequestFrame
  <2> QED
    BY <1>1, <2>4, <2>5 DEF FlowStep
<1>4. CASE /\ flights' = flights \ {r} /\ UNCHANGED <<pageFrame, ready>>
           /\ shown' = IF r.aborted \/ r.session # pageSession THEN shown ELSE silent
  <2>1. RequestsKept(flights', selected', pageSession')
    BY <1>0, <1>4 DEF RequestsKept
  <2>2. LayersOfSession'
    BY <1>0, <1>2, <1>4 DEF FlowInv, LayersOfSession
  <2>3. FlowInv'
    BY <1>0, <1>2, <1>4, <2>1, <2>2 DEF FlowInv
  <2> QED
    BY <1>2, <1>4, <2>3 DEF FlowStep
<1> QED
  BY <1>3, <1>4 DEF PrepareDone, told, silent

\* A live change asks for one more frame.
LEMMA LiveChangeStep == ASSUME FlowInv, LiveChange PROVE FlowInv' /\ FlowStep
<1>1. RequestFrame(flights, shown) /\ selected' = selected /\ pageSession' = pageSession
  BY DEF LiveChange
<1>2. RequestsKept(flights, selected, pageSession) /\ shown \in [ShownPlaces -> Shows]
  BY DEF FlowInv
<1>3. FlowInv'
  BY <1>1, <1>2, RequestFrameKeeps
<1>4. shown' = shown
  BY <1>1 DEF RequestFrame
<1> QED
  BY <1>3, <1>4 DEF FlowStep

\* A frame that is taken is of the file and the session on the page.
LEMMA FrameDoneStep ==
    ASSUME FlowInv, NEW r \in flights, r.kind = "preview", FrameDone(r) PROVE FlowInv' /\ FlowStep
<1> DEFINE page == IF StillWanted(r) THEN [shown EXCEPT !.image = Showing(r)] ELSE shown
<1>1. r \in PageRequests /\ shown \in [ShownPlaces -> Shows] /\ Concluded(r, page)
  BY FlightFacts DEF FlowInv, FrameDone
<1>2. /\ page \in [ShownPlaces -> Shows] /\ page.overlay = shown.overlay /\ page.facts = shown.facts
      /\ page.support = shown.support /\ page.image \in {shown.image, Showing(r)}
      /\ ~StillWanted(r) => page = shown
  BY <1>1, ShowingFacts DEF ShownPlaces
<1> HIDE DEF page
<1>3. FlowInv'
  BY <1>1, <1>2, ConcludedKeeps
<1>4. shown' = page /\ selected' = selected /\ pageSession' = pageSession
  BY <1>1 DEF Concluded
<1>5. StillWanted(r) => r.file = selected /\ r.session = pageSession
  BY DEF StillWanted, FlowInv, RequestsKept
<1> QED
  BY <1>1, <1>2, <1>3, <1>4, <1>5, ShowingFacts DEF FlowStep

\* So is a layer.
LEMMA OverlayDoneStep ==
    ASSUME FlowInv, NEW r \in flights, OverlayDone(r) PROVE FlowInv' /\ FlowStep
<1>1. PICK there \in BOOLEAN :
        Concluded(r, IF StillWanted(r) THEN [shown EXCEPT !.overlay = IF there THEN Showing(r) ELSE Blanked] ELSE shown)
  BY DEF OverlayDone
<1> DEFINE page == IF StillWanted(r) THEN [shown EXCEPT !.overlay = IF there THEN Showing(r) ELSE Blanked] ELSE shown
<1>2. r \in PageRequests /\ shown \in [ShownPlaces -> Shows] /\ Concluded(r, page)
  BY <1>1, FlightFacts DEF FlowInv
<1>3. /\ page \in [ShownPlaces -> Shows] /\ page.facts = shown.facts
      /\ page.support = shown.support /\ page.image = shown.image
      /\ page.overlay \in {shown.overlay, Showing(r), Blanked}
      /\ ~StillWanted(r) => page = shown
  BY <1>2, ShowingFacts, BlankedFacts DEF ShownPlaces
<1> HIDE DEF page
<1>4. StillWanted(r) => Showing(r).session = pageSession \/ (r.kind = "preview" /\ r.session = pageSession)
  BY <1>2, ShowingFacts DEF StillWanted, FlowInv, RequestsKept
<1>5. page.overlay = shown.overlay \/ page.overlay = Blanked \/ page.overlay.session = pageSession
  BY <1>2, <1>3, <1>4, ShowingFacts
<1>6. FlowInv'
  BY <1>2, <1>3, <1>5, ConcludedKeeps
<1>7. shown' = page
  BY <1>2 DEF Concluded
<1> QED
  BY <1>3, <1>6, <1>7 DEF FlowStep

\* What is said of a decoder is said of the file selected.
LEMMA ProbeDoneStep ==
    ASSUME FlowInv, NEW r \in flights, ProbeDone(r) PROVE FlowInv' /\ FlowStep
<1> DEFINE page == IF r.file = selected THEN [shown EXCEPT !.support = Showing(r)] ELSE shown
<1>1. r \in PageRequests /\ shown \in [ShownPlaces -> Shows] /\ Concluded(r, page)
  BY FlightFacts DEF FlowInv, ProbeDone
<1>2. /\ page \in [ShownPlaces -> Shows] /\ page.overlay = shown.overlay /\ page.facts = shown.facts
      /\ page.image = shown.image /\ page.support \in {shown.support, Showing(r)}
      /\ r.file # selected => page = shown
  BY <1>1, ShowingFacts DEF ShownPlaces
<1> HIDE DEF page
<1>3. FlowInv'
  BY <1>1, <1>2, ConcludedKeeps
<1>4. shown' = page /\ selected' = selected
  BY <1>1 DEF Concluded
<1> QED
  BY <1>1, <1>2, <1>3, <1>4, ShowingFacts DEF FlowStep

\* An export is told by its kind.
LEMMA ExportDoneStep ==
    ASSUME FlowInv, NEW r \in flights, r.kind = "export", ExportDone(r) PROVE FlowInv' /\ FlowStep
<1> DEFINE delivered == [shown EXCEPT !.image = Showing(r), !.saved = Showing(r)]
<1>1. r \in PageRequests /\ shown \in [ShownPlaces -> Shows]
  BY FlightFacts DEF FlowInv
<1>2. /\ delivered \in [ShownPlaces -> Shows] /\ delivered.overlay = shown.overlay
      /\ delivered.facts = shown.facts /\ delivered.support = shown.support /\ delivered.image = Showing(r)
  BY <1>1, ShowingFacts DEF ShownPlaces
<1> HIDE DEF delivered
<1>3. CASE Concluded(r, delivered)
  <2>1. FlowInv'
    BY <1>2, <1>3, ConcludedKeeps
  <2>2. shown' = delivered
    BY <1>3 DEF Concluded
  <2> QED
    BY <1>1, <1>2, <2>1, <2>2, ShowingFacts DEF FlowStep
<1>4. CASE Concluded(r, shown)
  <2>1. FlowInv'
    BY <1>1, <1>4, ConcludedKeeps
  <2>2. shown' = shown
    BY <1>4 DEF Concluded
  <2> QED
    BY <2>1, <2>2 DEF FlowStep
<1> QED
  BY <1>3, <1>4 DEF ExportDone, delivered

\* The page stays on what it is on when an export begins or an answer is lost.
LEMMA QuietSteps ==
    ASSUME FlowInv, StartExport \/ (\E r \in flights : Failed(r)) PROVE FlowInv' /\ FlowStep
<1>1. CASE StartExport
  <2>1. /\ flights' = flights \cup {Request("export", selected, pageSession, 0)}
        /\ pageSession' = pageSession /\ pageFrame' = pageFrame /\ selected' = selected /\ shown' = shown
    BY <1>1 DEF StartExport
  <2>2. RequestsKept(flights', selected, pageSession)
    BY <2>1, RequestAdded DEF FlowInv, RequestKinds
  <2> QED
    BY <2>1, <2>2 DEF FlowInv, FlowStep, LayersOfSession
<1>2. CASE \E r \in flights : Failed(r)
  <2>1. PICK r \in flights : Concluded(r, shown)
    BY <1>2 DEF Failed
  <2>2. FlowInv'
    BY <2>1, ConcludedKeeps DEF FlowInv
  <2>3. shown' = shown
    BY <2>1 DEF Concluded
  <2> QED
    BY <2>2, <2>3 DEF FlowStep
<1> QED
  BY <1>1, <1>2

\* Every handler of the page.
LEMMA FlowSteps == ASSUME FlowInv, FlowNext PROVE FlowInv' /\ FlowStep
<1>1. CASE \E f \in Photos : PickFile(f)
  BY <1>1, PickFileStep
<1>2. CASE ChangeControl
  BY <1>2, ChangeControlStep
<1>3. CASE ChangeCalibration
  BY <1>3, ChangeCalibrationStep
<1>4. CASE LiveChange
  BY <1>4, LiveChangeStep
<1>5. CASE StartExport \/ (\E r \in flights : Failed(r))
  BY <1>5, QuietSteps
<1>6. CASE \E r \in Flying("upload") : UploadDone(r)
  BY <1>6, UploadDoneStep DEF Flying
<1>7. CASE \E r \in Flying("prepare") : PrepareDone(r)
  BY <1>7, PrepareDoneStep DEF Flying
<1>8. CASE \E r \in Flying("preview") : FrameDone(r)
  BY <1>8, FrameDoneStep DEF Flying
<1>9. CASE \E r \in Flying("overlay") : OverlayDone(r)
  BY <1>9, OverlayDoneStep DEF Flying
<1>10. CASE \E r \in Flying("probe") : ProbeDone(r)
  BY <1>10, ProbeDoneStep DEF Flying
<1>11. CASE \E r \in Flying("export") : ExportDone(r)
  BY <1>11, ExportDoneStep DEF Flying
<1> QED
  BY <1>1, <1>2, <1>3, <1>4, <1>5, <1>6, <1>7, <1>8, <1>9, <1>10, <1>11 DEF FlowNext

\* What is wanted is of the file and session of the page, in every behaviour.
THEOREM FlowInvariant == FlowSpec => []FlowInv
<1>1. FlowInit => FlowInv
  <2> SUFFICES ASSUME FlowInit PROVE FlowInv
    OBVIOUS
  <2>1. shown = [image |-> Blanked, overlay |-> Blanked, facts |-> Blanked, support |-> Blanked, saved |-> Blanked]
    BY DEF FlowInit
  <2>2. shown \in [ShownPlaces -> Shows] /\ LayersOfSession
    BY <2>1, BlankedFacts DEF ShownPlaces, LayersOfSession
  <2> QED
    BY <2>2, PickedFacts DEF FlowInit, FlowInv, RequestsKept
<1>2. FlowInv /\ [FlowNext]_flowVars => FlowInv'
  <2>1. CASE FlowNext
    BY <2>1, FlowSteps
  <2>2. CASE UNCHANGED flowVars
    BY <2>2 DEF flowVars, FlowInv, RequestsKept, LayersOfSession
  <2> QED
    BY <2>1, <2>2
<1> QED
  BY <1>1, <1>2, PTL DEF FlowSpec

\* The layers are of the session, a frame put there of the file selected.
LEMMA SelectionShown == FlowSpec => PageShowsSelection
<1>1. FlowInv => LayersOfSession
  BY DEF FlowInv
<1>2. FlowInv /\ [FlowNext]_flowVars => [FlowStep]_flowVars
  BY FlowSteps
<1>3. FlowStep <=>
        \A place \in {"image", "support"} :
          shown'[place] # shown[place] /\ shown'[place].by # "export"
            => /\ shown'[place].file = selected'
               /\ place = "image" => shown'[place].session = pageSession'
  BY DEF FlowStep
<1> QED
  BY FlowInvariant, <1>1, <1>2, <1>3, PTL DEF FlowSpec, PageShowsSelection, FramesOfSelection, FlowStep


(* What the page sends

   The page and the service state one contract twice. ControlsInv says what holds
   between any two handlers: what is locked and set aside belongs to the decoder,
   and the encoding to the profile and the format. *)

ControlFields ==
    {"decoder", "highlight", "core", "format", "look", "profile", "chroma", "encoder", "bits",
     "locked", "highlightStash", "coreStash", "confirm"}
ChoiceFields == {"decoder", "highlight", "core", "format", "look", "profile", "chroma", "encoder", "bits"}

\* The fields of the page and their values.
Filled(c) ==
    /\ DOMAIN c = ControlFields
    /\ c.decoder \in {"libraw", "coreimage"} /\ c.highlight \in {"clip", "blend", "reconstruct"}
    /\ c.core \in {"agx", "gated", "lum"} /\ c.format \in Formats /\ c.look \in BOOLEAN
    /\ c.profile \in Profiles /\ c.chroma \in {"444", "422", "420"} /\ c.encoder \in {"auto", "apple"}
    /\ c.bits \in {8, 10} /\ c.locked \in BOOLEAN

\* What is set aside can be given back.
SetAside(c) ==
    /\ c.locked => c.highlightStash \in {"clip", "blend"} /\ c.coreStash \in {NoStash, "gated"}
    /\ ~c.locked => c.highlight \in {"clip", "blend"} /\ c.highlightStash = NoStash /\ c.coreStash = NoStash
    /\ c.locked => host.apple

\* A decoder that decides for itself has its controls locked.
Locked(c) ==
    /\ c.locked <=> c.decoder = "coreimage"
    /\ c.locked => c.highlight = "reconstruct" /\ c.core # "gated"

\* The encoding is the one of the profile and the format.
Fixed(c) ==
    /\ c.look => ~IsHdr(c.format)
    /\ c.profile = "share-hq" => ~IsHeif(c.format) /\ c.chroma = "420"
    /\ c.profile = "archive" => c.chroma = "444"
    /\ c.profile = "auto" => c.chroma = IF IsHeif(c.format) THEN "444" ELSE "422"

\* The export button.
Confirms(c) == c.confirm <=> (~(IsHdr(c.format) /\ c.core # "agx") /\ ~HeifProblem(c))

\* What is kept over a reload.
WellKept(s) ==
    /\ DOMAIN s = ChoiceFields
    /\ s.decoder \in {"libraw", "coreimage"} /\ s.highlight \in {"clip", "blend"}
    /\ s.core \in {"agx", "gated", "lum"} /\ s.format \in Formats /\ s.look \in BOOLEAN
    /\ s.profile \in Profiles /\ s.chroma \in {"444", "422", "420"} /\ s.encoder \in {"auto", "apple"}
    /\ s.bits \in {8, 10}

\* A page as every handler leaves it.
Consistent(c) == Filled(c) /\ SetAside(c) /\ Locked(c) /\ Fixed(c) /\ Confirms(c)

\* The page and the settings it remembers are consistent between two handlers, and
\* the settings are those a save would write.
ControlsInv ==
    /\ host.apple \in BOOLEAN
    /\ Consistent(controls) /\ WellKept(remembered)
    /\ WishOf(remembered) = wish /\ WishOf(Saved(controls)) = wish

\* What two settings of the controls have in common.
SameIn(c, d, fields) == \A f \in fields : c[f] = d[f]

\* The handlers' helpers, one by one: what they change and what they leave.
LEMMA ExportUiFacts ==
    ASSUME NEW c, Filled(c)
    PROVE  /\ Filled(ExportUi(c)) /\ Confirms(ExportUi(c))
           /\ SameIn(ExportUi(c), c, ControlFields \ {"confirm"})
<1> DEFINE value == ~(IsHdr(c.format) /\ c.core # "agx") /\ ~HeifProblem(c)
           d == [c EXCEPT !.confirm = value]
<1>1. ExportUi(c) = d
  BY DEF ExportUi
<1>2. /\ DOMAIN d = ControlFields /\ d.confirm = value
      /\ \A f \in ControlFields \ {"confirm"} : d[f] = c[f]
  BY DEF Filled, ControlFields
<1> HIDE DEF d, value
<1>3. Filled(d) /\ SameIn(d, c, ControlFields \ {"confirm"})
  BY <1>2 DEF Filled, SameIn, ControlFields
<1>4. HeifProblem(d) <=> HeifProblem(c)
  BY <1>2 DEF HeifProblem, ControlFields
<1>5. d.format = c.format /\ d.core = c.core
  BY <1>2 DEF ControlFields
<1>6. Confirms(d)
  BY <1>2, <1>4, <1>5 DEF Confirms, value
<1> QED
  BY <1>1, <1>3, <1>6

\* A profile brings its encoding.
LEMMA ConstrainedFacts ==
    ASSUME NEW c, Filled(c), c.look => ~IsHdr(c.format)
    PROVE  /\ Filled(Constrained(c)) /\ Confirms(Constrained(c)) /\ Fixed(Constrained(c))
           /\ SameIn(Constrained(c), c, ControlFields \ {"confirm", "profile", "chroma"})
<1> DEFINE profile == IF IsHeif(c.format) /\ c.profile = "share-hq" THEN "auto" ELSE c.profile
           chroma == CASE profile = "archive" -> "444"
                       [] profile = "share-hq" -> "420"
                       [] profile = "auto" -> IF IsHeif(c.format) THEN "444" ELSE "422"
                       [] profile = "share" -> c.chroma
           d == [c EXCEPT !.profile = profile, !.chroma = chroma]
<1>1. Constrained(c) = ExportUi(d)
  BY DEF Constrained
<1>2. profile \in Profiles /\ (profile = "share-hq" => ~IsHeif(c.format))
  BY DEF Filled, Profiles
<1>3. /\ profile = "archive" => chroma = "444"
      /\ profile = "share-hq" => chroma = "420"
      /\ profile = "auto" => chroma = IF IsHeif(c.format) THEN "444" ELSE "422"
      /\ profile = "share" => chroma = c.chroma
  <2> HIDE DEF profile
  <2> QED
    BY Zenon
<1> HIDE DEF chroma, profile
<1>4. chroma \in {"444", "422", "420"}
  BY <1>2, <1>3 DEF Filled, Profiles
<1>5. /\ DOMAIN d = ControlFields /\ d.profile = profile /\ d.chroma = chroma
      /\ \A f \in ControlFields \ {"profile", "chroma"} : d[f] = c[f]
  BY DEF Filled, ControlFields
<1> HIDE DEF d
<1>6. Filled(d)
  BY <1>2, <1>4, <1>5 DEF Filled, ControlFields
<1>7. Fixed(d)
  BY <1>2, <1>3, <1>5 DEF Fixed, ControlFields
<1>8. /\ Filled(ExportUi(d)) /\ Confirms(ExportUi(d)) /\ SameIn(ExportUi(d), d, ControlFields \ {"confirm"})
  BY <1>6, ExportUiFacts
<1>9. Fixed(ExportUi(d))
  BY <1>7, <1>8 DEF Fixed, SameIn, ControlFields
<1>10. SameIn(ExportUi(d), c, ControlFields \ {"confirm", "profile", "chroma"})
  BY <1>5, <1>8 DEF SameIn
<1> QED
  BY <1>1, <1>8, <1>9, <1>10

\* A format brings a profile it can be delivered with, and HDR no look.
LEMMA FormatUiFacts ==
    ASSUME NEW c, Filled(c)
    PROVE  /\ Filled(FormatUi(c)) /\ Confirms(FormatUi(c)) /\ Fixed(FormatUi(c))
           /\ SameIn(FormatUi(c), c, ControlFields \ {"confirm", "profile", "chroma", "look"})
<1> DEFINE look == c.look /\ ~IsHdr(c.format)
           d == [c EXCEPT !.look = look]
<1>1. FormatUi(c) = Constrained(d)
  BY DEF FormatUi
<1>2. look \in BOOLEAN /\ (look => ~IsHdr(c.format))
  OBVIOUS
<1> HIDE DEF look
<1>3. /\ DOMAIN d = ControlFields /\ d.look = look
      /\ \A f \in ControlFields \ {"look"} : d[f] = c[f]
  BY DEF Filled, ControlFields
<1> HIDE DEF d
<1>4. Filled(d) /\ (d.look => ~IsHdr(d.format))
  BY <1>2, <1>3 DEF Filled, ControlFields
<1>5. /\ Filled(Constrained(d)) /\ Confirms(Constrained(d)) /\ Fixed(Constrained(d))
      /\ SameIn(Constrained(d), d, ControlFields \ {"confirm", "profile", "chroma"})
  BY <1>4, ConstrainedFacts
<1>6. SameIn(Constrained(d), c, ControlFields \ {"confirm", "profile", "chroma", "look"})
  BY <1>3, <1>5 DEF SameIn
<1> QED
  BY <1>1, <1>5, <1>6

\* What the user chose for LibRaw, as it is saved.
ChosenHighlight(c) == IF c.highlightStash # NoStash THEN c.highlightStash ELSE c.highlight
ChosenCore(c) == IF c.coreStash # NoStash THEN c.coreStash ELSE c.core

\* Apple RAW sets the choices for LibRaw aside, LibRaw takes them back.
LEMMA DecoderUiFacts ==
    ASSUME NEW c, Filled(c), SetAside(c), host.apple \in BOOLEAN
    PROVE  /\ Filled(DecoderUi(c)) /\ SetAside(DecoderUi(c)) /\ Locked(DecoderUi(c))
           /\ SameIn(DecoderUi(c), c, {"format", "look", "profile", "chroma", "encoder", "bits"})
           /\ Confirms(c) => Confirms(DecoderUi(c))
           /\ ChosenCore(DecoderUi(c)) = ChosenCore(c) /\ ChosenHighlight(DecoderUi(c)) = ChosenHighlight(c)
<1> DEFINE off == [c EXCEPT !.decoder = "libraw", !.locked = FALSE]
           held == [c EXCEPT !.highlightStash = IF c.locked THEN @ ELSE c.highlight,
                             !.highlight = "reconstruct", !.locked = TRUE]
           heldCore == [held EXCEPT !.core = "agx", !.coreStash = "gated"]
           back == [c EXCEPT !.locked = FALSE, !.highlightStash = NoStash,
                             !.highlight = IF c.highlightStash = NoStash THEN @ ELSE c.highlightStash]
           backCore == [back EXCEPT !.core = c.coreStash, !.coreStash = NoStash]
           Encoding == {"format", "look", "profile", "chroma", "encoder", "bits"}
           \* What the lemma says of a result.
           Good(d) == /\ Filled(d) /\ SetAside(d) /\ Locked(d) /\ SameIn(d, c, Encoding)
                      /\ ChosenCore(d) = ChosenCore(c) /\ ChosenHighlight(d) = ChosenHighlight(c)
<1>1. ~host.apple => DecoderUi(c) = off
  BY Zenon DEF DecoderUi
<1>2. host.apple /\ c.decoder = "coreimage" => DecoderUi(c) = IF c.core = "gated" THEN ExportUi(heldCore) ELSE held
  BY Zenon DEF DecoderUi
<1>3. host.apple /\ c.decoder # "coreimage" => DecoderUi(c) = IF c.coreStash = NoStash THEN back ELSE ExportUi(backCore)
  BY Zenon DEF DecoderUi
<1>4. /\ DOMAIN off = ControlFields /\ off.decoder = "libraw" /\ off.locked = FALSE
      /\ off.highlight = c.highlight /\ off.core = c.core /\ off.format = c.format /\ off.look = c.look
      /\ off.profile = c.profile /\ off.chroma = c.chroma /\ off.encoder = c.encoder
      /\ off.bits = c.bits /\ off.highlightStash = c.highlightStash /\ off.coreStash = c.coreStash /\ off.confirm = c.confirm
  BY DEF Filled, ControlFields
<1>5. /\ DOMAIN held = ControlFields /\ held.highlight = "reconstruct" /\ held.locked = TRUE
      /\ held.highlightStash = IF c.locked THEN c.highlightStash ELSE c.highlight
      /\ held.decoder = c.decoder /\ held.core = c.core /\ held.format = c.format /\ held.look = c.look
      /\ held.profile = c.profile /\ held.chroma = c.chroma /\ held.encoder = c.encoder
      /\ held.bits = c.bits /\ held.coreStash = c.coreStash /\ held.confirm = c.confirm
  BY DEF Filled, ControlFields
<1>6. /\ DOMAIN back = ControlFields /\ back.locked = FALSE /\ back.highlightStash = NoStash
      /\ back.highlight = IF c.highlightStash = NoStash THEN c.highlight ELSE c.highlightStash
      /\ back.decoder = c.decoder /\ back.core = c.core /\ back.format = c.format /\ back.look = c.look
      /\ back.profile = c.profile /\ back.chroma = c.chroma /\ back.encoder = c.encoder
      /\ back.bits = c.bits /\ back.coreStash = c.coreStash /\ back.confirm = c.confirm
  BY DEF Filled, ControlFields
<1>7. /\ DOMAIN heldCore = ControlFields /\ heldCore.core = "agx" /\ heldCore.coreStash = "gated"
      /\ heldCore.decoder = held.decoder /\ heldCore.highlight = held.highlight
      /\ heldCore.format = held.format /\ heldCore.look = held.look /\ heldCore.profile = held.profile
      /\ heldCore.chroma = held.chroma /\ heldCore.encoder = held.encoder /\ heldCore.bits = held.bits
      /\ heldCore.locked = held.locked /\ heldCore.highlightStash = held.highlightStash
  <2> HIDE DEF held
  <2> QED
    BY <1>5 DEF ControlFields
<1>8. /\ DOMAIN backCore = ControlFields /\ backCore.core = c.coreStash /\ backCore.coreStash = NoStash
      /\ backCore.decoder = back.decoder /\ backCore.highlight = back.highlight
      /\ backCore.format = back.format /\ backCore.look = back.look /\ backCore.profile = back.profile
      /\ backCore.chroma = back.chroma /\ backCore.encoder = back.encoder /\ backCore.bits = back.bits
      /\ backCore.locked = back.locked /\ backCore.highlightStash = back.highlightStash
  <2> HIDE DEF back
  <2> QED
    BY <1>6 DEF ControlFields
<1> HIDE DEF off, held, heldCore, back, backCore
<1>9. ASSUME NEW d, Good(d) PROVE Good(ExportUi(d)) /\ Confirms(ExportUi(d))
  <2>1. /\ Filled(ExportUi(d)) /\ Confirms(ExportUi(d)) /\ SameIn(ExportUi(d), d, ControlFields \ {"confirm"})
    BY <1>9, ExportUiFacts
  <2> DEFINE e == ExportUi(d)
  <2>2. /\ e.decoder = d.decoder /\ e.highlight = d.highlight /\ e.core = d.core /\ e.format = d.format
        /\ e.look = d.look /\ e.profile = d.profile /\ e.chroma = d.chroma /\ e.encoder = d.encoder
        /\ e.bits = d.bits /\ e.locked = d.locked /\ e.highlightStash = d.highlightStash
        /\ e.coreStash = d.coreStash
    BY <2>1 DEF SameIn, ControlFields
  <2> HIDE DEF e
  <2>3. SetAside(e) /\ Locked(e)
    BY <1>9, <2>2 DEF SetAside, Locked
  <2>4. SameIn(e, c, Encoding)
    BY <1>9, <2>2 DEF SameIn
  <2>5. ChosenCore(e) = ChosenCore(c) /\ ChosenHighlight(e) = ChosenHighlight(c)
    BY <1>9, <2>2 DEF ChosenCore, ChosenHighlight
  <2> QED
    BY <2>1, <2>3, <2>4, <2>5 DEF e
<1>10. ASSUME NEW d, Good(d), d.core = c.core, d.confirm = c.confirm, Confirms(c) PROVE Confirms(d)
  <2>1. /\ d.format = c.format /\ d.profile = c.profile /\ d.chroma = c.chroma /\ d.encoder = c.encoder
        /\ d.bits = c.bits
    BY <1>10 DEF SameIn
  <2>2. HeifProblem(d) <=> HeifProblem(c)
    BY <2>1 DEF HeifProblem
  <2>3. d.confirm = c.confirm
    BY <1>10
  <2> QED
    BY <1>10, <2>1, <2>2, <2>3 DEF Confirms
<1>11. CASE ~host.apple
  <2>1. Good(off) /\ off.core = c.core /\ off.confirm = c.confirm
    BY <1>4, <1>11 DEF Filled, SetAside, Locked, SameIn, ChosenCore, ChosenHighlight, ControlFields
  <2> QED
    BY <1>1, <1>10, <1>11, <2>1
<1>12. CASE host.apple /\ c.decoder = "coreimage"
  <2>1. CASE c.core # "gated"
    <3>1. Good(held) /\ held.core = c.core /\ held.confirm = c.confirm
      BY <1>5, <1>12, <2>1 DEF Filled, SetAside, Locked, SameIn, ChosenCore, ChosenHighlight, ControlFields, NoStash
    <3> QED
      BY <1>2, <1>10, <1>12, <2>1, <3>1
  <2>2. CASE c.core = "gated"
    <3>1. Filled(heldCore)
      BY <1>5, <1>7, <2>2 DEF Filled
    <3>2. SetAside(heldCore) /\ Locked(heldCore)
      BY <1>5, <1>7, <1>12, <2>2 DEF Filled, SetAside, Locked, NoStash
    <3>3. SameIn(heldCore, c, Encoding)
      BY <1>5, <1>7 DEF SameIn
    <3>4. ChosenCore(heldCore) = ChosenCore(c) /\ ChosenHighlight(heldCore) = ChosenHighlight(c)
      BY <1>5, <1>7, <1>12, <2>2 DEF Filled, SetAside, ChosenCore, ChosenHighlight, NoStash
    <3> QED
      BY <1>2, <1>9, <1>12, <2>2, <3>1, <3>2, <3>3, <3>4
  <2> QED
    BY <2>1, <2>2
<1>13. CASE host.apple /\ c.decoder # "coreimage"
  <2>1. CASE c.coreStash = NoStash
    <3>1. Good(back) /\ back.core = c.core /\ back.confirm = c.confirm
      BY <1>6, <1>13, <2>1 DEF Filled, SetAside, Locked, SameIn, ChosenCore, ChosenHighlight, ControlFields, NoStash
    <3> QED
      BY <1>3, <1>10, <1>13, <2>1, <3>1
  <2>2. CASE c.coreStash # NoStash
    <3>1. c.locked /\ c.coreStash = "gated" /\ c.highlightStash \in {"clip", "blend"} /\ c.decoder = "libraw"
      BY <1>13, <2>2 DEF Filled, SetAside
    <3>2. back.highlight \in {"clip", "reconstruct", "blend"}
      BY <1>6, <3>1 DEF Filled
    <3>3. /\ DOMAIN backCore = ControlFields /\ backCore.decoder = c.decoder /\ backCore.highlight = back.highlight
          /\ backCore.core = "gated" /\ backCore.format = c.format /\ backCore.look = c.look
          /\ backCore.profile = c.profile /\ backCore.chroma = c.chroma /\ backCore.encoder = c.encoder
          /\ backCore.bits = c.bits /\ backCore.locked = FALSE
      BY <1>6, <1>8, <3>1
    <3>4. Filled(backCore)
      BY <3>2, <3>3 DEF Filled
    <3>5. SetAside(backCore) /\ Locked(backCore)
      BY <1>6, <1>8, <3>1 DEF SetAside, Locked, NoStash
    <3>6. SameIn(backCore, c, Encoding)
      BY <1>6, <1>8 DEF SameIn
    <3>7. ChosenCore(backCore) = ChosenCore(c) /\ ChosenHighlight(backCore) = ChosenHighlight(c)
      BY <1>6, <1>8, <3>1 DEF ChosenCore, ChosenHighlight, NoStash
    <3> QED
      BY <1>3, <1>9, <1>13, <2>2, <3>4, <3>5, <3>6, <3>7
  <2> QED
    BY <2>1, <2>2
<1> QED
  BY <1>11, <1>12, <1>13

\* What is saved is what the user chose.
LEMMA SavedFacts ==
    ASSUME NEW c, Filled(c), SetAside(c), Locked(c)
    PROVE  /\ WellKept(Saved(c)) /\ WishOf(Saved(c)) = [highlight |-> ChosenHighlight(c), core |-> ChosenCore(c)]
<1>1. DOMAIN Defaults = ChoiceFields
  BY DEF Defaults, ChoiceFields
<1>2. DOMAIN Saved(c) = ChoiceFields
  BY <1>1 DEF Saved
<1>3. Saved(c)["highlight"] = ChosenHighlight(c) /\ Saved(c)["core"] = ChosenCore(c)
  <2>1. "highlight" \in DOMAIN Defaults /\ "core" \in DOMAIN Defaults /\ "highlight" # "core"
    BY <1>1 DEF ChoiceFields
  <2>2. Saved(c)["highlight"] =
          CASE "highlight" = "highlight" /\ c.highlightStash # NoStash -> c.highlightStash
            [] "highlight" = "core" /\ c.coreStash # NoStash -> c.coreStash
            [] OTHER -> c["highlight"]
    BY <2>1, Zenon DEF Saved
  <2>3. Saved(c)["core"] =
          CASE "core" = "highlight" /\ c.highlightStash # NoStash -> c.highlightStash
            [] "core" = "core" /\ c.coreStash # NoStash -> c.coreStash
            [] OTHER -> c["core"]
    BY <2>1, Zenon DEF Saved
  <2> QED
    BY <2>1, <2>2, <2>3 DEF ChosenHighlight, ChosenCore
<1>4. ASSUME NEW f \in ChoiceFields \ {"highlight", "core"} PROVE Saved(c)[f] = c[f]
  <2>1. f \in DOMAIN Defaults /\ f # "highlight" /\ f # "core"
    BY <1>1
  <2>2. Saved(c)[f] =
          CASE f = "highlight" /\ c.highlightStash # NoStash -> c.highlightStash
            [] f = "core" /\ c.coreStash # NoStash -> c.coreStash
            [] OTHER -> c[f]
    BY <2>1, Zenon DEF Saved
  <2> QED
    BY <2>1, <2>2
<1>5. ChosenHighlight(c) \in {"clip", "blend"} /\ ChosenCore(c) \in {"agx", "gated", "lum"}
  BY DEF Filled, SetAside, Locked, ChosenHighlight, ChosenCore, NoStash
<1>6. WellKept(Saved(c))
  <2> DEFINE s == Saved(c)
  <2>1. /\ s.decoder = c.decoder /\ s.format = c.format /\ s.look = c.look /\ s.profile = c.profile
        /\ s.chroma = c.chroma /\ s.encoder = c.encoder /\ s.bits = c.bits
    BY <1>4 DEF ChoiceFields
  <2>2. s.highlight = ChosenHighlight(c) /\ s.core = ChosenCore(c) /\ DOMAIN s = ChoiceFields
    BY <1>2, <1>3
  <2> HIDE DEF s
  <2>3. WellKept(s)
    BY <1>5, <2>1, <2>2 DEF WellKept, Filled
  <2> QED
    BY <2>3 DEF s
<1> QED
  BY <1>3, <1>6 DEF WishOf

\* Settings laid over those of an unlocked page, or of the page as it is.
LEMMA LaidOverFacts ==
    ASSUME NEW s, WellKept(s), NEW c, DOMAIN c \subseteq ControlFields,
           {"locked", "highlightStash", "coreStash", "confirm"} \subseteq DOMAIN c, c.locked \in BOOLEAN
    PROVE  /\ Filled(LaidOver(s, c)) /\ SameIn(LaidOver(s, c), s, ChoiceFields)
           /\ SameIn(LaidOver(s, c), c, {"locked", "highlightStash", "coreStash", "confirm"})
<1> DEFINE d == LaidOver(s, c)
           Others == {"locked", "highlightStash", "coreStash", "confirm"}
<1>1. ChoiceFields \cup Others = ControlFields /\ ChoiceFields \cap Others = {}
  BY DEF ChoiceFields, ControlFields
<1>2. DOMAIN s = ChoiceFields
  BY DEF WellKept
<1>3. DOMAIN d = ControlFields
  BY <1>1, <1>2 DEF LaidOver
<1>4. (\A f \in ChoiceFields : d[f] = s[f]) /\ (\A f \in Others : d[f] = c[f])
  BY <1>1, <1>2 DEF LaidOver
<1> HIDE DEF d
<1>5. Filled(d)
  BY <1>3, <1>4 DEF Filled, WellKept, ChoiceFields
<1> QED
  BY <1>4, <1>5 DEF SameIn, d

\* A page that is restored is consistent, and gives the user's choices back.
LEMMA RestoredFacts ==
    ASSUME NEW s, WellKept(s), host.apple \in BOOLEAN
    PROVE  LET c == Restored(s)
           IN  /\ Filled(c) /\ SetAside(c) /\ Locked(c) /\ Fixed(c) /\ Confirms(c)
               /\ ChosenHighlight(c) = s.highlight /\ ChosenCore(c) = s.core
<1> DEFINE over == LaidOver(s, Unlocked)
           ui == FormatUi(over)
           c == DecoderUi(ui)
<1>1. /\ DOMAIN Unlocked = {"locked", "highlightStash", "coreStash", "confirm"}
      /\ Unlocked.locked = FALSE /\ Unlocked.highlightStash = NoStash /\ Unlocked.coreStash = NoStash
  BY DEF Unlocked
<1>2. /\ Filled(over) /\ SameIn(over, s, ChoiceFields)
      /\ over.locked = FALSE /\ over.highlightStash = NoStash /\ over.coreStash = NoStash
  <2>1. {"locked", "highlightStash", "coreStash", "confirm"} \subseteq ControlFields
    BY DEF ControlFields
  <2>2. /\ Filled(over) /\ SameIn(over, s, ChoiceFields)
        /\ SameIn(over, Unlocked, {"locked", "highlightStash", "coreStash", "confirm"})
    BY <1>1, <2>1, LaidOverFacts
  <2> QED
    BY <1>1, <2>2 DEF SameIn
<1> HIDE DEF over
<1>3. /\ Filled(ui) /\ Confirms(ui) /\ Fixed(ui)
      /\ SameIn(ui, over, ControlFields \ {"confirm", "profile", "chroma", "look"})
  BY <1>2, FormatUiFacts
<1> HIDE DEF ui
<1>4. SetAside(ui) /\ ui.highlight = s.highlight /\ ui.core = s.core /\ ui.highlightStash = NoStash /\ ui.coreStash = NoStash
  BY <1>2, <1>3 DEF SameIn, SetAside, WellKept, ControlFields, ChoiceFields
<1>5. /\ Filled(c) /\ SetAside(c) /\ Locked(c) /\ Confirms(c)
      /\ SameIn(c, ui, {"format", "look", "profile", "chroma", "encoder", "bits"})
      /\ ChosenCore(c) = ChosenCore(ui) /\ ChosenHighlight(c) = ChosenHighlight(ui)
  BY <1>3, <1>4, DecoderUiFacts
<1>6. ChosenCore(ui) = s.core /\ ChosenHighlight(ui) = s.highlight
  BY <1>4 DEF ChosenCore, ChosenHighlight
<1> HIDE DEF c
<1>7. Fixed(c)
  BY <1>3, <1>5 DEF Fixed, SameIn
<1> QED
  BY <1>5, <1>6, <1>7 DEF c, ui, over, Restored

\* What is corrected while it is read keeps its choices.
LEMMA CorrectedFacts ==
    ASSUME NEW s, WellKept(s) PROVE WellKept(Corrected(s)) /\ WishOf(Corrected(s)) = WishOf(s)
<1> DEFINE look == s.look /\ ~IsHdr(s.format)
           d == [s EXCEPT !.look = look]
<1>1. look \in BOOLEAN /\ Corrected(s) = d
  BY DEF Corrected
<1> HIDE DEF look
<1>2. DOMAIN d = ChoiceFields /\ d.look = look /\ \A f \in ChoiceFields \ {"look"} : d[f] = s[f]
  BY DEF WellKept, ChoiceFields
<1> HIDE DEF d
<1>3. WellKept(d) /\ d.highlight = s.highlight /\ d.core = s.core
  BY <1>1, <1>2 DEF WellKept, ChoiceFields
<1> QED
  BY <1>1, <1>3 DEF WishOf

\* How a handler ends.
Ends(c) == controls' = c /\ remembered' = Saved(c) /\ host' = host

\* A handler ends with what it made of the controls kept.
LEMMA HandlersEnd == \A c : Handled(c) => Ends(c)
  BY DEF Handled, Ends

\* The end of a handler that leaves the page consistent.
LEMMA HandledKeeps ==
    ASSUME ControlsInv, NEW c, Ends(c), Consistent(c),
           wish' = [highlight |-> ChosenHighlight(c), core |-> ChosenCore(c)]
    PROVE  ControlsInv'
<1>1. controls' = c /\ remembered' = Saved(c) /\ host' = host
  BY DEF Ends
<1>2. Consistent(controls)'
  BY <1>1 DEF Consistent, Filled, SetAside, Locked, Fixed, Confirms
<1>3. WellKept(Saved(c)) /\ WishOf(Saved(c)) = wish'
  BY SavedFacts DEF Consistent
<1> QED
  BY <1>1, <1>2, <1>3 DEF ControlsInv

\* What the user wants is what the page would save.
LEMMA WishFacts ==
    ASSUME ControlsInv
    PROVE  wish = [highlight |-> ChosenHighlight(controls), core |-> ChosenCore(controls)]
  BY SavedFacts DEF ControlsInv, Consistent

\* One control of a page.
LEMMA ControlSet ==
    ASSUME NEW c, Filled(c), NEW f \in ControlFields, NEW v
    PROVE  LET d == [c EXCEPT ![f] = v]
           IN  DOMAIN d = ControlFields /\ d[f] = v /\ SameIn(d, c, ControlFields \ {f})
  BY DEF Filled, SameIn

\* The fields of two settings that differ in none of them.
LEMMA SameFacts ==
    ASSUME NEW c, NEW d
    PROVE  /\ SameIn(d, c, {"highlight", "highlightStash"}) => ChosenHighlight(d) = ChosenHighlight(c)
           /\ SameIn(d, c, {"core", "coreStash"}) => ChosenCore(d) = ChosenCore(c)
           /\ SameIn(d, c, {"locked", "highlight", "highlightStash", "coreStash"}) /\ SetAside(c) => SetAside(d)
           /\ SameIn(d, c, {"locked", "decoder", "highlight", "core"}) /\ Locked(c) => Locked(d)
           /\ SameIn(d, c, {"look", "format", "profile", "chroma"}) /\ Fixed(c) => Fixed(d)
           /\ SameIn(d, c, {"format", "core", "encoder", "profile", "bits", "chroma", "confirm"}) /\ Confirms(c)
                => Confirms(d)
<1>1. SameIn(d, c, {"highlight", "highlightStash"}) => ChosenHighlight(d) = ChosenHighlight(c)
  BY DEF SameIn, ChosenHighlight
<1>2. SameIn(d, c, {"core", "coreStash"}) => ChosenCore(d) = ChosenCore(c)
  BY DEF SameIn, ChosenCore
<1>3. SameIn(d, c, {"locked", "highlight", "highlightStash", "coreStash"}) /\ SetAside(c) => SetAside(d)
  BY DEF SameIn, SetAside
<1>4. SameIn(d, c, {"locked", "decoder", "highlight", "core"}) /\ Locked(c) => Locked(d)
  BY DEF SameIn, Locked
<1>5. SameIn(d, c, {"look", "format", "profile", "chroma"}) /\ Fixed(c) => Fixed(d)
  BY DEF SameIn, Fixed
<1>6. SameIn(d, c, {"format", "core", "encoder", "profile", "bits", "chroma", "confirm"}) /\ Confirms(c) => Confirms(d)
  BY DEF SameIn, Confirms, HeifProblem
<1> QED
  BY <1>1, <1>2, <1>3, <1>4, <1>5, <1>6

\* Fewer fields are the same too.
LEMMA SameInFewer ==
    ASSUME NEW c, NEW d, NEW fields, SameIn(d, c, fields), NEW fewer \in SUBSET fields PROVE SameIn(d, c, fewer)
  BY DEF SameIn

\* What a format, a profile or an encoding brings leaves the decoder's controls alone.
LEMMA EncodingKeeps ==
    ASSUME ControlsInv, NEW c, Filled(c), Fixed(c), Confirms(c), Ends(c), UNCHANGED wish,
           SameIn(c, controls, {"decoder", "highlight", "core", "locked", "highlightStash", "coreStash"})
    PROVE  ControlsInv'
<1>1. SetAside(c) /\ Locked(c) /\ ChosenHighlight(c) = ChosenHighlight(controls) /\ ChosenCore(c) = ChosenCore(controls)
  BY SameFacts, SameInFewer DEF ControlsInv, Consistent
<1> QED
  BY <1>1, WishFacts, HandledKeeps DEF Consistent

\* The decoder's own controls leave the encoding alone.
LEMMA DecoderKeeps ==
    ASSUME ControlsInv, NEW c, Filled(c), SetAside(c), Ends(DecoderUi(c)), UNCHANGED wish,
           SameIn(c, controls, ControlFields \ {"decoder"})
    PROVE  ControlsInv'
<1>1. Fixed(c) /\ Confirms(c) /\ ChosenHighlight(c) = ChosenHighlight(controls) /\ ChosenCore(c) = ChosenCore(controls)
  BY SameFacts, SameInFewer DEF ControlsInv, Consistent, ControlFields
<1>2. /\ Filled(DecoderUi(c)) /\ SetAside(DecoderUi(c)) /\ Locked(DecoderUi(c))
      /\ SameIn(DecoderUi(c), c, {"format", "look", "profile", "chroma", "encoder", "bits"})
      /\ Confirms(DecoderUi(c))
      /\ ChosenCore(DecoderUi(c)) = ChosenCore(c) /\ ChosenHighlight(DecoderUi(c)) = ChosenHighlight(c)
  BY <1>1, DecoderUiFacts DEF ControlsInv
<1>3. Fixed(DecoderUi(c))
  BY <1>1, <1>2, SameFacts, SameInFewer
<1> QED
  BY <1>1, <1>2, <1>3, WishFacts, HandledKeeps DEF Consistent

\* Every handler, one by one.
LEMMA ControlsSteps == ASSUME ControlsInv, ControlsNext PROVE ControlsInv'
<1>0. /\ Filled(controls) /\ SetAside(controls) /\ Locked(controls) /\ Fixed(controls) /\ Confirms(controls)
      /\ host.apple \in BOOLEAN /\ WellKept(remembered)
      /\ wish = [highlight |-> ChosenHighlight(controls), core |-> ChosenCore(controls)]
  BY WishFacts DEF ControlsInv, Consistent
<1>1. CASE ChooseDecoder
  <2>1. PICK d \in {"libraw", "coreimage"} : Ends(DecoderUi([controls EXCEPT !.decoder = d])) /\ UNCHANGED wish
    BY <1>1, HandlersEnd DEF ChooseDecoder
  <2> DEFINE c == [controls EXCEPT !.decoder = d]
  <2>2. DOMAIN c = ControlFields /\ c.decoder = d /\ SameIn(c, controls, ControlFields \ {"decoder"})
    BY <1>0, ControlSet DEF ControlFields
  <2>3. Ends(DecoderUi(c)) /\ UNCHANGED wish
    BY <2>1
  <2> HIDE DEF c
  <2>4. Filled(c)
    BY <1>0, <2>2 DEF Filled, SameIn, ControlFields
  <2>5. SetAside(c)
    BY <1>0, <2>2, SameFacts, SameInFewer DEF ControlFields
  <2> QED
    BY <2>2, <2>3, <2>4, <2>5, DecoderKeeps
<1>2. CASE ChooseHighlight
  <2>1. PICK h \in {"clip", "blend"} : /\ Ends([controls EXCEPT !.highlight = h])
                                       /\ wish' = [wish EXCEPT !.highlight = h]
    BY <1>2, HandlersEnd DEF ChooseHighlight
  <2>2. ~controls.locked
    BY <1>2, HandlersEnd DEF ChooseHighlight
  <2> DEFINE c == [controls EXCEPT !.highlight = h]
  <2>3. DOMAIN c = ControlFields /\ c.highlight = h /\ SameIn(c, controls, ControlFields \ {"highlight"})
    BY <1>0, ControlSet DEF ControlFields
  <2>4. Ends(c) /\ wish' = [highlight |-> h, core |-> ChosenCore(controls)]
    BY <1>0, <2>1
  <2> HIDE DEF c
  <2>5. /\ c.locked = controls.locked /\ c.highlightStash = controls.highlightStash
        /\ c.coreStash = controls.coreStash /\ c.decoder = controls.decoder
    BY <2>3 DEF SameIn, ControlFields
  <2>6. Filled(c)
    BY <1>0, <2>3 DEF Filled, SameIn, ControlFields
  <2>7. SetAside(c) /\ Locked(c)
    BY <1>0, <2>2, <2>3, <2>5 DEF SetAside, Locked
  <2>8. Fixed(c) /\ Confirms(c) /\ ChosenCore(c) = ChosenCore(controls)
    BY <1>0, <2>3, SameFacts, SameInFewer DEF ControlFields
  <2>9. ChosenHighlight(c) = h
    BY <2>2, <2>3, <2>7, <2>5 DEF SetAside, ChosenHighlight
  <2> QED
    BY <2>4, <2>6, <2>7, <2>8, <2>9, HandledKeeps DEF Consistent
<1>3. CASE ChooseCore
  <2>1. PICK core \in {"agx", "gated", "lum"} :
          /\ ~(controls.locked /\ core = "gated")
          /\ Ends(ExportUi([controls EXCEPT !.core = core, !.coreStash = NoStash]))
          /\ wish' = [wish EXCEPT !.core = core]
    BY <1>3, HandlersEnd DEF ChooseCore
  <2> DEFINE d == [controls EXCEPT !.core = core, !.coreStash = NoStash]
             c == ExportUi(d)
  <2>2. /\ DOMAIN d = ControlFields /\ d.core = core /\ d.coreStash = NoStash
        /\ \A f \in ControlFields \ {"core", "coreStash"} : d[f] = controls[f]
    BY <1>0 DEF Filled, ControlFields
  <2>3. Ends(c) /\ wish' = [highlight |-> ChosenHighlight(controls), core |-> core]
    BY <1>0, <2>1
  <2> HIDE DEF d
  <2>4. Filled(d)
    BY <1>0, <2>2 DEF Filled, ControlFields
  <2>5. Filled(c) /\ Confirms(c) /\ SameIn(c, d, ControlFields \ {"confirm"})
    BY <2>4, ExportUiFacts
  <2> HIDE DEF c
  <2>6. /\ c.locked = controls.locked /\ c.highlightStash = controls.highlightStash /\ c.highlight = controls.highlight
        /\ c.coreStash = NoStash /\ c.decoder = controls.decoder /\ c.core = core
        /\ c.look = controls.look /\ c.format = controls.format /\ c.profile = controls.profile
        /\ c.chroma = controls.chroma
    BY <2>2, <2>5 DEF SameIn, ControlFields
  <2>7. SetAside(c) /\ Locked(c)
    BY <1>0, <2>1, <2>6 DEF SetAside, Locked
  <2>8. Fixed(c)
    BY <1>0, <2>6 DEF Fixed
  <2>9. ChosenHighlight(c) = ChosenHighlight(controls) /\ ChosenCore(c) = core
    BY <2>6 DEF ChosenHighlight, ChosenCore
  <2> QED
    BY <2>3, <2>5, <2>7, <2>8, <2>9, HandledKeeps DEF Consistent
<1>4. ASSUME NEW f \in Formats, Ends(FormatUi([controls EXCEPT !.format = f])), UNCHANGED wish PROVE ControlsInv'
  <2> DEFINE d == [controls EXCEPT !.format = f]
             c == FormatUi(d)
  <2>1. DOMAIN d = ControlFields /\ d.format = f /\ SameIn(d, controls, ControlFields \ {"format"})
    BY <1>0, ControlSet DEF ControlFields
  <2>2. Ends(c)
    BY <1>4
  <2> HIDE DEF d
  <2>3. Filled(d)
    BY <1>0, <2>1 DEF Filled, SameIn, ControlFields
  <2>4. Filled(c) /\ Confirms(c) /\ Fixed(c) /\ SameIn(c, d, ControlFields \ {"confirm", "profile", "chroma", "look"})
    BY <2>3, FormatUiFacts
  <2> HIDE DEF c
  <2>5. SameIn(c, controls, {"decoder", "highlight", "core", "locked", "highlightStash", "coreStash"})
    BY <2>1, <2>4 DEF SameIn, ControlFields
  <2> QED
    BY <1>4, <2>2, <2>4, <2>5, EncodingKeeps
<1>5. CASE ChooseFormat
  BY <1>4, <1>5, HandlersEnd DEF ChooseFormat
\* What a profile or an encoding is chosen to be.
<1>6. ASSUME NEW d, Filled(d), SameIn(d, controls, ControlFields \ {"profile", "chroma", "encoder", "bits"}),
             Ends(Constrained(d)), UNCHANGED wish
      PROVE  ControlsInv'
  <2>1. d.look => ~IsHdr(d.format)
    BY <1>0, <1>6 DEF Fixed, SameIn, ControlFields
  <2> DEFINE c == Constrained(d)
  <2>2. /\ Filled(c) /\ Confirms(c) /\ Fixed(c)
        /\ SameIn(c, d, ControlFields \ {"confirm", "profile", "chroma"})
    BY <1>6, <2>1, ConstrainedFacts
  <2>3. SameIn(c, controls, {"decoder", "highlight", "core", "locked", "highlightStash", "coreStash"})
    BY <1>6, <2>2 DEF SameIn, ControlFields
  <2> QED
    BY <1>6, <2>2, <2>3, EncodingKeeps
<1>7. CASE ChooseProfile
  <2>1. PICK p \in Profiles :
          Ends(Constrained([controls EXCEPT !.profile = p, !.chroma = IF p = "share" THEN "420" ELSE @]))
    BY <1>7, HandlersEnd DEF ChooseProfile
  <2> DEFINE d == [controls EXCEPT !.profile = p, !.chroma = IF p = "share" THEN "420" ELSE @]
  <2>2. /\ DOMAIN d = ControlFields /\ d.profile = p /\ d.chroma \in {"420", controls.chroma}
        /\ SameIn(d, controls, ControlFields \ {"profile", "chroma"})
    BY <1>0 DEF Filled, ControlFields, SameIn
  <2>3. Ends(Constrained(d))
    BY <2>1
  <2> HIDE DEF d
  <2>4. Filled(d) /\ SameIn(d, controls, ControlFields \ {"profile", "chroma", "encoder", "bits"})
    BY <1>0, <2>2 DEF Filled, SameIn, ControlFields
  <2> QED
    BY <1>6, <1>7, <2>3, <2>4, HandlersEnd DEF ChooseProfile
<1>8. CASE ChooseEncoding
  <2>1. PICK d : /\ \/ \E x \in {"444", "422", "420"} : d = [controls EXCEPT !.chroma = x]
                    \/ \E e \in {"auto", "apple"} : d = [controls EXCEPT !.encoder = e]
                    \/ \E b \in {8, 10} : d = [controls EXCEPT !.bits = b]
                 /\ Ends(Constrained(d))
    BY <1>8, HandlersEnd DEF ChooseEncoding
  <2>2. CASE \E x \in {"444", "422", "420"} : d = [controls EXCEPT !.chroma = x]
    <3>1. PICK x \in {"444", "422", "420"} : d = [controls EXCEPT !.chroma = x]
      BY <2>2
    <3>2. DOMAIN d = ControlFields /\ d.chroma = x /\ SameIn(d, controls, ControlFields \ {"chroma"})
      BY <1>0, <3>1, ControlSet DEF ControlFields
    <3>3. Filled(d) /\ SameIn(d, controls, ControlFields \ {"profile", "chroma", "encoder", "bits"})
      BY <1>0, <3>2 DEF Filled, SameIn, ControlFields
    <3> QED
      BY <1>6, <1>8, <2>1, <3>3, HandlersEnd DEF ChooseEncoding
  <2>3. CASE \E e \in {"auto", "apple"} : d = [controls EXCEPT !.encoder = e]
    <3>1. PICK e \in {"auto", "apple"} : d = [controls EXCEPT !.encoder = e]
      BY <2>3
    <3>2. DOMAIN d = ControlFields /\ d.encoder = e /\ SameIn(d, controls, ControlFields \ {"encoder"})
      BY <1>0, <3>1, ControlSet DEF ControlFields
    <3>3. Filled(d) /\ SameIn(d, controls, ControlFields \ {"profile", "chroma", "encoder", "bits"})
      BY <1>0, <3>2 DEF Filled, SameIn, ControlFields
    <3> QED
      BY <1>6, <1>8, <2>1, <3>3, HandlersEnd DEF ChooseEncoding
  <2>4. CASE \E b \in {8, 10} : d = [controls EXCEPT !.bits = b]
    <3>1. PICK b \in {8, 10} : d = [controls EXCEPT !.bits = b]
      BY <2>4
    <3>2. DOMAIN d = ControlFields /\ d.bits = b /\ SameIn(d, controls, ControlFields \ {"bits"})
      BY <1>0, <3>1, ControlSet DEF ControlFields
    <3>3. Filled(d) /\ SameIn(d, controls, ControlFields \ {"profile", "chroma", "encoder", "bits"})
      BY <1>0, <3>2 DEF Filled, SameIn, ControlFields
    <3> QED
      BY <1>6, <1>8, <2>1, <3>3, HandlersEnd DEF ChooseEncoding
  <2> QED
    BY <2>1, <2>2, <2>3, <2>4
<1>9. CASE ChooseLook
  <2>1. PICK l \in BOOLEAN : Ends([controls EXCEPT !.look = l])
    BY <1>9, HandlersEnd DEF ChooseLook
  <2> DEFINE c == [controls EXCEPT !.look = l]
  <2>2. DOMAIN c = ControlFields /\ c.look = l /\ SameIn(c, controls, ControlFields \ {"look"}) /\ Ends(c)
    BY <1>0, <2>1, ControlSet DEF ControlFields
  <2> HIDE DEF c
  <2>3. Filled(c) /\ Confirms(c)
    BY <1>0, <2>2, SameFacts, SameInFewer DEF Filled, SameIn, ControlFields
  <2>4. Fixed(c)
    BY <1>0, <1>9, <2>2, HandlersEnd DEF ChooseLook, Fixed, SameIn, ControlFields
  <2>5. SameIn(c, controls, {"decoder", "highlight", "core", "locked", "highlightStash", "coreStash"})
    BY <2>2 DEF SameIn, ControlFields
  <2> QED
    BY <1>9, <2>2, <2>3, <2>4, <2>5, EncodingKeeps, HandlersEnd DEF ChooseLook
<1>10. CASE ChooseWhiteBalance
  <2>1. SameIn(controls, controls, ControlFields \ {"decoder"})
    BY DEF SameIn
  <2> QED
    BY <1>0, <1>10, <2>1, DecoderKeeps, HandlersEnd DEF ChooseWhiteBalance
<1>11. CASE ResetToDefaults
  <2> DEFINE as == [controls EXCEPT !.coreStash = NoStash]
             over == LaidOver(Defaults, as)
             ui == DecoderUi(over)
             c == FormatUi(ui)
  <2>1. Ends(c) /\ wish' = WishOf(remembered')
    BY <1>11, HandlersEnd DEF ResetToDefaults
  <2>2. DOMAIN as = ControlFields /\ as.coreStash = NoStash /\ SameIn(as, controls, ControlFields \ {"coreStash"})
    BY <1>0, ControlSet DEF ControlFields
  <2>3. WellKept(Defaults) /\ Defaults.highlight = "clip"
    BY DEF Defaults, WellKept, ChoiceFields, Formats, Profiles
  <2> HIDE DEF as
  <2>4. as.locked = controls.locked /\ as.highlightStash = controls.highlightStash /\ controls.locked \in BOOLEAN
    BY <1>0, <2>2 DEF SameIn, ControlFields, Filled
  <2>5. {"locked", "highlightStash", "coreStash", "confirm"} \subseteq ControlFields
    BY DEF ControlFields
  <2>6. /\ Filled(over) /\ over.highlight = "clip" /\ over.locked = controls.locked
        /\ over.highlightStash = controls.highlightStash /\ over.coreStash = NoStash
    <3>1. /\ Filled(over) /\ SameIn(over, Defaults, ChoiceFields)
          /\ SameIn(over, as, {"locked", "highlightStash", "coreStash", "confirm"})
      BY <2>2, <2>3, <2>4, <2>5, LaidOverFacts
    <3> QED
      BY <2>2, <2>3, <2>4, <3>1 DEF SameIn, ChoiceFields
  <2> HIDE DEF over
  <2>7. SetAside(over)
    BY <1>0, <2>6 DEF SetAside
  <2>8. Filled(ui) /\ SetAside(ui) /\ Locked(ui)
    BY <1>0, <2>6, <2>7, DecoderUiFacts
  <2> HIDE DEF ui
  <2>9. Filled(c) /\ Confirms(c) /\ Fixed(c) /\ SameIn(c, ui, ControlFields \ {"confirm", "profile", "chroma", "look"})
    BY <2>8, FormatUiFacts
  <2> HIDE DEF c
  <2>10. SetAside(c) /\ Locked(c)
    BY <2>8, <2>9, SameFacts, SameInFewer DEF ControlFields
  <2>11. wish' = [highlight |-> ChosenHighlight(c), core |-> ChosenCore(c)]
    BY <2>1, <2>9, <2>10, SavedFacts DEF Ends
  <2> QED
    BY <2>1, <2>9, <2>10, <2>11, HandledKeeps DEF Consistent
<1>12. CASE Reload
  <2> DEFINE c == Restored(remembered)
  <2>1. controls' = c /\ remembered' = Corrected(remembered) /\ host' = host /\ wish' = wish
    BY <1>12 DEF Reload
  <2>2. /\ Filled(c) /\ SetAside(c) /\ Locked(c) /\ Fixed(c) /\ Confirms(c)
        /\ ChosenHighlight(c) = remembered.highlight /\ ChosenCore(c) = remembered.core
    BY <1>0, RestoredFacts
  <2>3. WellKept(Corrected(remembered)) /\ WishOf(Corrected(remembered)) = WishOf(remembered)
    BY <1>0, CorrectedFacts
  <2> HIDE DEF c
  <2>4. WishOf(Saved(c)) = WishOf(remembered)
    BY <2>2, SavedFacts DEF WishOf
  <2>5. Consistent(controls)'
    BY <2>1, <2>2 DEF Consistent, Filled, SetAside, Locked, Fixed, Confirms
  <2> QED
    BY <2>1, <2>3, <2>4, <2>5 DEF ControlsInv
<1>13. CASE BackendReport
  <2>1. CASE host.hdr \/ ~IsHdr(controls.format)
    <3>1. UNCHANGED <<controls, remembered, host, wish>>
      BY <1>13, <2>1 DEF BackendReport
    <3> QED
      BY <3>1 DEF ControlsInv, Consistent, Filled, SetAside, Locked, Fixed, Confirms
  <2>2. CASE ~(host.hdr \/ ~IsHdr(controls.format))
    <3>1. Ends(FormatUi([controls EXCEPT !.format = "sdr"])) /\ UNCHANGED wish
      BY <1>13, <2>2 DEF BackendReport, Ends
    <3>2. "sdr" \in Formats
      BY DEF Formats
    <3> QED
      BY <1>4, <3>1, <3>2
  <2> QED
    BY <2>1, <2>2
<1> QED
  BY <1>1, <1>2, <1>3, <1>5, <1>7, <1>8, <1>9, <1>10, <1>11, <1>12, <1>13 DEF ControlsNext

\* A page begins consistent, whatever an older version left in localStorage.
LEMMA ControlsBegin == ControlsInit => ControlsInv
<1> SUFFICES ASSUME ControlsInit PROVE ControlsInv
  OBVIOUS
<1>1. PICK page \in Pages :
        /\ host = page.host /\ remembered = Corrected(page.memory) /\ wish = WishOf(page.memory)
        /\ controls = Restored(page.memory)
  BY DEF ControlsInit, ControlsFrom
<1>2. page.memory \in LocalChoices /\ host.apple \in BOOLEAN
  BY <1>1 DEF Pages
<1> DEFINE s == page.memory
           c == Restored(s)
<1>3. WellKept(s)
  BY <1>2 DEF WellKept, LocalChoices, ChoiceFields
<1> HIDE DEF s
<1>4. /\ Filled(c) /\ SetAside(c) /\ Locked(c) /\ Fixed(c) /\ Confirms(c)
      /\ ChosenHighlight(c) = s.highlight /\ ChosenCore(c) = s.core
  BY <1>2, <1>3, RestoredFacts
<1>5. WellKept(Corrected(s)) /\ WishOf(Corrected(s)) = WishOf(s)
  BY <1>3, CorrectedFacts
<1> HIDE DEF c
<1>6. WishOf(Saved(c)) = WishOf(s)
  BY <1>4, SavedFacts DEF WishOf
<1>7. controls = c /\ remembered = Corrected(s) /\ wish = WishOf(s)
  BY <1>1 DEF c, s
<1> QED
  BY <1>2, <1>4, <1>5, <1>6, <1>7 DEF ControlsInv, Consistent

\* In every behaviour of the controls each handler leaves them consistent, and
\* what the user chose is never lost.
THEOREM ControlsInvariant == ControlsSpec => []ControlsInv
<1>1. ControlsInv /\ [ControlsNext]_controlVars => ControlsInv'
  <2>1. CASE ControlsNext
    BY <2>1, ControlsSteps
  <2>2. CASE UNCHANGED controlVars
    BY <2>2 DEF controlVars, ControlsInv, Consistent, Filled, SetAside, Locked, Fixed, Confirms
  <2> QED
    BY <2>1, <2>2
<1> QED
  BY <1>1, ControlsBegin, PTL DEF ControlsSpec

\* The service refuses exactly what the button does not send.
LEMMA ConfirmsWhatIsTaken ==
    ASSUME NEW c, Consistent(c) PROVE Previewable(c) /\ (c.confirm <=> Deliverable(c))
<1>1. Previewable(c)
  BY DEF Consistent, Locked, Previewable
<1>2. HeifProblem(c) <=> /\ c.format = "sdr-heic" /\ c.encoder = "apple"
                         /\ ~(c.profile # "auto" /\ c.bits = 8 /\ c.chroma = "420")
  BY DEF Consistent, Filled, Fixed, HeifProblem, IsHeif, Profiles
<1>3. IsHdr(c.format) => ~c.look
  BY DEF Consistent, Fixed
<1>4. /\ c.profile = "archive" => c.chroma = "444"
      /\ c.profile = "share-hq" => c.chroma = "420" /\ ~IsHeif(c.format)
  BY DEF Consistent, Fixed
<1>5. c.confirm <=> (~(IsHdr(c.format) /\ c.core # "agx") /\ ~HeifProblem(c))
  BY DEF Consistent, Confirms
<1> QED
  BY <1>1, <1>2, <1>3, <1>4, <1>5 DEF Deliverable

\* The contract of the page follows from what holds between its handlers.
LEMMA ContractKept == ControlsInv => PageKeepsContract
<1> SUFFICES ASSUME ControlsInv PROVE PageKeepsContract
  OBVIOUS
<1>1. Previewable(controls) /\ (controls.confirm <=> Deliverable(controls))
  BY ConfirmsWhatIsTaken DEF ControlsInv
<1>2. ~controls.locked => WishOf(controls) = wish
  <2> SUFFICES ASSUME ~controls.locked PROVE WishOf(controls) = wish
    OBVIOUS
  <2>1. controls.highlightStash = NoStash /\ controls.coreStash = NoStash
    BY DEF ControlsInv, Consistent, SetAside
  <2> QED
    BY <2>1, WishFacts DEF ChosenHighlight, ChosenCore, WishOf
<1> QED
  BY <1>1, <1>2 DEF ControlsInv, PageKeepsContract

\* What the page sends is what the service takes, the user's choices survive
\* every path of decoder switches, resets and reloads, and what is shown is of
\* the file and the session the page is on, whatever the order of the answers.
THEOREM PageAlwaysHonest == ControlsSpec /\ FlowSpec => PageHonest
<1>1. ControlsSpec => []PageKeepsContract
  BY ControlsInvariant, ContractKept, PTL
<1> QED
  BY <1>1, SelectionShown, PTL DEF PageHonest
-----------------------------------------------------------------------------
(* The prior of a file

   What is chosen is the first of a list that fits, or the best of a finite set;
   the proofs are that there is such a one, and what its fitting says. *)

\* Each set of natural numbers that is not empty has a least one.
LEMMA LeastOfNumbers ==
    ASSUME NEW S \in SUBSET Nat, S # {}
    PROVE  Min(S) \in S /\ \A y \in S : Min(S) =< y
<1>1. PICK x \in S : \A y \in S : ~ (<<y, x>> \in OpToRel(<, Nat))
  BY NatLessThanWellFounded, WFMin
<1>2. ASSUME NEW y \in S, y < x PROVE FALSE
  BY <1>1, <1>2 DEF OpToRel
<1>3. \E z \in S : \A y \in S : z =< y
  BY <1>2
<1> QED
  BY <1>3 DEF Min

\* The elements of a list up to a place.
Upto(list, k) == {list[i] : i \in 1..k}

\* Of the records of a list that fit some have no better one.
LEMMA BestFound ==
    ASSUME NEW raw, NEW S, NEW records \in Seq(S), NEW fit \in SUBSET ToSet(records), fit # {},
           \A i, j \in DOMAIN records : records[i].stamp = records[j].stamp => i = j,
           \A r \in ToSet(records) : r.stamp \in Nat
    PROVE  \E r \in fit : \A o \in fit \ {r} : Before(r, o, raw)
<1> DEFINE n == Len(records)
           HasBest(k) == \E r \in fit \cap Upto(records, k) : \A o \in (fit \cap Upto(records, k)) \ {r} : Before(r, o, raw)
           Bests == {k \in 0..n : fit \cap Upto(records, k) = {} \/ HasBest(k)}
           Beaten == 0..n \ Bests
<1>1. n \in Nat /\ DOMAIN records = 1..n /\ ToSet(records) = Upto(records, n)
  BY LenProperties DEF ToSet, Upto
<1>2. \A r \in fit : Rank(r, raw) \in 0..2 /\ r.stamp \in Nat
  BY DEF Rank
<1>3. 0 \in Bests
  BY <1>1 DEF Upto
<1>4. ASSUME NEW k \in 0..n - 1, k \in Bests PROVE k + 1 \in Bests
  <2> DEFINE new == records[k + 1]
  <2>1. k + 1 \in 1..n /\ Upto(records, k + 1) = Upto(records, k) \cup {new}
    BY <1>1 DEF Upto
  <2>2. CASE new \notin fit
    <3>1. fit \cap Upto(records, k + 1) = fit \cap Upto(records, k)
      BY <2>1, <2>2
    <3> QED
      BY <1>4, <2>1, <3>1
  <2>3. CASE new \in fit /\ fit \cap Upto(records, k) = {}
    <3>1. fit \cap Upto(records, k + 1) = {new}
      BY <2>1, <2>3
    <3> QED
      BY <2>1, <3>1
  <2>4. CASE new \in fit /\ fit \cap Upto(records, k) # {}
    <3>1. PICK r \in fit \cap Upto(records, k) : \A o \in (fit \cap Upto(records, k)) \ {r} : Before(r, o, raw)
      BY <1>4, <2>4
    <3>2. \A o \in fit \cap Upto(records, k) : o.stamp # new.stamp
      BY <1>1, <2>1 DEF Upto
    <3>3. CASE Before(r, new, raw)
      <4>1. \A o \in (fit \cap Upto(records, k + 1)) \ {r} : Before(r, o, raw)
        BY <2>1, <3>1, <3>3
      <4>2. r \in fit \cap Upto(records, k + 1)
        BY <2>1, <3>1
      <4> QED
        BY <2>1, <4>1, <4>2
    <3>4. CASE ~Before(r, new, raw)
      <4>1. Before(new, r, raw)
        BY <1>2, <2>4, <3>1, <3>2, <3>4 DEF Before
      <4>2. ASSUME NEW o \in fit \cap Upto(records, k) PROVE Before(new, o, raw)
        BY <1>2, <2>4, <3>1, <4>1 DEF Before
      <4>3. \A o \in (fit \cap Upto(records, k + 1)) \ {new} : Before(new, o, raw)
        BY <2>1, <4>2
      <4> QED
        BY <2>1, <2>4, <4>3
    <3> QED
      BY <3>3, <3>4
  <2> QED
    BY <2>2, <2>3, <2>4
<1>5. Beaten = {}
  <2> SUFFICES ASSUME Beaten # {} PROVE FALSE
    OBVIOUS
  <2> DEFINE least == Min(Beaten)
  <2>1. Beaten \in SUBSET Nat
    BY <1>1
  <2> HIDE DEF Beaten
  <2>2. least \in Beaten /\ \A k \in Beaten : least =< k
    BY <2>1, LeastOfNumbers
  <2> HIDE DEF least
  <2>3. least \in 0..n /\ least \notin Bests
    BY <2>2 DEF Beaten
  <2> HIDE DEF Bests, n
  <2>4. least # 0
    BY <1>3, <2>3
  <2>5. least - 1 \in 0..n - 1 /\ ~(least =< least - 1)
    BY <1>1, <2>3, <2>4
  <2>6. least - 1 \notin Beaten /\ least - 1 \in 0..n
    BY <1>1, <2>2, <2>5
  <2>7. least - 1 \in Bests
    BY <2>6 DEF Beaten
  <2>8. (least - 1) + 1 \in Bests
    BY <1>4, <2>5, <2>7
  <2>9. (least - 1) + 1 = least
    BY <1>1, <2>3
  <2> QED
    BY <2>3, <2>8, <2>9
<1>6. n \in Bests /\ fit \cap Upto(records, n) = fit
  BY <1>1, <1>5
<1> QED
  BY <1>6

\* The statuses that let a view be used.
LEMMA PermittedFacts ==
    ASSUME NEW view, NEW raw
    PROVE  /\ ReadoutStatus(view, raw) \notin Bad /\ view.readout # None => view.readout = raw.readout
           /\ ShutterStatus(view, raw) \notin Bad => view.shutter \in {raw.shutter, "any", None}
           /\ view.shutter # None /\ view.shutter \in {raw.shutter, "any"} => ShutterStatus(view, raw) \notin Bad
<1>1. ASSUME view.readout # None, view.readout # raw.readout PROVE ReadoutStatus(view, raw) \in {"unverified", "mismatch"}
  BY <1>1 DEF ReadoutStatus
<1>2. ASSUME view.shutter \notin {raw.shutter, "any", None} PROVE ShutterStatus(view, raw) \in {"unverified", "mismatch"}
  BY <1>2 DEF ShutterStatus
<1>3. ASSUME view.shutter # None, view.shutter \in {raw.shutter, "any"}
      PROVE ShutterStatus(view, raw) \in {"not-declared", "matched"}
  BY <1>3 DEF ShutterStatus
<1> QED
  BY <1>1, <1>2, <1>3 DEF Bad

\* A record that the diagnosis calls usable may be chosen, and what is chosen
\* over it is usable.
LEMMA ChosenUsable ==
    ASSUME NEW q \in Lookups, NEW r \in ToSet(q.records), ReportedUsable(r, q.file)
    PROVE  LET user == MatchingPrior(q.file, q.records)
           IN  user \in ToSet(q.records) /\ Usable(user, q.file)
<1> DEFINE fit == {o \in ToSet(q.records) : Applies(o.gain, o, q.file)}
           user == MatchingPrior(q.file, q.records)
<1>1. /\ q.records \in Seq(ToSet(q.records))
      /\ \A i, j \in DOMAIN q.records : q.records[i].stamp = q.records[j].stamp => i = j
      /\ \A o \in ToSet(q.records) :
           /\ o # None /\ o.stamp \in Nat /\ o.mode = "ok"
           /\ o.gain # None /\ o.dark # None => o.gain.shutter = "any" \/ o.dark.shutter \in {o.gain.shutter, None}
  BY LookupsAssumption
<1>2. ASSUME NEW o \in ToSet(q.records), o.gain # None
      PROVE  \/ Primary(o, q.file) = o.gain
             \/ Primary(o, q.file) = o.dark /\ o.dark # None /\ Permitted(o.dark, q.file)
  BY <1>1, <1>2 DEF Primary, Permitted
<1>3. r \in fit
  BY <1>1, <1>2, LookupsAssumption DEF ReportedUsable, Applies
<1>4. user = CHOOSE o \in fit : \A p \in fit \ {o} : Before(o, p, q.file)
  BY <1>3 DEF MatchingPrior
<1>5. \E o \in fit : \A p \in fit \ {o} : Before(o, p, q.file)
  <2> HIDE DEF fit
  <2>1. fit \in SUBSET ToSet(q.records)
    BY DEF fit
  <2> QED
    BY <1>1, <1>3, <2>1, BestFound
<1>6. user \in fit /\ \A p \in fit \ {user} : Before(user, p, q.file)
  BY <1>4, <1>5
<1> HIDE DEF user
<1>7. Rank(r, q.file) \in {1, 2}
  <2>1. Readout(r, q.file) \in {"matched", "not-declared"}
    <3>1. Readout(r, q.file) \in {"matched", "not-declared", "unverified", "mismatch"}
      BY DEF Readout, ReadoutStatus
    <3> QED
      BY <3>1 DEF ReportedUsable, Bad
  <2> QED
    BY <2>1 DEF Rank
<1>8. Rank(user, q.file) \in {1, 2}
  BY <1>3, <1>6, <1>7 DEF Before, Rank
<1>9. Readout(user, q.file) \notin Bad
  BY <1>8 DEF Rank, Bad
<1>10. Shutter(user, q.file) \notin Bad
  <2>1. user \in ToSet(q.records) /\ Applies(user.gain, user, q.file)
    BY <1>6
  <2>2. CASE Primary(user, q.file) = user.gain
    BY <2>1, <2>2, PermittedFacts DEF Applies, Shutter
  <2>3. CASE Primary(user, q.file) = user.dark /\ Permitted(user.dark, q.file)
    BY <2>3 DEF Permitted, Shutter
  <2> QED
    BY <1>2, <2>1, <2>2, <2>3 DEF Applies
<1>11. user.quality = "good" /\ user.mode = "ok" /\ user \in ToSet(q.records)
  BY <1>1, <1>6 DEF Applies
<1>12. Usable(user, q.file)
  BY <1>9, <1>10, <1>11 DEF Usable
<1> QED
  BY <1>11, <1>12 DEF user

\* The candidates are a list, which the record that was chosen heads.
LEMMA CandidatesFacts ==
    ASSUME NEW q \in Lookups
    PROVE  LET user == MatchingPrior(q.file, q.records)
           IN  /\ \E S : Candidates(q) \in Seq(S)
               /\ user # None => Candidates(q) # <<>> /\ Head(Candidates(q)) = user
<1> DEFINE user == MatchingPrior(q.file, q.records)
           public == PublicCandidates(q.file, q.public)
           packaged == q.curated \o public \o q.bulk
           of == {public[i] : i \in DOMAIN q.public}
           S == ToSet(q.curated) \cup of \cup ToSet(q.bulk) \cup {user}
<1>1. \A list \in {q.curated, q.public, q.bulk} : list \in Seq(ToSet(list))
  BY LookupsAssumption
<1>2. public \in Seq(of)
  <2>1. DOMAIN q.public = 1..Len(q.public) /\ Len(q.public) \in Nat
    BY <1>1, LenProperties
  <2> DEFINE bound == [i \in DOMAIN q.public |-> WithMode(q.public[i], q.file, q.public)]
             Key(i) == Len(q.public) * PublicRank(bound[i], q.file) + i
             order == CHOOSE p \in Permutations(DOMAIN q.public) :
                        \A i, j \in DOMAIN q.public : i < j => Key(p[i]) < Key(p[j])
  <2>2. public = [i \in DOMAIN q.public |-> bound[order[i]]]
    BY Zenon DEF PublicCandidates
  <2> HIDE DEF public, bound, order
  <2>3. public = [i \in 1..Len(q.public) |-> public[i]]
    BY <2>1, <2>2
  <2>4. \A i \in 1..Len(q.public) : public[i] \in of
    BY <2>1
  <2> QED
    BY <2>1, <2>3, <2>4
<1>3. q.curated \in Seq(S) /\ public \in Seq(S) /\ q.bulk \in Seq(S) /\ user \in S
  <2> HIDE DEF public, user, of
  <2> QED
    BY <1>1, <1>2, SeqMonotonic
<1>4. Candidates(q) = IF user = None THEN packaged ELSE <<user>> \o packaged
  BY DEF Candidates
<1> HIDE DEF public, user, S
<1>5. packaged \in Seq(S)
  BY <1>3, ConcatProperties
<1> HIDE DEF packaged
<1>6. <<user>> \in Seq(S) /\ <<user>> \o packaged \in Seq(S)
  BY <1>3, <1>5, ConcatProperties
<1>7. Head(<<user>> \o packaged) = user /\ <<user>> \o packaged # <<>>
  BY <1>3, <1>5
<1> QED
  BY <1>4, <1>5, <1>6, <1>7 DEF user

\* What is found is the first candidate, unless another is proven to apply.
LEMMA FoundFacts ==
    ASSUME NEW q \in Lookups, FindPriors(q) # None
    PROVE  LET all == Candidates(q)
               found == FindPriors(q)
           IN  \/ /\ found = Head(all)
                  /\ \/ Usable(found, q.file)
                     \/ \A i \in DOMAIN all : ~(Usable(all[i], q.file) /\ Verified(all[i], q.file))
               \/ /\ Usable(found, q.file) /\ Verified(found, q.file) /\ ~Usable(Head(all), q.file)
<1> DEFINE all == Candidates(q)
           proven == {i \in DOMAIN all : Usable(all[i], q.file) /\ Verified(all[i], q.file)}
<1>1. /\ all # <<>>
      /\ FindPriors(q) = IF Usable(Head(all), q.file) \/ proven = {} THEN Head(all) ELSE all[Min(proven)]
  BY DEF FindPriors
<1>2. PICK S : all \in Seq(S)
  BY CandidatesFacts
<1>3. proven # {} => Min(proven) \in proven
  <2> HIDE DEF all
  <2>1. proven \in SUBSET Nat
    BY <1>2, LenProperties
  <2> QED
    BY <2>1, LeastOfNumbers
<1> HIDE DEF all
<1>4. CASE Usable(Head(all), q.file) \/ proven = {}
  BY <1>1, <1>4 DEF all
<1>5. CASE ~(Usable(Head(all), q.file) \/ proven = {})
  BY <1>1, <1>3, <1>5 DEF all
<1> QED
  BY <1>4, <1>5

\* The read noise that is lent is the one of a compatible record.
LEMMA LentFacts ==
    ASSUME NEW q \in Lookups, NEW base, Supplier(base, q) # None
    PROVE  LET c == Supplier(base, q)
           IN  /\ Compatible(base, c, q.file) /\ Permitted(base.gain, q.file)
               /\ base.gain.readout # None /\ base.noise # "unresolved"
<1> DEFINE Lends(c) == Supplies(c, q.file) /\ Compatible(base, c, q.file) /\ c.noise = "measured"
           lends == {i \in DOMAIN q.records : Lends(q.records[i])}
<1>1. /\ Permitted(base.gain, q.file) /\ base.gain.readout # None /\ base.noise # "unresolved" /\ lends # {}
      /\ Supplier(base, q) = q.records[Min(lends)]
  BY DEF Supplier
<1>2. lends \in SUBSET Nat
  BY LookupsAssumption, LenProperties
<1> HIDE DEF lends
<1>3. Min(lends) \in lends
  BY <1>1, <1>2, LeastOfNumbers
<1>4. Lends(q.records[Min(lends)])
  BY <1>3 DEF lends
<1> QED
  BY <1>1, <1>4

\* The prior of a file applies if one is proven to, for any lookup.
LEMMA FoundProven == ASSUME NEW q \in Lookups, lookup = q, answer.prior = FindPriors(q) PROVE PriorsProven
<1> SUFFICES ASSUME answer.prior # None PROVE PriorsProven
  BY DEF PriorsProven, Answered
<1> DEFINE all == Candidates(q)
           best == FindPriors(q)
<1>1. \/ /\ best = Head(all)
         /\ \/ Usable(best, q.file)
            \/ \A i \in DOMAIN all : ~(Usable(all[i], q.file) /\ Verified(all[i], q.file))
      \/ /\ Usable(best, q.file) /\ Verified(best, q.file) /\ ~Usable(Head(all), q.file)
  BY FoundFacts
<1> HIDE DEF best
<1>2. (\E e \in ToSet(all) : Usable(e, q.file) /\ Verified(e, q.file)) => Usable(best, q.file)
  BY <1>1 DEF ToSet
<1>3. Usable(best, q.file) /\ ~Verified(best, q.file) => best = Head(all)
  BY <1>1
<1>4. ASSUME NEW r \in ToSet(q.records), ReportedUsable(r, q.file)
      PROVE  best \in ToSet(q.records) /\ Usable(best, q.file)
  <2> DEFINE user == MatchingPrior(q.file, q.records)
  <2>1. user \in ToSet(q.records) /\ Usable(user, q.file)
    BY <1>4, ChosenUsable
  <2>2. user # None
    BY <2>1, LookupsAssumption
  <2>3. Head(all) = user
    BY <2>2, CandidatesFacts
  <2> HIDE DEF user, all
  <2> QED
    BY <1>1, <2>1, <2>3
<1>5. lookup = q /\ answer.prior = best
  BY DEF best
<1> QED
  BY <1>2, <1>3, <1>4, <1>5 DEF PriorsProven

\* What is lent is of the mode of the gain.
LEMMA LentOfOneMode ==
    ASSUME NEW q \in Lookups, lookup = q, answer.noise = Supplier(answer.prior, q) \/ answer.noise = None
    PROVE  NoiseOfOneMode
<1> SUFFICES ASSUME answer.noise # None PROVE NoiseOfOneMode
  BY DEF NoiseOfOneMode
<1> DEFINE base == answer.prior
           c == answer.noise
<1>1. /\ Compatible(base, c, q.file) /\ Permitted(base.gain, q.file)
      /\ base.gain.readout # None /\ base.noise # "unresolved"
  BY LentFacts
<1>2. c.id # base.id /\ c.dark = base.gain
  BY <1>1 DEF Compatible
<1>3. base.gain.shutter \in {q.file.shutter, "any", None} /\ base.gain.readout = q.file.readout
  BY <1>1, PermittedFacts DEF Permitted
<1> QED
  BY <1>1, <1>2, <1>3 DEF NoiseOfOneMode

\* The answer, once there is one, is what the search finds, and lends noise only
\* to a prior that was found; before there is one, nothing is lent.
ChoiceInv ==
    /\ lookup \in Lookups
    /\ answer.done => /\ answer.prior = FindPriors(lookup)
                      /\ answer.noise = IF answer.prior = None THEN None
                                        ELSE Supplier(answer.prior, lookup)
    /\ ~answer.done => answer.noise = None

\* For any lookup: the prior of a file is proven to be its own where one is, no
\* usable record is passed over, and the noise it borrows was taken in its mode.
THEOREM PriorsAlwaysOfTheFile == ChoiceSpec => []PriorsOfTheFile
<1>1. ChoiceInit => ChoiceInv
  BY DEF ChoiceInit, ChoiceFrom, ChoiceInv
<1>2. ChoiceInv /\ [ChoiceNext]_choiceVars => ChoiceInv'
  <2> SUFFICES ASSUME ChoiceInv, [ChoiceNext]_choiceVars PROVE ChoiceInv'
    OBVIOUS
  <2>1. CASE ChoiceNext
    <3> DEFINE best == FindPriors(lookup)
               lender == IF best = None THEN None ELSE Supplier(best, lookup)
    <3>1. lookup' = lookup /\ answer' = [prior |-> best, done |-> TRUE, noise |-> lender]
      BY <2>1 DEF ChoiceNext, Find
    <3>2. answer'.done /\ answer'.prior = best /\ answer'.noise = lender
      BY <3>1
    <3> QED
      BY <3>1, <3>2 DEF ChoiceInv
  <2>2. CASE UNCHANGED choiceVars
    BY <2>2 DEF choiceVars, ChoiceInv
  <2> QED
    BY <2>1, <2>2
<1>3. ChoiceInv => PriorsOfTheFile
  <2> SUFFICES ASSUME ChoiceInv PROVE PriorsOfTheFile
    OBVIOUS
  <2>1. PriorsProven
    BY FoundProven DEF ChoiceInv, PriorsProven, Answered
  <2>2. NoiseOfOneMode
    BY LentOfOneMode DEF ChoiceInv
  <2> QED
    BY <2>1, <2>2 DEF PriorsOfTheFile
<1> QED
  BY <1>1, <1>2, <1>3, PTL DEF ChoiceSpec

-----------------------------------------------------------------------------
(* The scope of a measurement *)

\* Tables that speak of a condition say the same of it.
Agreeing(m) ==
    \A t, u \in DOMAIN m : \A c \in Conditions :
        m[t][c] = Undeclared \/ m[u][c] = Undeclared \/ m[t][c] = m[u][c]

\* What tables have in common is what each of them says, if all of them speak.
LEMMA CommonFacts ==
    ASSUME Agreeing(tables), NEW S \in SUBSET DOMAIN tables, NEW c \in Conditions, S # {}
    PROVE  /\ Common(S, c) # Undeclared => SaidBy(S, c) = {Common(S, c)} /\ \A t \in S : tables[t][c] = Common(S, c)
           /\ Common(S, c) = Undeclared => \E t \in S : tables[t][c] = Undeclared
<1>1. ASSUME \A t \in S : tables[t][c] # Undeclared
      PROVE  \E v : v # Undeclared /\ SaidBy(S, c) = {v} /\ Common(S, c) = v /\ \A t \in S : tables[t][c] = v
  <2>1. PICK u \in S : TRUE
    OBVIOUS
  <2>2. \A t \in S : tables[t][c] = tables[u][c]
    BY <1>1 DEF Agreeing
  <2>3. SaidBy(S, c) = {tables[u][c]}
    BY <1>1, <2>1, <2>2 DEF SaidBy
  <2>4. Common(S, c) = tables[u][c]
    BY <1>1, <2>3 DEF Common, OneOf
  <2> QED
    BY <1>1, <2>1, <2>2, <2>3, <2>4
<1>2. (\E t \in S : tables[t][c] = Undeclared) => Common(S, c) = Undeclared
  BY DEF Common
<1> QED
  BY <1>1, <1>2

\* What a product may be used on, said of the edits of the user and the tables.
LEMMA ClearedFacts ==
    ASSUME Agreeing(tables), Undeclared # "any", NEW e, NEW raw, NEW p \in DOMAIN Uses,
           \A c \in Conditions : Explicit(e)[c] = asked[c]
    PROVE  Cleared(e, p) /\ Meets(raw, ScopedView(e, p))
           <=> /\ Found(p) /\ Complete(Uses[p])
               /\ SaidBy(Uses[p], "body") \cup ({asked["body"]} \ {Undeclared}) \subseteq {raw.body}
               /\ SaidBy(Uses[p], "shutter") \subseteq {"any", raw.shutter}
               /\ asked["shutter"] \notin {Undeclared, "any"} => raw.shutter = asked["shutter"]
               /\ Unclear(e) => Common(Uses[p], "body") = Association("body")
<1> SUFFICES ASSUME Found(p), Complete(Uses[p])
             PROVE  ~Issues(e, Uses[p]) /\ Meets(raw, ScopedView(e, p))
                    <=> /\ SaidBy(Uses[p], "body") \cup ({asked["body"]} \ {Undeclared}) \subseteq {raw.body}
                        /\ SaidBy(Uses[p], "shutter") \subseteq {"any", raw.shutter}
                        /\ asked["shutter"] \notin {Undeclared, "any"} => raw.shutter = asked["shutter"]
                        /\ Unclear(e) => Common(Uses[p], "body") = Association("body")
  BY DEF Cleared
<1> DEFINE S == Uses[p]
           shutter == Common(S, "shutter")
           body == Common(S, "body")
<1>1. S \in SUBSET DOMAIN tables /\ S # {}
  BY DEF Found, Uses
<1>2. "shutter" \in Conditions /\ "body" \in Conditions
  BY DEF Conditions
<1>3. shutter # Undeclared /\ SaidBy(S, "shutter") = {shutter}
  BY <1>1, <1>2, CommonFacts DEF Complete
<1>4. SaidBy(S, "body") = {body} \ {Undeclared}
  BY <1>1, <1>2, CommonFacts DEF Complete
<1>5. Explicit(e)["shutter"] = asked["shutter"] /\ Explicit(e)["body"] = asked["body"]
  BY <1>2
<1> DEFINE view == ScopedView(e, p)
<1>6. /\ view.shutter = IF shutter = "any" /\ asked["shutter"] # Undeclared THEN asked["shutter"] ELSE shutter
      /\ view.body = IF asked["body"] # Undeclared THEN asked["body"] ELSE body
  BY <1>5 DEF ScopedView
<1>7. Issues(e, S)
      <=> \/ asked["body"] # Undeclared /\ body \notin {Undeclared, asked["body"]}
          \/ asked["shutter"] \notin {Undeclared, "any"} /\ shutter \notin {Undeclared, "any", asked["shutter"]}
          \/ Unclear(e) /\ body # Association("body")
  BY <1>5 DEF Issues
<1>8. Meets(raw, view) <=> view.body \in {Undeclared, raw.body} /\ view.shutter \in {Undeclared, "any", raw.shutter}
  BY DEF Meets
<1> HIDE DEF shutter, body, view, S
<1>9. ~Issues(e, S) /\ Meets(raw, view)
      <=> /\ SaidBy(S, "body") \cup ({asked["body"]} \ {Undeclared}) \subseteq {raw.body}
          /\ SaidBy(S, "shutter") \subseteq {"any", raw.shutter}
          /\ asked["shutter"] \notin {Undeclared, "any"} => raw.shutter = asked["shutter"]
          /\ Unclear(e) => body = Association("body")
  BY <1>3, <1>4, <1>6, <1>7, <1>8
<1> QED
  BY <1>9 DEF S, view, body

\* What the edits and the bindings of a package have added up to.
ScopeInv ==
    /\ Agreeing(tables)
    /\ asked = [c \in Conditions |-> asked[c]]
    /\ entry = [shown |-> [c \in Conditions |-> entry.shown[c]], shownBefore |-> entry.shownBefore,
                bound |-> entry.bound, explicit |-> entry.explicit, ambiguous |-> entry.ambiguous,
                matched |-> entry.matched]
    /\ \A c \in Conditions : entry.shown[c] # entry.shownBefore[c] => entry.shown[c] # Undeclared
    /\ entry.bound => \A c \in Conditions : Explicit(entry)[c] = asked[c]
    /\ ~entry.bound => /\ shot = Open /\ entry.explicit = Open
                       /\ \A c \in Conditions :
                            asked[c] = IF entry.shown[c] = entry.shownBefore[c] THEN Undeclared ELSE entry.shown[c]
    /\ ScopeNarrowsOnly

\* A package whose product was just bound shows what was bound and keeps the edits.
LEMMA BoundFacts ==
    ASSUME NEW e, NEW matched
    PROVE  LET b == Bound(e, matched)
           IN  /\ b = [shown |-> [c \in Conditions |-> b.shown[c]], shownBefore |-> b.shownBefore,
                       bound |-> b.bound, explicit |-> b.explicit, ambiguous |-> b.ambiguous, matched |-> b.matched]
               /\ b.shown = b.shownBefore /\ b.bound /\ b.ambiguous = Unclear(e) /\ b.matched = matched
               /\ \A c \in Conditions : Explicit(b)[c] = Explicit(e)[c]
<1> DEFINE view == ScopedView(e, FirstUsable(matched))
           b == Bound(e, matched)
<1>1. view = [c \in Conditions |-> view[c]]
  BY DEF ScopedView, Conditions
<1> HIDE DEF view
<1>2. b = [shown |-> view, shownBefore |-> view, bound |-> TRUE, explicit |-> Explicit(e),
           ambiguous |-> Unclear(e), matched |-> matched]
  BY DEF Bound, view
<1>3. \A c \in Conditions : Explicit(b)[c] = Explicit(e)[c]
  BY <1>2 DEF Explicit
<1> HIDE DEF b
<1>4. /\ b.shown = view /\ b.shownBefore = view /\ b.bound /\ b.explicit = Explicit(e)
      /\ b.ambiguous = Unclear(e) /\ b.matched = matched
  BY <1>2
<1>5. [c \in Conditions |-> b.shown[c]] = view
  BY <1>1, <1>4
<1>6. b = [shown |-> [c \in Conditions |-> b.shown[c]], shownBefore |-> b.shownBefore,
           bound |-> b.bound, explicit |-> b.explicit, ambiguous |-> b.ambiguous, matched |-> b.matched]
  BY <1>2, <1>4, <1>5
<1> QED
  BY <1>3, <1>4, <1>6 DEF b

LEMMA ScopeInitially == ScopeInit => ScopeInv
<1> SUFFICES ASSUME ScopeInit PROVE ScopeInv
  OBVIOUS
<1>1. PICK m \in Measured : /\ tables = m.tables
                           /\ entry = [shown |-> [c \in Conditions |-> Association(c)],
                                       shownBefore |-> [c \in Conditions |-> Association(c)],
                                       bound |-> FALSE, explicit |-> Open, matched |-> {},
                                       ambiguous |-> m.legacy /\ Association("body") # Undeclared]
  BY DEF ScopeInit, ScopeFrom
<1>2. shot = Open /\ asked = Open
  BY DEF ScopeInit, ScopeFrom
<1>3. Agreeing(tables)
  BY <1>1, ScopeAssumption DEF Agreeing, Conditions
<1>4. asked = [c \in Conditions |-> asked[c]] /\ \A c \in Conditions : asked[c] = Undeclared
  BY <1>2 DEF Open
<1>5. /\ entry.shown = entry.shownBefore /\ ~entry.bound /\ entry.explicit = Open
      /\ entry = [shown |-> [c \in Conditions |-> entry.shown[c]], shownBefore |-> entry.shownBefore,
                  bound |-> entry.bound, explicit |-> entry.explicit, ambiguous |-> entry.ambiguous,
                  matched |-> entry.matched]
  BY <1>1
<1> QED
  BY <1>2, <1>3, <1>4, <1>5 DEF ScopeInv, ScopeNarrowsOnly

\* An edit is remembered until the package is bound, and shown until then.
LEMMA EditKeepsScope ==
    ASSUME ScopeInv, Edit
    PROVE  ScopeInv'
<1>0. PICK c \in Conditions : \E v \in {w[c] : w \in Wanted} :
        /\ entry.shown[c] = entry.shownBefore[c] /\ v # entry.shown[c]
        /\ entry' = [entry EXCEPT !.shown[c] = v] /\ asked' = [asked EXCEPT ![c] = v]
  BY Zenon DEF Edit
<1>1. PICK v \in {w[c] : w \in Wanted} :
        /\ entry.shown[c] = entry.shownBefore[c] /\ v # entry.shown[c]
        /\ entry' = [entry EXCEPT !.shown[c] = v] /\ asked' = [asked EXCEPT ![c] = v]
  BY <1>0
<1>12. v # Undeclared
  BY ScopeAssumption DEF Conditions
<1>2. tables' = tables /\ shot' = shot
  BY DEF Edit
<1>3. /\ entry'.shown = [entry.shown EXCEPT ![c] = v] /\ entry'.shownBefore = entry.shownBefore
      /\ entry'.bound = entry.bound /\ entry'.explicit = entry.explicit
      /\ entry.shown = [d \in Conditions |-> entry.shown[d]]
      /\ entry' = [shown |-> [entry.shown EXCEPT ![c] = v], shownBefore |-> entry.shownBefore,
                   bound |-> entry.bound, explicit |-> entry.explicit, ambiguous |-> entry.ambiguous,
                   matched |-> entry.matched]
  BY <1>1 DEF ScopeInv
<1>4. \A d \in Conditions : /\ entry'.shown[d] = IF d = c THEN v ELSE entry.shown[d]
                            /\ asked'[d] = IF d = c THEN v ELSE asked[d]
  BY <1>1, <1>3 DEF ScopeInv
<1>5. asked' = [d \in Conditions |-> asked'[d]]
  BY <1>1 DEF ScopeInv
<1>6. entry' = [shown |-> [d \in Conditions |-> entry'.shown[d]], shownBefore |-> entry'.shownBefore,
               bound |-> entry'.bound, explicit |-> entry'.explicit, ambiguous |-> entry'.ambiguous,
               matched |-> entry'.matched]
  BY <1>3
<1>7. \A d \in Conditions : entry'.shown[d] # entry'.shownBefore[d] => entry'.shown[d] # Undeclared
  BY <1>1, <1>12, <1>3, <1>4 DEF ScopeInv
<1>8. entry'.bound => \A d \in Conditions : Explicit(entry')[d] = asked'[d]
  <2> SUFFICES ASSUME entry'.bound, NEW d \in Conditions PROVE Explicit(entry')[d] = asked'[d]
    OBVIOUS
  <2>1. entry.bound /\ Explicit(entry)[d] = asked[d]
    BY <1>3 DEF ScopeInv
  <2>2. CASE d = c
    BY <1>1, <1>12, <1>3, <1>4, <2>1, <2>2 DEF Explicit
  <2>3. CASE d # c
    BY <1>3, <1>4, <2>1, <2>3 DEF Explicit
  <2> QED
    BY <2>2, <2>3
<1>9. ~entry'.bound => /\ shot' = Open /\ entry'.explicit = Open
                      /\ \A d \in Conditions :
                           asked'[d] = IF entry'.shown[d] = entry'.shownBefore[d] THEN Undeclared ELSE entry'.shown[d]
  BY <1>1, <1>12, <1>2, <1>3, <1>4 DEF ScopeInv
<1>10. entry'.shown # entry'.shownBefore
  BY <1>1, <1>3, <1>4
<1>11. Agreeing(tables)'
  BY <1>2 DEF ScopeInv, Agreeing
<1> QED
  BY <1>5, <1>6, <1>7, <1>8, <1>9, <1>10, <1>11 DEF ScopeInv, ScopeNarrowsOnly

\* An installation turns what was edited before it into the scope of the user.
LEMMA InstallKeepsScope ==
    ASSUME ScopeInv, Install
    PROVE  ScopeInv'
<1> DEFINE installed == [entry EXCEPT !.bound = TRUE, !.ambiguous = Unclear([entry EXCEPT !.bound = TRUE])]
           matched == {p \in DOMAIN Uses : Cleared(installed, p)}
<1>1. ~entry.bound /\ entry' = Bound(installed, matched) /\ tables' = tables /\ shot' = shot /\ asked' = asked
  BY DEF Install
<1>2. /\ installed.bound /\ installed.shown = entry.shown /\ installed.shownBefore = entry.shownBefore
      /\ installed.explicit = entry.explicit
  <2> DEFINE unclear == Unclear([entry EXCEPT !.bound = TRUE])
  <2> HIDE DEF unclear
  <2>1. installed = [entry EXCEPT !.bound = TRUE, !.ambiguous = unclear]
    BY DEF unclear
  <2> QED
    BY <2>1 DEF ScopeInv
<1> HIDE DEF matched, installed
<1>3. \A c \in Conditions : Explicit(installed)[c] = asked[c]
  BY <1>1, <1>2 DEF ScopeInv, Explicit, Open
<1>4. shot' = Open
  BY <1>1 DEF ScopeInv
<1>5. Agreeing(tables)' /\ asked' = [c \in Conditions |-> asked'[c]]
  BY <1>1 DEF ScopeInv, Agreeing
<1>6. /\ entry'.shown = entry'.shownBefore /\ entry'.bound
      /\ entry' = [shown |-> [d \in Conditions |-> entry'.shown[d]], shownBefore |-> entry'.shownBefore,
                   bound |-> entry'.bound, explicit |-> entry'.explicit, ambiguous |-> entry'.ambiguous,
                   matched |-> entry'.matched]
      /\ \A c \in Conditions : Explicit(entry')[c] = asked'[c]
  BY <1>1, <1>3, BoundFacts
<1> QED
  BY <1>4, <1>5, <1>6 DEF ScopeInv, ScopeNarrowsOnly

\* A binding asks of each product what its tables and the user say, and nothing else.
LEMMA RebindKeepsScope ==
    ASSUME ScopeInv, NEW raw \in Shots, Rebind(raw)
    PROVE  ScopeInv'
<1> DEFINE matched == {p \in DOMAIN Uses : Cleared(entry, p) /\ Meets(raw, ScopedView(entry, p))}
<1>1. entry.bound /\ entry' = Bound(entry, matched) /\ tables' = tables /\ shot' = raw /\ asked' = asked
  BY DEF Rebind
<1>2. \A p : p \in matched <=> p \in DOMAIN Uses /\ Cleared(entry, p) /\ Meets(raw, ScopedView(entry, p))
  OBVIOUS
<1> HIDE DEF matched
<1>3. Agreeing(tables)' /\ asked' = [c \in Conditions |-> asked'[c]]
  BY <1>1 DEF ScopeInv, Agreeing
<1>4. /\ entry'.shown = entry'.shownBefore /\ entry'.bound /\ entry'.matched = matched
      /\ entry'.ambiguous = Unclear(entry)
      /\ entry' = [shown |-> [d \in Conditions |-> entry'.shown[d]], shownBefore |-> entry'.shownBefore,
                   bound |-> entry'.bound, explicit |-> entry'.explicit, ambiguous |-> entry'.ambiguous,
                   matched |-> entry'.matched]
      /\ \A c \in Conditions : Explicit(entry')[c] = Explicit(entry)[c]
  BY <1>1, BoundFacts
<1>5. \A c \in Conditions : Explicit(entry)[c] = asked[c]
  BY <1>1 DEF ScopeInv
<1>6. \A p \in DOMAIN Uses : p \in entry'.matched <=> Entitled(p, shot)'
  <2> SUFFICES ASSUME NEW p \in DOMAIN Uses PROVE p \in matched <=> Entitled(p, shot)'
    BY <1>4
  <2>1. p \in matched
        <=> /\ Found(p) /\ Complete(Uses[p])
            /\ SaidBy(Uses[p], "body") \cup ({asked["body"]} \ {Undeclared}) \subseteq {raw.body}
            /\ SaidBy(Uses[p], "shutter") \subseteq {"any", raw.shutter}
            /\ asked["shutter"] \notin {Undeclared, "any"} => raw.shutter = asked["shutter"]
            /\ Unclear(entry) => Common(Uses[p], "body") = Association("body")
    BY <1>2, <1>5, ClearedFacts, ScopeAssumption DEF ScopeInv
  <2>2. \A S, c : SaidBy(S, c)' = SaidBy(S, c) /\ Common(S, c)' = Common(S, c)
    BY <1>1 DEF SaidBy, Common
  <2>3. /\ Found(p)' = Found(p) /\ Complete(Uses[p])' = Complete(Uses[p])
        /\ Association("body")' = Association("body")
    BY <1>1 DEF Found, Complete, Association, SaidBy, Common
  <2> QED
    BY <1>1, <1>4, <2>1, <2>2, <2>3 DEF Entitled
<1> QED
  BY <1>1, <1>3, <1>4, <1>5, <1>6 DEF ScopeInv, ScopeNarrowsOnly

\* For any package whose tables agree, any files and any edits: a product is usable
\* on the file it was last bound to if, and only if, its own tables and all the
\* edits of the user allow it.
THEOREM ScopeNeverWidened == ScopeSpec => []ScopeNarrowsOnly
<1>1. ScopeInv /\ [ScopeNext]_scopeVars => ScopeInv'
  <2> SUFFICES ASSUME ScopeInv, [ScopeNext]_scopeVars PROVE ScopeInv'
    OBVIOUS
  <2>1. CASE Edit
    BY <2>1, EditKeepsScope
  <2>2. CASE Install
    BY <2>2, InstallKeepsScope
  <2>3. CASE \E raw \in Shots : Rebind(raw)
    BY <2>3, RebindKeepsScope
  <2>4. CASE UNCHANGED scopeVars
    <3>1. tables' = tables /\ entry' = entry /\ shot' = shot /\ asked' = asked
      BY <2>4 DEF scopeVars
    <3>2. \A p \in DOMAIN Uses : Entitled(p, shot)' = Entitled(p, shot)
      BY <3>1 DEF Entitled, Found, Complete, Common, SaidBy, Association
    <3>3. \A c \in Conditions : Explicit(entry)'[c] = Explicit(entry)[c]
      BY <3>1 DEF Explicit
    <3> QED
      BY <3>1, <3>2, <3>3 DEF ScopeInv, Agreeing, ScopeNarrowsOnly
  <2> QED
    BY <2>1, <2>2, <2>3, <2>4 DEF ScopeNext
<1>2. ScopeInv => ScopeNarrowsOnly
  BY DEF ScopeInv
<1> QED
  BY <1>1, <1>2, ScopeInitially, PTL DEF ScopeSpec

-----------------------------------------------------------------------------
(* What is known of a file *)

\* What the file and a declaration together say of a field, as a measurement may
\* rely on it.
KnownOf(d, x) == IF taken.seen[x] = {} /\ x \in DOMAIN d THEN {d[x]} ELSE taken.seen[x]

\* A verified fact is what all observations are.
LEMMA VerifiedFacts ==
    ASSUME NEW seen, IsFiniteSet(seen), NoValue \notin seen
    PROVE  /\ Status(seen) = "verified" => seen = {ValueOf(seen)} /\ ValueOf(seen) \notin {NoValue, Garbled}
           /\ Status(seen) # "verified" => ValueOf(seen) = NoValue
           /\ seen # {} /\ Garbled \notin seen /\ Cardinality(seen) <= 1 => Status(seen) = "verified"
           /\ seen = {} => ValueOf(seen) = NoValue
<1> DEFINE valid == seen \ {Garbled}
<1>1. IsFiniteSet(valid) /\ Cardinality(valid) \in Nat /\ Cardinality(seen) \in Nat
  BY FS_Difference, FS_CardinalityType
<1>2. ASSUME Status(seen) = "verified"
      PROVE  seen = {ValueOf(seen)} /\ ValueOf(seen) \notin {NoValue, Garbled}
  <2>1. ~(Cardinality(valid) > 1) /\ Garbled \notin seen /\ valid # {}
    BY <1>2 DEF Status
  <2>2. valid = seen
    BY <2>1
  <2>3. Cardinality(seen) = 1
    BY <1>1, <2>1, <2>2, FS_EmptySet
  <2>4. PICK v \in seen : seen = {v}
    BY <1>1, <2>2, <2>3, FS_Singleton
  <2>5. ValueOf(seen) = v
    BY <1>2, <2>4 DEF ValueOf
  <2> QED
    BY <2>1, <2>4, <2>5
<1>3. ASSUME seen # {}, Garbled \notin seen, Cardinality(seen) <= 1 PROVE Status(seen) = "verified"
  <2>1. valid = seen
    BY <1>3
  <2> QED
    BY <1>1, <1>3, <2>1 DEF Status
<1>4. seen = {} => Status(seen) # "verified"
  BY <1>2
<1> QED
  BY <1>2, <1>3, <1>4 DEF ValueOf

\* The snapshots a file and a declaration can lead to.
SnapshotsOf(d) == LET whole == Declared(Facts(taken), d) IN {whole, Redacted(whole)}
Loadable(d) == d \in Declarations /\ Accepted(Facts(taken), d)

\* A snapshot knows no more of a file than its observations and the declaration.
LEMMA SnapshotFacts ==
    ASSUME taken \in Files, NEW d, Loadable(d), NEW b \in SnapshotsOf(d)
    PROVE  /\ b.storage = Storage(taken.strips) /\ b.declared = d
           /\ \A x \in FactFields :
                /\ b.status[x] = Status(taken.seen[x])
                /\ b.value[x] # NoValue => KnownOf(d, x) = {b.value[x]} /\ b.value[x] # Garbled
           /\ Redacted(b) = Redacted(Declared(Facts(taken), d))
           /\ \A x \in Private : Redacted(b).value[x] = NoValue
<1> DEFINE facts == Facts(taken)
           whole == Declared(facts, d)
<1>1. facts = [value |-> [x \in FactFields |-> ValueOf(taken.seen[x])],
               status |-> [x \in FactFields |-> Status(taken.seen[x])],
               storage |-> Storage(taken.strips), raster |-> taken.raster, declared |-> [x \in {} |-> NoValue]]
  BY DEF Facts
<1>2. whole = [value |-> [x \in FactFields |-> IF x \in DOMAIN d /\ facts.value[x] = NoValue THEN d[x] ELSE facts.value[x]],
               status |-> facts.status, storage |-> facts.storage, raster |-> facts.raster, declared |-> d]
  <2> DEFINE filled == [x \in FactFields |-> IF x \in DOMAIN d /\ facts.value[x] = NoValue THEN d[x] ELSE facts.value[x]]
  <2>1. whole = [facts EXCEPT !.declared = d, !.value = filled]
    BY DEF Declared
  <2> HIDE DEF filled
  <2>2. whole = [value |-> filled, status |-> facts.status, storage |-> facts.storage, raster |-> facts.raster, declared |-> d]
    BY <1>1, <2>1
  <2> QED
    BY <2>2 DEF filled
<1>3. Redacted(whole) = [value |-> [x \in FactFields |-> IF x \in Private THEN NoValue ELSE whole.value[x]],
               status |-> whole.status, storage |-> whole.storage, raster |-> whole.raster, declared |-> d]
  BY <1>2 DEF Redacted
<1>4. b = whole \/ b = Redacted(whole)
  BY DEF SnapshotsOf
<1>5. b.storage = Storage(taken.strips) /\ b.declared = d /\ b.status = facts.status
  BY <1>1, <1>2, <1>3, <1>4
<1>6. \A x \in FactFields : b.value[x] \in {NoValue, whole.value[x]}
  BY <1>2, <1>3, <1>4
<1>7. Redacted(b) = Redacted(whole)
  <2>1. CASE b = whole
    BY <2>1
  <2>2. CASE b = Redacted(whole)
    <3>1. Redacted(b) = [value |-> [x \in FactFields |-> IF x \in Private THEN NoValue ELSE b.value[x]],
               status |-> b.status, storage |-> b.storage, raster |-> b.raster, declared |-> b.declared]
      BY <1>3, <2>2 DEF Redacted
    <3>2. \A x \in FactFields : b.value[x] = IF x \in Private THEN NoValue ELSE whole.value[x]
      BY <1>3, <2>2
    <3> QED
      BY <1>3, <2>2, <3>1, <3>2
  <2> QED
    BY <1>4, <2>1, <2>2
<1>8. \A x \in Private : Redacted(b).value[x] = NoValue
  BY <1>3, <1>7 DEF Private, FactFields
<1>9. ASSUME NEW x \in FactFields, b.value[x] # NoValue
      PROVE  KnownOf(d, x) = {b.value[x]} /\ b.value[x] # Garbled
  <2> DEFINE seen == taken.seen[x]
  <2>1. IsFiniteSet(seen) /\ NoValue \notin seen
    BY FactsAssumption
  <2>2. b.value[x] = IF x \in DOMAIN d /\ ValueOf(seen) = NoValue THEN d[x] ELSE ValueOf(seen)
    BY <1>1, <1>2, <1>6, <1>9
  <2>3. CASE x \in DOMAIN d
    <3>1. x \in Declarable /\ facts.value[x] \in {NoValue, d[x]}
      BY <2>3 DEF Loadable, Accepted
    <3>2. ValueOf(seen) \in {NoValue, d[x]} /\ d[x] # Garbled
      BY <1>1, <2>3, <3>1, FactsAssumption DEF Loadable
    <3>3. Garbled \notin seen /\ Cardinality(seen) <= 1
      BY <3>1, FactsAssumption
    <3>4. seen = {} \/ Status(seen) = "verified"
      BY <2>1, <3>3, VerifiedFacts
    <3> QED
      BY <2>1, <2>2, <2>3, <3>2, <3>4, VerifiedFacts DEF KnownOf
  <2>4. CASE x \notin DOMAIN d
    <3>1. b.value[x] = ValueOf(seen) /\ Status(seen) = "verified"
      BY <1>9, <2>1, <2>2, <2>4, VerifiedFacts
    <3> QED
      BY <2>1, <2>4, <3>1, VerifiedFacts DEF KnownOf
  <2> QED
    BY <2>3, <2>4
<1> QED
  BY <1>1, <1>5, <1>7, <1>8, <1>9

\* What a verdict is read off.
LEMMA VerdictFacts ==
    ASSUME NEW m \in Entries, NEW facts, facts.storage \in {"lossless", "lossy", NoValue}
    PROVE  /\ "matched" \in Verdicts(m, facts) =>
                facts.storage = "lossless" /\ \A x \in DOMAIN m.asks : FieldVerdict(m, facts, x) = "matched"
           /\ "mismatch" \in Verdicts(m, facts) =>
                facts.storage = "lossy" \/ \E x \in DOMAIN m.asks : FieldVerdict(m, facts, x) = "mismatch"
<1> DEFINE fields == DOMAIN m.asks
           failing == {FieldVerdict(m, facts, x) : x \in fields} \ {"matched"}
           last == IF DomainVerdict(m, facts) = "unverified" THEN "unverified"
                   ELSE IF fields = {} THEN "not-declared" ELSE "matched"
<1>1. Verdicts(m, facts) =
        CASE facts.storage = "lossy" -> {"mismatch"}
          [] facts.storage = NoValue \/ (facts.storage = "lossless" /\ m.issues) -> {"unverified"}
          [] failing # {} /\ facts.storage = "lossless" /\ ~m.issues -> failing
          [] OTHER -> {last}
  BY DEF Verdicts
<1>2. \A x \in fields : FieldVerdict(m, facts, x) \in failing \/ FieldVerdict(m, facts, x) = "matched"
  OBVIOUS
<1>3. /\ "matched" \notin failing
      /\ "mismatch" \in failing => \E x \in fields : FieldVerdict(m, facts, x) = "mismatch"
  OBVIOUS
<1>4. last \in {"unverified", "not-declared", "matched"}
  OBVIOUS
<1>5. NoValue # "lossy" /\ NoValue # "lossless"
  BY FactsAssumption
<1> HIDE DEF failing, last
<1> QED
  BY <1>1, <1>2, <1>3, <1>4, <1>5

\* What a bundle knows, and what was kept, is of the file; what is for readers names
\* nothing private.
FactsInv ==
    /\ taken \in Files
    /\ bundled = Blank \/ \E d \in Declarations : Loadable(d) /\ bundled \in SnapshotsOf(d)
    /\ kept = Blank \/ \E d \in Declarations : Loadable(d) /\ kept \in SnapshotsOf(d)
    /\ published => \E d \in Declarations : Loadable(d) /\ kept = Redacted(Declared(Facts(taken), d))

LEMMA FactsStep == FactsInv /\ [FactsNext]_factVars => FactsInv'
<1> SUFFICES ASSUME FactsInv, [FactsNext]_factVars PROVE FactsInv'
  OBVIOUS
<1>1. taken' = taken
  BY DEF FactsNext, Load, Keep, Restore, factVars
<1>2. \A d : Loadable(d)' = Loadable(d) /\ SnapshotsOf(d)' = SnapshotsOf(d)
  BY <1>1 DEF Loadable, SnapshotsOf
<1>3. CASE Load
  <2>1. PICK d \in Declarations : bundled' = IF Accepted(Facts(taken), d) THEN Declared(Facts(taken), d) ELSE Blank
    BY <1>3 DEF Load
  <2>2. bundled' = Blank \/ (Loadable(d) /\ bundled' \in SnapshotsOf(d))
    BY <2>1 DEF Loadable, SnapshotsOf
  <2> QED
    BY <1>1, <1>2, <1>3, <2>2 DEF FactsInv, Load
<1>4. CASE Keep
  <2>1. PICK d \in Declarations : Loadable(d) /\ bundled \in SnapshotsOf(d)
    BY <1>4 DEF Keep, FactsInv
  <2>2. PICK public \in BOOLEAN : kept' = (IF public THEN Redacted(bundled) ELSE bundled) /\ published' = public
    BY <1>4 DEF Keep
  <2>3. Redacted(bundled) = Redacted(Declared(Facts(taken), d))
    BY <2>1, SnapshotFacts DEF FactsInv
  <2>4. Redacted(bundled) \in SnapshotsOf(d)
    BY <2>3 DEF SnapshotsOf
  <2>5. bundled' = bundled
    BY <1>4 DEF Keep
  <2> QED
    BY <1>1, <1>2, <2>1, <2>2, <2>3, <2>4, <2>5 DEF FactsInv
<1>5. CASE Restore
  BY <1>1, <1>2, <1>5 DEF FactsInv, Restore
<1>6. CASE UNCHANGED factVars
  BY <1>1, <1>2, <1>6 DEF FactsInv, factVars
<1> QED
  BY <1>3, <1>4, <1>5, <1>6 DEF FactsNext

\* What is known of a file is on its side of every verdict.
LEMMA FactsHonest == FactsInv => FactsNeverInvented
<1> SUFFICES ASSUME FactsInv PROVE FactsNeverInvented
  OBVIOUS
<1>1. published => \A x \in Private : kept.value[x] \notin taken.seen[x] /\ (Restorable => Status(taken.seen[x]) # "verified")
  <2> SUFFICES ASSUME published
               PROVE  \A x \in Private : kept.value[x] \notin taken.seen[x] /\ (Restorable => Status(taken.seen[x]) # "verified")
    OBVIOUS
  <2>1. PICK d \in Declarations : Loadable(d) /\ kept = Redacted(Declared(Facts(taken), d))
    BY DEF FactsInv
  <2>2. kept \in SnapshotsOf(d)
    BY <2>1 DEF SnapshotsOf
  <2>3. Redacted(kept) = kept
    BY <2>1, <2>2, SnapshotFacts DEF FactsInv
  <2> SUFFICES ASSUME NEW x \in Private
               PROVE  kept.value[x] \notin taken.seen[x] /\ (Restorable => Status(taken.seen[x]) # "verified")
    OBVIOUS
  <2>4. kept.value[x] = NoValue
    BY <2>1, <2>2, <2>3, SnapshotFacts DEF FactsInv
  <2>5. x \in FactFields \ Declarable
    BY DEF Private, FactFields, Declarable
  <2>6. kept.status[x] = Status(taken.seen[x])
    BY <2>1, <2>2, <2>5, SnapshotFacts DEF FactsInv
  <2>7. NoValue \notin taken.seen[x]
    BY <2>5, FactsAssumption DEF FactsInv
  <2> QED
    BY <2>4, <2>5, <2>6, <2>7 DEF Restorable
<1>2. ASSUME NEW m \in Entries, bundled # Blank
      PROVE  LET verdicts == Verdicts(m, bundled)
                 known(x) == IF taken.seen[x] = {} /\ x \in DOMAIN bundled.declared THEN {bundled.declared[x]} ELSE taken.seen[x]
             IN  /\ "matched" \in verdicts =>
                      /\ taken.strips = {"lossless"}
                      /\ \A x \in DOMAIN m.asks : known(x) # {} /\ known(x) \subseteq m.asks[x]
                 /\ "mismatch" \in verdicts =>
                      \/ "lossy" \in taken.strips
                      \/ \E x \in DOMAIN m.asks : Cardinality(known(x)) = 1 /\ known(x) \cap (m.asks[x] \cup {Garbled}) = {}
  <2>1. PICK d \in Declarations : Loadable(d) /\ bundled \in SnapshotsOf(d)
    BY <1>2 DEF FactsInv
  <2>2. /\ bundled.storage = Storage(taken.strips) /\ bundled.declared = d
        /\ \A x \in FactFields : bundled.value[x] # NoValue => KnownOf(d, x) = {bundled.value[x]} /\ bundled.value[x] # Garbled
    BY <2>1, SnapshotFacts DEF FactsInv
  <2>3. /\ bundled.storage \in {"lossless", "lossy", NoValue}
        /\ bundled.storage = "lossless" => taken.strips = {"lossless"}
        /\ bundled.storage = "lossy" => "lossy" \in taken.strips
    BY <2>2, FactsAssumption DEF Storage
  <2>4. ASSUME NEW x \in DOMAIN m.asks, FieldVerdict(m, bundled, x) = "matched"
        PROVE  KnownOf(d, x) # {} /\ KnownOf(d, x) \subseteq m.asks[x]
    <3>1. x \in FactFields /\ NoValue \notin m.asks[x]
      BY FactsAssumption
    <3>2. bundled.value[x] # NoValue /\ bundled.value[x] \in m.asks[x]
      BY <2>4 DEF FieldVerdict
    <3> QED
      BY <2>2, <3>1, <3>2
  <2>5. ASSUME NEW x \in DOMAIN m.asks, FieldVerdict(m, bundled, x) = "mismatch"
        PROVE  Cardinality(KnownOf(d, x)) = 1 /\ KnownOf(d, x) \cap (m.asks[x] \cup {Garbled}) = {}
    <3>1. x \in FactFields
      BY FactsAssumption
    <3>2. bundled.value[x] # NoValue /\ bundled.value[x] \notin m.asks[x]
      BY <2>5 DEF FieldVerdict
    <3>3. KnownOf(d, x) = {bundled.value[x]} /\ bundled.value[x] # Garbled
      BY <2>2, <3>1, <3>2
    <3> QED
      BY <3>2, <3>3, FS_Singleton
  <2>6. \A x \in DOMAIN m.asks :
          (IF taken.seen[x] = {} /\ x \in DOMAIN bundled.declared THEN {bundled.declared[x]} ELSE taken.seen[x]) = KnownOf(d, x)
    BY <2>2 DEF KnownOf
  <2>7. /\ "matched" \in Verdicts(m, bundled) =>
             bundled.storage = "lossless" /\ \A x \in DOMAIN m.asks : FieldVerdict(m, bundled, x) = "matched"
        /\ "mismatch" \in Verdicts(m, bundled) =>
             bundled.storage = "lossy" \/ \E x \in DOMAIN m.asks : FieldVerdict(m, bundled, x) = "mismatch"
    BY <2>3, VerdictFacts
  <2> QED
    BY <2>2, <2>3, <2>4, <2>5, <2>7 DEF KnownOf
<1>3. published => \A x \in Private : kept.value[x] \notin taken.seen[x]
  BY <1>1
<1>4. published /\ Restorable => \A x \in Private : Status(taken.seen[x]) # "verified"
  <2> SUFFICES ASSUME published, Restorable, NEW x \in Private PROVE Status(taken.seen[x]) # "verified"
    BY Zenon
  <2> QED
    BY <1>1
<1> QED
  BY <1>2, <1>3, <1>4, Zenon DEF FactsNeverInvented

\* For any file, any declarations and any measurements: what is matched with a file
\* is met by all it was observed to be or declared, a mismatch is never read off
\* observations that conflict, and what is published names no serial.
THEOREM FactsAlwaysObserved == FactsSpec => []FactsNeverInvented
<1>1. FactsInit => FactsInv
  BY DEF FactsInit, FactsFrom, FactsInv
<1> QED
  BY <1>1, FactsStep, FactsHonest, PTL DEF FactsSpec

=============================================================================
