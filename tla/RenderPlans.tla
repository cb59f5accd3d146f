---------------------------- MODULE RenderPlans ----------------------------
(***************************************************************************)
(* tone.py, hdr_agx_plan.py, drt.py: from the pixels of a frame and what   *)
(* is known of them to the SDR curve, the user's adjustments of it and the *)
(* HDR plan.  A frame is a few pixels; light is in tenths of an EV above   *)
(* mid gray, freedom of colour in sixteenths.                              *)
(*                                                                         *)
(* Reconstruction can make a lost highlight look plausible; it may shape   *)
(* the SDR curve, but it earns no headroom and no colour.                  *)
(***************************************************************************)
EXTENDS Integers, Sequences, FiniteSets, FiniteSetsExt

CONSTANTS
    PlanFrames,    \* [ev, lost, cells, decoder, untrusted, reference, cellsClipped, sparse,
                   \*  groups, noise, display], and the sliders: value and bias of one
                   \* shape, offset of its end, and where each power of the curve crosses
    MinReliable,   \* how many pixels are evidence
    Unmeasured

ClampFloor == -300          \* what the decoder clamps to
ReferenceWhite == 25
MaxWhite == 85
EstimateCap == 10           \* headroom of a picture nothing vouches for
UnalignedCap == 4           \* freedom of a decoder without masks

VARIABLES
    subject,    \* the frame
    statement,  \* the one the compilation is at
    metrics,    \* [evidence, body, tail, source], or Unmeasured
    sdr,        \* [white, note]
    goal,       \* where the end of the curve shall cross, or Unmeasured
    power,      \* of that end
    bracket,    \* <<lo, hi>> of the search for it
    hdr         \* [requested, rendered, white, rho, gate, fixed], or Unmeasured

planVars == <<subject, statement, metrics, sdr, goal, power, bracket, hdr>>

PlansFrom(frames) ==
    /\ subject \in frames
    /\ statement = "measure" /\ metrics = Unmeasured /\ sdr = Unmeasured /\ goal = Unmeasured
    /\ power = 0 /\ bracket = <<0, 0>> /\ hdr = Unmeasured
PlansInit == PlansFrom(PlanFrames)

SmallerOf(a, b) == IF a < b THEN a ELSE b
GreaterOf(a, b) == IF a < b THEN b ELSE a
Clamp(x, lo, hi) == GreaterOf(lo, SmallerOf(x, hi))

Samples == DOMAIN subject.ev
TopOf(S) == Max({subject.ev[i] : i \in S})

-----------------------------------------------------------------------------
(* Evidence *)

\* Mutant of CellsUnder: the last cell a pixel shares with its neighbour is left out.
CellsUnderFloor(i, cells, pixels) ==
    (((i - 1) * cells) \div pixels)..(((i * cells) \div pixels) - 1)

\* resize_exclusion: the cells of the exclusion any part of which is under pixel i.
CellsUnder(i, cells, pixels) ==
    (((i - 1) * cells) \div pixels)..(((i * cells + pixels - 1) \div pixels) - 1)

Excluded(i) ==
    \E c \in CellsUnder(i, Len(subject.cells), Len(subject.ev)) : subject.cells[c + 1]

AboveFloor == {i \in Samples : subject.ev[i] > ClampFloor}
Apple == subject.decoder = "coreimage"

\* reliable_scene_ev_selection: what is measured here, pixel by pixel.
Evidence ==
    {i \in AboveFloor :
       /\ subject.lost[i] = 0 /\ ~Excluded(i)
       /\ ~subject.untrusted
       /\ Apple => subject.reference = Unmeasured /\ ~subject.cellsClipped}

\* What an SDR curve can be drawn through.
Body(evidence) ==
    CASE Cardinality(evidence) >= MinReliable -> evidence
      [] Cardinality(evidence) < MinReliable /\ Cardinality(AboveFloor) >= MinReliable -> AboveFloor
      [] OTHER -> Samples

Witness ==
    CASE subject.untrusted -> "untrusted"
      [] ~subject.untrusted /\ Apple /\ subject.reference = Unmeasured -> "estimate"
      [] ~subject.untrusted /\ Apple /\ subject.reference # Unmeasured -> "reference"
      [] OTHER -> "spatial"

\* Mutant of ReliableTail: what the SDR curve falls back to is a tail as well.
ReliableTailOfBody(evidence) == TopOf(Body(evidence))

\* scene_tone_metrics.  A reference caps what the picture shows, it adds nothing.
ReliableTail(evidence) ==
    IF Witness = "reference"
      THEN LET lit == {r \in subject.reference : r > ClampFloor}
           IN  IF lit = {} THEN Unmeasured ELSE SmallerOf(Max(lit), TopOf(Samples))
      ELSE IF Cardinality(evidence) >= MinReliable THEN TopOf(evidence) ELSE Unmeasured

Measure ==
    /\ statement = "measure"
    /\ metrics' = [evidence |-> Evidence, body |-> Body(Evidence), tail |-> ReliableTail(Evidence), source |-> Witness]
    /\ statement' = "tone"
    /\ UNCHANGED <<subject, sdr, goal, power, bracket, hdr>>

-----------------------------------------------------------------------------
(* SDR *)

Margin == IF subject.sparse THEN 5 ELSE 3
MinWhite == IF subject.sparse THEN 35 ELSE 30
WhiteOver(tail, margin) == Clamp(GreaterOf(tail + margin, MinWhite), MinWhite, MaxWhite)

\* build_tone_compression_plan: the whole tail stands in for a missing one, and the
\* note of the evidence mode says so.
CompileTone ==
    /\ statement = "tone"
    /\ LET tail == IF metrics.tail = Unmeasured THEN TopOf(Samples) ELSE metrics.tail
       IN  sdr' = [white |-> WhiteOver(tail, Margin),
                   note |-> CASE metrics.tail = Unmeasured -> "fallback"
                              [] metrics.tail # Unmeasured /\ metrics.source = "estimate" -> "estimate"
                              [] OTHER -> "measured"]
    /\ statement' = "adjust"
    /\ UNCHANGED <<subject, metrics, goal, power, bracket, hdr>>

\* Mutant of Biased: the window of the slider clamps every value.
BiasedInWindow(value, bias) == IF bias = 0 THEN value ELSE Clamp(value + bias, 0, 4)

\* _biased of apply_render_adjustments, in powers of two: an untouched control keeps
\* what was compiled, one outside the window keeps its direction.
Biased(value, bias) ==
    IF bias = 0 THEN value
    ELSE Clamp(value + bias, IF value >= 0 THEN 0 ELSE value - 2, IF value <= 4 THEN 4 ELSE value + 2)

TopPower == Max(DOMAIN subject.curve)

\* apply_render_adjustments, solve_toe_power_for_toe_end: an offset moves the level
\* the curve is known to cross; an unmeasurable curve is left as it is.
Adjust ==
    /\ statement = "adjust"
    /\ power' = Biased(subject.value, subject.bias)
    /\ LET crossing == subject.curve[Clamp(power', 0, TopPower)]
       IN  IF subject.offset = 0 \/ crossing = Unmeasured
             THEN statement' = "hdr" /\ UNCHANGED goal
             ELSE statement' = "bounds" /\ goal' = crossing + subject.offset
    /\ UNCHANGED <<subject, metrics, sdr, bracket, hdr>>

\* Beyond what the family reaches, its nearer end.
Bounds ==
    /\ statement = "bounds"
    /\ LET open == subject.curve[0]
           hard == subject.curve[TopPower]
       IN  CASE open = Unmeasured \/ hard = Unmeasured -> statement' = "hdr" /\ UNCHANGED <<power, bracket>>
             [] open # Unmeasured /\ hard # Unmeasured /\ open > goal ->
                  statement' = "hdr" /\ power' = 0 /\ UNCHANGED bracket
             [] open # Unmeasured /\ hard # Unmeasured /\ open <= goal /\ hard < goal ->
                  statement' = "hdr" /\ power' = TopPower /\ UNCHANGED bracket
             [] OTHER -> statement' = "bisect" /\ bracket' = <<0, TopPower>> /\ UNCHANGED power
    /\ UNCHANGED <<subject, metrics, sdr, goal, hdr>>

\* Mutant of Halved: the half of a shoulder, where a lower power crosses later.
HalvedAsShoulder(crossing, mid) ==
    IF crossing > goal THEN <<mid, bracket[2]>> ELSE <<bracket[1], mid>>

Halved(crossing, mid) ==
    IF crossing < goal THEN <<mid, bracket[2]>> ELSE <<bracket[1], mid>>

\* The loop ends on the goal or on a bracket that cannot be halved.
Bisect ==
    /\ statement = "bisect"
    /\ LET mid == (bracket[1] + bracket[2]) \div 2
           crossing == subject.curve[mid]
       IN  IF mid = bracket[1] \/ crossing = goal
             THEN /\ power' = (IF crossing = goal THEN mid ELSE bracket[2])
                  /\ statement' = "hdr" /\ UNCHANGED bracket
             ELSE bracket' = Halved(crossing, mid) /\ UNCHANGED <<power, statement>>
    /\ UNCHANGED <<subject, metrics, sdr, goal, hdr>>

-----------------------------------------------------------------------------
(* HDR *)

\* requested_headroom_ev and scene_headroom_ev.
Requested ==
    IF metrics.tail = Unmeasured THEN 0
    ELSE LET earned == GreaterOf(0, metrics.tail - ReferenceWhite)
         IN  SmallerOf(subject.display, IF metrics.source = "estimate" THEN SmallerOf(earned, EstimateCap) ELSE earned)

\* compile_channel_separation: pixels that lost two colours withdraw it for the frame.
Separation(dial) ==
    CASE metrics.source \in {"estimate", "untrusted"} \/ subject.groups \in {"missing", "many"} -> 0
      [] subject.groups = "none" /\ Apple -> SmallerOf(dial, UnalignedCap)
      [] subject.groups = "none" /\ ~Apple -> dial
      [] OTHER -> IF Apple THEN SmallerOf(dial \div 2, UnalignedCap) ELSE dial \div 2

\* compile_tail_snr_gate: no model leaves the choice to the others, a rejected one
\* withdraws it.
Gate == CASE subject.noise \in {"rejected", "noisy"} -> 0 [] subject.noise = "poor" -> 1 [] OTHER -> 2

\* compile_hdr_agx_plan: a shoulder that fails its own checks is not rendered at all.
CompileHdr ==
    /\ statement = "hdr"
    /\ \E dial \in {8, 16}, margin \in {Margin, 0}, sound \in BOOLEAN :
         hdr' = [requested |-> Requested,
                 rendered |-> IF sound THEN Requested ELSE 0,
                 white |-> IF metrics.tail = Unmeasured THEN MinWhite ELSE WhiteOver(metrics.tail, margin),
                 rho |-> Separation(dial), gate |-> Gate, fixed |-> FALSE]
    /\ statement' = "qualify"
    /\ UNCHANGED <<subject, metrics, sdr, goal, power, bracket>>

\* A plan kept from elsewhere: the decoder's standing still counts.
FixedPlan ==
    /\ statement = "hdr"
    /\ hdr' = [requested |-> 30, rendered |-> 30, white |-> 60, rho |-> 16, gate |-> 2, fixed |-> TRUE]
    /\ statement' = "qualify"
    /\ UNCHANGED <<subject, metrics, sdr, goal, power, bracket>>

\* _qualified_hdr_plan.
QualifyPlan ==
    /\ statement = "qualify"
    /\ hdr' = [hdr EXCEPT !.rho = IF subject.untrusted THEN 0 ELSE @]
    /\ statement' = "done"
    /\ UNCHANGED <<subject, metrics, sdr, goal, power, bracket>>

\* What the masks of the picture leave pixel i: they know nothing of an excluded source.
\* Two lost colours leave none, one leaves half, and none at the peak.
FreedomOfMasks(i) ==
    IF Apple THEN hdr.rho * hdr.gate
    ELSE CASE subject.lost[i] >= 2 -> 0
           [] subject.lost[i] = 1 /\ subject.ev[i] >= hdr.white -> 0
           [] subject.lost[i] = 1 /\ subject.ev[i] < hdr.white -> (hdr.rho * hdr.gate) \div 2
           [] OTHER -> hdr.rho * hdr.gate

\* raw_gated_channel_separation of separation_masks: the freedom pixel i is drawn with.
Freedom(i) == IF Excluded(i) THEN 0 ELSE FreedomOfMasks(i)

PlansNext ==
    \/ Measure \/ CompileTone \/ Adjust \/ Bounds \/ Bisect
    \/ CompileHdr \/ FixedPlan \/ QualifyPlan

PlansSpec == PlansInit /\ [][PlansNext]_planVars

-----------------------------------------------------------------------------
\* A pixel is measured when no lost sensel is under any part of it.
MeasuredHere(i) ==
    /\ subject.ev[i] > ClampFloor /\ subject.lost[i] = 0 /\ ~subject.untrusted
    /\ \A c \in DOMAIN subject.cells :
         subject.cells[c] => \/ c * Len(subject.ev) <= (i - 1) * Len(subject.cells)
                           \/ (c - 1) * Len(subject.ev) >= i * Len(subject.cells)

Shown(stops) == \E i \in Samples : subject.ev[i] - ReferenceWhite >= stops

\* Headroom is within the display, and some pixel measured it: here, or in the
\* reference and seen here; a picture nothing vouches for gets one stop and no colour.
HeadroomEarned ==
    hdr # Unmeasured /\ ~hdr.fixed =>
        /\ hdr.rendered \in 0..SmallerOf(hdr.requested, subject.display)
        /\ hdr.rendered > 0 =>
             CASE ~Apple -> \E i \in Samples : MeasuredHere(i) /\ subject.ev[i] - ReferenceWhite >= hdr.rendered
               [] Apple /\ subject.reference # Unmeasured ->
                    ~subject.untrusted /\ Shown(hdr.rendered) /\ \E r \in subject.reference : r - ReferenceWhite >= hdr.rendered
               [] OTHER -> ~subject.untrusted /\ hdr.rendered <= EstimateCap /\ hdr.rho = 0
        /\ metrics.tail # Unmeasured => hdr.white >= SmallerOf(metrics.tail, MaxWhite)

\* Colours are told apart only where they were measured.
ColourEarned ==
    statement = "done" => \A i \in Samples :
        Freedom(i) > 0 =>
            /\ ~subject.untrusted
            /\ \A c \in DOMAIN subject.cells :
                 subject.cells[c] => \/ c * Len(subject.ev) <= (i - 1) * Len(subject.cells)
                                   \/ (c - 1) * Len(subject.ev) >= i * Len(subject.cells)
            /\ ~Apple => subject.lost[i] < 2 /\ (subject.lost[i] = 1 => subject.ev[i] < hdr.white)

\* The SDR curve has a body and a white point it can be drawn with, above the tail
\* it is said to measure.
SdrDrawable ==
    /\ metrics # Unmeasured => metrics.body # {}
    /\ sdr # Unmeasured =>
         /\ sdr.white \in MinWhite..MaxWhite
         /\ sdr.note = "measured" => metrics.tail # Unmeasured /\ sdr.white >= SmallerOf(metrics.tail, MaxWhite)

\* A slider moves the curve its own way or not at all, and a solved end is as near
\* to the goal as the family gets.
AdjustmentsAsAsked ==
    statement \in {"bounds", "bisect", "hdr", "qualify", "done"} =>
        /\ statement = "bounds" \/ goal = Unmeasured =>
             /\ subject.bias >= 0 => power >= subject.value
             /\ subject.bias <= 0 => power <= subject.value
        /\ statement \in {"qualify", "done"} /\ goal # Unmeasured
             /\ subject.curve[0] # Unmeasured /\ subject.curve[TopPower] # Unmeasured =>
             \/ subject.curve[power] >= goal /\ (power > 0 => subject.curve[power - 1] <= goal)
             \/ power = TopPower

PlansEarned == HeadroomEarned /\ ColourEarned /\ SdrDrawable /\ AdjustmentsAsAsked
=============================================================================
