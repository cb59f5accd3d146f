--------------------------- MODULE CalibrationFit ---------------------------
(***************************************************************************)
(* calibration.py, calibration_ptc.py: a set of measurements becomes the   *)
(* curves of a calibration.  Dark frames give the black level and the read *)
(* noise, a ladder of frames the relative gain of the ISOs it connects,    *)
(* and photon-transfer files the absolute gain they are anchored to.       *)
(*                                                                         *)
(* Gains are logarithms in steps of five percent, the tolerance of the     *)
(* code; the edges of a ladder agree, so that its least squares reproduces *)
(* each of them, and a curve between two points is the line.               *)
(***************************************************************************)
EXTENDS Integers, FiniteSets, FiniteSetsExt, Functions

CONSTANTS
    Sets,       \* of measurements: dark frames, ladder, photon-transfer files, sizes
    Rounds,     \* bound: of the PRNU correction (16 in the code)
    Unstated

IsoSteps == 1..5                   \* stops
Greens == {"C01", "C10"}           \* the collector's names of the two green planes
Stop == 14                         \* of gain, from one ISO to the next
Flat == 1                          \* steps within which two gains are one level
Leap == 3                          \* and beyond which they are two

VARIABLES
    measured,   \* the set
    convert,    \* what is converted next
    dark,       \* of each ISO: the read noise and the green planes
    ladder,     \* the parts of the ladder that hang together: a set of relative gains
    anchors,    \* of each photon-transfer file: what its fit is good for
    curve,      \* the absolute gain of the ISOs that have one
    support,    \* <<from, to>> within which the curve may be read
    disputes,   \* anchors that contradict each other
    planes      \* the gains of each green plane

fitVars == <<measured, convert, dark, ladder, anchors, curve, support, disputes, planes>>

CalibrationFrom(sets) ==
    /\ measured \in sets
    /\ convert = "dark" /\ dark = Unstated /\ ladder = {} /\ anchors = [f \in {} |-> Unstated]
    /\ curve = [i \in {} |-> 0] /\ support = {} /\ disputes = {} /\ planes = Unstated
CalibrationFitInit == CalibrationFrom(Sets)

\* What the sensor does: the gain falls by a stop per ISO but for one step of the circuit.
SensorGain(i) == (IF i >= measured.step THEN 2 * Leap ELSE 0) - Stop * i

-----------------------------------------------------------------------------
(* Dark frames *)

\* A correction that floors the variance leaves the read noise unresolved, not zero.
Noise(states) == IF \A p \in Greens : states[p] = "resolved" THEN "resolved" ELSE "unresolved"

ReadDark ==
    /\ convert = "dark"
    /\ dark' = [i \in DOMAIN measured.dark |-> [noise |-> Noise(measured.dark[i]), planes |-> measured.dark[i]]]
    /\ convert' = IF measured.clip = "invalid" THEN "failed" ELSE "sizes"
    /\ UNCHANGED <<measured, ladder, anchors, curve, support, disputes, planes>>

\* Two files that state different sizes are not one set; one that states none is kept
\* as a gap.
CollectGeometry ==
    /\ convert = "sizes"
    /\ convert' = IF Cardinality({measured.sizes[f] : f \in DOMAIN measured.sizes} \ {Unstated}) > 1 THEN "failed" ELSE "ladder"
    /\ UNCHANGED <<measured, dark, ladder, anchors, curve, support, disputes, planes>>

-----------------------------------------------------------------------------
(* The ladder *)

\* Mutant of PhaseBlack: any plane of the colour will do.
PhaseBlackOfColour(i, p) ==
    IF i \notin DOMAIN dark THEN Unstated ELSE CHOOSE q \in Greens : measured.named => q # p

\* A row's pedestal is that of its own plane: by its name, or by an index no other has.
PhaseBlack(i, p) ==
    IF i \in DOMAIN dark /\ (measured.named \/ ~measured.shared) THEN p ELSE Unstated

Exposed == DOMAIN measured.frames
Rows == {<<k, i, p>> \in Exposed \X IsoSteps \X Greens : i \in measured.frames[k].isos}
Dim(k, i) == i \in measured.frames[k].dim
Sampled ==
    {r \in Rows : r[2] \notin measured.frames[r[1]].clipped /\ PhaseBlack(r[2], r[3]) # Unstated /\ ~Dim(r[1], r[2])}

\* The level of a row over its pedestal; another plane's leaves an error.
Level(r) ==
    measured.frames[r[1]].time + measured.frames[r[1]].late - SensorGain(r[2])
      + (IF PhaseBlack(r[2], r[3]) = r[3] THEN 0 ELSE 2 * r[2])

\* Rows of one shutter setting: by the label they carry, or by the nominal time.
ShutterOf(k) ==
    <<measured.frames[k].label, IF measured.frames[k].label = "" THEN measured.frames[k].time ELSE 0>>
Together(rows) == {{r \in rows : ShutterOf(r[1]) = ShutterOf(k)} : k \in {r[1] : r \in rows}}
IsosOf(rows) == {r[2] : r \in rows}
Paired(groups) == {g \in groups : Cardinality(IsosOf(g)) >= 2}
Torn(groups) == \E g \in groups : Cardinality({measured.frames[r[1]].time : r \in g}) > 1

Protocol(groups) ==
    CASE measured.protocol # "" -> measured.protocol
      [] measured.protocol = "" /\ Paired(groups) = {} -> "auto-shutter"
      [] measured.protocol = "" /\ Paired(groups) # {} /\ Paired(groups) = groups -> "paired-shutter"
      [] OTHER -> "mixed"

\* edges_for: frames of one shutter cancel it whatever it really was.
Ratio(r, s, timed) ==
    IF timed THEN Level(r) - measured.frames[r[1]].time - (Level(s) - measured.frames[s[1]].time)
             ELSE Level(r) - Level(s)

\* One edge from each ISO of a plane to the next one it has.
EdgesOf(rows, timed) ==
    {[a |-> r[2], b |-> s[2], ratio |-> Ratio(r, s, timed)] :
       <<r, s>> \in {<<x, y>> \in rows \X rows :
          /\ x[3] = y[3] /\ x[2] < y[2]
          /\ \A z \in rows : z[3] = x[3] => ~(x[2] < z[2] /\ z[2] < y[2])}}

\* Mutant of Edges: a ladder of both kinds is solved by its nominal times.
EdgesByTime(rows, groups) ==
    IF Protocol(groups) # "paired-shutter" THEN EdgesOf(rows, TRUE) ELSE UNION {EdgesOf(g, FALSE) : g \in Paired(groups)}

\* A nominal time is believed only where the ladder is declared to be made of them.
Edges(rows, groups) ==
    IF Protocol(groups) = "auto-shutter" THEN EdgesOf(rows, TRUE) ELSE UNION {EdgesOf(g, FALSE) : g \in Paired(groups)}

\* _solve_gain_edges: gains relative to the lowest ISO of all it is connected to.
BothWays(edges) == edges \cup {[a |-> e.b, b |-> e.a, ratio |-> -e.ratio] : e \in edges}
StepTo(edges, known, i) == CHOOSE e \in edges : e.b = i /\ e.a \in DOMAIN known
Solved(edges, start) ==
    LET grow[n \in 0..Cardinality(IsoSteps)] ==
          IF n = 0 THEN [i \in {start} |-> 0]
          ELSE LET known == grow[n - 1]
                   next == {e.b : e \in {x \in edges : x.a \in DOMAIN known}}
               IN  [i \in (DOMAIN known) \cup next |->
                      IF i \in DOMAIN known THEN known[i]
                      ELSE known[StepTo(edges, known, i).a] + StepTo(edges, known, i).ratio]
    IN  grow[Cardinality(IsoSteps)]
Components(edges, nodes) == {Solved(edges, i) : i \in {n \in nodes : Min(DOMAIN Solved(edges, n)) = n}}

ReadIsogain ==
    /\ convert = "ladder"
    /\ LET rows == Sampled
           groups == Together(rows)
       IN  /\ convert' = IF Torn(groups) THEN "failed" ELSE "anchors"
           /\ ladder' = IF Torn(groups) THEN {} ELSE Components(BothWays(Edges(rows, groups)), IsosOf(rows))
    /\ UNCHANGED <<measured, dark, anchors, curve, support, disputes, planes>>

-----------------------------------------------------------------------------
(* The photon-transfer files *)

Unfit == [method |-> "none", quality |-> "none", bias |-> 0]

\* Mutant of SpatialQuality: a correction that did not converge is a correction.
SpatialQualityAnyway(f, round) == IF f.residual THEN "high-residual" ELSE "ok"

SpatialQuality(f, round) ==
    CASE f.residual -> "high-residual"
      [] ~f.residual /\ f.top >= 3 /\ round > Rounds -> "unconverged"
      [] OTHER -> "ok"

\* fit_ptc: the low tenth of the range, or the third if that is too sparse; without the
\* top of the ramp the correction for fixed pattern cannot run and the gain is a little
\* low, and while it has not converged there is no telling how much.
Spatial(f, round) ==
    IF f.low + f.mid + f.top < 6 \/ f.low + f.mid < 4 \/ ~f.rising THEN Unfit
    ELSE [method |-> IF f.top < 3 THEN "plain" ELSE "corrected", quality |-> SpatialQuality(f, round),
          bias |-> IF f.top < 3 THEN -Flat ELSE IF round > Rounds THEN -Leap ELSE 0]

\* fit_temporal: pairs of frames whose means drift apart or that clip are left out.
Differences(f) == \/ f.pairs = "trimmed" /\ measured.clip = "declared"
                  \/ f.pairs = "whole"
Temporal(f) ==
    IF ~Differences(f) \/ f.steady < 4 \/ ~f.rising THEN Unfit
    ELSE [method |-> "temporal", quality |-> IF f.noisy THEN "high-residual" ELSE "ok", bias |-> 0]

\* fit_channel: of one frame at a time only where pairs cannot be fitted.
Channel(f, round) == IF Temporal(f) # Unfit THEN Temporal(f) ELSE Spatial(f, round)

\* read_anchors: a file with no plateau has no white level, and one of another
\* colour description is of another camera.
UsableFit(f, round) ==
    f.plateau /\ ~f.foreign /\ ~f.marked /\ Channel(f, round) # Unfit /\ Channel(f, round).quality = "ok"
FitAnchor(f) ==
    /\ convert = "anchors" /\ f \notin DOMAIN anchors
    /\ \E round \in 1..Rounds + 1 :
         anchors' = [g \in (DOMAIN anchors) \cup {f} |->
           IF g # f THEN anchors[g]
           ELSE [usable |-> UsableFit(measured.files[f], round), fit |-> Channel(measured.files[f], round)]]
    /\ convert' = IF (DOMAIN anchors) \cup {f} = DOMAIN measured.files THEN "graph" ELSE "anchors"
    /\ UNCHANGED <<measured, dark, ladder, curve, support, disputes, planes>>
FitNoAnchor ==
    /\ convert = "anchors" /\ DOMAIN measured.files = {}
    /\ convert' = "graph"
    /\ UNCHANGED <<measured, dark, ladder, anchors, curve, support, disputes, planes>>

Anchors == {f \in DOMAIN anchors : anchors[f].usable}
IsoOf(f) == measured.files[f].iso
Absolute(f) == SensorGain(IsoOf(f)) + measured.files[f].off + anchors[f].fit.bias
AnchorsAt(files, i) == {f \in files : IsoOf(f) = i}
Spread(values) == Max(values) - Min(values)
Mean(value, files) == SumFunctionOnSet(value, files) \div Cardinality(files)

-----------------------------------------------------------------------------
(* The curve of absolute gains *)

Follows(c, a, b) == /\ {a, b} \subseteq DOMAIN c /\ a < b
                    /\ \A i \in DOMAIN c : i <= a \/ b <= i
Rise(c, a, b) == c[b] - c[a] + Stop * (b - a)
Near(step) == -Flat <= step /\ step <= Flat

\* gain_jumps: one level twice, then another twice.
Jumps(c) ==
    {j \in DOMAIN c : \E h, i, k \in DOMAIN c :
       /\ Follows(c, h, i) /\ Follows(c, i, j) /\ Follows(c, j, k)
       /\ Near(Rise(c, h, i)) /\ Near(Rise(c, j, k)) /\ Rise(c, i, j) >= Leap}
Crosses(c, i) == \E a, b \in DOMAIN c : Follows(c, a, b) /\ a < i /\ i < b /\ b \in Jumps(c)

\* support_segments: what lies between two jumps.
Segments(c) ==
    {<<a, b>> \in (DOMAIN c) \X (DOMAIN c) :
       /\ a <= b /\ \A i \in Jumps(c) : i <= a \/ b < i
       /\ a = Min(DOMAIN c) \/ a \in Jumps(c)
       /\ b = Max(DOMAIN c) \/ \E j \in Jumps(c) : Follows(c, b, j)}

\* Mutant of Anchorable: an anchor between two levels scales both.
AnchorableAcross(f) ==
    LET exact == {c \in ladder : IsoOf(f) \in DOMAIN c}
    IN  IF exact # {} THEN exact
        ELSE {c \in ladder : Min(DOMAIN c) < IsoOf(f) /\ IsoOf(f) < Max(DOMAIN c)}

\* The part of the ladder a file anchors: the one that has its ISO, or the one it lies in
\* on one level of gain; in two of them it stands alone.
Anchorable(f) ==
    LET exact == {c \in ladder : IsoOf(f) \in DOMAIN c}
    IN  IF exact # {} THEN exact
        ELSE {c \in ladder : Min(DOMAIN c) < IsoOf(f) /\ IsoOf(f) < Max(DOMAIN c) /\ ~Crosses(c, IsoOf(f))}
Attached(c) == {f \in Anchors : Anchorable(f) = {c}}

Relative(c, i) ==
    IF i \in DOMAIN c THEN c[i]
    ELSE LET a == Max({j \in DOMAIN c : j < i})
             b == Min({j \in DOMAIN c : i < j})
         IN  c[a] + ((c[b] - c[a]) * (i - a)) \div (b - a)
Scales(c) == [f \in Attached(c) |-> Absolute(f) - Relative(c, IsoOf(f))]
Gains(files) == [f \in files |-> Absolute(f)]

\* Mutant of Overlaps: the curves of two parts are read as one.
OverlapsNever(c) == FALSE

\* Two parts with interleaved ISOs are known where they were measured and not between.
Overlaps(c) ==
    \E o \in ladder \ {c} :
      Attached(o) # {} /\ Max({Min(DOMAIN c), Min(DOMAIN o)}) < Min({Max(DOMAIN c), Max(DOMAIN o)})

\* Mutant of Disputed: the mean speaks for its anchors.
DisputedNever(values) == FALSE
Disputed(values) == values # {} /\ Spread(values) > Flat

Alone == {f \in Anchors : \A c \in ladder : f \notin Attached(c)}
Disputes ==
    (IF Disputed({measured.files[f].span : f \in Anchors}) THEN {<<"range", 0>>} ELSE {})
      \cup {<<"ladder", Min(DOMAIN c)>> : c \in {d \in ladder : Disputed(Range(Scales(d)))}}
      \cup {<<"alone", i>> : i \in {j \in IsoSteps : Disputed(Range(Gains(AnchorsAt(Alone, j))))}}

\* anchor_gain_graph: the ISOs of an anchored part, and those of the anchors themselves.
AnchorGraph ==
    /\ convert = "graph"
    /\ LET anchored == {c \in ladder : Attached(c) # {}}
           scale == [c \in anchored |-> Mean(Scales(c), Attached(c))]
       IN  /\ curve' = [i \in UNION {DOMAIN c : c \in anchored} \cup {IsoOf(f) : f \in Anchors} |->
                 IF AnchorsAt(Anchors, i) # {} THEN Mean(Gains(AnchorsAt(Anchors, i)), AnchorsAt(Anchors, i))
                 ELSE LET c == CHOOSE d \in anchored : i \in DOMAIN d IN c[i] + scale[c]]
           /\ support' = UNION {IF Overlaps(c) THEN {<<i, i>> : i \in DOMAIN c} ELSE Segments(c) : c \in anchored}
                           \cup {<<IsoOf(f), IsoOf(f)>> : f \in {g \in Anchors : g \in Alone \/ \E c \in anchored : g \in Attached(c) /\ Overlaps(c)}}
    /\ disputes' = Disputes
    /\ convert' = "planes"
    /\ UNCHANGED <<measured, dark, ladder, anchors, planes>>

\* The second green's fit is its own; the two greens of a sensor need not be alike.
PlaneGain(f, p) == Absolute(f) + (IF p = "C01" THEN 0 ELSE 2)

\* Mutant of PlaneFitted: the first green's fit does for the other.
PlaneFittedByFirst(f, p) == IsoOf(f) \in DOMAIN dark /\ measured.files[f].other # "absent"

PlaneFitted(f, p) == IsoOf(f) \in DOMAIN dark /\ (p = "C01" \/ measured.files[f].other = "ok")
PlaneCurve(files, p) ==
    IF \/ Disputed({measured.files[f].span : f \in files})
       \/ \E i \in IsoSteps : Disputed({PlaneGain(f, p) : f \in AnchorsAt(files, i)})
      THEN [i \in {} |-> 0]
      ELSE [i \in {IsoOf(f) : f \in files} |-> Mean([f \in AnchorsAt(files, i) |-> PlaneGain(f, p)], AnchorsAt(files, i))]
CalibratePlanes ==
    /\ convert = "planes"
    /\ planes' = [p \in Greens |-> PlaneCurve({f \in Anchors : PlaneFitted(f, p)}, p)]
    /\ convert' = "built"
    /\ UNCHANGED <<measured, dark, ladder, anchors, curve, support, disputes>>

FitNext ==
    \/ ReadDark \/ CollectGeometry \/ ReadIsogain
    \/ (\E f \in DOMAIN measured.files : FitAnchor(f)) \/ FitNoAnchor
    \/ AnchorGraph \/ CalibratePlanes

CalibrationFitSpec == CalibrationFitInit /\ [][FitNext]_fitVars

-----------------------------------------------------------------------------
(* Properties *)

\* A gain is the sensor's wherever one anchor of its part of the ladder is and no other
\* contradicts it: no nominal time, foreign pedestal, unconverged correction or gap in
\* the ladder gets into it unseen.  (A ladder of nothing but nominal times is as good
\* as those, and a step of gain is seen where two ISOs of one part lie on either side.)
Timed == \E k \in Exposed : measured.frames[k].late # 0
StepSeen(c) ==
    /\ Cardinality({i \in DOMAIN c : i < measured.step}) >= 2
    /\ Cardinality({i \in DOMAIN c : i >= measured.step}) >= 2
PlacedAnchor(g) == \A c \in ladder : IsoOf(g) \in DOMAIN c \/ StepSeen(c) \/ measured.step \notin IsoSteps
GainsAreTheSensors ==
    convert = "built" /\ disputes = {} /\ ~(Timed /\ Protocol(Together(Sampled)) = "auto-shutter") =>
      \A i \in DOMAIN curve :
        (\E f \in Anchors :
           /\ measured.files[f].off = 0
           /\ IsoOf(f) = i \/ \E c \in ladder : i \in DOMAIN c /\ f \in Attached(c)
           /\ \A g \in Anchors : PlacedAnchor(g))
        => curve[i] - SensorGain(i) \in -2 * Flat..2 * Flat

\* Between two points the curve is read only on one level of gain and within one part of
\* the ladder, or through a point that was measured absolutely.
SupportIsMeasured ==
    convert = "built" => \A s \in support :
      /\ s[1] \in DOMAIN curve /\ s[2] \in DOMAIN curve
      /\ s[1] < s[2] => \E c \in ladder :
           /\ {s[1], s[2]} \subseteq DOMAIN c
           /\ \A i \in DOMAIN curve : s[1] < i /\ i < s[2] => i \in DOMAIN c \/ AnchorsAt(Anchors, i) # {}
           /\ ~Timed /\ s[1] < measured.step /\ measured.step <= s[2] => ~StepSeen(c)

\* A green plane has a gain where its own column was fitted, and it is its own.
PlanesAreTheirOwn ==
    convert = "built" => \A p \in Greens : \A i \in DOMAIN planes[p] :
      \E f \in AnchorsAt(Anchors, i) : p = "C01" \/ measured.files[f].other = "ok"

FitsHonest == GainsAreTheSensors /\ SupportIsMeasured /\ PlanesAreTheirOwn
=============================================================================
