--------------------------- MODULE ExposureSearch ---------------------------
(***************************************************************************)
(* auto_ev.py and joint_exposure.py: the automatic exposure.  A bisection  *)
(* over renders of a sample finds how far the scene may be lifted before   *)
(* its highlights break (max_safe_ev); around that anchor a joint search   *)
(* picks an exposure with a curve of its own (select_joint_plan).          *)
(*                                                                         *)
(* A render is an oracle that answers when it is asked, and the same way   *)
(* every time.  Exposures count in the quantum the last halving reaches.   *)
(***************************************************************************)
EXTENDS Integers, FiniteSets

CONSTANTS
    Halvings,       \* of a step of the climb
    Steps,          \* of the climb, search_hi
    EvCandidates, ShoulderCandidates,    \* of the joint search
    Bodies,         \* where the body of a scene sits: scene_body_align_ev
    Undecided

ASSUME SearchAssumption ==
    /\ Halvings \in Nat /\ Steps \in Nat \ {0}
    /\ EvCandidates \in Nat \ {0, 1} /\ ShoulderCandidates \in Nat \ {0, 1}
    /\ Bodies \subseteq Int

\* What is left of a step of the climb while so many halvings are to come.
Width[n \in 0..Halvings] == IF n = 0 THEN 1 ELSE 2 * Width[n - 1]
Stride == Width[Halvings]
Top == Steps * Stride
Baseline == 0

VARIABLES
    scene,      \* the body's exposure, and the tone core of the request
    phase,
    low, high, halved,
    safe,       \* the exposures probed, and whether their highlights held
    cap,        \* what max_safe_ev returned
    judged,     \* the candidates of the joint search, and where each was rejected
    auto,       \* the AutoEvResult
    handed      \* the plan of the export, _plan_sink

searchVars == <<scene, phase, low, high, halved, safe, cap, judged, auto, handed>>

Base == [above |-> 0, shoulder |-> 0, moved |-> FALSE]
Larger(a, b) == IF a > b THEN a ELSE b
Lesser(a, b) == IF a < b THEN a ELSE b
Target == Larger(scene.body, Baseline)

SearchFrom(scenes) ==
    /\ scene \in scenes
    /\ phase = "baseline" /\ low = Baseline /\ high = Baseline /\ halved = 0
    /\ safe = <<>> /\ cap = Undecided /\ judged = <<>> /\ auto = Undecided /\ handed = Undecided
SearchInit == SearchFrom([body : Bodies, core : {"agx", "other"}])

-----------------------------------------------------------------------------
(* max_safe_ev *)

\* margin_at: lamps that clip already are excused by budgets that grow with the
\* baseline, so a probe is a matter of what the lift adds.
Probe(ev, holds) ==
    /\ ev \in DOMAIN safe => safe[ev] = holds
    /\ safe' = [x \in DOMAIN safe \cup {ev} |-> IF x = ev THEN holds ELSE safe[x]]

Capped(ev) == phase' = "capped" /\ cap' = ev

ProbeBaseline ==
    /\ phase = "baseline"
    /\ \E holds \in BOOLEAN :
         /\ Probe(Baseline, holds)
         /\ IF holds THEN phase' = "climb" /\ high' = Baseline + Stride /\ UNCHANGED cap
            ELSE Capped(Baseline) /\ UNCHANGED high
    /\ UNCHANGED <<scene, low, halved, judged, auto, handed>>

\* The climb stops at the top or at the first step that does not hold.
Climb ==
    /\ phase = "climb"
    /\ \E holds \in BOOLEAN :
         /\ Probe(high, holds)
         /\ \/ holds /\ high < Top /\ low' = high /\ high' = high + Stride /\ UNCHANGED <<phase, cap>>
            \/ holds /\ high >= Top /\ Capped(high) /\ UNCHANGED <<low, high>>
            \/ ~holds /\ phase' = "halve" /\ UNCHANGED <<low, high, cap>>
    /\ UNCHANGED <<scene, halved, judged, auto, handed>>

\* Mutant of Halve: the loop runs once too few.
HalveLess ==
    /\ phase = "halve"
    /\ IF halved = Halvings - 1 THEN Capped(low) /\ UNCHANGED <<low, high, halved, safe>>
       ELSE /\ \E holds \in BOOLEAN :
                 /\ Probe((low + high) \div 2, holds)
                 /\ low' = IF holds THEN (low + high) \div 2 ELSE low
                 /\ high' = IF holds THEN high ELSE (low + high) \div 2
            /\ halved' = halved + 1 /\ UNCHANGED <<phase, cap>>
    /\ UNCHANGED <<scene, judged, auto, handed>>

Halve ==
    /\ phase = "halve"
    /\ IF halved = Halvings THEN Capped(low) /\ UNCHANGED <<low, high, halved, safe>>
       ELSE /\ \E holds \in BOOLEAN :
                 /\ Probe((low + high) \div 2, holds)
                 /\ low' = IF holds THEN (low + high) \div 2 ELSE low
                 /\ high' = IF holds THEN high ELSE (low + high) \div 2
            /\ halved' = halved + 1 /\ UNCHANGED <<phase, cap>>
    /\ UNCHANGED <<scene, judged, auto, handed>>

-----------------------------------------------------------------------------
(* compute_auto_ev and select_joint_plan *)

Anchor == Lesser(Target, cap)

SearchEnds(status, plan) ==
    /\ phase' = "done"
    /\ auto' = [anchor |-> Anchor, status |-> status, plan |-> plan, limited |-> Target > cap]
    /\ handed' = plan

\* Other cores keep the curve; so does a scene that is where it should be.
Anchored ==
    /\ phase = "capped"
    /\ \/ scene.core # "agx" /\ SearchEnds("reference", Base) /\ UNCHANGED judged
       \/ scene.core = "agx" /\ Anchor = 0 /\ Target = 0 /\ SearchEnds("identity", Base) /\ UNCHANGED judged
       \/ scene.core = "agx" /\ ~(Anchor = 0 /\ Target = 0) /\ phase' = "joint" /\ UNCHANGED <<judged, auto, handed>>
    /\ UNCHANGED <<scene, low, high, halved, safe, cap>>

\* Mutant of Candidate: every exposure is tried before the shoulder softens.
CandidateByShoulder(n) ==
    [above |-> EvCandidates - 1 - (n % EvCandidates), shoulder |-> n \div EvCandidates, moved |-> TRUE]

\* The exposures from the softened target down to the anchor, the least change
\* of the shoulder first.
Candidate(n) ==
    [above |-> EvCandidates - 1 - (n \div ShoulderCandidates), shoulder |-> n % ShoulderCandidates, moved |-> TRUE]

\* Where the target is the anchor the candidates repeat.
Same(c, d) == c.shoulder = d.shoulder /\ (c.above = d.above \/ Target <= Anchor)

\* Mutant of Passes: the proposal decides.
PassesAsProposed == {"canonical", "passed"}

\* A curve must be legal and hold on a thinned sample, then on all of it.
Rulings == {"proposal", "canonical", "passed"}
Passes == {"passed"}

Judge ==
    /\ phase = "joint"
    /\ LET n == Cardinality(DOMAIN judged) IN
       IF n = EvCandidates * ShoulderCandidates
         THEN SearchEnds("fallback", Base) /\ UNCHANGED judged
         ELSE \E verdict \in Rulings :
                /\ \A k \in DOMAIN judged : Same(judged[k].candidate, Candidate(n)) => judged[k].verdict = verdict
                /\ judged' = [k \in 0..n |-> IF k = n THEN [candidate |-> Candidate(n), verdict |-> verdict] ELSE judged[k]]
                /\ IF verdict \in Passes THEN SearchEnds("selected", Candidate(n)) ELSE UNCHANGED <<phase, auto, handed>>
    /\ UNCHANGED <<scene, low, high, halved, safe, cap>>

SearchNext == ProbeBaseline \/ Climb \/ Halve \/ Anchored \/ Judge
SearchSpec == SearchInit /\ [][SearchNext]_searchVars

-----------------------------------------------------------------------------
\* The lift that is called safe was rendered and held, and one quantum more was
\* rendered and did not, unless the search ends there.
CapTight ==
    cap # Undecided =>
        /\ cap = Baseline \/ (cap \in DOMAIN safe /\ safe[cap])
        /\ cap < Top => \E ev \in {cap, cap + 1} : ev \in DOMAIN safe /\ ~safe[ev] /\ (ev = cap => ev = Baseline)

\* A selected curve held on every sample at the exposure it is returned with, and
\* no candidate lifts more, or as much with less change, that was not tried and
\* rejected; without one the anchor keeps its curve.
JointHonest ==
    phase = "done" =>
        /\ handed = auto.plan
        /\ auto.anchor <= cap /\ auto.anchor >= Baseline
        /\ auto.status # "selected" => auto.plan = Base
        /\ auto.status = "selected" =>
             /\ \E k \in DOMAIN judged : judged[k].candidate = auto.plan /\ judged[k].verdict = "passed"
             /\ \A above \in 0..EvCandidates - 1, shoulder \in 0..ShoulderCandidates - 1 :
                  above > auto.plan.above \/ (above = auto.plan.above /\ shoulder < auto.plan.shoulder) =>
                      \E k \in DOMAIN judged :
                          /\ judged[k].candidate.above = above /\ judged[k].candidate.shoulder = shoulder
                          /\ judged[k].verdict # "passed"

\* What the automatic exposure claims, it has rendered.
ExposureRendered == CapTight /\ JointHonest
=============================================================================
