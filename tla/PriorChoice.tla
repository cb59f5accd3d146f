----------------------------- MODULE PriorChoice -----------------------------
(***************************************************************************)
(* Which prior a RAW is analysed with: find_priors of priors.py over the   *)
(* imported records (calibration.py), the curated table, the public        *)
(* library and the bulk table, and the measurement that may lend it a read *)
(* noise (calibration_registry.py).  A prior's gain and its dark noise are *)
(* measured under conditions of their own: its views.                      *)
(***************************************************************************)
EXTENDS Naturals, Sequences, SequencesExt

CONSTANTS
    Lookups,         \* [file, records, curated, public, bulk]
    None             \* an undeclared condition, no prior, no view

VARIABLES
    lookup,          \* what is looked up
    answer           \* the prior found and the supplier of its read noise

choiceVars == <<lookup, answer>>

\* Records differ in the time or the id of their import; the tables of a group
\* declare one shutter, or none.
ASSUME LookupsAssumption ==
    /\ None # "any"
    /\ \A q \in Lookups :
         /\ \A list \in {q.records, q.curated, q.public, q.bulk} : list \in Seq(ToSet(list))
         /\ \A i, j \in DOMAIN q.records : q.records[i].stamp = q.records[j].stamp => i = j
         /\ \A r \in ToSet(q.records) :
              /\ r # None /\ r.stamp \in Nat /\ r.mode = "ok"
              /\ r.gain # None /\ r.dark # None => r.gain.shutter = "any" \/ r.dark.shutter \in {r.gain.shutter, None}

Bad == {"unverified", "mismatch"}

-----------------------------------------------------------------------------
(* with_readout: a prior bound to the conditions of a file *)

\* readout.match, with the sample domain of measurement_domain.match.
ReadoutStatus(view, file) ==
    IF file.storage = "lossy" THEN "mismatch"
    ELSE IF file.storage = None THEN "unverified"
    ELSE IF view.readout # None /\ file.readout = None THEN "unverified"
    ELSE IF view.readout # None /\ view.readout # file.readout THEN "mismatch"
    ELSE IF view.domain = "dn" /\ ~file.linear THEN "unverified"
    ELSE IF view.readout = None THEN "not-declared" ELSE "matched"

ShutterStatus(view, file) ==
    IF view.shutter \in {None, "any"} THEN "not-declared"
    ELSE IF file.shutter = None THEN "unverified"
    ELSE IF view.shutter # file.shutter THEN "mismatch" ELSE "matched"

Permitted(view, file) ==
    view # None /\ ReadoutStatus(view, file) \notin Bad /\ ShutterStatus(view, file) \notin Bad

\* primary_product: the first product that applies, or else the gain.
Primary(e, file) ==
    IF Permitted(e.gain, file) THEN e.gain
    ELSE IF Permitted(e.dark, file) THEN e.dark
    ELSE IF e.gain # None THEN e.gain ELSE e.dark

Readout(e, file) == ReadoutStatus(Primary(e, file), file)
Shutter(e, file) == ShutterStatus(Primary(e, file), file)

\* prior_usability
Usable(e, file) ==
    /\ e.quality = "good"
    /\ Readout(e, file) \notin Bad /\ Shutter(e, file) \notin Bad
    /\ e.mode \notin {"model-only", "ambiguous"}

Verified(e, file) == Readout(e, file) = "matched" \/ Shutter(e, file) = "matched"

-----------------------------------------------------------------------------
(* The imported records *)

\* _match_reason, before the readout is looked at.
Applies(view, r, file) ==
    /\ r.active /\ r.quality = "good" /\ r.gain # None
    /\ view.shutter # None /\ (view.shutter = "any" \/ view.shutter = file.shutter)

Rank(r, file) ==
    CASE Readout(r, file) = "matched" -> 2 [] Readout(r, file) = "not-declared" -> 1 [] OTHER -> 0

\* Mutant of Before: the newest record is preferred, whatever it declares.
BeforeByAge(r, o, file) == r.stamp > o.stamp

Before(r, o, file) == Rank(r, file) > Rank(o, file) \/ (Rank(r, file) = Rank(o, file) /\ r.stamp > o.stamp)

MatchingPrior(file, records) ==
    LET fit == {r \in ToSet(records) : Applies(r.gain, r, file)}
    IN  IF fit = {} THEN None ELSE CHOOSE r \in fit : \A o \in fit \ {r} : Before(r, o, file)

Supplies(r, file) == r.active /\ Usable(r, file) /\ Readout(r, file) = "matched"

\* What calibration_diagnostics reports as usable.
ReportedUsable(r, file) == Applies(Primary(r, file), r, file) /\ Readout(r, file) \notin Bad

-----------------------------------------------------------------------------
(* The candidates, in order *)

\* Measurements of the public library say how they relate to the file's mode.
WithMode(e, file, public) ==
    [e EXCEPT !.mode =
        IF Shutter(e, file) = "matched" THEN "exact"
        ELSE IF file.shutter # None THEN "model-only"
        ELSE IF \E o, p \in ToSet(public) : None \notin {Primary(o, file).shutter, Primary(p, file).shutter}
                                            /\ Primary(o, file).shutter # Primary(p, file).shutter
          THEN "ambiguous" ELSE "single"]

PublicRank(e, file) == (IF Usable(e, file) THEN 0 ELSE 3) + (2 - Rank(e, file))

\* By rank, and in the order of the library where ranks are equal.
PublicCandidates(file, public) ==
    LET bound == [i \in DOMAIN public |-> WithMode(public[i], file, public)]
        Key(i) == Len(public) * PublicRank(bound[i], file) + i
        order == CHOOSE p \in Permutations(DOMAIN public) :
                   \A i, j \in DOMAIN public : i < j => Key(p[i]) < Key(p[j])
    IN  [i \in DOMAIN public |-> bound[order[i]]]

Candidates(q) ==
    LET user == MatchingPrior(q.file, q.records)
        packaged == q.curated \o PublicCandidates(q.file, q.public) \o q.bulk
    IN  IF user = None THEN packaged ELSE <<user>> \o packaged

\* Mutant of FindPriors: any usable candidate replaces the first.
FindAnyUsable(q) ==
    LET all == Candidates(q)
        good == {i \in DOMAIN all : Usable(all[i], q.file)}
    IN  IF all = <<>> THEN None ELSE IF good = {} THEN Head(all) ELSE all[Min(good)]

FindPriors(q) ==
    LET all == Candidates(q)
        proven == {i \in DOMAIN all : Usable(all[i], q.file) /\ Verified(all[i], q.file)}
    IN  IF all = <<>> THEN None
        ELSE IF Usable(Head(all), q.file) \/ proven = {} THEN Head(all)
        ELSE all[Min(proven)]

-----------------------------------------------------------------------------
(* compose_capabilities: read noise of another measurement *)

\* read_noise_e: the prior's own, where its gain and its dark views apply.
OwnNoise(e, file) == e.noise = "measured" /\ Permitted(e.gain, file) /\ Permitted(e.dark, file)

\* Mutant of Compatible: the domain and the readout are enough.
CompatibleReadout(base, c, file) ==
    c.id # base.id /\ Permitted(c.dark, file) /\ c.dark.readout = base.gain.readout /\ c.dark.domain = base.gain.domain

Compatible(base, c, file) == c.id # base.id /\ Permitted(c.dark, file) /\ c.dark = base.gain

Supplier(base, q) ==
    LET Lends(c) == Supplies(c, q.file) /\ Compatible(base, c, q.file) /\ c.noise = "measured"
        lends == {i \in DOMAIN q.records : Lends(q.records[i])}
    IN  IF \/ Readout(base, q.file) # "matched" \/ ~Permitted(base.gain, q.file)
           \/ base.gain.readout = None \/ base.gain.domain # "dn"
           \/ base.noise = "unresolved" \/ OwnNoise(base, q.file) \/ lends = {}
          THEN None ELSE q.records[Min(lends)]

ChoiceFrom(lookups) == lookup \in lookups /\ answer = [prior |-> None, noise |-> None, done |-> FALSE]
ChoiceInit == ChoiceFrom(Lookups)
Find ==
    /\ ~answer.done
    /\ LET prior == FindPriors(lookup)
       IN  answer' = [prior |-> prior, done |-> TRUE,
                      noise |-> IF prior = None THEN None ELSE Supplier(prior, lookup)]
    /\ UNCHANGED lookup
ChoiceNext == Find
ChoiceSpec == ChoiceInit /\ [][ChoiceNext]_choiceVars

-----------------------------------------------------------------------------
Answered == answer.done /\ answer.prior # None

\* "A failed higher-priority candidate can yield to a verified lower candidate,
\* but never silently to an undeclared generic one" (find_priors): a prior that
\* applies is found if one is proven to, and one that is merely not contradicted
\* is used only where nothing is preferred to it; and a record the diagnosis of
\* the calibrations reports usable is not passed over for a packaged prior.
PriorsProven ==
    Answered =>
      /\ (\E e \in ToSet(Candidates(lookup)) : Usable(e, lookup.file) /\ Verified(e, lookup.file))
           => Usable(answer.prior, lookup.file)
      /\ Usable(answer.prior, lookup.file) /\ ~Verified(answer.prior, lookup.file)
           => answer.prior = Head(Candidates(lookup))
      /\ (\E r \in ToSet(lookup.records) : ReportedUsable(r, lookup.file))
           => answer.prior \in ToSet(lookup.records) /\ Usable(answer.prior, lookup.file)

\* "Modes are never combined" (find_priors): a read noise that is lent was taken
\* in the mode of the gain, both in the mode of the file, by another measurement,
\* and never covers up a read noise the prior knows to be unresolved.
NoiseOfOneMode ==
    Answered /\ answer.noise # None =>
      /\ answer.noise.id # answer.prior.id /\ answer.prior.noise # "unresolved"
      /\ answer.noise.dark.shutter = answer.prior.gain.shutter
      /\ \A view \in {answer.noise.dark, answer.prior.gain} :
           view.shutter \in {lookup.file.shutter, "any", None} /\ view.readout = lookup.file.readout

\* The prior of a file is proven to be its own, and so is the noise it borrows.
PriorsOfTheFile == PriorsProven /\ NoiseOfOneMode
==============================================================================
