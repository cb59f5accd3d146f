--------------------------- MODULE FrameAnalysis ---------------------------
(***************************************************************************)
(* analysis.py, sensor_summary.py, noise_model.py: what a frame says of    *)
(* its sensor.  The codes say where channels saturate, once per immutable  *)
(* frame; a calibration and the file say how noisy they are.               *)
(*                                                                         *)
(* The scene is no witness: a bright plateau is not a full well, texture   *)
(* is not noise, and a measurement that failed is not one that is missing. *)
(***************************************************************************)
EXTENDS Integers, FiniteSets, FiniteSetsExt

CONSTANTS
    Recordings,    \* codes, metadata, prior and profile of the files analysed; bound: only
                   \* the busy ones are analysed by several callers and more than once
    Analysts,      \* threads
    Whites,        \* white levels the metadata can be edited to
    Missing

Colours == {"R", "G", "B"}
Sites == {"R", "Ga", "Gb", "B"}          \* of a cell
ColourOf(site) == IF site \in {"Ga", "Gb"} THEN "G" ELSE site
Isos == 1..4

Pile == 2                \* codes at the ceiling that make it a pile
NearWhite(code, white) == 10 * code >= 9 * white

\* What a reader of a file, or of a calibration, can say.
ASSUME RecordingsAssumption ==
    /\ Whites \subseteq Nat
    /\ \A r \in Recordings :
         /\ r.white \in Nat
         /\ r.reduction \in {"none", "unreadable", "applied", "invalid"}
         /\ r.prior # Missing =>
              /\ r.prior.iso \in Isos /\ r.prior.reads \in [Isos -> {"measured", "failed", "absent"}]

VARIABLES
    recording,
    white,      \* the white level in the metadata, now
    filed,      \* [white, summary] on the evidence, or Missing
    scan,       \* of each analyst: [at, key, summary]
    prior,      \* the noise model of the calibration, or Missing
    noise,      \* the resolved noise model, or Missing
    electrons   \* what of the prior the analysis reports, or Missing

analysisVars == <<recording, white, filed, scan, prior, noise, electrons>>

Unscanned == [at |-> "idle", key |-> Missing, summary |-> Missing]

AnalysisFrom(captures) ==
    /\ recording \in captures
    /\ white = recording.white
    /\ filed = Missing /\ scan = [a \in Analysts |-> Unscanned]
    /\ prior = Missing /\ noise = Missing /\ electrons = Missing
AnalysisInit == AnalysisFrom(Recordings)

-----------------------------------------------------------------------------
(* Saturation *)

CfaCells == DOMAIN recording.codes
Codes(c) == {p \in CfaCells \X Sites : ColourOf(p[2]) = c}
Code(p) == recording.codes[p[1]][p[2]]
Ceiling(c) == Max({Code(p) : p \in Codes(c)})

\* detect_ceilings: enough codes at the ceiling, or right below it.
Piles(c) == Cardinality({p \in Codes(c) : Code(p) >= Ceiling(c) - 1}) >= Pile

\* Mutant of Saturates: any pile is the full well.
SaturatesAtAnyPile(c, level) == Piles(c)

\* A pile is the sensor's only near the level the file declares.
Saturates(c, level) == Piles(c) /\ NearWhite(Ceiling(c), level)

\* resolve_fullwell.
Fullwell(level) == [c \in Colours |-> IF Saturates(c, level) THEN Ceiling(c) ELSE level]

Clipped(well, cell, site) == recording.codes[cell][site] >= well[ColourOf(site)]

\* compute_color_clip_metrics: both greens of a cell are one colour.
LostColours(well, cell) ==
    Cardinality({ColourOf(site) : site \in {s \in Sites : Clipped(well, cell, s)}})
Summary(level) ==
    LET well == Fullwell(level)
    IN  [well |-> well, lost |-> [cell \in CfaCells |-> LostColours(well, cell)]]

\* The white level is a mutable list of the caller.
EditWhite ==
    /\ recording.busy
    /\ \E w \in Whites \ {white} : white' = w
    /\ UNCHANGED <<recording, filed, scan, prior, noise, electrons>>

\* summarize_sensor, the look at the memo: only immutable arrays have a key.
Key == IF recording.frozen THEN white ELSE Missing

Lookup(a) ==
    /\ scan[a].at = "idle"
    /\ ~recording.busy => \A other \in Analysts : scan[other].at = "idle"
    /\ scan' = [scan EXCEPT ![a] =
         IF filed # Missing /\ Key # Missing /\ filed.white = Key
           THEN [at |-> "have", key |-> white, summary |-> filed.summary]
           ELSE [at |-> "scan", key |-> white, summary |-> Missing]]
    /\ UNCHANGED <<recording, white, filed, prior, noise, electrons>>

\* Mutant of ScannedWhite: the level as it is when the codes have been read.
ScannedWhiteNow(a) == white

\* The level the summary is computed with is the one of its key.
ScannedWhite(a) == scan[a].key

\* The native kernels count the same or their answer is thrown away; a strict run fails.
Reduce(a) ==
    /\ scan[a].at = "scan"
    /\ \E kernel \in {"agrees", "absent", "miscounts"} :
         scan' = [scan EXCEPT ![a] =
           IF kernel = "miscounts" /\ recording.strict
             THEN [@ EXCEPT !.at = "failed"]
             ELSE [at |-> "publish", key |-> @.key, summary |-> Summary(ScannedWhite(a))]]
    /\ UNCHANGED <<recording, white, filed, prior, noise, electrons>>

\* An edit meanwhile leaves the memo alone.
PublishSummary(a) ==
    /\ scan[a].at = "publish"
    /\ filed' = IF recording.frozen /\ white = scan[a].key THEN [white |-> white, summary |-> scan[a].summary] ELSE filed
    /\ scan' = [scan EXCEPT ![a].at = "have"]
    /\ UNCHANGED <<recording, white, prior, noise, electrons>>

Rescan(a) ==
    /\ recording.busy /\ scan[a].at = "have"
    /\ scan' = [scan EXCEPT ![a] = Unscanned]
    /\ UNCHANGED <<recording, white, filed, prior, noise, electrons>>

-----------------------------------------------------------------------------
(* The calibration's noise *)

Calibration == recording.prior
Reads(state) == {i \in Isos : Calibration.reads[i] = state}

\* Mutant of ReadIssue: only the very point that failed.
ReadIssueAtPoint == Calibration.reads[Calibration.iso] = "failed"

\* read_noise_issue: a failed point, or one between the neighbours that would be
\* joined across it, or beyond the end.
ReadIssue ==
    \/ Calibration.reads[Calibration.iso] = "failed"
    \/ /\ Calibration.reads[Calibration.iso] = "absent" /\ Reads("measured") # {}
       /\ LET below == {i \in Reads("measured") : i < Calibration.iso}
              above == {i \in Reads("measured") : i > Calibration.iso}
          IN  \E f \in Reads("failed") :
                /\ below # {} => f > Max(below)
                /\ above # {} => f < Min(above)
                /\ below = {} => f >= Calibration.iso
                /\ above = {} => f <= Calibration.iso

\* curve_value: within the measured domain, never across a change of gain.
ReadNoise ==
    \/ Calibration.reads[Calibration.iso] = "measured"
    \/ /\ \E i, j \in Reads("measured") : i < Calibration.iso /\ Calibration.iso < j
       /\ ~Calibration.jump /\ ~ReadIssue

Model(status, source, reason) ==
    [status |-> status, source |-> source, reason |-> reason, spectrum |-> "none", colours |-> Missing, fallback |-> Missing]

\* _phase_coefficients: a phase counts when it is of this camera and its fit is sound.
\* A colour takes its phases only together.
PhaseMeasured(site) == Calibration.phases[site] = "ok"
FromPhases(c) == \A site \in {s \in Sites : ColourOf(s) = c} : PhaseMeasured(site)
Coefficients == [c \in Colours |-> IF FromPhases(c) THEN "phases" ELSE "scalar"]

Spectrum == IF Calibration.scaled \/ Calibration.acquired THEN Calibration.spectrum ELSE "none"

\* model_from_prior.  The spectrum is a measurement of its own: it stands whatever
\* becomes of the read noise.
Qualification ==
    CASE ~Calibration.usable -> Model("rejected", "prior", "unusable")
      [] Calibration.usable /\ ReadIssue -> Model("unresolved", "prior", "read-noise")
      [] Calibration.usable /\ ~ReadIssue /\ ~ReadNoise -> Model("unavailable", "prior", "read-noise")
      [] Calibration.usable /\ ~ReadIssue /\ ReadNoise /\ ~Calibration.scaled -> Model("rejected", "prior", "scale")
      [] Calibration.usable /\ ~ReadIssue /\ ReadNoise /\ Calibration.scaled /\ Calibration.stored = "contradicts" ->
           Model("unresolved", "prior", "stored-variance")
      [] OTHER -> [Model("valid", "prior", "matched") EXCEPT !.colours = Coefficients]

\* After the clips, in the same call.
ModelFromPrior ==
    /\ prior = Missing /\ \E a \in Analysts : scan[a].at = "have"
    /\ prior' = CASE Calibration = Missing -> Model("unavailable", "none", "no-calibration")
                  [] Calibration # Missing /\ Calibration.suspect -> Model("rejected", "prior", "suspect-iso")
                  [] Calibration # Missing /\ ~Calibration.suspect /\ Spectrum = "invalid" -> Model("rejected", "prior", "spectrum")
                  [] OTHER -> [Qualification EXCEPT !.spectrum = Spectrum]
    /\ UNCHANGED <<recording, white, filed, scan, noise, electrons>>

-----------------------------------------------------------------------------
(* The file's noise *)

\* _file_model.
FileModel ==
    CASE recording.reduction = "unreadable" -> Model("unavailable", "none", "unreadable")
      [] recording.reduction \in {"applied", "invalid"} -> Model("rejected", "file", "reduction")
      [] recording.reduction = "none" /\ recording.profile = "absent" -> Model("unavailable", "none", "no-profile")
      [] recording.reduction = "none" /\ recording.profile = "of-rgb" -> Model("unavailable", "file", "profile-of-rgb")
      [] recording.reduction = "none" /\ recording.profile = "malformed" -> Model("rejected", "file", "malformed")
      [] OTHER -> [Model("valid", "file", "declared") EXCEPT !.colours = [c \in Colours |-> "file"]]

Fallback(file, model) == [file EXCEPT !.fallback = model.reason]

\* Mutant of Carried: the coefficients of the file come without the spectrum.
CarriedBare(file, model) == Fallback(file, model)

\* Coefficients replace coefficients; the spectrum stays.
Carried(file, model) == [Fallback(file, model) EXCEPT !.spectrum = model.spectrum]

\* resolve_noise_model: what the file says was done to its codes binds every source.
Resolved(model, file) ==
    IF file.reason = "reduction" THEN file
    ELSE IF model.status = "valid" THEN model
    ELSE IF file.status = "valid" /\ (model.status \in {"unresolved", "rejected"} \/ model.spectrum # "none") THEN Carried(file, model)
    ELSE IF file.status = "unavailable" /\ (model.status \in {"unresolved", "rejected"} \/ model.spectrum # "none") THEN model
    ELSE IF file.source = "none" THEN model
    ELSE IF model.source = "none" THEN file ELSE Fallback(file, model)

ResolveNoise ==
    /\ prior # Missing /\ noise = Missing
    /\ noise' = IF recording.kind = "cfa" THEN Resolved(prior, FileModel) ELSE Model("unavailable", "none", "no-samples")
    /\ UNCHANGED <<recording, white, filed, scan, prior, electrons>>

\* analyze and sensor_prior_evidence: a model that failed for its read noise alone
\* leaves the gain and the photographic range of the prior.
Electrons ==
    LET standing == /\ Calibration # Missing /\ Calibration.usable /\ ~Calibration.suspect /\ Calibration.scaled
                    /\ noise.status \in {"valid", "unresolved"}
    IN  [gain |-> standing, range |-> standing,
         read |-> standing /\ ReadNoise,
         floor |-> standing /\ ReadNoise /\ noise.status = "valid" /\ noise.reason = "matched"]

ReportElectrons ==
    /\ noise # Missing /\ electrons = Missing
    /\ electrons' = Electrons
    /\ UNCHANGED <<recording, white, filed, scan, prior, noise>>

AnalysisNext ==
    \/ EditWhite
    \/ \E a \in Analysts : Lookup(a) \/ Reduce(a) \/ PublishSummary(a) \/ Rescan(a)
    \/ ModelFromPrior \/ ResolveNoise \/ ReportElectrons

AnalysisSpec == AnalysisInit /\ [][AnalysisNext]_analysisVars

-----------------------------------------------------------------------------
\* A summary is the one of the white level it was asked for, from the memo or not;
\* a channel is full near its white level or not at all, and a cell loses colours,
\* not photosites.
SaturationMeasured ==
    /\ filed # Missing => filed.summary = Summary(filed.white)
    /\ \A a \in Analysts : scan[a].at = "have" =>
         /\ scan[a].summary = Summary(scan[a].key)
         /\ \A c \in Colours : NearWhite(scan[a].summary.well[c], scan[a].key)
         /\ \A cell \in CfaCells : scan[a].summary.lost[cell] = 1 =>
              \E c \in Colours : \A site \in Sites : ColourOf(site) # c => ~Clipped(scan[a].summary.well, cell, site)

\* A read noise is used where it was measured or between measured neighbours with
\* no failure from one to the other.
ReadSupported ==
    \/ Calibration.reads[Calibration.iso] = "measured"
    \/ \E i, j \in Reads("measured") :
         /\ i < Calibration.iso /\ Calibration.iso < j /\ ~Calibration.jump
         /\ \A f \in i..j : Calibration.reads[f] # "failed"

\* Whoever wins, a valid noise is of independent samples the file says were left
\* alone, a measured imbalance is in it or it grants nothing, and a file that steps
\* in says for what.
NoiseHonest ==
    noise # Missing =>
        /\ noise.status = "valid" => recording.kind = "cfa" /\ recording.reduction \in {"none", "unreadable"}
        /\ noise.status = "valid" /\ noise.source = "prior" => ReadSupported /\ Calibration.usable /\ ~Calibration.suspect /\ Calibration.scaled
        /\ recording.kind = "cfa" /\ prior.spectrum = "imbalanced" =>
             noise.spectrum = "imbalanced" \/ noise.status = "rejected"
        /\ noise.status = "valid" /\ noise.source = "file" /\ prior.status \in {"unresolved", "rejected"} => noise.fallback = prior.reason
        /\ noise.status = "valid" => \A c \in Colours :
             noise.colours[c] = "phases" => \A site \in Sites : ColourOf(site) = c => Calibration.phases[site] = "ok"

\* Electrons come from a calibration that stands; a read floor only with its read noise.
ElectronsSupported ==
    electrons # Missing =>
        /\ electrons.floor => electrons.read /\ electrons.gain
        /\ electrons.read => ReadSupported /\ noise.status # "rejected"

AnalysisHonest == SaturationMeasured /\ NoiseHonest /\ ElectronsSupported
=============================================================================
