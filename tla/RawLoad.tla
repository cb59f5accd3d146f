------------------------------- MODULE RawLoad -------------------------------
(***************************************************************************)
(* Loading a RAW (raw_io.load_raw): the evidence of the sensor, the scene  *)
(* of one of two decoders, the reference that aligns them, all of one file *)
(* that may change meanwhile (source_metadata.py).  The Apple decoder      *)
(* (coreimage_decode.py) tries its versions in turn, and as a last resort  *)
(* load_raw calls itself for LibRaw in the same session.                   *)
(***************************************************************************)
EXTENDS Naturals, Sequences, SequencesExt

CONSTANTS
    LoadRequests,    \* [decoder, version, pinned, align, kelvin]
    Offers,          \* what CIRAWFilter offers: sequences of [major, bare]
    Unknown,         \* no identity, no evidence, no version
    AnyVersion,      \* the request of any version
    MaxChanges       \* bound: replacements and removals of the file

ASSUME LoadAssumption ==
    /\ LoadRequests \subseteq [decoder : {"libraw", "coreimage"}, version : Nat \cup {AnyVersion},
                              pinned : BOOLEAN, align : BOOLEAN, kelvin : BOOLEAN]
    /\ Offers \subseteq Seq([major : Nat, bare : BOOLEAN])
    /\ Unknown \notin Nat

VARIABLES
    file,            \* what is on disk: [generation, present]
    session,         \* SourceMetadataSession: [identity, status]
    load             \* the call, and in it what becomes the bundle

loadVars == <<file, session, load>>

Read == IF file.present THEN file.generation ELSE Unknown
NoBundle == [shot |-> Unknown, evidence |-> Unknown, scene |-> Unknown, reference |-> Unknown,
             decoder |-> "none", version |-> Unknown, balance |-> "camera", degraded |-> FALSE,
             scaled |-> FALSE, misaligned |-> FALSE, trust |-> "none"]

LoadFrom(requests) ==
    /\ file = [generation |-> 0, present |-> TRUE]
    /\ session = [identity |-> Unknown, status |-> "closed"]
    /\ \E r \in requests :
         load = [at |-> "open", request |-> r, decoder |-> r.decoder, nested |-> FALSE,
                 carried |-> Unknown, hash |-> Unknown, todo |-> {}, failures |-> {}, error |-> "none",
                 bundle |-> NoBundle]
LoadInit == LoadFrom(LoadRequests)

\* The file is replaced, or taken away.
ChangeFile ==
    /\ file.generation < MaxChanges /\ load.at \notin {"returned", "raised"}
    /\ file' \in {[generation |-> file.generation + 1, present |-> b] : b \in BOOLEAN}
    /\ UNCHANGED <<session, load>>

-----------------------------------------------------------------------------
(* The session *)

\* is_current: a session that met another file never trusts one again.
StatusNow ==
    IF session.status # "verified" THEN session.status
    ELSE IF ~file.present THEN "unverifiable"
    ELSE IF file.generation # session.identity THEN "changed" ELSE "verified"
Sound(status) == status \notin {"changed", "unverifiable"}
Current == StatusNow = "verified"

\* assert_consistent: goes on with new, or else the load is over.
Checked(new) ==
    /\ session' = [session EXCEPT !.status = StatusNow]
    /\ load' = IF Sound(StatusNow) THEN new ELSE [load EXCEPT !.at = "raised", !.error = "source"]
    /\ UNCHANGED file

\* What raises in the load is overruled by a change of its source.
Fails == Checked([load EXCEPT !.at = "raised", !.error = "decode"])
Goes(place) == [load EXCEPT !.at = place]
Bundled(place, name, value) == [load EXCEPT !.at = place, !.bundle[name] = value]

\* An identity that cannot be had is no error, one that changes in the reading is.
OpenSession ==
    /\ load.at = "open"
    /\ \/ session' = [identity |-> Read, status |-> IF file.present THEN "verified" ELSE "unavailable"]
       \/ file.present /\ session' = [identity |-> Unknown, status |-> "unavailable"]
    /\ load' = Goes("start")
    /\ UNCHANGED file

-----------------------------------------------------------------------------
(* load_raw up to the choice of the decoder *)

StartLoad == load.at = "start" /\ IF file.present THEN Checked(Goes("shot")) ELSE Fails

ReadShot == load.at = "shot" /\ Checked(Bundled("evidence", "shot", Read))

Reusable == load.carried # Unknown /\ Current /\ load.carried.identity = session.identity

\* The evidence: the one the failed decoder had, or read in a transaction of its
\* own; for Apple's decoder it may be missing.
AcquireEvidence ==
    /\ load.at = "evidence"
    /\ \/ Reusable /\ Checked(Bundled("balance", "evidence", load.carried.evidence))
       \/ ~Reusable /\ file.present /\ Checked(Bundled("balance", "evidence", Read))
       \/ ~Reusable /\ load.decoder = "coreimage" /\ Checked(Bundled("balance", "evidence", Unknown))
       \/ ~Reusable /\ load.decoder = "libraw" /\ Fails

\* Without the calibration of the camera a declared white balance is given up, aloud.
SolveBalance ==
    /\ load.at = "balance"
    /\ \E solved \in IF load.request.kelvin THEN BOOLEAN ELSE {FALSE} :
         load' = [load EXCEPT
                    !.at = IF load.decoder = "libraw" THEN "scene" ELSE "hash",
                    !.bundle.balance = IF solved THEN "kelvin" ELSE "camera",
                    !.bundle.degraded = load.request.kelvin /\ ~solved]
    /\ UNCHANGED <<file, session>>

-----------------------------------------------------------------------------
(* The scene of LibRaw *)

DecodeScene ==
    /\ load.at = "scene"
    /\ \/ /\ file.present
          /\ \E trust \in {"sensor-spatial", "untrusted"} :
               load' = [load EXCEPT !.at = "commit", !.bundle = [@ EXCEPT
                          !.scene = Read, !.decoder = "libraw", !.trust = trust]]
          /\ UNCHANGED <<file, session>>
       \/ Fails

-----------------------------------------------------------------------------
(* The scene of Apple's decoder *)

\* resolve_decoder_version: of the versions offered the highest, bare where there is
\* a choice, or the one that was asked for, perhaps as the ".dng" of a preview.
Outranks(v, w) == v.major > w.major \/ (v.major = w.major /\ v.bare /\ ~w.bare)
Best(versions) == {v \in versions : \A w \in versions : ~Outranks(w, v)}
Ladder(offered) == {v \in ToSet(offered) : v.major \in 6..9}
Versions(request, offered) ==
    IF offered = <<>> THEN {}
    ELSE IF request.version # AnyVersion
      THEN Best({v \in Ladder(offered) : v.major = request.version /\ (request.pinned => ~v.bare)})
    ELSE IF Ladder(offered) = {} THEN {Last(offered)} ELSE Ladder(offered)

\* Mutant of AppleFails: a version that was asked for is replaced, too.
AppleFailsAuto(failures) ==
    IF load.bundle.evidence = Unknown THEN Fails
    ELSE Checked([load EXCEPT !.at = "start", !.decoder = "libraw", !.nested = TRUE, !.failures = failures,
                    !.bundle = NoBundle,
                    !.carried = IF Current THEN [identity |-> session.identity, evidence |-> load.bundle.evidence]
                                ELSE Unknown])

\* Only "auto" falls back to LibRaw, which the evidence must have shown to work;
\* the evidence is handed on in the same session.
AppleFails(failures) ==
    IF load.request.version # AnyVersion \/ load.bundle.evidence = Unknown THEN Fails
    ELSE Checked([load EXCEPT !.at = "start", !.decoder = "libraw", !.nested = TRUE, !.failures = failures,
                    !.bundle = NoBundle,
                    !.carried = IF Current THEN [identity |-> session.identity, evidence |-> load.bundle.evidence]
                                ELSE Unknown])

\* The runtime, the versions of the file, the hash of its bytes.
HashSource ==
    /\ load.at = "hash"
    /\ \/ \E offered \in Offers :
            /\ file.present /\ Versions(load.request, offered) # {}
            /\ load' = [load EXCEPT !.at = "candidate", !.hash = Read, !.failures = {},
                                    !.todo = Versions(load.request, offered)]
            /\ UNCHANGED <<file, session>>
       \/ AppleFails({})

\* _assert_recipe_source_current
HashCurrent == file.present /\ file.generation = load.hash
SourceRaises == load' = [load EXCEPT !.at = "raised", !.error = "source"] /\ UNCHANGED <<file, session>>

\* Each candidate has a filter of its own, which must confirm its parameters.
RenderCandidate ==
    /\ load.at = "candidate"
    /\ IF ~HashCurrent THEN SourceRaises
       ELSE \E v \in Best(load.todo) :
              \/ /\ load' = [load EXCEPT !.at = "handoff", !.bundle = [@ EXCEPT
                                !.scene = Read, !.decoder = "coreimage", !.version = v]]
                 /\ UNCHANGED <<file, session>>
              \/ /\ load.todo = {v}
                 /\ AppleFails(load.failures \cup {v})
              \/ /\ load.todo # {v}
                 /\ load' = [load EXCEPT !.todo = @ \ {v}, !.failures = @ \cup {v}]
                 /\ UNCHANGED <<file, session>>

\* The commit of the decoder, and the project's view of its scene.
TakeHandoff ==
    /\ load.at = "handoff"
    /\ IF ~HashCurrent THEN SourceRaises
       ELSE Checked([load EXCEPT !.at = IF load.bundle.evidence = Unknown THEN "commit" ELSE "reference",
                      !.bundle.trust = "decoded-image",
                      !.bundle.misaligned = load.request.align /\ load.bundle.evidence = Unknown])

\* The same file by LibRaw: its exposure aligns the scene, its samples are the
\* only evidence of highlights; a render does not fail over them.
ReferenceFails ==
    /\ load' = [load EXCEPT !.at = "commit", !.bundle.misaligned = load.request.align]
    /\ UNCHANGED <<file, session>>
AlignScene ==
    /\ load.at = "reference"
    /\ \/ ReferenceFails
       \/ /\ file.present
          /\ \E certified \in BOOLEAN, sampled \in BOOLEAN :
               load' = [load EXCEPT !.at = IF certified THEN "commit" ELSE "clipped", !.bundle = [@ EXCEPT
                          !.scaled = load.request.align,
                          !.reference = IF certified /\ sampled THEN [of |-> Read, mode |-> "reconstruct"]
                                        ELSE load.bundle.reference,
                          !.trust = IF certified /\ ~sampled THEN load.bundle.trust ELSE "sensor-reference"]]
          /\ UNCHANGED <<file, session>>

\* Mutant of SampleClipped: without a second decode the first one's samples do.
SampleReconstructed ==
    /\ load.at = "clipped"
    /\ load' = [load EXCEPT !.at = "commit", !.bundle.reference = [of |-> Read, mode |-> "untrusted"]]
    /\ UNCHANGED <<file, session>>

\* Reconstructed samples of uncertified support are no evidence: a clipping
\* decode gives them, or nobody.
SampleClipped ==
    /\ load.at = "clipped"
    /\ \/ file.present /\ load' = Bundled("commit", "reference", [of |-> Read, mode |-> "clip"])
       \/ load' = Goes("commit")
    /\ UNCHANGED <<file, session>>

-----------------------------------------------------------------------------
(* The end *)

\* Mutant of CommitLoad: the file is not looked at again.
CommitUnseen ==
    /\ load.at = "commit"
    /\ load' = Goes("returned")
    /\ UNCHANGED <<file, session>>

\* The white balance is applied if it can be, and the file looked at once more;
\* what LibRaw did instead of Apple's decoder is told by the outer call.
CommitLoad ==
    /\ load.at = "commit"
    /\ \E lost \in IF load.bundle.balance = "kelvin" THEN BOOLEAN ELSE {FALSE} :
         Checked([load EXCEPT !.at = "returned", !.bundle.degraded = @ \/ lost,
                              !.bundle.balance = IF lost THEN "camera" ELSE @])

LoadNext ==
    \/ ChangeFile \/ OpenSession \/ StartLoad \/ ReadShot \/ AcquireEvidence \/ SolveBalance
    \/ DecodeScene \/ HashSource \/ RenderCandidate \/ TakeHandoff \/ AlignScene \/ SampleClipped
    \/ CommitLoad
LoadSpec == LoadInit /\ [][LoadNext]_loadVars

-----------------------------------------------------------------------------
Returned == load.at = "returned"
FromFile(value) == value \in {Unknown, session.identity}

\* "A load cannot publish pixels and evidence" of two files (SourceReadTransaction-
\* Error): whatever is replaced when, a bundle is of one generation of its file,
\* through a fallback to the other decoder too; and no pixels of Apple's decoder
\* are returned under the hash of another file.
OneSource ==
    Returned /\ session.identity # Unknown =>
      /\ load.bundle.scene = session.identity
      /\ FromFile(load.bundle.shot) /\ FromFile(load.bundle.evidence)
      /\ load.bundle.reference # Unknown => load.bundle.reference.of = session.identity
      /\ load.bundle.decoder = "coreimage" => load.hash = load.bundle.scene

\* A bundle says how it came about: the decoder that was asked for, or LibRaw with
\* its evidence after every version that Apple offers has failed; a declared white
\* balance or scale that was given up is marked so; and "reconstructed pixels" of
\* uncertified support are never credited "as new sensor evidence".
DecoderAsDeclared ==
    LET b == load.bundle r == load.request
    IN  Returned =>
          /\ b.decoder = r.decoder \/ (load.nested /\ r.version = AnyVersion /\ b.evidence # Unknown)
          /\ b.decoder = "coreimage" /\ r.version # AnyVersion => b.version.major = r.version /\ load.failures = {}
          /\ b.decoder = "coreimage" => \A v \in load.failures : v.major >= b.version.major
          /\ b.decoder = "libraw" => b.evidence # Unknown
          /\ b.degraded <=> (r.kelvin /\ b.balance = "camera")
          /\ b.decoder = "coreimage" /\ r.align => b.scaled # b.misaligned
          /\ b.trust = "sensor-reference" => b.evidence # Unknown
          /\ b.reference # Unknown => b.reference.mode # "untrusted" /\ b.trust = "sensor-reference"

\* What a bundle says of its source and of how it came about is true.
BundlesHonest == OneSource /\ DecoderAsDeclared
=============================================================================
