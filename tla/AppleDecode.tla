---------------------------- MODULE AppleDecode ----------------------------
(***************************************************************************)
(* coreimage_decode.py and the hand-over in raw_io.py: the scene Apple's   *)
(* decoder renders.  The decoder is a black box with controls that may be  *)
(* absent, refuse a write, fail after it or ignore it; what an image is    *)
(* taken for depends on what can be read back.  Exposures are in EV.       *)
(***************************************************************************)
EXTENDS Integers, Sequences

CONSTANTS
    Hosts,         \* what the decoder and its controls do on this machine, for this file
    Ttl,           \* how long a failed probe is believed
    MaxClock,      \* bound: the instants of a probe
    Unknowable     \* what cannot be read

RequiredControls == {"baseline", "toneMap"}     \* of all the controls, one that
Controls == RequiredControls \cup {"colorNoise"}    \* holds evidence, one of the look, one legacy

ASSUME TtlAssumption == Ttl \in Nat /\ MaxClock \in Nat

VARIABLES
    mac,        \* the machine and the file
    station,    \* the statement the decode is at
    instant,
    probed,     \* [ok, when] of the last probe of the render context, or Unknowable
    tokens,     \* decoder versions still to try
    filter,     \* the value of every control in the filter at work
    handover,   \* what load_raw takes over, or Unknowable
    evidence    \* level of the samples LibRaw vouches for, in the unit of the scene, or Unknowable

appleVars == <<mac, station, instant, probed, tokens, filter, handover, evidence>>

AppleFrom(hosts) ==
    /\ mac \in hosts
    /\ station = "probe" /\ instant = 0 /\ probed = Unknowable /\ tokens = <<>>
    /\ filter = Unknowable /\ handover = Unknowable /\ evidence = Unknowable
AppleInit == AppleFrom(Hosts)

-----------------------------------------------------------------------------
(* Probe of the context *)

Wait ==
    /\ station = "probe" /\ instant < MaxClock
    /\ instant' = instant + 1
    /\ UNCHANGED <<mac, station, probed, tokens, filter, handover, evidence>>

\* A success is kept for the process, a failure until it expires.
Believed == probed # Unknowable /\ (probed.ok \/ instant - probed.when < Ttl)

\* runtime_available: one pixel through the very context of the decode; the
\* machine may have recovered.
ProbeContext ==
    /\ station = "probe"
    /\ IF Believed THEN UNCHANGED probed
       ELSE \E ok \in BOOLEAN : probed' = [ok |-> ok /\ mac.quartz, when |-> instant]
    /\ station' = IF probed'.ok THEN "ladder" ELSE "probe"
    /\ UNCHANGED <<mac, instant, tokens, filter, handover, evidence>>

-----------------------------------------------------------------------------
(* Versions *)

\* A token is a major version, bare or for DNG files; the bare one first.
Major(token) == token[1]
Offered(major) ==
    SelectSeq(mac.offered, LAMBDA token : token = <<major, "bare">>)
      \o SelectSeq(mac.offered, LAMBDA token : token = <<major, "dng">>)

Known == Offered("9") \o Offered("8") \o Offered("7") \o Offered("6")

\* resolve_decoder_version and the candidates of decode_scene_rec2020: the newest
\* first; where every version is a stranger, the last one offered.
VersionLadder ==
    CASE mac.offered = <<>> -> <<>>
      [] mac.offered # <<>> /\ mac.asked # "auto" -> SelectSeq(Offered(mac.asked), LAMBDA t : t = Offered(mac.asked)[1])
      [] mac.asked = "auto" /\ Known # <<>> -> Known
      [] OTHER -> <<mac.offered[Len(mac.offered)]>>

ResolveVersion ==
    /\ station = "ladder"
    /\ tokens' = VersionLadder
    /\ station' = IF VersionLadder = <<>> THEN "failed" ELSE "configure"
    /\ UNCHANGED <<mac, instant, probed, filter, handover, evidence>>

-----------------------------------------------------------------------------
(* Controls *)

Token == Head(tokens)
Inert(c) == c = "colorNoise" /\ Major(Token) = "9"
Forced(c) == c = "colorNoise"

\* What a fresh filter of this version starts from.
Authored(c) == IF c = "baseline" THEN mac.baseline[Major(Token)] ELSE 1

\* _configure_control: an unsupported control is not written, unless an older
\* decoder wants it so.
Attempted(c) ==
    mac.control[c].write # "absent" /\ (mac.control[c].supported = FALSE => Forced(c))
ValueAfter(c) ==
    IF Attempted(c) /\ mac.control[c].write \in {"applies", "appliesAndRaises"} THEN 0 ELSE Authored(c)

\* configure_linear_filter, on a filter opened anew; a version that does not take
\* is an error of this candidate.
Configure ==
    /\ station = "configure"
    /\ filter' = [c \in Controls |-> ValueAfter(c)]
    /\ station' = IF Major(Token) \in mac.takes THEN "qualify" ELSE "next"
    /\ UNCHANGED <<mac, instant, probed, tokens, handover, evidence>>

ReadBack(c) == IF mac.control[c].reads THEN filter[c] ELSE Unknowable

Effective(c) ==
    CASE Inert(c) \/ mac.control[c].supported = FALSE -> "not-applicable"
      [] ~Inert(c) /\ mac.control[c].supported # FALSE /\ ReadBack(c) = 0 -> "confirmed"
      [] OTHER -> "unconfirmed"

\* Mutant of InputQualified: what has been written counts.
InputQualifiedByWrites ==
    \A c \in RequiredControls : mac.control[c].write \in {"applies", "ignores"} \/ Effective(c) = "not-applicable"

\* _scene_input_qualification: an unknown required control rejects the candidate.
InputQualified == \A c \in RequiredControls : Effective(c) \in {"confirmed", "not-applicable"}

Qualify ==
    /\ station = "qualify"
    /\ station' = IF InputQualified THEN "render" ELSE "next"
    /\ UNCHANGED <<mac, instant, probed, tokens, filter, handover, evidence>>

\* A failed candidate gives way to the next one only when the choice was open.
NextCandidate ==
    /\ station = "next"
    /\ tokens' = Tail(tokens)
    /\ station' = IF mac.asked = "auto" /\ Len(tokens) > 1 THEN "configure" ELSE "failed"
    /\ filter' = Unknowable
    /\ UNCHANGED <<mac, instant, probed, handover, evidence>>

-----------------------------------------------------------------------------
(* Hand-over *)

\* Mutant of AuthoredBaseline: the decoder is asked after its baseline has been cleared.
AuthoredBaselineOfFilter ==
    IF mac.control["baseline"].readsBefore THEN filter["baseline"] ELSE mac.fileBaseline

\* The baseline load_raw believes: the decoder's own, else the file's.
AuthoredBaseline ==
    IF mac.control["baseline"].readsBefore THEN Authored("baseline") ELSE mac.fileBaseline

\* What was cleared is restored once; what could not be cleared is left alone.
Externalized == IF Effective("baseline") = "confirmed" THEN AuthoredBaseline ELSE 0

Render ==
    /\ station = "render"
    /\ \/ station' = "next" /\ UNCHANGED handover
       \/ /\ station' = "align"
          /\ handover' = [token |-> Token, baked |-> filter["baseline"], restored |-> Externalized,
                       level |-> mac.apple + filter["baseline"] + Externalized, aligned |-> FALSE]
    /\ UNCHANGED <<mac, instant, probed, tokens, filter, evidence>>

\* The same file through LibRaw, in the same exposure.
Reference == mac.libraw + AuthoredBaseline
RawFactor == Reference - handover.level
Plausible == RawFactor \in -2..2
Factor == IF mac.mode = "aligned" THEN RawFactor ELSE 0

\* Mutant of EvidenceLevel: the reference in its own unit.
EvidenceOfReference == Reference

\* The reference as the scene shows it, aligned or not.
EvidenceLevel == Reference + (Factor - RawFactor)

\* No reference, or an implausible one: the scene keeps Apple's scale and vouches
\* for nothing.
Align ==
    /\ station = "align"
    /\ station' = "done"
    /\ IF mac.decodes /\ Plausible
         THEN /\ handover' = [handover EXCEPT !.level = @ + Factor, !.aligned = mac.mode = "aligned"]
              /\ evidence' \in {EvidenceLevel, Unknowable}
         ELSE UNCHANGED <<handover, evidence>>
    /\ UNCHANGED <<mac, instant, probed, tokens, filter>>

AppleNext ==
    \/ Wait \/ ProbeContext \/ ResolveVersion \/ Configure \/ Qualify \/ NextCandidate \/ Render \/ Align

AppleSpec == AppleInit /\ [][AppleNext]_appleVars

-----------------------------------------------------------------------------
\* An accepted scene was rendered with no look of Apple's on a control the
\* instance has, from an offered version, the asked one when one was asked for.
LinearScene ==
    handover # Unknowable =>
        /\ \E i \in 1..Len(mac.offered) : mac.offered[i] = handover.token
        /\ mac.asked # "auto" => Major(handover.token) = mac.asked
        /\ \A c \in RequiredControls : mac.control[c].supported # FALSE => filter[c] = 0

\* The exposure the photographer's file asks for is in the scene exactly once.
BaselineOnce ==
    handover # Unknowable /\ mac.control["baseline"].readsBefore =>
        handover.baked + handover.restored = mac.baseline[Major(handover.token)]

\* What the sensor vouches for is in the unit of the picture; an aligned picture is
\* as bright as LibRaw's.
OneUnit ==
    /\ evidence # Unknowable => evidence = handover.level
    /\ handover # Unknowable => (handover.aligned => handover.level = Reference)

AppleLinear == LinearScene /\ BaselineOnce /\ OneUnit
=============================================================================
