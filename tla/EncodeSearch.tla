---------------------------- MODULE EncodeSearch ----------------------------
(***************************************************************************)
(* How an export picks an encoding: the automatic searches of              *)
(* auto_encode.py, the precision ladder of a manual gain map (gainmap.py), *)
(* and the donor files they reuse (PrimarySearchSession of                 *)
(* gainmap_session.py).                                                    *)
(*                                                                         *)
(* A candidate is a <<quality, chroma, auxiliary precision>>.  Encoders    *)
(* and readbacks are nondeterministic: a candidate fails, fails its HDR    *)
(* readback only, or is verified with some size and some error.            *)
(***************************************************************************)
EXTENDS Naturals, Sequences, FiniteSets

CONSTANTS
    HeifQualities,   \* HEIF_AUTO_QUALITIES, descending
    AuxQualities,    \* HEIF_AUTO_GAINMAP_QUALITIES
    JpegQualities,   \* the qualities of select_encoding, descending
    Ladder,          \* precisions of a manual gain map, the default first
    Sizes,           \* of a verified candidate
    Errors,          \* of a verified candidate
    Budget           \* what additional_error_acceptable lets the error grow

\* The qualities descend, an encoding has some bytes.
ASSUME EncodeAssumption ==
    /\ HeifQualities \in Seq(Nat) /\ HeifQualities # <<>>
    /\ AuxQualities \in Seq(Nat) /\ JpegQualities \in Seq(Nat) /\ Ladder \in Seq(Nat)
    /\ \A i \in 2..Len(JpegQualities) : JpegQualities[i] < JpegQualities[1]
    /\ Sizes \subseteq Nat \ {0} /\ Errors \subseteq Nat /\ Budget \in Nat

VARIABLES
    request,         \* what is to be encoded
    stage,           \* the part of the search that runs
    place,           \* where the current candidate is
    todo,            \* candidates left in this stage
    tried,           \* candidates encoded so far
    reference,       \* the oracle of the error budget
    selected,        \* the winner so far
    donors,          \* primaries on disk
    current,         \* the donor of the current candidate
    pinned,          \* the donor of the winner
    template,        \* precision of the gain map the JPEG candidates share
    delivered,       \* the file at the private destination
    history          \* what the properties remember of the readbacks

searchVars == <<request, stage, place, todo, tried, reference, selected, donors,
                current, pinned, template, delivered, history>>

None == <<>>
Least(a, b) == IF a < b THEN a ELSE b
Automatic == request.search # "manual"
Heif == request.search = "heif"
Jpeg == request.search = "jpeg"

\* A search over HEVC primaries with a gain map, and a manual HEIF gain map,
\* keep their primaries in a PrimarySearchSession.
HasSession == request.gainmap /\ ~request.jpeg
Candidate == Head(todo)
Donor == <<Candidate[1], Candidate[2]>>

Requests ==
    {r \in [search : {"heif", "jpeg", "manual"}, gainmap : BOOLEAN, jpeg : BOOLEAN,
            decodable : BOOLEAN] :
        /\ r.search = "heif" => ~r.jpeg
        /\ r.search = "jpeg" => r.jpeg
        /\ r.search = "manual" => r.gainmap
        /\ r.decodable => r.gainmap /\ ~r.jpeg}

\* The first stage: qualities at full sampling; a manual gain map climbs its
\* ladder at the quality and sampling asked for.
FirstStage(r) ==
    CASE r.search = "heif" ->
           [i \in DOMAIN HeifQualities |->
              <<HeifQualities[i], "444", IF r.gainmap THEN 100 ELSE 0>>]
      [] r.search = "jpeg" -> [i \in DOMAIN JpegQualities |-> <<JpegQualities[i], "422", 0>>]
      [] OTHER -> [i \in DOMAIN Ladder |-> <<95, "422", Ladder[i]>>]

EncodeInit ==
    /\ request \in Requests
    /\ stage = "quality" /\ place = "next" /\ todo = FirstStage(request)
    /\ tried = {}
    /\ reference = None /\ selected = None
    /\ donors = {} /\ current = None /\ pinned = None
    /\ template = 95
    /\ delivered = None
    /\ history = [reencoded |-> FALSE, oracle |-> None, best |-> 0, fellback |-> {}]

-----------------------------------------------------------------------------
(* PrimarySearchSession *)

\* Mutant of Kept: only the current donor is kept.
KeptCurrent(now, winner) == donors \cap {now}

\* _prune
Kept(now, winner) == donors \cap {now, winner}

\* primary(): all but the winner's and the candidate's donor are deleted, then
\* the latter is reused or encoded.
UsePrimary ==
    /\ current' = Donor
    /\ donors' = Kept(Donor, pinned) \cup {Donor}

\* The primary of a session, or nothing yet.
EncodePrimary ==
    /\ place = "next" /\ todo # <<>> /\ Candidate \notin tried
    /\ place' = "verify"
    /\ IF HasSession
         THEN /\ UsePrimary
              /\ history' = [history EXCEPT !.reencoded =
                     @ \/ (Donor \notin donors /\ \E c \in tried : <<c[1], c[2]>> = Donor)]
         ELSE UNCHANGED <<current, donors, history>>
    /\ UNCHANGED <<request, stage, todo, tried, reference, selected, pinned, template, delivered>>

\* A combination is never encoded twice.
SkipTried ==
    /\ place = "next" /\ todo # <<>> /\ Candidate \in tried
    /\ todo' = Tail(todo)
    /\ UNCHANGED <<request, stage, place, tried, reference, selected, donors, current, pinned,
                   template, delivered, history>>

-----------------------------------------------------------------------------
(* Outcomes of a candidate *)

Done(next) ==
    /\ place' = next
    /\ tried' = tried \cup {Candidate}
    /\ todo' = IF next = "next" THEN Tail(todo) ELSE todo

\* additional_error_acceptable
InBudget(c, oracle) == c.error <= oracle.error + Budget

\* Mutant of Accepted: the saving is all that is asked for.
AcceptedIfSmaller(c) == c.size < selected.size

\* A JPEG must save 5%, of the reference, or of the winner when it is the 4:2:0
\* alternate; a HEIF must be smaller than the reference.
Accepted(c) ==
    /\ InBudget(c, reference)
    /\ IF Jpeg THEN 20 * c.size <= 19 * (IF stage = "sampling" THEN selected ELSE reference).size
       ELSE c.size < reference.size

\* The first verified candidate is the reference for good.
Oracle(c) == IF reference = None THEN c ELSE reference

Seen(c) ==
    [history EXCEPT
       !.oracle = IF @ = None THEN c ELSE @,
       !.best = IF history.oracle = None THEN c.size
                ELSE IF InBudget(c, history.oracle) THEN Least(@, c.size) ELSE @]

\* The reference, and an accepted candidate that is smaller, is the winner.
Verified ==
    /\ place = "verify" /\ Automatic
    /\ \E size \in Sizes, error \in Errors :
         LET c == [size |-> size, error |-> error, what |-> Candidate, map |-> template] IN
         /\ history' = Seen(c)
         /\ reference' = Oracle(c)
         /\ IF reference = None \/ (Accepted(c) /\ c.size < selected.size)
              THEN selected' = c /\ Done(IF HasSession THEN "chosen" ELSE "next")
              ELSE selected' = selected /\ Done("next")
    /\ UNCHANGED <<request, stage, donors, current, pinned, template, delivered>>

\* on_selected: session.select pins the donor of the winner.
Choose ==
    /\ place = "chosen"
    /\ pinned' = Donor
    /\ donors' = Kept(current, Donor)
    /\ place' = "next" /\ todo' = Tail(todo)
    /\ UNCHANGED <<request, stage, tried, reference, selected, current, template, delivered, history>>

\* An error of the callback is no rejection of a candidate: the search ends.
CallbackFails ==
    /\ place = "chosen"
    /\ place' = "failed"
    /\ UNCHANGED <<request, stage, todo, tried, reference, selected, donors, current, pinned,
                   template, delivered, history>>

\* Mutant of Reject: a failed HEIF reference leaves its place to the next candidate.
RejectAny == Done(IF Automatic THEN "next" ELSE "failed")

\* A candidate that fails is left out of a search, except a HEIF reference: a
\* lower quality must not become a weaker oracle.  Nothing follows the failure
\* of a manual encoding.
Reject == Done(IF Jpeg \/ (Heif /\ reference # None) THEN "next" ELSE "failed")

\* The primary cannot be encoded, and the session forgets it; or encoding,
\* inspection, the SDR readback or the early SDR check fails.
CandidateFails ==
    /\ place = "verify"
    /\ Reject
    /\ \/ UNCHANGED <<donors, current>>
       \/ HasSession /\ Donor # pinned /\ current' = None /\ donors' = donors \ {Donor}
    /\ UNCHANGED <<request, stage, reference, selected, pinned, template, delivered, history>>

\* The JPEG search blames HDR losses of its first quality on the gain map, which
\* is made again with full precision for all qualities.
MayUpgrade == Jpeg /\ template < 100 /\ Candidate[1] = JpegQualities[1]

\* A manual gain map climbs its ladder.
MayClimb == ~Automatic /\ Len(todo) > 1

\* _decoded_primary_reference_eligible: with the precision exhausted, the
\* decoded primary takes the master's place under the gain map, once.
MayDecode == request.decodable /\ Candidate[3] = 100 /\ Candidate \notin history.fellback

HdrFails ==
    /\ place = "verify" /\ request.gainmap
    /\ CASE MayUpgrade -> template' = 100 /\ UNCHANGED <<place, todo, tried, donors, current, history>>
         [] MayClimb -> Done("next") /\ UNCHANGED <<template, donors, current, history>>
         [] MayDecode -> /\ UsePrimary
                         /\ history' = [history EXCEPT !.fellback = @ \cup {Candidate}]
                         /\ UNCHANGED <<place, todo, tried, template>>
         [] OTHER -> Reject /\ UNCHANGED <<template, donors, current, history>>
    /\ UNCHANGED <<request, stage, reference, selected, pinned, delivered>>

\* A manual encoding is delivered as soon as it is verified.
ManualOk ==
    /\ place = "verify" /\ ~Automatic
    /\ delivered' = Candidate
    /\ Done("done")
    /\ UNCHANGED <<request, stage, reference, selected, donors, current, pinned, template, history>>

-----------------------------------------------------------------------------
(* Stages of a search *)

Begin(next, candidates) ==
    /\ stage' = next /\ todo' = candidates
    /\ UNCHANGED <<request, place, tried, reference, selected, donors, current, pinned, template,
                   delivered, history>>

StageEnds(of) == Automatic /\ place = "next" /\ todo = <<>> /\ stage = of /\ selected # None

\* The winner's quality, and a HEIF's next higher one, with less chroma; a JPEG
\* with a gain map keeps its sampling.
TrySampling ==
    /\ StageEnds("quality") /\ ~(Jpeg /\ request.gainmap)
    /\ LET q == selected.what[1]
           a == selected.what[3]
           up == IF q + 5 > 95 THEN 95 ELSE q + 5
       IN  Begin("sampling", IF Jpeg THEN <<<<q, "420", a>>>>
                             ELSE <<<<q, "422", a>>, <<up, "422", a>>, <<q, "420", a>>, <<up, "420", a>>>>)

\* The winner's primary with coarser gain maps.
TryAuxiliary ==
    /\ StageEnds("sampling") /\ Heif /\ request.gainmap
    /\ Begin("auxiliary", [i \in DOMAIN AuxQualities |->
                             <<selected.what[1], selected.what[2], AuxQualities[i]>>])

\* protection.replace
Deliver ==
    /\ StageEnds(CASE Heif /\ request.gainmap -> "auxiliary"
                   [] Jpeg /\ request.gainmap -> "quality"
                   [] OTHER -> "sampling")
    /\ place' = "done" /\ delivered' = selected.what
    /\ UNCHANGED <<request, stage, todo, tried, reference, selected, donors, current, pinned,
                   template, history>>

NothingVerified ==
    /\ Automatic /\ place = "next" /\ todo = <<>> /\ selected = None
    /\ place' = "failed"
    /\ UNCHANGED <<request, stage, todo, tried, reference, selected, donors, current, pinned,
                   template, delivered, history>>

EncodeNext ==
    \/ EncodePrimary \/ SkipTried \/ Verified \/ Choose \/ CallbackFails \/ CandidateFails
    \/ HdrFails \/ ManualOk \/ TrySampling \/ TryAuxiliary \/ Deliver \/ NothingVerified
EncodeSpec == EncodeInit /\ [][EncodeNext]_searchVars

-----------------------------------------------------------------------------
EncodeTypeOK ==
    /\ request \in Requests
    /\ stage \in {"quality", "sampling", "auxiliary"}
    /\ place \in {"next", "verify", "chosen", "done", "failed"}
    /\ template \in {95, 100}

\* The search delivers the smallest candidate that stays within the error budget
\* of the first one verified: at most the 5% a JPEG must save are given away.
SmallestDelivered ==
    place = "done" /\ Automatic =>
        /\ selected = history.oracle \/ InBudget(selected, history.oracle)
        /\ IF Heif THEN selected.size = history.best ELSE 20 * history.best > 19 * selected.size

\* A HEIF is compared with the encoding of the highest quality or not at all,
\* and all candidates of a JPEG with a gain map carry the map of the reference:
\* the sizes and errors compared are those of the primary.
OracleIsBest ==
    /\ Heif /\ reference # None => reference.what = FirstStage(request)[1]
    /\ Jpeg /\ selected # None => selected.map = reference.map /\ template = reference.map

\* No primary is encoded twice, with never more than two on disk: the winner's
\* donor outlives the candidates that lose, so that the gain maps tried last only
\* repackage it.  The search is bounded by its qualities, two samplings at two
\* qualities, and the auxiliary qualities: 14 encodings.
PrimariesEncodedOnce ==
    /\ ~history.reencoded
    /\ Cardinality(donors) <= 2
    /\ Heif => Cardinality(tried) <= Len(HeifQualities) + 4
                                      + IF request.gainmap THEN Len(AuxQualities) ELSE 0

\* What a search delivers: the smallest candidate within the budget of an honest
\* oracle, each candidate encoded once.
SearchSound == SmallestDelivered /\ OracleIsBest /\ PrimariesEncodedOnce
=============================================================================
