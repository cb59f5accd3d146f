----------------------------- MODULE FileFacts -----------------------------
(***************************************************************************)
(* What is known of how a file was taken (capture_identity.py,             *)
(* capture_facts.py, readout.py, measurement_domain.py), on its way into a *)
(* bundle, the declaration of a batch, a snapshot kept with an analysis or *)
(* published in a report; and the measurements it is matched with.         *)
(***************************************************************************)
EXTENDS Naturals, FiniteSets

CONSTANTS
    Files,           \* [seen, strips, raster]: observations by field
    Declarations,    \* values by field
    Entries,         \* [asks, domain, issues]: the values a measurement accepts
    NoValue,         \* no value
    Garbled          \* an observation that cannot be read

VARIABLES
    taken,           \* the file
    bundled,         \* what a bundle knows
    kept,            \* the snapshot on disk
    published        \* the snapshot is one for readers

factVars == <<taken, bundled, kept, published>>

FactFields == {"mode", "body", "time"}
Declarable == {"mode"}
Private == {"body"}

\* A mode is observed in one place and the fields asked for are the file's.
ASSUME FactsAssumption ==
    /\ NoValue \notin {"lossless", "lossy"}
    /\ \A f \in Files :
         /\ \A x \in FactFields : IsFiniteSet(f.seen[x]) /\ NoValue \notin f.seen[x]
         /\ \A x \in Declarable : Garbled \notin f.seen[x] /\ Cardinality(f.seen[x]) <= 1
    /\ \A d \in Declarations : \A x \in DOMAIN d : d[x] # Garbled
    /\ \A entry \in Entries : DOMAIN entry.asks \subseteq FactFields /\ \A x \in DOMAIN entry.asks : NoValue \notin entry.asks[x]

-----------------------------------------------------------------------------
(* Observations become facts *)

\* Mutant of Status: one readable observation is enough.
StatusIfAny(seen) ==
    LET valid == seen \ {Garbled}
    IN  IF Cardinality(valid) > 1 THEN "conflict" ELSE IF valid # {} THEN "verified"
        ELSE IF Garbled \in seen THEN "invalid" ELSE "missing"

\* _qualified
Status(seen) ==
    LET valid == seen \ {Garbled}
    IN  IF Cardinality(valid) > 1 THEN "conflict" ELSE IF Garbled \in seen THEN "invalid"
        ELSE IF valid # {} THEN "verified" ELSE "missing"
ValueOf(seen) == IF Status(seen) = "verified" THEN CHOOSE v \in seen : TRUE ELSE NoValue

\* Mutant of Storage: one lossless strip is enough.
StorageIfAny(strips) == IF "lossless" \in strips THEN "lossless" ELSE IF "lossy" \in strips THEN "lossy" ELSE NoValue

\* _compression: every strip was stored without loss, one was not, or who knows.
Storage(strips) ==
    IF strips = {"lossless"} THEN "lossless" ELSE IF "lossy" \in strips THEN "lossy" ELSE NoValue

Facts(f) ==
    [value |-> [x \in FactFields |-> ValueOf(f.seen[x])], status |-> [x \in FactFields |-> Status(f.seen[x])],
     storage |-> Storage(f.strips), raster |-> f.raster, declared |-> [x \in {} |-> NoValue]]

Blank == [value |-> [x \in FactFields |-> NoValue], status |-> [x \in FactFields |-> "missing"],
            storage |-> NoValue, raster |-> NoValue, declared |-> [x \in {} |-> NoValue]]

FactsFrom(files) == taken \in files /\ bundled = Blank /\ kept = Blank /\ published = FALSE
FactsInit == FactsFrom(Files)

-----------------------------------------------------------------------------
(* The declaration of a batch *)

Accepted(facts, d) ==
    DOMAIN d \subseteq Declarable /\ \A x \in DOMAIN d : facts.value[x] \in {NoValue, d[x]}
Declared(facts, d) ==
    [facts EXCEPT !.declared = d,
                  !.value = [x \in FactFields |-> IF x \in DOMAIN d /\ @[x] = NoValue THEN d[x] ELSE @[x]]]

\* acquire_raw_evidence and with_capture_declaration; a declaration that
\* contradicts the file is an error and there is no bundle.
Load ==
    /\ \E d \in Declarations : bundled' = IF Accepted(Facts(taken), d) THEN Declared(Facts(taken), d) ELSE Blank
    /\ UNCHANGED <<taken, kept, published>>

-----------------------------------------------------------------------------
(* Snapshots *)

Redacted(facts) ==
    [facts EXCEPT !.value = [x \in FactFields |-> IF x \in Private THEN NoValue ELSE @[x]]]

\* public_facts: a report has the hash of a serial in its place.
Keep ==
    /\ bundled # Blank
    /\ \E public \in BOOLEAN :
         /\ kept' = IF public THEN Redacted(bundled) ELSE bundled
         /\ published' = public
    /\ UNCHANGED <<taken, bundled>>

\* from_dict: a fact has a value if, and only if, it is verified.
Restorable == \A x \in FactFields \ Declarable : kept.status[x] = "verified" <=> kept.value[x] # NoValue
Restore ==
    /\ kept # Blank
    /\ bundled' = IF Restorable THEN kept ELSE Blank
    /\ UNCHANGED <<taken, kept, published>>

FactsNext == Load \/ Keep \/ Restore
FactsSpec == FactsInit /\ [][FactsNext]_factVars

-----------------------------------------------------------------------------
(* readout.match and measurement_domain.match *)

FieldVerdict(entry, facts, x) ==
    IF facts.value[x] = NoValue THEN "unverified"
    ELSE IF facts.value[x] \in entry.asks[x] THEN "matched" ELSE "mismatch"

DomainVerdict(entry, facts) ==
    CASE entry.domain = NoValue -> "not-declared"
      [] entry.domain = "units" \/ facts.raster # "linear" -> "unverified"
      [] OTHER -> "matched"

\* Conditions are looked at in the order they were declared in: the first that is
\* not met decides, so there may be several verdicts.
Verdicts(entry, facts) ==
    LET asked == DOMAIN entry.asks
        failing == {FieldVerdict(entry, facts, x) : x \in asked} \ {"matched"}
    IN  CASE facts.storage = "lossy" -> {"mismatch"}
          [] facts.storage = NoValue \/ (facts.storage = "lossless" /\ entry.issues) -> {"unverified"}
          [] failing # {} /\ facts.storage = "lossless" /\ ~entry.issues -> failing
          [] OTHER -> {IF DomainVerdict(entry, facts) = "unverified" THEN "unverified"
                       ELSE IF asked = {} THEN "not-declared" ELSE "matched"}

\* "Only declared constraints can match; missing evidence is not equality",
\* "a declaration fills unknown mode fields, never file facts" (readout.py): a
\* measurement is matched with a file only if every strip was stored without loss
\* and each of its conditions is met by what all the file's observations agree
\* on, or, where it has none, by the declaration; a mismatch is never read off
\* observations that conflict; whatever was kept and restored in between. And
\* what is published names no serial and is no evidence.
FactsNeverInvented ==
    /\ published => \A x \in Private : kept.value[x] \notin taken.seen[x]
    /\ published /\ Restorable => \A x \in Private : Status(taken.seen[x]) # "verified"
    /\ \A entry \in Entries : bundled # Blank =>
         LET verdicts == Verdicts(entry, bundled)
             known(x) == IF taken.seen[x] = {} /\ x \in DOMAIN bundled.declared THEN {bundled.declared[x]} ELSE taken.seen[x]
         IN  /\ "matched" \in verdicts =>
                  /\ taken.strips = {"lossless"}
                  /\ \A x \in DOMAIN entry.asks : known(x) # {} /\ known(x) \subseteq entry.asks[x]
             /\ "mismatch" \in verdicts =>
                  \/ "lossy" \in taken.strips
                  \/ \E x \in DOMAIN entry.asks : Cardinality(known(x)) = 1 /\ known(x) \cap (entry.asks[x] \cup {Garbled}) = {}
=============================================================================
