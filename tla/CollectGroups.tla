---------------------------- MODULE CollectGroups ----------------------------
(***************************************************************************)
(* How a package of measurement tables becomes groups (collect_manifest.py)*)
(* and what each group may supply.  A table declares some of the fields of *)
(* its acquisition; what it does not declare it may not take from another. *)
(***************************************************************************)
CONSTANTS
    Tables,          \* packages: sets of tables: [kind, declared, iso, copy]
    Physical,        \* fields every source of a product must declare
    Conditional      \* fields they must declare once one of them does

VARIABLES
    package,         \* the recognised tables
    manifest         \* the groups made of them, {} before

groupVars == <<package, manifest>>

Products == {"ptc_gain", "relative_gain", "absolute_gain", "read_noise_dn", "read_noise_e", "spectrum"}

-----------------------------------------------------------------------------
(* Association *)

Declares(f, field) == field \in DOMAIN f.declared
Agree(a, b) == \A field \in DOMAIN a.declared \cap DOMAIN b.declared : a.declared[field] = b.declared[field]
Kin(f, files) == {o \in files : Agree(f, o)}
Fields(files) == UNION {DOMAIN o.declared : o \in files}
Said(files, field) == {o.declared[field] : o \in {p \in files : Declares(p, field)}}

\* A table that fits tables which contradict each other is left out.
Ambiguous(f, files) == \E field \in Fields(Kin(f, files)) : \E v, w \in Said(Kin(f, files), field) : v # w

\* What a table and all it fits declare together names its group.
Combined(f, files) == [field \in Fields(Kin(f, files)) |-> CHOOSE v \in Said(Kin(f, files), field) : TRUE]

-----------------------------------------------------------------------------
(* acquisition_qualification: the tables whose numbers a product consumes *)

Of(kind, files) == {f \in files : f.kind = kind}
NeedsDark(files) == \E f \in Of("ptc", files) : ~Declares(f, "black")
PtcSources(files) == Of("ptc", files) \cup (IF NeedsDark(files) THEN Of("dark", files) ELSE {})

Sources(product, files) ==
    CASE product = "ptc_gain" -> PtcSources(files)
      [] product = "relative_gain" -> Of("dark", files) \cup Of("gain", files)
      [] product = "absolute_gain" ->
           PtcSources(files) \cup (IF Of("gain", files) = {} THEN {} ELSE Of("dark", files) \cup Of("gain", files))
      [] product = "read_noise_dn" -> Of("dark", files)
      [] product = "read_noise_e" -> PtcSources(files) \cup Of("dark", files)
      [] product = "spectrum" -> Of("dark", files) \cup Of("spectrum", files)

Kinds(product, files) ==
    CASE product = "ptc_gain" -> {"ptc"} \cup (IF NeedsDark(files) THEN {"dark"} ELSE {})
      [] product = "relative_gain" -> {"gain", "dark"}
      [] product = "absolute_gain" ->
           {"ptc"} \cup (IF NeedsDark(files) \/ Of("gain", files) # {} THEN {"dark"} ELSE {})
      [] product = "read_noise_dn" -> {"dark"}
      [] product = "read_noise_e" -> {"ptc", "dark"}
      [] product = "spectrum" -> {"spectrum", "dark"}

Required(files) == Physical \cup (Conditional \cap Fields(files))

\* Mutant of Qualified: a field the group declares counts for all of its tables.
QualifiedTogether(product, files) ==
    /\ \A kind \in Kinds(product, files) : Of(kind, files) # {}
    /\ Required(Sources(product, files)) \subseteq Fields(files)

Qualified(product, files) ==
    /\ \A kind \in Kinds(product, files) : Of(kind, files) # {}
    /\ \A f \in Sources(product, files) : Required(Sources(product, files)) \subseteq DOMAIN f.declared

-----------------------------------------------------------------------------
(* _prepare *)

\* Repeated tables are never averaged, they wait for a choice.
Repeated(files) ==
    \E f, g \in files : f # g /\ f.kind = g.kind /\ (f.kind = "ptc" => f.iso = g.iso)

\* The profile is named by the dark table, or for want of one by another's header.
Named(files) ==
    \E f \in files : (Of("dark", files) # {} => f.kind = "dark") /\ Declares(f, "camera")

GroupStatus(contract, files) ==
    IF Repeated(files) THEN "ambiguous"
    ELSE IF "camera" \notin DOMAIN contract THEN "rejected"
    ELSE IF ~Named(files) \/ Of("dark", files) \cup Of("ptc", files) = {} THEN "unusable"
    ELSE IF Qualified("absolute_gain", files) /\ Qualified("read_noise_dn", files) THEN "ready"
    ELSE "partial"

Group(contract, files) ==
    [contract |-> contract, files |-> files, status |-> GroupStatus(contract, files),
     products |-> {p \in Products : Qualified(p, files)}]

Groups(files) ==
    LET clear == {f \in files : ~Ambiguous(f, files)}
    IN  {Group(c, {f \in clear : Combined(f, files) = c}) : c \in {Combined(f, files) : f \in clear}}

GroupFrom(packages) == package \in packages /\ manifest = {}
GroupInit == GroupFrom(Tables)
Prepare == manifest = {} /\ manifest' = Groups(package) /\ UNCHANGED package
GroupNext == Prepare
GroupSpec == GroupInit /\ [][GroupNext]_groupVars

-----------------------------------------------------------------------------
\* "Never combines incompatible acquisition contracts" (collect_manifest.py):
\* tables of a group do not contradict each other, no table is in two groups,
\* one that declares all there is to declare is in one, and a qualified product
\* rests on tables that each declare its conditions themselves, and the same ones.
MeasurementsNeverMixed ==
    /\ \A g \in manifest : \A a, b \in g.files : Agree(a, b)
    /\ \A g, h \in manifest : g # h => g.files \cap h.files = {}
    /\ manifest # {} => \A f \in package : DOMAIN f.declared = Fields(package) =>
                            \E g \in manifest : f \in g.files
    /\ \A g \in manifest : \A p \in g.products : \A a, b \in Sources(p, g.files) :
         \A field \in Required(Sources(p, g.files)) :
           Declares(a, field) /\ Declares(b, field) /\ a.declared[field] = b.declared[field]
==============================================================================
