---------------------------- MODULE ReadoutScope ----------------------------
(***************************************************************************)
(* Which files the products of a package may be used on                    *)
(* (calibration_capabilities.py, _validated_prior of calibration.py,       *)
(* with_readout of priors.py). Every table declares the shutter and the    *)
(* readout it was measured in, or not; the package is edited, installed,   *)
(* read, bound to a file and edited again, over and over.                  *)
(***************************************************************************)
EXTENDS Naturals

CONSTANTS
    Measured,    \* packages [tables, legacy], tables: name -> [shutter, body], compatible
    Shots,       \* files: [shutter, body]
    Wanted,      \* values an edit may give: [shutter, body]
    MaxEdits,
    Undeclared

\* An edit gives a value; _validated_prior refuses measurements that disagree.
ASSUME ScopeAssumption ==
    /\ Undeclared # "any"
    /\ \A w \in Wanted : \A c \in {"shutter", "body"} : w[c] # Undeclared
    /\ \A m \in Measured : \A t, u \in DOMAIN m.tables : \A c \in {"shutter", "body"} :
         m.tables[t][c] = Undeclared \/ m.tables[u][c] = Undeclared \/ m.tables[t][c] = m.tables[u][c]

VARIABLES
    tables,
    entry,       \* the conditions shown and bound, the scope of the user
    shot,        \* the file it is bound to
    asked,       \* what the user has restricted
    edits

scopeVars == <<tables, entry, shot, asked, edits>>

Conditions == {"shutter", "body"}
Open == [c \in Conditions |-> Undeclared]

\* The tables each product is computed from, the primary product first.
Uses == [gain |-> {"gain"}, noise |-> {"dark"}, electrons |-> {"gain", "dark"}]
Found(p) == Uses[p] \subseteq DOMAIN tables
FirstUsable(usable) == IF "gain" \in usable THEN "gain" ELSE IF "noise" \in usable THEN "noise"
                   ELSE IF Found("gain") THEN "gain" ELSE "noise"

-----------------------------------------------------------------------------
(* What tables say of a condition, all of them or any *)

SaidBy(S, c) == {tables[t][c] : t \in S} \ {Undeclared}
OneOf(values) == IF values = {} THEN Undeclared ELSE CHOOSE v \in values : TRUE
Common(S, c) == IF \A t \in S : tables[t][c] # Undeclared THEN OneOf(SaidBy(S, c)) ELSE Undeclared
Association(c) == OneOf(SaidBy(DOMAIN tables, c))

\* acquisition_qualification: the shutter is required of every table, the body
\* if one of them names it.
Complete(S) ==
    /\ Common(S, "shutter") # Undeclared
    /\ SaidBy(S, "body") # {} => Common(S, "body") # Undeclared

-----------------------------------------------------------------------------
(* The scope of the user, and the view a product has of the package *)

\* Mutant of Explicit: an edit is forgotten with the next binding.
ExplicitOnce(e) == [c \in Conditions |->
    IF e.bound /\ e.shown[c] \notin {Undeclared, e.shownBefore[c]} THEN e.shown[c] ELSE Undeclared]

\* _current_scope: what differs from what was bound was edited since.
Explicit(e) == [c \in Conditions |->
    IF e.bound /\ e.shown[c] \notin {Undeclared, e.shownBefore[c]} THEN e.shown[c] ELSE e.explicit[c]]
Unclear(e) == e.ambiguous /\ Explicit(e)["body"] = Undeclared

\* _scoped_readout
Issues(e, S) ==
    \/ Explicit(e)["body"] # Undeclared /\ Common(S, "body") \notin {Undeclared, Explicit(e)["body"]}
    \/ /\ Explicit(e)["shutter"] \notin {Undeclared, "any"}
       /\ Common(S, "shutter") \notin {Undeclared, "any", Explicit(e)["shutter"]}
    \/ Unclear(e) /\ Common(S, "body") # Association("body")
Cleared(e, p) == Found(p) /\ Complete(Uses[p]) /\ ~Issues(e, Uses[p])

\* Mutant of ScopedView: the user's word supplies the shutter a table left out.
ScopedViewWidened(e, p) ==
    [shutter |-> IF Explicit(e)["shutter"] # Undeclared THEN Explicit(e)["shutter"] ELSE Common(Uses[p], "shutter"),
     body    |-> IF Explicit(e)["body"] # Undeclared THEN Explicit(e)["body"] ELSE Common(Uses[p], "body")]

\* capability_prior
ScopedView(e, p) ==
    [shutter |-> IF Common(Uses[p], "shutter") = "any" /\ Explicit(e)["shutter"] # Undeclared
                 THEN Explicit(e)["shutter"] ELSE Common(Uses[p], "shutter"),
     body    |-> IF Explicit(e)["body"] # Undeclared THEN Explicit(e)["body"] ELSE Common(Uses[p], "body")]

Meets(file, view) ==
    /\ view.body \in {Undeclared, file.body}
    /\ view.shutter \in {Undeclared, "any", file.shutter}

\* The package after its primary product was bound.
Bound(e, matched) ==
    LET view == ScopedView(e, FirstUsable(matched))
    IN  [shown |-> view, shownBefore |-> view, bound |-> TRUE, explicit |-> Explicit(e),
         ambiguous |-> Unclear(e), matched |-> matched]

-----------------------------------------------------------------------------
(* Build, edit, install and read; bind to a file *)

\* build and new_readout_scope; an older package has no scope of its own, and
\* what it says of the body cannot be told from a restriction of the user.
ScopeFrom(packages) ==
    /\ \E m \in packages :
         /\ tables = m.tables
         /\ entry = [shown |-> [c \in Conditions |-> Association(c)], shownBefore |-> [c \in Conditions |-> Association(c)],
                     bound |-> FALSE, explicit |-> Open, matched |-> {},
                     ambiguous |-> m.legacy /\ Association("body") # Undeclared]
    /\ shot = Open /\ asked = Open /\ edits = 0
ScopeInit == ScopeFrom(Measured)

\* Of the JSON before it is installed, or of the entry: a condition once per binding.
Edit ==
    /\ edits < MaxEdits
    /\ \E c \in Conditions : \E v \in {w[c] : w \in Wanted} :
         /\ entry.shown[c] = entry.shownBefore[c] /\ v # entry.shown[c]
         /\ entry' = [entry EXCEPT !.shown[c] = v]
         /\ asked' = [asked EXCEPT ![c] = v]
    /\ edits' = edits + 1
    /\ UNCHANGED <<tables, shot>>

\* _validated_prior: readout_scope_fields, then bind_primary.
Install ==
    /\ ~entry.bound
    /\ LET installed == [entry EXCEPT !.bound = TRUE, !.ambiguous = Unclear([entry EXCEPT !.bound = TRUE])]
       IN  entry' = Bound(installed, {p \in DOMAIN Uses : Cleared(installed, p)})
    /\ UNCHANGED <<tables, shot, asked, edits>>

\* with_readout: matches first, then the primary product among them.
Rebind(file) ==
    /\ entry.bound
    /\ entry' = Bound(entry, {p \in DOMAIN Uses : Cleared(entry, p) /\ Meets(file, ScopedView(entry, p))})
    /\ shot' = file
    /\ UNCHANGED <<tables, asked, edits>>

ScopeNext == Edit \/ Install \/ \E file \in Shots : Rebind(file)
ScopeSpec == ScopeInit /\ [][ScopeNext]_scopeVars

-----------------------------------------------------------------------------
(* A product may be used on a file if each of its own tables, and the user, say so *)

Entitled(p, file) ==
    LET S == Uses[p]
        narrowed == asked["shutter"] \notin {Undeclared, "any"}
    IN  /\ Found(p) /\ Complete(S)
        /\ SaidBy(S, "body") \cup ({asked["body"]} \ {Undeclared}) \subseteq {file.body}
        /\ SaidBy(S, "shutter") \subseteq {"any", file.shutter}
        /\ narrowed => file.shutter = asked["shutter"]
        /\ entry.ambiguous => Common(S, "body") = Association("body")

\* "User scope may narrow a measured wildcard, never supply a missing CSV condition
\* or widen a specific measurement", "a prior can be rebound to another file;
\* stale permissions must never ... survive a changed capture condition": on the
\* file it was last bound to a product is usable if, and only if, the tables it
\* comes of and all the edits of the user allow it, whichever products and files
\* were bound before; no table it does not come of has a say.
ScopeNarrowsOnly ==
    shot # Open /\ entry.shown = entry.shownBefore =>
      \A p \in DOMAIN Uses : p \in entry.matched <=> Entitled(p, shot)
=============================================================================
