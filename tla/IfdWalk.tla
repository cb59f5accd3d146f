------------------------------ MODULE IfdWalk ------------------------------
(***************************************************************************)
(* Which frame of a TIFF container the facts about a RAW are read from:    *)
(* the walk over its directories (IFDs) by metadata.py for a DNG and by    *)
(* readout.py for a native file, and what the other readers take from the  *)
(* first directory.                                                        *)
(***************************************************************************)
EXTENDS Naturals, Sequences, FiniteSets, SequencesExt, FiniteSetsExt

CONSTANTS
    Containers,      \* [dng, subs, next, kind, torn, exposure, lens], by IFD
    Ifds, Root,
    End,             \* no next IFD, no frame
    MaxVisits        \* IFDs one walk looks at

VARIABLES
    container,
    walk,            \* the walk in progress
    facts            \* the frame and the sources of what is known

walkVars == <<container, walk, facts>>

Subs(i) == container.subs[i]
IsMain(i, purpose) == container.kind[i] \in (IF purpose = "dng" THEN {"cfa", "linear"} ELSE {"cfa"})

Walk(purpose) == [purpose |-> purpose, agenda |-> <<Root>>, top |-> Root, visited |-> {}, found |-> <<>>]
Exhausted(w, i) == i \in w.visited \/ Cardinality(w.visited) >= MaxVisits

Unread == [source |-> "unread", frame |-> End, exposure |-> End, lens |-> "none"]
WalkFrom(containers) ==
    /\ container \in containers /\ facts = Unread
    /\ walk = Walk(IF container.dng THEN "dng" ELSE "native")
WalkInit == WalkFrom(Containers)

\* Mutant of Visit: the next IFD of a SubIFD is followed too.
VisitChained ==
    /\ facts = Unread /\ walk.agenda # <<>>
    /\ LET i == Head(walk.agenda)
           rest == Subs(i) \o (IF container.next[i] = End THEN <<>> ELSE <<container.next[i]>>) \o Tail(walk.agenda)
       IN  /\ ~Exhausted(walk, i) /\ i \notin container.torn
           /\ walk' = [walk EXCEPT !.visited = @ \cup {i},
                                   !.agenda = IF IsMain(i, walk.purpose) /\ walk.purpose = "dng" THEN <<>> ELSE rest,
                                   !.found = IF IsMain(i, walk.purpose) THEN Append(@, i) ELSE @]
    /\ UNCHANGED <<container, facts>>

\* visit: SubIFDs are entered depth first; a DNG's first main frame ends the walk.
Visit ==
    /\ facts = Unread /\ walk.agenda # <<>>
    /\ LET i == Head(walk.agenda)
           first == IsMain(i, walk.purpose) /\ walk.purpose = "dng"
       IN  /\ ~Exhausted(walk, i) /\ i \notin container.torn
           /\ walk' = [walk EXCEPT !.visited = @ \cup {i},
                                   !.agenda = IF first THEN <<>> ELSE Subs(i) \o Tail(@),
                                   !.found = IF IsMain(i, walk.purpose) THEN Append(@, i) ELSE @]
    /\ UNCHANGED <<container, facts>>

Skip ==
    /\ facts = Unread /\ walk.agenda # <<>> /\ Exhausted(walk, Head(walk.agenda))
    /\ walk' = [walk EXCEPT !.agenda = Tail(@)]
    /\ UNCHANGED <<container, facts>>

Settled(w) ==
    \/ w.purpose = "dng" /\ w.found # <<>>
    \/ container.next[w.top] = End \/ Exhausted(w, container.next[w.top])

\* Only the chain of the first IFD is followed.
FollowChain ==
    /\ facts = Unread /\ walk.agenda = <<>> /\ ~Settled(walk)
    /\ walk' = [walk EXCEPT !.agenda = <<container.next[walk.top]>>, !.top = container.next[@]]
    /\ UNCHANGED <<container, facts>>

\* read_dng_shot_info: the value of the first IFD, then that of the main frame.
Exposure(frame) ==
    IF frame # End /\ frame \in container.exposure THEN frame
    ELSE IF Root \in container.exposure THEN Root ELSE End

\* embedded_lens.read: a DNG's opcodes own its correction; otherwise the first IFD
\* or one of its SubIFDs carries a profile, if all of them can be read.
Lens ==
    LET near == {Root} \cup ToSet(Subs(Root))
    IN  CASE container.dng -> "opcodes"
          [] ~container.dng /\ near \cap container.torn # {} -> "refused"
          [] OTHER -> IF near \cap container.lens # {} THEN "embedded" ELSE "none"

\* Mutant of Chosen: of several native frames, the first.
ChosenFirst(w) == IF w.found = <<>> THEN End ELSE Head(w.found)

\* _native_cfa_tags: several RAW frames leave a native file's unknown.
Chosen(w) ==
    IF w.found = <<>> \/ (w.purpose = "native" /\ Len(w.found) > 1) THEN End ELSE Head(w.found)

Settle ==
    /\ facts = Unread /\ walk.agenda = <<>> /\ Settled(walk)
    /\ LET frame == Chosen(walk)
       IN  facts' = [source |-> IF frame = End THEN "unavailable" ELSE walk.purpose, frame |-> frame,
                     exposure |-> Exposure(IF walk.purpose = "dng" THEN frame ELSE End), lens |-> Lens]
    /\ UNCHANGED <<container, walk>>

\* A directory that cannot be read leaves what the first one said.
Unreadable ==
    /\ facts = Unread /\ walk.agenda # <<>>
    /\ Head(walk.agenda) \in container.torn /\ ~Exhausted(walk, Head(walk.agenda))
    /\ facts' = [Unread EXCEPT !.source = "unavailable", !.lens = Lens,
                               !.exposure = IF Root \in container.torn THEN End ELSE Exposure(End)]
    /\ UNCHANGED <<container, walk>>

WalkNext == Visit \/ Skip \/ FollowChain \/ Settle \/ Unreadable
WalkSpec == WalkInit /\ [][WalkNext]_walkVars

-----------------------------------------------------------------------------
\* The order of LibRaw's parser: every IFD before its SubIFDs, these before the
\* next IFD of the chain.
ParseOrder ==
    LET below[depth \in 0..Cardinality(Ifds), i \in Ifds] ==
            IF depth = 0 THEN <<>> ELSE <<i>> \o FlattenSeq([k \in DOMAIN Subs(i) |-> below[depth - 1, Subs(i)[k]]])
        chain[depth \in 0..Cardinality(Ifds), i \in Ifds \cup {End}] ==
            IF depth = 0 \/ i = End THEN <<>> ELSE below[Cardinality(Ifds), i] \o chain[depth - 1, container.next[i]]
    IN  chain[Cardinality(Ifds), Root]

\* "Traverse SubIFDs depth first, then the top-level next-IFD chain, matching that
\* parser order; a SubIFD's next pointer is not a separate root chain"
\* (metadata.py): whatever points to what, a walk ends within its bound at a main
\* frame it has seen; in a container whose every directory is pointed to once a
\* DNG is read at the first main frame of the parser, a native file only if it
\* has one; and no lens is corrected by the opcodes and by a profile.
FrameOfTheFile ==
    /\ Cardinality(walk.visited) <= MaxVisits /\ Len(walk.found) = Cardinality(ToSet(walk.found))
    /\ facts # Unread =>
         LET order == ParseOrder
             mains == SelectSeq(order, LAMBDA i : IsMain(i, walk.purpose))
             readable == ToSet(order) \cap container.torn = {}
         IN  /\ facts.frame # End => facts.frame \in walk.visited /\ facts.frame \in ToSet(mains)
             /\ facts.source # "dng" => facts.exposure \in {Root, End}
             /\ facts.lens = "embedded" => ~container.dng
             /\ IsInjective(order) /\ readable /\ Len(order) <= MaxVisits =>
                  facts.frame = (IF mains = <<>> \/ (walk.purpose = "native" /\ Len(mains) > 1) THEN End ELSE Head(mains))
=============================================================================
