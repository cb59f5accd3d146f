-------------------------------- MODULE Lru --------------------------------
(***************************************************************************)
(* The recency discipline of every bounded OrderedDict in the GUI: the     *)
(* sequence of its keys, oldest first.                                     *)
(***************************************************************************)
EXTENDS Integers, Sequences, SequencesExt

\* d[x] = v; d.move_to_end(x)   (or move_to_end alone on a hit)
MoveToEnd(order, x) == Append(RemoveFirst(order, x), x)

\* while len(d) > limit: d.popitem(last=False)
KeepNewest(order, limit) ==
    IF Len(order) <= limit THEN order ELSE SubSeq(order, Len(order) - limit + 1, Len(order))
=============================================================================
