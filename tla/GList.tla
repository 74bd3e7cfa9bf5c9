-------------------------------- MODULE GList --------------------------------
(***************************************************************************)
(* The list operations of glib-local/glist.c that the daemon relies on, on *)
(* sequences.  A comparison function is the set of the pairs of members of *)
(* S for which it returns a positive number.                               *)
(***************************************************************************)
EXTENDS Integers, SequencesExt

\* g_list_delete_link on the link that g_list_find_custom finds, in migrate_irq.
Delete(s, e) == RemoveFirst(s, e)

\* One turn of g_list_sort_merge (103-138): the head of the second list goes
\* first only when the comparison is positive, or when there is no other.
MergeStep(greater, m) ==
    IF m.l1 = <<>> \/ (m.l2 # <<>> /\ <<Head(m.l1), Head(m.l2)>> \in greater)
    THEN [m EXCEPT !.list = Append(@, Head(m.l2)), !.l2 = Tail(@)]
    ELSE [m EXCEPT !.list = Append(@, Head(m.l1)), !.l1 = Tail(@)]

Merge(greater, a, b) ==
    FoldLeft(LAMBDA m, x : MergeStep(greater, m),
             [list |-> <<>>, l1 |-> a, l2 |-> b], a \o b).list

\* g_list_sort_real (140-171): the list is cut after half of its elements,
\* rounded down, and the sorted halves are merged.
Sort(S, greater, list) ==
    LET sort[s \in SeqOf(S, Len(list))] ==
            LET half == Len(s) \div 2
            IN  IF Len(s) < 2 THEN s
                ELSE Merge(greater, sort[SubSeq(s, 1, half)], sort[SubSeq(s, half + 1, Len(s))])
    IN  sort[list]
=============================================================================
