----------------------------- MODULE NodeLists -----------------------------
(***************************************************************************)
(* What the lists of the frame queue are for their users: sequences of     *)
(* nodes, a node in at most one of them.                                   *)
(***************************************************************************)
EXTENDS Naturals, Sequences

CONSTANTS Nodes, Lists

VARIABLE seqs      \* the nodes of each list, first to last

In(n, l) == \E i \in 1..Len(seqs[l]) : seqs[l][i] = n

Free(n) == \A l \in Lists : ~In(n, l)

\* s without its i-th node.
Without(s, i) == [j \in 1..(Len(s) - 1) |-> IF j < i THEN s[j] ELSE s[j + 1]]

Init == seqs = [l \in Lists |-> <<>>]

AddTail(l, n) == Free(n) /\ seqs' = [seqs EXCEPT ![l] = Append(@, n)]

AddHead(l, n) == Free(n) /\ seqs' = [seqs EXCEPT ![l] = <<n>> \o @]

Remove(l, n) ==
  \E i \in 1..Len(seqs[l]) :
    /\ seqs[l][i] = n
    /\ seqs' = [seqs EXCEPT ![l] = Without(@, i)]

\* A node goes from the one list to the end of the other.
Move(k, l, n) ==
  /\ k # l
  /\ \E i \in 1..Len(seqs[k]) :
       /\ seqs[k][i] = n
       /\ seqs' = [seqs EXCEPT ![k] = Without(@, i), ![l] = Append(@, n)]

Next ==
  \/ \E n \in Nodes, l \in Lists : AddTail(l, n) \/ AddHead(l, n) \/ Remove(l, n)
  \/ \E n \in Nodes, k, l \in Lists : Move(k, l, n)

Spec == Init /\ [][Next]_seqs
=============================================================================
