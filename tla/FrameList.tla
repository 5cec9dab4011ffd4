----------------------------- MODULE FrameList -----------------------------
(***************************************************************************)
(* The doubly linked lists of frame_que_v2.c at the level of their         *)
(* pointers: next and prev of the nodes, head, tail and count of free_list *)
(* and ready_list.  Each operation runs inside a critical section, so it   *)
(* is one step; the loops of clear_all, register and unregister that move  *)
(* nodes from ready_list to free_list while they walk are one step per     *)
(* node, with no other operation in between.                               *)
(***************************************************************************)
EXTENDS Naturals, Sequences, FiniteSets

CONSTANTS
  ListNodes,   \* the preallocated nodes (Nodes of FrameQueue)
  Nil          \* the null pointer

ASSUME FrameListAssumption == IsFiniteSet(ListNodes) /\ Nil \notin ListNodes

Lists == {"free", "ready"}
Pointers == ListNodes \cup {Nil}

VARIABLES
  next, prev,   \* node->next, node->prev
  head, tail,   \* list->head, list->tail
  count,        \* list->count
  where,        \* history: the list a node was put in ("none": in no list)
  node,         \* the loop's `node': Nil when no loop is running
  sweep         \* the nodes the loop's condition selects

listVars == <<next, prev, head, tail, count, where, node, sweep>>

-----------------------------------------------------------------------------
(* The list functions, as what they make of <<next, prev, head, tail>>.    *)

\* f with the pointer at p, unless p is Nil, set to v.
Set(f, p, v) == [n \in DOMAIN f |-> IF n = p THEN v ELSE f[n]]

\* frame_list_init of both lists, with the nodes not yet in them.
ListInit ==
  /\ next = [n \in ListNodes |-> Nil]
  /\ prev = [n \in ListNodes |-> Nil]
  /\ head = [l \in Lists |-> Nil]
  /\ tail = [l \in Lists |-> Nil]
  /\ count = [l \in Lists |-> 0]
  /\ where = [n \in ListNodes |-> "none"]
  /\ node = Nil
  /\ sweep = {}

\* frame_list_add_tail_nolock.
AddTail(l, n) ==
  /\ where[n] = "none"
  /\ next' = Set(Set(next, n, Nil), tail[l], n)
  /\ prev' = Set(prev, n, tail[l])
  /\ tail' = [tail EXCEPT ![l] = n]
  /\ head' = IF head[l] = Nil THEN [head EXCEPT ![l] = n] ELSE head
  /\ count' = [count EXCEPT ![l] = @ + 1]
  /\ where' = [where EXCEPT ![n] = l]

\* frame_list_add_head_nolock.
AddHead(l, n) ==
  /\ where[n] = "none"
  /\ next' = Set(next, n, head[l])
  /\ prev' = Set(Set(prev, n, Nil), head[l], n)
  /\ head' = [head EXCEPT ![l] = n]
  /\ tail' = IF tail[l] = Nil THEN [tail EXCEPT ![l] = n] ELSE tail
  /\ count' = [count EXCEPT ![l] = @ + 1]
  /\ where' = [where EXCEPT ![n] = l]

\* Mutant: remove leaves the tail where it was.
UnlinkKeepsTail(l, n) ==
  [next |-> Set(Set(next, prev[n], next[n]), n, Nil),
   prev |-> Set(Set(prev, next[n], prev[n]), n, Nil),
   head |-> IF prev[n] = Nil THEN [head EXCEPT ![l] = next[n]] ELSE head,
   tail |-> tail,
   count |-> [count EXCEPT ![l] = @ - 1]]

\* frame_list_remove_nolock: the pointers when node n has left list l.
Unlink(l, n) ==
  [next |-> Set(Set(next, prev[n], next[n]), n, Nil),
   prev |-> Set(Set(prev, next[n], prev[n]), n, Nil),
   head |-> IF prev[n] = Nil THEN [head EXCEPT ![l] = next[n]] ELSE head,
   tail |-> IF next[n] = Nil THEN [tail EXCEPT ![l] = prev[n]] ELSE tail,
   count |-> [count EXCEPT ![l] = @ - 1]]

\* frame_list_remove_nolock, by a caller that found n in list l.
Remove(l, n) ==
  LET u == Unlink(l, n) IN
  /\ where[n] = l
  /\ next' = u.next /\ prev' = u.prev
  /\ head' = u.head /\ tail' = u.tail
  /\ count' = u.count
  /\ where' = [where EXCEPT ![n] = "none"]

\* frame_list_pop_head of a list that is not empty.
PopHead(l) ==
  LET n == head[l] IN
  /\ n # Nil
  /\ head' = [head EXCEPT ![l] = next[n]]
  /\ prev' = Set(Set(prev, next[n], Nil), n, Nil)
  /\ tail' = IF next[n] = Nil THEN [tail EXCEPT ![l] = Nil] ELSE tail
  /\ next' = Set(next, n, Nil)
  /\ count' = [count EXCEPT ![l] = @ - 1]
  /\ where' = [where EXCEPT ![n] = "none"]

-----------------------------------------------------------------------------
(* The loops that walk ready_list and move the nodes they select.          *)

\* The critical section is entered; S are the nodes the condition selects.
SweepStart(S) ==
  /\ node = Nil
  /\ node' = head["ready"]
  /\ sweep' = S
  /\ UNCHANGED <<next, prev, head, tail, count, where>>

\* Mutant: next is read after remove and add_tail have changed it.
NextNodeLate == next'[node]

\* next_node = node->next, read before the node is moved.
NextNode == next[node]

\* Mutant: the loop adds the nodes at the head of free_list.
SweepMoveFront ==
  LET u == Unlink("ready", node) IN
  /\ node \in sweep
  /\ next' = Set(u.next, node, u.head["free"])
  /\ prev' = Set(Set(u.prev, node, Nil), u.head["free"], node)
  /\ head' = [u.head EXCEPT !["free"] = node]
  /\ tail' = IF u.tail["free"] = Nil THEN [u.tail EXCEPT !["free"] = node] ELSE u.tail
  /\ count' = [u.count EXCEPT !["free"] = @ + 1]
  /\ where' = [where EXCEPT ![node] = "free"]

\* frame_list_remove_nolock and frame_list_add_tail_nolock of one node.
SweepMove ==
  LET u == Unlink("ready", node) IN
  /\ node \in sweep
  /\ next' = Set(Set(u.next, node, Nil), u.tail["free"], node)
  /\ prev' = Set(u.prev, node, u.tail["free"])
  /\ tail' = [u.tail EXCEPT !["free"] = node]
  /\ head' = IF u.head["free"] = Nil THEN [u.head EXCEPT !["free"] = node] ELSE u.head
  /\ count' = [u.count EXCEPT !["free"] = @ + 1]
  /\ where' = [where EXCEPT ![node] = "free"]

\* A node that is not selected stays.
SweepSkip ==
  /\ node \notin sweep
  /\ UNCHANGED <<next, prev, head, tail, count, where>>

SweepNext ==
  /\ node # Nil
  /\ SweepMove \/ SweepSkip
  /\ node' = NextNode
  /\ UNCHANGED sweep

Operation ==
  /\ node = Nil
  /\ \/ \E n \in ListNodes, l \in Lists : AddTail(l, n) \/ AddHead(l, n) \/ Remove(l, n)
     \/ \E l \in Lists : PopHead(l)
  /\ sweep' = {}
  /\ UNCHANGED node

ListNext == Operation \/ (\E S \in SUBSET ListNodes : SweepStart(S)) \/ SweepNext

ListSpec == ListInit /\ [][ListNext]_listVars /\ WF_listVars(SweepNext)

-----------------------------------------------------------------------------
(* Properties.                                                             *)

\* Pointers are Nil or nodes.
ListTypeOK ==
  /\ next \in [ListNodes -> Pointers] /\ prev \in [ListNodes -> Pointers]
  /\ head \in [Lists -> Pointers] /\ tail \in [Lists -> Pointers]
  /\ count \in [Lists -> Nat]
  /\ where \in [ListNodes -> Lists \cup {"none"}]
  /\ node \in Pointers
  /\ sweep \subseteq ListNodes

Members(l) == {n \in ListNodes : where[n] = l}

\* Both directions of the links agree, link nodes of one list, end at the
\* list's head and tail, and count is the number of nodes: no sequence of
\* operations, and no point of a loop, leaves a node half in a list.
Linked ==
  \A l \in Lists :
    /\ count[l] = Cardinality(Members(l))
    /\ head[l] = Nil <=> Members(l) = {}
    /\ tail[l] = Nil <=> Members(l) = {}
    /\ head[l] # Nil => head[l] \in Members(l)
    /\ tail[l] # Nil => tail[l] \in Members(l)
    /\ \A n \in Members(l) :
         /\ IF next[n] = Nil THEN tail[l] = n
            ELSE next[n] \in Members(l) /\ prev[next[n]] = n
         /\ IF prev[n] = Nil THEN head[l] = n
            ELSE prev[n] \in Members(l) /\ next[prev[n]] = n

\* The nodes of a list, found by following next from the head.
Chain(l) ==
  LET at[i \in 0..Cardinality(ListNodes)] ==
        IF i = 0 THEN Nil
        ELSE IF i = 1 THEN head[l]
        ELSE IF at[i - 1] = Nil THEN Nil
        ELSE next[at[i - 1]]
  IN [i \in 1..count[l] |-> at[i]]

Abstract == INSTANCE NodeLists WITH
  Nodes <- ListNodes, seqs <- [l \in Lists |-> Chain(l)]

\* What a walk from the head sees is the sequence the operations describe.
ImplementsLists == Abstract!Spec

\* A loop over ready_list ends, and has then moved every node it selects,
\* although it changes the list under its feet.
SweepComplete ==
  \A S \in SUBSET ListNodes :
    (node # Nil /\ sweep = S) ~> (node = Nil /\ Members("ready") \cap S = {})
=============================================================================
