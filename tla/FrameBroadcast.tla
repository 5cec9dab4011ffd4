--------------------------- MODULE FrameBroadcast ---------------------------
(***************************************************************************)
(* What the frame queue promises its users, without nodes, lists, masks or *)
(* reference counts: frames are numbered as they are completed; a consumer *)
(* gets frames that are newer than the last one it got (it may miss some), *)
(* and a frame it holds stays what it was until the consumer releases it.  *)
(***************************************************************************)
EXTENDS Naturals

CONSTANT Consumers

VARIABLES
  published,   \* number of the last completed frame
  lastRead,    \* number of the last frame a consumer got
  holding      \* numbers of the frames a consumer holds

Init ==
  /\ published = 0
  /\ lastRead = [c \in Consumers |-> 0]
  /\ holding = [c \in Consumers |-> {}]

Publish ==
  /\ published' = published + 1
  /\ UNCHANGED <<lastRead, holding>>

Read(c) ==
  \E f \in (lastRead[c] + 1)..published :
    /\ lastRead' = [lastRead EXCEPT ![c] = f]
    /\ holding' = [holding EXCEPT ![c] = @ \cup {f}]
    /\ UNCHANGED published

Return(c) ==
  \E f \in holding[c] :
    /\ holding' = [holding EXCEPT ![c] = @ \ {f}]
    /\ UNCHANGED <<published, lastRead>>

Next == Publish \/ \E c \in Consumers : Read(c) \/ Return(c)

Spec == Init /\ [][Next]_<<published, lastRead, holding>>
=============================================================================
