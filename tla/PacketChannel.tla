--------------------------- MODULE PacketChannel ---------------------------
(***************************************************************************)
(* What the framing of the keepalive stream promises (db_pack.h: "Unpack   *)
(* data (remove header, handle fragmentation)"): a first-in first-out      *)
(* channel of packets.  A packet is handed to the callback whole, once and *)
(* in order; only the end of a session loses the packets on their way,     *)
(* and foreign bytes, after which packets may be missing.                  *)
(***************************************************************************)
EXTENDS Naturals, Sequences

CONSTANT Payload    \* what a packet can carry

VARIABLES
  last,             \* number of the last thing that was sent
  pending,          \* packets on their way: their number and payload
  clean,            \* nothing but packets has been sent
  handed            \* payloads given to the receive callback, in order

vars == <<last, pending, clean, handed>>

Init == last = 0 /\ pending = {} /\ clean = TRUE /\ handed = <<>>

Send ==
  /\ last' = last + 1
  /\ \E d \in Payload : pending' = pending \cup {<<last', d>>}
  /\ UNCHANGED <<clean, handed>>

\* The oldest packet arrives.
Deliver ==
  /\ \E e \in pending :
       /\ \A f \in pending : e[1] <= f[1]
       /\ handed' = Append(handed, e[2])
       /\ pending' = pending \ {e}
  /\ UNCHANGED <<last, clean>>

EndSession ==
  /\ pending' = {}
  /\ UNCHANGED <<last, clean, handed>>

\* Something that is no packet takes the place of one.
Soil ==
  /\ last' = last + 1
  /\ clean' = FALSE
  /\ UNCHANGED <<pending, handed>>

\* The oldest packets are skipped.
Lose ==
  /\ ~clean
  /\ \E n \in 1..last : pending' = {e \in pending : e[1] > n}
  /\ UNCHANGED <<last, clean, handed>>

Next == Send \/ Deliver \/ EndSession \/ Soil \/ Lose

\* What never happens: a packet cut, twice, out of order or lost without cause.
Safety == Init /\ [][Next]_vars

\* On a clean connection every packet arrives.
Spec == Safety /\ WF_vars(clean /\ Deliver)
=============================================================================
