------------------------------ MODULE DbPack ------------------------------
(***************************************************************************)
(* The framing of the keepalive stream (cp/db_pack/db_pack.c).  The sender *)
(* puts a header before each payload; TCP cuts the stream of bytes         *)
(* anywhere; db_pack_unpack finds the packets again, keeping the beginning *)
(* of an incomplete one in a cache between two calls.                      *)
(*                                                                         *)
(* A byte is known by the packet it belongs to and its position in it.     *)
(* One iteration of the loop of db_pack_unpack is one action.              *)
(***************************************************************************)
EXTENDS Naturals, Sequences, FiniteSets

CONSTANTS
  HeadSize,     \* DB_PACK_HEAD_SIZE_TOTAL (16)
  MaxRx,        \* max_rx_size: also the size of the raw buffer (1460)
  MaxLen,       \* largest value of the length field, of 16 bits
  Lengths,      \* payload lengths that are sent
  MaxPackets,   \* bound: packets sent in a behaviour
  MaxGarbage,   \* bound: packets without the magic code among them
  MaxSessions   \* bound: sessions ended in a behaviour

ASSUME DbPackAssumption ==
  /\ HeadSize \in Nat \ {0}
  /\ MaxRx \in Nat \ {0}
  /\ MaxLen \in Nat
  /\ Lengths \subseteq 0..MaxLen
  /\ MaxPackets \in Nat /\ MaxGarbage \in Nat /\ MaxSessions \in Nat

VARIABLES
  sent,       \* the packets sent: length field and whether the magic is right
  ended,      \* sessions that have ended
  wire,       \* bytes sent and not received
  left,       \* bytes of the call of db_pack_unpack that are not processed
  cbuf,       \* the cache: the ccount first bytes of cbuf
  delivered,  \* the payloads recv_cb was called with
  overrun     \* an os_memcpy has written behind the cache

vars == <<sent, ended, wire, left, cbuf, delivered, overrun>>

Packets == [len : Lengths, good : BOOLEAN]
Byte == [pkt : 1..MaxPackets, pos : 1..(HeadSize + MaxLen)]

\* The bytes of packet k from one position to another.
Bytes(k, from, to) ==
  [i \in 1..(to - from + 1) |-> [pkt |-> k, pos |-> from + i - 1]]

\* The payload of packet k.
PayloadOf(k) == Bytes(k, HeadSize + 1, HeadSize + sent[k].len)

Front(s, n) == SubSeq(s, 1, n)
Rest(s, n) == SubSeq(s, n + 1, Len(s))

\* What the header at the start of s says.  Bytes that do not start a packet
\* do not read as the magic code.
MagicOK(s) == s[1].pos = 1 /\ sent[s[1].pkt].good
LengthField(s) == sent[s[HeadSize].pkt].len
TotalSize(s) == HeadSize + LengthField(s)

\* What db_pack_init allocates for the cache.
Capacity == MaxRx + HeadSize

-----------------------------------------------------------------------------
\* db_pack_init of the first session.
Init ==
  /\ sent = <<>>
  /\ ended = 0
  /\ wire = <<>>
  /\ left = <<>>
  /\ cbuf = <<>>
  /\ delivered = <<>>
  /\ overrun = FALSE

\* The server sends a packet: the header that db_pack_pack writes too, and a
\* payload.  The device has no say in its length.
Pack(n, good) ==
  /\ Len(sent) < MaxPackets
  /\ sent' = Append(sent, [len |-> n, good |-> good])
  /\ wire' = wire \o Bytes(Len(sent) + 1, 1, HeadSize + n)
  /\ UNCHANGED <<ended, left, cbuf, delivered, overrun>>

SendPacket == \E n \in Lengths : Pack(n, TRUE)

\* Something else than this framing arrives on the connection.
SendGarbage ==
  /\ Cardinality({k \in 1..Len(sent) : ~sent[k].good}) < MaxGarbage
  /\ \E n \in Lengths : Pack(n, FALSE)

\* recv returns n bytes and the receive thread calls db_pack_unpack.
Recv(n) ==
  /\ ~overrun
  /\ left = <<>>
  /\ n <= Len(wire)
  /\ left' = Front(wire, n)
  /\ wire' = Rest(wire, n)
  /\ UNCHANGED <<sent, ended, cbuf, delivered, overrun>>

\* db_pack_deinit at the end of a session and db_pack_init of the next one;
\* the connection of the session, with all it carries, is closed.  No call of
\* unpack is under way (what happens otherwise is for KeepaliveCP).
NewSession ==
  /\ ~overrun
  /\ ended < MaxSessions
  /\ left = <<>>
  /\ ended' = ended + 1
  /\ wire' = <<>>
  /\ cbuf' = <<>>
  /\ UNCHANGED <<sent, left, delivered, overrun>>

-----------------------------------------------------------------------------
(* The loop of db_pack_unpack.                                             *)

\* os_memcpy writes behind the cache, the length field having been compared
\* with nothing.  What the device does after that is not known: it is modelled
\* up to here.
Overrun ==
  /\ overrun' = TRUE
  /\ UNCHANGED <<left, cbuf, delivered>>

\* os_memcpy of all that is left to the end of the cache, then break.
CacheAll(s) ==
  \/ Len(s) > Capacity /\ Overrun
  \/ /\ Len(s) <= Capacity
     /\ cbuf' = s
     /\ left' = <<>>
     /\ UNCHANGED <<delivered, overrun>>

\* recv_cb with the payload of the packet s, and on with the bytes r.
HandOver(s, r) ==
  /\ delivered' = Append(delivered, Rest(s, HeadSize))
  /\ cbuf' = <<>>
  /\ left' = r
  /\ UNCHANGED overrun

\* break on a wrong magic code: the rest of the call's data is dropped.
DropAll ==
  /\ cbuf' = <<>>
  /\ left' = <<>>
  /\ UNCHANGED <<delivered, overrun>>

\* Mutant: a packet that ends with the data counts as incomplete.
FromDataLate ==
  /\ cbuf = <<>>
  /\ \/ Len(left) < HeadSize /\ CacheAll(left)
     \/ Len(left) >= HeadSize /\ ~MagicOK(left) /\ DropAll
     \/ /\ Len(left) >= HeadSize
        /\ MagicOK(left)
        /\ \/ Len(left) <= TotalSize(left) /\ CacheAll(left)
           \/ /\ Len(left) > TotalSize(left)
              /\ HandOver(Front(left, TotalSize(left)),
                          Rest(left, TotalSize(left)))

\* An iteration with an empty cache: the packet starts in the data.
FromData ==
  /\ cbuf = <<>>
  /\ \/ Len(left) < HeadSize /\ CacheAll(left)
     \/ Len(left) >= HeadSize /\ ~MagicOK(left) /\ DropAll
     \/ /\ Len(left) >= HeadSize
        /\ MagicOK(left)
        /\ \/ Len(left) < TotalSize(left) /\ CacheAll(left)
           \/ /\ Len(left) >= TotalSize(left)
              /\ HandOver(Front(left, TotalSize(left)),
                          Rest(left, TotalSize(left)))

\* Bytes of the header that are not in the cache yet.
HeadMissing == IF Len(cbuf) < HeadSize THEN HeadSize - Len(cbuf) ELSE 0

\* Bytes of the packet that starts with s that are not in s.
Missing(s) == IF Len(s) < TotalSize(s) THEN TotalSize(s) - Len(s) ELSE 0

\* Mutant: all that is left is taken for the cached packet.
WithHeaderGreedy(s, r) ==
  \/ ~MagicOK(s) /\ DropAll
  \/ MagicOK(s) /\ CacheAll(s \o r)

\* The iteration with a cache, once the header s is there; r is what is
\* left then.
WithHeader(s, r) ==
  \/ ~MagicOK(s) /\ DropAll
  \/ /\ MagicOK(s)
     /\ \/ Len(r) < Missing(s) /\ CacheAll(s \o r)
        \/ Len(r) >= Missing(s) /\ TotalSize(s) > Capacity /\ Overrun
        \/ /\ Len(r) >= Missing(s)
           /\ TotalSize(s) <= Capacity
           /\ HandOver(s \o Front(r, Missing(s)), Rest(r, Missing(s)))

\* An iteration with a packet begun in the cache: its header is completed,
\* then its payload.
FromCache ==
  /\ cbuf # <<>>
  /\ \/ Len(left) < HeadMissing /\ CacheAll(cbuf \o left)
     \/ /\ Len(left) >= HeadMissing
        /\ WithHeader(cbuf \o Front(left, HeadMissing), Rest(left, HeadMissing))

Unpack ==
  /\ ~overrun
  /\ left # <<>>
  /\ FromData \/ FromCache
  /\ UNCHANGED <<sent, ended, wire>>

-----------------------------------------------------------------------------
Receive == \E n \in 1..MaxRx : Recv(n)

Next == SendPacket \/ SendGarbage \/ Receive \/ NewSession \/ Unpack

\* The connection delivers what was sent, and the receive thread runs.
Spec == Init /\ [][Next]_vars /\ WF_vars(Receive) /\ WF_vars(Unpack)

-----------------------------------------------------------------------------
(* Properties.                                                             *)

\* The types of the stream, of the cache and of what was delivered.
TypeOK ==
  /\ sent \in Seq(Packets)
  /\ ended \in 0..MaxSessions
  /\ wire \in Seq(Byte)
  /\ left \in Seq(Byte) /\ Len(left) <= MaxRx
  /\ cbuf \in Seq(Byte)
  /\ delivered \in Seq(Seq(Byte))
  /\ overrun \in BOOLEAN

\* Packet k has the header that unpack looks for and a payload of no more than
\* max_rx_size bytes.
Fits(k) == sent[k].good /\ sent[k].len <= MaxRx

\* As long as no packet announces more than max_rx_size bytes, no os_memcpy of
\* unpack, none of which is checked, writes behind the cache, however packets
\* are cut and whatever else arrives or ends between them.
CacheFits == overrun => \E k \in 1..Len(sent) : sent[k].good /\ sent[k].len > MaxRx

\* The refinement mapping: the packets from the one that the first byte not
\* yet handed over belongs to, without what is no packet.
Unfinished == cbuf \o left \o wire
PendingFrom ==
  IF Unfinished = <<>> THEN Len(sent) + 1 ELSE Unfinished[1].pkt
PendingPackets == {k \in PendingFrom..Len(sent) : Fits(k)}

Channel == INSTANCE PacketChannel WITH
  Payload <- {Bytes(k, HeadSize + 1, HeadSize + n) : k \in 1..MaxPackets, n \in Lengths},
  last <- Len(sent),
  pending <- {<<k, PayloadOf(k)>> : k \in PendingPackets},
  clean <- \A k \in 1..Len(sent) : Fits(k),
  handed <- delivered

\* Unpack implements a first-in first-out channel that loses packets only with
\* their session and after something it cannot take (foreign bytes, a packet
\* longer than the cache), and that without these delivers every packet,
\* however the stream is cut.
ImplementsChannel == Channel!Spec
=============================================================================
