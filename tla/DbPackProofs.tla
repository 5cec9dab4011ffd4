---------------------------- MODULE DbPackProofs ----------------------------
(***************************************************************************)
(* What db_pack_unpack (DbPack) guarantees for every header size, buffer   *)
(* size and set of payload lengths: its cache does not overflow before a   *)
(* packet larger than it arrives, what it hands over was sent, and nothing *)
(* is lost without a cause.                                                *)
(*                                                                         *)
(* All of it is said of the bytes that are not handed over yet, in the     *)
(* cache, in the data and on the wire together (Unfinished).  A step moves *)
(* them, puts a packet behind them, or takes bytes off their front; how    *)
(* cache and data share them makes no difference (UnpackEffect).           *)
(***************************************************************************)
EXTENDS DbPack, SequenceTheorems, TLAPS

\* The bytes of packet k, header included.
Size(sn, k) == HeadSize + sn[k].len

\* The bytes u are those of packets of sn: each is followed by the rest of its
\* packet, and the packets are in the order in which they were sent.
Stream(u, sn) ==
  /\ \A i \in 1..Len(u) :
       /\ u[i].pkt \in 1..Len(sn)
       /\ u[i].pos \in 1..Size(sn, u[i].pkt)
       /\ \A t \in 0..(Size(sn, u[i].pkt) - u[i].pos) :
            /\ i + t <= Len(u)
            /\ u[i + t].pkt = u[i].pkt
            /\ u[i + t].pos = u[i].pos + t
  /\ \A i, j \in 1..Len(u) : i < j =>
       /\ u[i].pkt <= u[j].pkt
       /\ u[i].pkt = u[j].pkt => j - i = u[j].pos - u[i].pos

\* What is not handed over yet is such a stream.
StreamInv == Stream(Unfinished, sent)

\* The cache holds less than a packet; from HeadSize bytes on, its header has
\* been read and accepted.
CacheInv ==
  Len(cbuf) >= HeadSize => MagicOK(cbuf) /\ Len(cbuf) < TotalSize(cbuf)

\* f tells which packet each payload came from: sent with the magic code, in
\* the order of sending, before all that is not handed over yet.
Origin(f) ==
  /\ f \in [1..Len(delivered) -> 1..Len(sent)]
  /\ \A i \in 1..Len(delivered) : sent[f[i]].good /\ delivered[i] = PayloadOf(f[i])
  /\ \A i, j \in 1..Len(delivered) : i < j => f[i] < f[j]
  /\ \A i \in 1..Len(delivered), j \in 1..Len(Unfinished) : f[i] < Unfinished[j].pkt

\* What recv_cb was called with are payloads of packets sent, in their order.
InOrder == \E f \in [1..Len(delivered) -> 1..Len(sent)] : Origin(f)

\* Nothing but packets was sent, in a single session.
Clean == ended = 0 /\ \A k \in 1..Len(sent) : sent[k].good
\* Then every packet is handed over, or its first byte still to come.
CleanInv ==
  Clean =>
    /\ \A i \in 1..Len(delivered) : i \in 1..Len(sent) /\ delivered[i] = PayloadOf(i)
    /\ \A k \in 1..Len(sent) : k > Len(delivered) =>
         \E i \in 1..Len(Unfinished) : Unfinished[i].pkt = k /\ Unfinished[i].pos = 1
    /\ \A i \in 1..Len(Unfinished) : Unfinished[i].pkt > Len(delivered)

\* Then, with all bytes processed, every packet has been handed over.
NothingLost ==
  Clean /\ Unfinished = <<>> => delivered = [k \in 1..Len(sent) |-> PayloadOf(k)]

\* Nothing but packets was sent, in this session or an earlier one.
AllGood == \A k \in 1..Len(sent) : sent[k].good

\* Nor one that does not fit in the cache.
AllFit == \A k \in 1..Len(sent) : Fits(k)

\* No packet is missing between the first one with bytes on the way and the
\* last one sent.
Covered ==
  Unfinished # <<>> => \A m \in Unfinished[1].pkt..Len(sent) :
                         \E i \in 1..Len(Unfinished) : Unfinished[i].pkt = m

\* As long as nothing but packets was sent, the bytes on the way begin with the
\* beginning of a packet, whatever session was ended in the middle of one.
Started ==
  AllGood => \A i \in 1..Len(Unfinished) : \E j \in 1..Len(Unfinished) :
               Unfinished[j].pkt = Unfinished[i].pkt /\ Unfinished[j].pos = 1

\* The inductive invariant.
PackInv == TypeOK /\ StreamInv /\ CacheInv /\ CacheFits /\ InOrder /\ CleanInv

-----------------------------------------------------------------------------
(* Sequences.                                                              *)

\* What Front and Rest return, by their elements.
LEMMA Cut ==
  ASSUME NEW S, NEW s \in Seq(S), NEW n \in 0..Len(s)
  PROVE  /\ Front(s, n) \in Seq(S) /\ Len(Front(s, n)) = n
         /\ Rest(s, n) \in Seq(S) /\ Len(Rest(s, n)) = Len(s) - n
         /\ \A i \in 1..n : Front(s, n)[i] = s[i]
         /\ \A i \in 1..(Len(s) - n) : Rest(s, n)[i] = s[n + i]
         /\ Front(s, n) \o Rest(s, n) = s
<1>0. Len(s) \in Nat /\ n \in Int /\ \A i \in 1..Len(s) : s[i] \in S
  OBVIOUS
<1>1. \A i \in 1..n : s[i] \in S
  BY <1>0
<1>2. \A i \in n + 1..Len(s) : s[i] \in S
  BY <1>0
<1>3. /\ Front(s, n) \in Seq(S) /\ Len(Front(s, n)) = n
      /\ \A i \in 1..n : Front(s, n)[i] = s[i]
  <2>1. /\ SubSeq(s, 1, n) \in Seq(S)
        /\ Len(SubSeq(s, 1, n)) = IF 1 <= n THEN n - 1 + 1 ELSE 0
        /\ \A i \in 1..(n - 1 + 1) : SubSeq(s, 1, n)[i] = s[1 + i - 1]
    BY <1>0, <1>1, SubSeqProperties
  <2> QED
    BY <1>0, <2>1 DEF Front
<1>4. /\ Rest(s, n) \in Seq(S) /\ Len(Rest(s, n)) = Len(s) - n
      /\ \A i \in 1..(Len(s) - n) : Rest(s, n)[i] = s[n + i]
  <2>1. /\ SubSeq(s, n + 1, Len(s)) \in Seq(S)
        /\ Len(SubSeq(s, n + 1, Len(s)))
             = IF n + 1 <= Len(s) THEN Len(s) - (n + 1) + 1 ELSE 0
        /\ \A i \in 1..(Len(s) - (n + 1) + 1) :
             SubSeq(s, n + 1, Len(s))[i] = s[n + 1 + i - 1]
    BY <1>0, <1>2, SubSeqProperties
  <2> QED
    BY <1>0, <2>1 DEF Rest
<1>5. Front(s, n) \o Rest(s, n) = s
  <2>1. /\ Front(s, n) \o Rest(s, n) \in Seq(S)
        /\ Len(Front(s, n) \o Rest(s, n)) = Len(s)
        /\ \A i \in 1..Len(s) : (Front(s, n) \o Rest(s, n))[i]
             = IF i <= n THEN Front(s, n)[i] ELSE Rest(s, n)[i - n]
    BY <1>0, <1>3, <1>4, ConcatProperties
  <2>2. \A i \in 1..Len(s) : (Front(s, n) \o Rest(s, n))[i] = s[i]
    BY <1>0, <1>3, <1>4, <2>1
  <2> QED
    BY <2>1, <2>2, SeqEqual
<1> QED
  BY <1>3, <1>4, <1>5

\* The beginning of a concatenation.
LEMMA CutConcat ==
  ASSUME NEW S, NEW s \in Seq(S), NEW r \in Seq(S)
  PROVE  /\ Front(s \o r, Len(s)) = s /\ Rest(s \o r, Len(s)) = r
         /\ \A i \in 1..Len(s) : (s \o r)[i] = s[i]
<1>0. /\ Len(s) \in Nat /\ Len(r) \in Nat
      /\ s \o r \in Seq(S) /\ Len(s \o r) = Len(s) + Len(r)
      /\ \A i \in 1..Len(s) + Len(r) :
           (s \o r)[i] = IF i <= Len(s) THEN s[i] ELSE r[i - Len(s)]
  BY ConcatProperties
<1>1. Len(s) \in 0..Len(s \o r)
  BY <1>0
<1>2. /\ Front(s \o r, Len(s)) \in Seq(S) /\ Len(Front(s \o r, Len(s))) = Len(s)
      /\ Rest(s \o r, Len(s)) \in Seq(S)
      /\ Len(Rest(s \o r, Len(s))) = Len(s \o r) - Len(s)
      /\ \A i \in 1..Len(s) : Front(s \o r, Len(s))[i] = (s \o r)[i]
      /\ \A i \in 1..(Len(s \o r) - Len(s)) :
           Rest(s \o r, Len(s))[i] = (s \o r)[Len(s) + i]
  <2>0. PICK t \in Seq(S) : t = s \o r
    BY ONLY <1>0
  <2>1. PICK n \in 0..Len(t) : n = Len(s)
    BY ONLY <1>1, <2>0
  <2>2. /\ Front(t, n) \in Seq(S) /\ Len(Front(t, n)) = n
        /\ Rest(t, n) \in Seq(S) /\ Len(Rest(t, n)) = Len(t) - n
        /\ \A i \in 1..n : Front(t, n)[i] = t[i]
        /\ \A i \in 1..(Len(t) - n) : Rest(t, n)[i] = t[n + i]
    BY Cut
  <2> QED
    BY ONLY <2>0, <2>1, <2>2
<1>3. \A i \in 1..Len(s) : (s \o r)[i] = s[i]
  BY <1>0
<1>4. \A i \in 1..Len(r) : (s \o r)[Len(s) + i] = r[i]
  BY <1>0
<1>5. Front(s \o r, Len(s)) = s
  BY <1>2, <1>3, SeqEqual
<1>6. Rest(s \o r, Len(s)) = r
  <2>1. Len(Rest(s \o r, Len(s))) = Len(r)
    BY <1>0, <1>2
  <2>2. \A i \in 1..Len(Rest(s \o r, Len(s))) : Rest(s \o r, Len(s))[i] = r[i]
    BY <1>0, <1>2, <1>4, <2>1
  <2> QED
    BY <1>2, <2>1, <2>2, SeqEqual
<1> QED
  BY <1>3, <1>5, <1>6
-----------------------------------------------------------------------------
(* The stream.                                                             *)

\* What the end of a packet's stream is: still a stream.
LEMMA StreamRest ==
  ASSUME NEW sn, NEW u \in Seq(Byte), Stream(u, sn), NEW n \in 0..Len(u),
         \A k \in 1..Len(sn) : Size(sn, k) \in Nat
  PROVE  Stream(Rest(u, n), sn)
<1>0. /\ Len(u) \in Nat /\ n \in Nat
      /\ \A i \in 1..Len(u) : u[i].pkt \in Nat /\ u[i].pos \in Nat
  <2>1. \A i \in 1..Len(u) : u[i] \in Byte
    OBVIOUS
  <2> QED
    BY <2>1 DEF Byte
<1>1. PICK v \in Seq(Byte) : /\ v = Rest(u, n) /\ Len(v) = Len(u) - n
                             /\ \A i \in 1..Len(v) : v[i] = u[n + i] /\ n + i \in 1..Len(u)
  <2>1. /\ Rest(u, n) \in Seq(Byte) /\ Len(Rest(u, n)) = Len(u) - n
        /\ \A i \in 1..(Len(u) - n) : Rest(u, n)[i] = u[n + i]
    BY Cut
  <2>2. \A i \in 1..(Len(u) - n) : n + i \in 1..Len(u)
    BY <1>0
  <2> QED
    BY ONLY <2>1, <2>2
<1>2. SUFFICES Stream(v, sn)
  BY <1>1
<1>3. ASSUME NEW i \in 1..Len(v)
      PROVE  /\ v[i].pkt \in 1..Len(sn)
             /\ v[i].pos \in 1..Size(sn, v[i].pkt)
             /\ \A t \in 0..(Size(sn, v[i].pkt) - v[i].pos) :
                  /\ i + t <= Len(v)
                  /\ v[i + t].pkt = v[i].pkt
                  /\ v[i + t].pos = v[i].pos + t
  <2>1. v[i] = u[n + i] /\ n + i \in 1..Len(u)
    BY <1>1, <1>3
  <2>2. /\ u[n + i].pkt \in 1..Len(sn)
        /\ u[n + i].pos \in 1..Size(sn, u[n + i].pkt)
        /\ \A t \in 0..(Size(sn, u[n + i].pkt) - u[n + i].pos) :
             /\ (n + i) + t <= Len(u)
             /\ u[(n + i) + t].pkt = u[n + i].pkt
             /\ u[(n + i) + t].pos = u[n + i].pos + t
    BY <2>1 DEF Stream
  <2>3. ASSUME NEW t \in 0..(Size(sn, v[i].pkt) - v[i].pos)
        PROVE  /\ i + t <= Len(v)
               /\ v[i + t].pkt = v[i].pkt
               /\ v[i + t].pos = v[i].pos + t
    <3>1. i + t <= Len(v) /\ t \in Nat
      BY <1>0, <1>1, <2>1, <2>2, <2>3
    <3>2. i + t \in 1..Len(v) /\ n + (i + t) = (n + i) + t
      BY <1>0, <1>1, <1>3, <3>1
    <3>3. v[i + t] = u[(n + i) + t]
      BY <1>1, <3>2
    <3> QED
      BY <2>1, <2>2, <2>3, <3>1, <3>3
  <2> QED
    BY <2>1, <2>2, <2>3
<1>4. ASSUME NEW i \in 1..Len(v), NEW j \in 1..Len(v), i < j
      PROVE  /\ v[i].pkt <= v[j].pkt
             /\ v[i].pkt = v[j].pkt => j - i = v[j].pos - v[i].pos
  <2>1. /\ v[i] = u[n + i] /\ n + i \in 1..Len(u)
        /\ v[j] = u[n + j] /\ n + j \in 1..Len(u)
    BY <1>1, <1>4
  <2>2. n + i < n + j /\ (n + j) - (n + i) = j - i
    BY <1>0, <1>4
  <2> QED
    BY <2>1, <2>2 DEF Stream
<1> QED
  BY <1>3, <1>4 DEF Stream

\* db_pack_pack adds a whole packet to it.
LEMMA StreamPack ==
  ASSUME NEW sn \in Seq(Packets), NEW u \in Seq(Byte), Stream(u, sn),
         NEW p \in Packets, Len(sn) < MaxPackets,
         NEW b, b = Bytes(Len(sn) + 1, 1, HeadSize + p.len)
  PROVE  /\ b \in Seq(Byte) /\ Len(b) = HeadSize + p.len
         /\ \A i \in 1..Len(b) : b[i] = [pkt |-> Len(sn) + 1, pos |-> i]
         /\ Stream(u \o b, Append(sn, p))
<1>0. /\ HeadSize \in Nat \ {0} /\ MaxLen \in Nat /\ MaxPackets \in Nat
      /\ p.len \in 0..MaxLen /\ Len(sn) \in Nat /\ Len(u) \in Nat
  <2>1. p.len \in Lengths /\ Lengths \subseteq 0..MaxLen
    BY DbPackAssumption DEF Packets
  <2>2. HeadSize \in Nat \ {0} /\ MaxLen \in Nat /\ MaxPackets \in Nat
    BY DbPackAssumption
  <2>3. p.len \in 0..MaxLen
    BY <2>1
  <2>4. Len(sn) \in Nat /\ Len(u) \in Nat
    OBVIOUS
  <2> QED
    BY ONLY <2>2, <2>3, <2>4
<1>1. PICK z \in Nat, k \in Nat : z = HeadSize + p.len /\ k = Len(sn) + 1
  BY <1>0
<1>2. /\ b = [i \in 1..z |-> [pkt |-> k, pos |-> i]]
  <2>1. b = [i \in 1..(z - 1 + 1) |-> [pkt |-> k, pos |-> 1 + i - 1]]
    BY <1>1 DEF Bytes
  <2>2. z - 1 + 1 = z /\ \A i \in 1..z : 1 + i - 1 = i
    BY <1>1
  <2> QED
    BY <2>1, <2>2
<1>3. \A i \in 1..z : [pkt |-> k, pos |-> i] \in Byte
  BY <1>0, <1>1 DEF Byte
<1>4. b \in Seq(Byte) /\ Len(b) = z /\ \A i \in 1..z : b[i] = [pkt |-> k, pos |-> i]
  BY <1>2, <1>3
<1>5. PICK w \in Seq(Byte) :
        /\ w = u \o b /\ Len(w) = Len(u) + z
        /\ \A i \in 1..Len(u) : w[i] = u[i]
        /\ \A m \in 1..z : w[Len(u) + m].pkt = k /\ w[Len(u) + m].pos = m
  <2>1. /\ u \o b \in Seq(Byte) /\ Len(u \o b) = Len(u) + z
        /\ \A i \in 1..Len(u) + z :
             (u \o b)[i] = IF i <= Len(u) THEN u[i] ELSE b[i - Len(u)]
    BY <1>4, ConcatProperties
  <2>2. \A i \in 1..Len(u) : (u \o b)[i] = u[i]
    BY <1>0, <1>1, <2>1
  <2>3. \A m \in 1..z : (u \o b)[Len(u) + m] = [pkt |-> k, pos |-> m]
    <3>1. \A m \in 1..z : /\ Len(u) + m \in 1..Len(u) + z /\ ~(Len(u) + m <= Len(u))
                           /\ (Len(u) + m) - Len(u) = m
      BY ONLY <1>0, z \in Nat
    <3>2. \A m \in 1..z : (u \o b)[Len(u) + m] = b[m]
      BY ONLY <2>1, <3>1
    <3> QED
      BY ONLY <1>4, <3>2
  <2>4. \A m \in 1..z : (u \o b)[Len(u) + m].pkt = k /\ (u \o b)[Len(u) + m].pos = m
    <3>1. \A m \in 1..z : [pkt |-> k, pos |-> m].pkt = k /\ [pkt |-> k, pos |-> m].pos = m
      OBVIOUS
    <3> QED
      BY ONLY <2>3, <3>1
  <2> QED
    BY ONLY <2>1, <2>2, <2>4
<1>6. PICK sm \in Seq(Packets) :
        /\ sm = Append(sn, p) /\ Len(sm) = k /\ sm[k] = p
        /\ \A j \in 1..Len(sn) : sm[j] = sn[j]
  <2>1. /\ Append(sn, p) \in Seq(Packets) /\ Len(Append(sn, p)) = Len(sn) + 1
        /\ \A j \in 1..Len(sn) : Append(sn, p)[j] = sn[j]
        /\ Append(sn, p)[Len(sn) + 1] = p
    BY AppendProperties
  <2> QED
    BY ONLY <1>1, <2>1
<1>7. /\ Size(sm, k) = z
      /\ \A j \in 1..Len(sn) : Size(sm, j) = Size(sn, j) /\ Size(sn, j) \in Nat
  <2>1. \A j \in 1..Len(sn) : sn[j] \in Packets
    OBVIOUS
  <2>2. \A j \in 1..Len(sn) : sn[j].len \in Nat
    <3>1. Lengths \subseteq Nat
      BY DbPackAssumption
    <3> QED
      BY <2>1, <3>1 DEF Packets
  <2> QED
    <3>1. \A j \in 1..Len(sn) : sm[j].len = sn[j].len /\ HeadSize + sn[j].len \in Nat
      BY ONLY <1>0, <1>6, <2>2
    <3>2. sm[k].len = p.len
      BY ONLY <1>6
    <3> QED
      BY ONLY <1>1, <3>1, <3>2 DEF Size
<1>8. ASSUME NEW i \in 1..Len(w)
      PROVE  i \in 1..Len(u) \/ \E m \in 1..z : i = Len(u) + m
  <2>1. CASE i <= Len(u)
    BY <1>0, <2>1
  <2>2. CASE i > Len(u)
    <3>1. i - Len(u) \in 1..z /\ i = Len(u) + (i - Len(u))
      <4>1. \A d, e \in Nat : \A n \in 1..d + e :
              n > d => n - d \in 1..e /\ n = d + (n - d)
        OBVIOUS
      <4>2. i \in 1..Len(u) + z
        BY <1>5, <1>8
      <4> QED
        BY ONLY <1>0, <2>2, <4>1, <4>2, z \in Nat
    <3> QED
      BY <3>1
  <2> QED
    BY <1>0, <1>8, <2>1, <2>2
<1>9. ASSUME NEW i \in 1..Len(w)
      PROVE  /\ w[i].pkt \in 1..Len(sm)
             /\ w[i].pos \in 1..Size(sm, w[i].pkt)
             /\ \A t \in 0..(Size(sm, w[i].pkt) - w[i].pos) :
                  /\ i + t <= Len(w)
                  /\ w[i + t].pkt = w[i].pkt
                  /\ w[i + t].pos = w[i].pos + t
  <2>1. CASE i \in 1..Len(u)
    <3>1. /\ w[i] = u[i] /\ u[i].pkt \in 1..Len(sn)
          /\ Size(sm, u[i].pkt) = Size(sn, u[i].pkt)
          /\ u[i].pos \in 1..Size(sn, u[i].pkt)
          /\ \A t \in 0..(Size(sn, u[i].pkt) - u[i].pos) :
               /\ i + t <= Len(u)
               /\ u[i + t].pkt = u[i].pkt
               /\ u[i + t].pos = u[i].pos + t
      BY <1>5, <1>7, <2>1 DEF Stream
    <3>2. ASSUME NEW t \in 0..(Size(sn, u[i].pkt) - u[i].pos)
          PROVE  w[i + t] = u[i + t] /\ i + t <= Len(w)
      <4>1. i + t <= Len(u) /\ t \in Nat
        BY <1>7, <3>1, <3>2
      <4>2. i + t \in 1..Len(u) /\ i + t <= Len(w)
        BY <1>0, <1>1, <1>5, <2>1, <4>1
      <4> QED
        BY <1>5, <4>2
    <3>3. u[i].pkt \in 1..Len(sm)
      BY <1>0, <1>1, <1>6, <3>1
    <3> QED
      BY <3>1, <3>2, <3>3
  <2>2. ASSUME NEW m \in 1..z, i = Len(u) + m
        PROVE  /\ w[i].pkt \in 1..Len(sm)
               /\ w[i].pos \in 1..Size(sm, w[i].pkt)
               /\ \A t \in 0..(Size(sm, w[i].pkt) - w[i].pos) :
                    /\ i + t <= Len(w)
                    /\ w[i + t].pkt = w[i].pkt
                    /\ w[i + t].pos = w[i].pos + t
    <3>1. w[i].pkt = k /\ w[i].pos = m
      BY <1>5, <2>2
    <3>2. ASSUME NEW t \in 0..(z - m)
          PROVE  /\ i + t <= Len(w)
                 /\ w[i + t].pkt = k /\ w[i + t].pos = m + t
      <4>1. m + t \in 1..z /\ i + t = Len(u) + (m + t) /\ i + t <= Len(w)
        <5>1. Len(w) = Len(u) + z
          BY <1>5
        <5>2. m \in Nat /\ t \in Nat /\ 1 <= m /\ m + t <= z
          BY <2>2, <3>2
        <5>3. i + t = Len(u) + (m + t)
          BY <1>0, <2>2, <5>2
        <5> QED
          BY <1>0, <5>1, <5>2, <5>3
      <4> QED
        BY <1>5, <4>1
    <3>3. k \in 1..Len(sm) /\ m \in 1..Size(sm, k)
      BY <1>0, <1>1, <1>6, <1>7, <2>2
    <3> QED
      BY <1>7, <3>1, <3>2, <3>3
  <2> QED
    BY <1>8, <1>9, <2>1, <2>2
<1>10. ASSUME NEW i \in 1..Len(w), NEW j \in 1..Len(w), i < j
       PROVE  /\ w[i].pkt <= w[j].pkt
              /\ w[i].pkt = w[j].pkt => j - i = w[j].pos - w[i].pos
  <2>1. CASE i \in 1..Len(u) /\ j \in 1..Len(u)
    <3>1. /\ u[i].pkt <= u[j].pkt
          /\ u[i].pkt = u[j].pkt => j - i = u[j].pos - u[i].pos
      BY <1>10, <2>1 DEF Stream
    <3>2. w[i] = u[i] /\ w[j] = u[j]
      BY ONLY <1>5, <2>1
    <3> QED
      BY ONLY <3>1, <3>2
  <2>2. ASSUME i \in 1..Len(u), NEW m \in 1..z, j = Len(u) + m
        PROVE  w[i].pkt < w[j].pkt
    <3>1. w[i] = u[i] /\ w[j].pkt = k
      BY <1>5, <2>2
    <3>2. u[i].pkt \in 1..Len(sn)
      BY <2>2 DEF Stream
    <3>3. \A n \in 1..Len(sn) : n < Len(sn) + 1
      BY ONLY <1>0
    <3> QED
      BY ONLY <1>1, <3>1, <3>2, <3>3
  <2>3. ASSUME NEW m \in 1..z, i = Len(u) + m, NEW l \in 1..z, j = Len(u) + l
        PROVE  w[i].pkt = w[j].pkt /\ w[i].pkt \in Nat /\ j - i = w[j].pos - w[i].pos
    <3>1. w[i].pkt = k /\ w[j].pkt = k /\ w[i].pos = m /\ w[j].pos = l
      BY <1>5, <2>3
    <3>2. \A d \in Nat : \A g, h \in 1..z : (d + h) - (d + g) = h - g
      BY ONLY z \in Nat
    <3>3. (Len(u) + l) - (Len(u) + m) = l - m
      BY ONLY <1>0, <2>3, <3>2
    <3> QED
      BY ONLY <1>1, <2>3, <3>1, <3>3
  <2>4. /\ w[i].pkt \in Nat /\ w[j].pkt \in Nat
    <3>1. w[i].pkt \in 1..k /\ w[j].pkt \in 1..k
      BY <1>6, <1>9, <1>10
    <3>2. \A l \in 1..k : l \in Nat
      OBVIOUS
    <3> QED
      BY ONLY <3>1, <3>2
  <2>5. ASSUME NEW m \in 1..z, i = Len(u) + m
        PROVE  ~(j \in 1..Len(u))
    BY <1>0, <1>1, <1>10, <2>5
  <2>6. CASE i \in 1..Len(u)
    <3>1. CASE j \in 1..Len(u)
      BY <2>1, <2>6, <3>1
    <3>2. CASE \E m \in 1..z : j = Len(u) + m
      <4>1. w[i].pkt < w[j].pkt
        BY <2>2, <2>6, <3>2
      <4> QED
        BY <2>4, <4>1
    <3> QED
      BY <1>8, <1>10, <3>1, <3>2
  <2>7. CASE \E m \in 1..z : i = Len(u) + m
    <3>1. \E l \in 1..z : j = Len(u) + l
      BY <1>8, <1>10, <2>5, <2>7
    <3>2. w[i].pkt = w[j].pkt /\ j - i = w[j].pos - w[i].pos
      BY <2>3, <2>7, <3>1
    <3> QED
      BY <2>4, <3>2
  <2> QED
    BY <1>8, <1>10, <2>6, <2>7
<1>11. Stream(w, sm)
  BY <1>9, <1>10 DEF Stream
<1> QED
  BY <1>1, <1>4, <1>5, <1>6, <1>11

\* A concatenation, by its elements.
LEMMA Joined ==
  ASSUME NEW p \in Seq(Byte), NEW q \in Seq(Byte)
  PROVE  \E e \in Seq(Byte) :
           /\ e = p \o q /\ Len(e) = Len(p) + Len(q)
           /\ \A i \in 1..Len(p) + Len(q) :
                e[i] = IF i <= Len(p) THEN p[i] ELSE q[i - Len(p)]
<1>1. /\ p \o q \in Seq(Byte) /\ Len(p \o q) = Len(p) + Len(q)
      /\ \A i \in 1..Len(p) + Len(q) :
           (p \o q)[i] = IF i <= Len(p) THEN p[i] ELSE q[i - Len(p)]
  BY ConcatProperties
<1> QED
  BY ONLY <1>1

\* Where the bytes are divided makes no difference.
LEMMA Associative ==
  ASSUME NEW p \in Seq(Byte), NEW q \in Seq(Byte), NEW z \in Seq(Byte)
  PROVE  (p \o q) \o z = p \o (q \o z)
<1>0. Len(p) \in Nat /\ Len(q) \in Nat /\ Len(z) \in Nat
  OBVIOUS
<1>1. PICK e \in Seq(Byte) :
        /\ e = p \o q /\ Len(e) = Len(p) + Len(q)
        /\ \A i \in 1..Len(p) + Len(q) : e[i] = IF i <= Len(p) THEN p[i] ELSE q[i - Len(p)]
  BY Joined
<1>2. PICK f \in Seq(Byte) :
        /\ f = q \o z /\ Len(f) = Len(q) + Len(z)
        /\ \A i \in 1..Len(q) + Len(z) : f[i] = IF i <= Len(q) THEN q[i] ELSE z[i - Len(q)]
  BY Joined
<1>3. PICK g \in Seq(Byte) :
        /\ g = e \o z /\ Len(g) = Len(e) + Len(z)
        /\ \A i \in 1..Len(e) + Len(z) : g[i] = IF i <= Len(e) THEN e[i] ELSE z[i - Len(e)]
  BY Joined
<1>4. PICK k \in Seq(Byte) :
        /\ k = p \o f /\ Len(k) = Len(p) + Len(f)
        /\ \A i \in 1..Len(p) + Len(f) : k[i] = IF i <= Len(p) THEN p[i] ELSE f[i - Len(p)]
  BY Joined
<1>5. Len(g) = Len(k)
  BY <1>0, <1>1, <1>2, <1>3, <1>4
<1>6. ASSUME NEW i \in 1..Len(g) PROVE g[i] = k[i]
  <2>1. CASE i <= Len(p)
    BY <1>0, <1>1, <1>2, <1>3, <1>4, <1>6, <2>1
  <2>2. CASE i > Len(p) /\ i <= Len(p) + Len(q)
    BY <1>0, <1>1, <1>2, <1>3, <1>4, <1>6, <2>2
  <2>3. CASE i > Len(p) + Len(q)
    <3>1. i - Len(p) \in 1..Len(q) + Len(z) /\ ~(i - Len(p) <= Len(q))
      BY <1>0, <1>1, <1>3, <1>6, <2>3
    <3>2. (i - Len(p)) - Len(q) = i - Len(e)
      BY <1>0, <1>1, <1>3, <1>6
    <3>3. g[i] = z[i - Len(e)]
      BY <1>0, <1>1, <1>3, <1>6, <2>3
    <3>4. k[i] = f[i - Len(p)]
      BY <1>0, <1>1, <1>2, <1>3, <1>4, <1>6, <2>3
    <3> QED
      BY <1>2, <3>1, <3>2, <3>3, <3>4
  <2> QED
    BY <1>0, <1>6, <2>1, <2>2, <2>3
<1> QED
  BY <1>1, <1>2, <1>3, <1>4, <1>5, <1>6, SeqEqual

-----------------------------------------------------------------------------
(* An iteration of the loop.                                               *)

\* What is known of the stream and the cache, as constants.
LEMMA Known ==
  ASSUME TypeOK, StreamInv
  PROVE  /\ HeadSize \in Nat \ {0} /\ MaxRx \in Nat /\ MaxLen \in Nat
         /\ cbuf \in Seq(Byte) /\ left \in Seq(Byte) /\ wire \in Seq(Byte)
         /\ cbuf \o left \in Seq(Byte) /\ Unfinished \in Seq(Byte)
         /\ Len(cbuf) \in Nat /\ Len(left) \in Nat /\ Len(wire) \in Nat
         /\ Len(cbuf \o left) = Len(cbuf) + Len(left)
         /\ Len(Unfinished) = Len(cbuf) + Len(left) + Len(wire)
         /\ Front(Unfinished, Len(cbuf) + Len(left)) = cbuf \o left
         /\ Rest(Unfinished, Len(cbuf) + Len(left)) = wire
         /\ \A i \in 1..(Len(cbuf) + Len(left)) : Unfinished[i] = (cbuf \o left)[i]
         /\ Len(sent) \in Nat
         /\ \A k \in 1..Len(sent) : sent[k].len \in 0..MaxLen /\ Size(sent, k) \in Nat
<1>1. /\ HeadSize \in Nat \ {0} /\ MaxRx \in Nat /\ MaxLen \in Nat
      /\ Lengths \subseteq 0..MaxLen
  BY DbPackAssumption
<1>2. /\ cbuf \in Seq(Byte) /\ left \in Seq(Byte) /\ wire \in Seq(Byte)
      /\ sent \in Seq(Packets)
  BY DEF TypeOK
<1>3. Len(cbuf) \in Nat /\ Len(left) \in Nat /\ Len(wire) \in Nat /\ Len(sent) \in Nat
  BY <1>2
<1>4. cbuf \o left \in Seq(Byte) /\ Len(cbuf \o left) = Len(cbuf) + Len(left)
  BY <1>2, ConcatProperties
<1>5. PICK c \in Seq(Byte) : c = cbuf \o left /\ Len(c) = Len(cbuf) + Len(left)
  BY ONLY <1>4
<1>6. /\ Unfinished = c \o wire /\ c \o wire \in Seq(Byte)
      /\ Len(c \o wire) = Len(c) + Len(wire)
  BY <1>2, <1>5, ConcatProperties DEF Unfinished
<1>7. /\ Front(c \o wire, Len(c)) = c /\ Rest(c \o wire, Len(c)) = wire
      /\ \A i \in 1..Len(c) : (c \o wire)[i] = c[i]
  BY <1>2, CutConcat
<1>8. \A k \in 1..Len(sent) : sent[k].len \in 0..MaxLen
  <2>1. \A k \in 1..Len(sent) : sent[k] \in Packets
    BY <1>2
  <2> QED
    BY <1>1, <2>1 DEF Packets
<1>9. \A k \in 1..Len(sent) : Size(sent, k) \in Nat
  BY <1>1, <1>8 DEF Size
<1> QED
  BY <1>1, <1>2, <1>3, <1>4, <1>5, <1>6, <1>7, <1>8, <1>9

\* A header reads the same wherever the data is cut behind it.
LEMMA HeaderRead ==
  ASSUME NEW s, NEW c, HeadSize \in Nat \ {0}, s[1] = c[1], s[HeadSize] = c[HeadSize]
  PROVE  MagicOK(s) = MagicOK(c) /\ TotalSize(s) = TotalSize(c)
  BY DEF MagicOK, TotalSize, LengthField

\* It makes no difference how a packet is divided between cache and data: an
\* iteration keeps all, drops all, takes a whole packet off the front, or
\* overruns the cache with a packet that does not fit.
LEMMA UnpackEffect ==
  ASSUME TypeOK, StreamInv, CacheInv, Unpack, NEW c, c = cbuf \o left
  PROVE  /\ UNCHANGED <<sent, ended, wire>>
         /\ \/ /\ cbuf' = c /\ left' = <<>> /\ delivered' = delivered
               /\ Len(c) >= HeadSize => MagicOK(c) /\ Len(c) < TotalSize(c)
               /\ overrun' = overrun
            \/ /\ Len(c) >= HeadSize /\ ~MagicOK(c)
               /\ cbuf' = <<>> /\ left' = <<>> /\ delivered' = delivered
               /\ overrun' = overrun
            \/ /\ MagicOK(c) /\ TotalSize(c) \in HeadSize..Len(c)
               /\ delivered' = Append(delivered, Rest(Front(c, TotalSize(c)), HeadSize))
               /\ cbuf' = <<>> /\ left' = Rest(c, TotalSize(c))
               /\ TotalSize(c) <= Capacity /\ Len(left') <= Len(left)
               /\ overrun' = overrun
            \/ /\ Len(c) >= HeadSize /\ MagicOK(c) /\ TotalSize(c) > Capacity
               /\ cbuf' = cbuf /\ left' = left /\ delivered' = delivered
               /\ overrun' = TRUE
<1>0. /\ HeadSize \in Nat \ {0} /\ c \in Seq(Byte) /\ Len(c) = Len(cbuf) + Len(left)
      /\ cbuf \in Seq(Byte) /\ left \in Seq(Byte)
      /\ Len(cbuf) \in Nat /\ Len(left) \in Nat
  BY Known
<1>5. MaxRx \in Nat /\ Capacity = MaxRx + HeadSize /\ Len(left) <= MaxRx
  BY Known DEF Capacity, TypeOK
<1>1. UNCHANGED <<sent, ended, wire>> /\ (FromData \/ FromCache)
  BY DEF Unpack
<1>2. ASSUME Len(c) >= HeadSize
      PROVE  TotalSize(c) \in Nat /\ TotalSize(c) >= HeadSize
  <2>1. HeadSize \in 1..Len(c) /\ HeadSize \in 1..Len(Unfinished)
    BY <1>0, <1>2, Known
  <2>2. Unfinished[HeadSize] = c[HeadSize]
    BY <1>0, <2>1, Known
  <2>3. c[HeadSize].pkt \in 1..Len(sent)
    BY <2>1, <2>2 DEF StreamInv, Stream
  <2>4. PICK l \in Nat : l = sent[c[HeadSize].pkt].len
    <3>1. MaxLen \in Nat /\ \A k \in 1..Len(sent) : sent[k].len \in 0..MaxLen
      BY Known
    <3>2. sent[c[HeadSize].pkt].len \in 0..MaxLen
      BY ONLY <2>3, <3>1
    <3>3. \A l \in 0..MaxLen : l \in Nat
      BY <3>1
    <3> QED
      BY ONLY <3>2, <3>3
  <2>5. TotalSize(c) = HeadSize + l
    BY <2>4 DEF TotalSize, LengthField
  <2>6. HeadSize + l \in Nat /\ HeadSize + l >= HeadSize
    <3>1. \A d, e \in Nat : d + e \in Nat /\ d + e >= d
      OBVIOUS
    <3>2. HeadSize \in Nat /\ l \in Nat
      BY <1>0, <2>4
    <3> QED
      BY ONLY <3>1, <3>2
  <2> QED
    BY ONLY <2>5, <2>6
<1>3. CASE FromData
  <2>1. cbuf = <<>> /\ c = left
    BY <1>0, <1>3, ConcatEmptySeq DEF FromData
  <2>2. CASE Len(left) < HeadSize /\ CacheAll(left)
    <3>1. ~(Len(left) > Capacity)
      BY <1>0, <1>5, <2>2
    <3> QED
      BY <1>0, <1>1, <2>1, <2>2, <3>1 DEF CacheAll
  <2>3. CASE Len(left) >= HeadSize /\ ~MagicOK(left) /\ DropAll
    BY <1>1, <2>1, <2>3 DEF DropAll
  <2>4. CASE /\ Len(left) >= HeadSize /\ MagicOK(left)
             /\ Len(left) < TotalSize(left) /\ CacheAll(left)
    <3>1. ~(Len(left) > Capacity)
      BY <1>0, <1>5
    <3> QED
      BY <1>1, <2>1, <2>4, <3>1 DEF CacheAll
  <2>5. CASE /\ Len(left) >= HeadSize /\ MagicOK(left)
             /\ Len(left) >= TotalSize(left)
             /\ HandOver(Front(left, TotalSize(left)), Rest(left, TotalSize(left)))
    <3>1. TotalSize(c) \in HeadSize..Len(c) /\ TotalSize(c) <= Capacity
      BY <1>0, <1>2, <1>5, <2>1, <2>5
    <3>2. left' = Rest(c, TotalSize(c))
      BY <2>1, <2>5 DEF HandOver
    <3>3. Len(left') <= Len(left)
      <4>1. PICK z \in 0..Len(c) : z = TotalSize(c)
        BY <1>0, <3>1
      <4>2. Len(Rest(c, z)) = Len(c) - z
        BY <1>0, Cut
      <4> QED
        BY <1>0, <2>1, <3>2, <4>1, <4>2
    <3> QED
      BY <1>1, <2>1, <2>5, <3>1, <3>3 DEF HandOver
  <2> QED
    BY <1>3, <2>2, <2>3, <2>4, <2>5 DEF FromData
<1>4. CASE FromCache
  <2>0. PICK h \in Nat : /\ h = HeadMissing
                         /\ Len(cbuf) < HeadSize => h = HeadSize - Len(cbuf)
                         /\ Len(cbuf) >= HeadSize => h = 0
    <3>1. CASE Len(cbuf) < HeadSize
      <4>1. HeadMissing = HeadSize - Len(cbuf)
        BY <3>1 DEF HeadMissing
      <4>2. HeadSize - Len(cbuf) \in Nat /\ ~(Len(cbuf) >= HeadSize)
        BY <1>0, <3>1
      <4> QED
        BY ONLY <4>1, <4>2
    <3>2. CASE ~(Len(cbuf) < HeadSize)
      <4>1. HeadMissing = 0
        BY <3>2 DEF HeadMissing
      <4> QED
        BY <3>2, <4>1
    <3> QED
      BY <3>1, <3>2
  <2>1. CASE Len(left) < h /\ CacheAll(cbuf \o left)
    <3>1. Len(c) < HeadSize /\ ~(Len(cbuf \o left) > Capacity)
      BY <1>0, <1>5, <2>0, <2>1
    <3> QED
      BY <1>0, <1>1, <2>1, <3>1 DEF CacheAll
  <2>2. CASE /\ Len(left) >= h
             /\ WithHeader(cbuf \o Front(left, h), Rest(left, h))
    <3>0. h \in 0..Len(left)
      BY <1>0, <2>0, <2>2
    <3>1. PICK a \in Seq(Byte), r \in Seq(Byte) :
            /\ a = Front(left, h) /\ r = Rest(left, h) /\ Len(a) = h /\ a \o r = left
            /\ Len(r) = Len(left) - h
      <4>1. /\ Front(left, h) \in Seq(Byte) /\ Rest(left, h) \in Seq(Byte)
            /\ Len(Front(left, h)) = h /\ Front(left, h) \o Rest(left, h) = left
            /\ Len(Rest(left, h)) = Len(left) - h
        <5>1. left \in Seq(Byte) /\ h \in 0..Len(left)
          BY <1>0, <3>0
        <5> QED
          BY ONLY <5>1, Cut
      <4> QED
        BY ONLY <4>1
    <3>2. PICK s \in Seq(Byte) : s = cbuf \o a /\ Len(s) = Len(cbuf) + h
      <4>1. cbuf \o a \in Seq(Byte) /\ Len(cbuf \o a) = Len(cbuf) + h
        <5>1. cbuf \in Seq(Byte) /\ a \in Seq(Byte) /\ Len(a) = h
          BY <1>0, <3>1
        <5> QED
          BY ONLY <5>1, ConcatProperties
      <4> QED
        BY ONLY <4>1
    <3>3. s \o r = c
      <4>1. cbuf \in Seq(Byte) /\ a \in Seq(Byte) /\ r \in Seq(Byte)
        BY <1>0, <3>1
      <4>2. (cbuf \o a) \o r = cbuf \o (a \o r)
        BY ONLY <4>1, Associative
      <4> QED
        BY <3>1, <3>2, <4>2
    <3>4. Len(s) >= HeadSize /\ Len(r) \in Nat /\ Len(c) = Len(s) + Len(r) /\ Len(s) \in Nat
      <4>1. Len(s) >= HeadSize
        BY <1>0, <2>0, <3>2
      <4>2. Len(r) \in Nat /\ Len(s) \in Nat /\ Len(s \o r) = Len(s) + Len(r)
        BY ConcatProperties
      <4> QED
        BY <3>3, <4>1, <4>2
    <3>5. MagicOK(s) = MagicOK(c) /\ TotalSize(s) = TotalSize(c)
      <4>1. \A i \in 1..Len(s) : c[i] = s[i]
        BY <3>3, CutConcat
      <4>2. 1 \in 1..Len(s) /\ HeadSize \in 1..Len(s)
        BY <1>0, <3>4
      <4> QED
        BY <1>0, <4>1, <4>2, HeaderRead
    <3>6. TotalSize(c) \in Nat /\ TotalSize(c) >= HeadSize /\ Len(c) >= HeadSize
      BY <1>0, <1>2, <3>4
    <3>7. WithHeader(s, r)
      BY <2>2, <3>1, <3>2
    <3>8. CASE ~MagicOK(s) /\ DropAll
      BY <1>1, <3>5, <3>6, <3>8 DEF DropAll
    <3>9. CASE MagicOK(s) /\ Len(r) < Missing(s) /\ CacheAll(s \o r)
      <4>1. Len(c) < TotalSize(c)
        BY <3>4, <3>5, <3>6, <3>9 DEF Missing
      <4>2. CASE Len(s \o r) > Capacity /\ Overrun
        <5>1. TotalSize(c) > Capacity
          <6>1. Len(c) > Capacity /\ Capacity \in Nat /\ Len(c) \in Nat
            BY <1>0, <1>5, <3>3, <4>2
          <6> QED
            BY <3>6, <4>1, <6>1
        <5> QED
          BY <1>1, <3>5, <3>6, <3>9, <4>2, <5>1 DEF Overrun
      <4>3. CASE ~(Len(s \o r) > Capacity /\ Overrun)
        BY <1>1, <3>3, <3>5, <3>9, <4>1, <4>3 DEF CacheAll
      <4> QED
        BY <4>2, <4>3
    <3>11. CASE MagicOK(s) /\ TotalSize(s) > Capacity /\ Overrun
      BY <1>1, <3>5, <3>6, <3>11 DEF Overrun
    <3>10. CASE /\ MagicOK(s) /\ Len(r) >= Missing(s) /\ TotalSize(s) <= Capacity
                /\ HandOver(s \o Front(r, Missing(s)), Rest(r, Missing(s)))
      <4>1. Len(s) <= TotalSize(s)
        <5>1. CASE Len(cbuf) < HeadSize
          BY <1>0, <2>0, <3>2, <3>5, <3>6, <5>1
        <5>2. CASE Len(cbuf) >= HeadSize
          <6>1. h = 0 /\ Len(s) = Len(cbuf)
            BY <1>0, <2>0, <3>2, <5>2
          <6>2. \A i \in 1..Len(cbuf) : s[i] = cbuf[i]
            BY <1>0, <3>2, CutConcat
          <6>3. 1 \in 1..Len(cbuf) /\ HeadSize \in 1..Len(cbuf)
            BY <1>0, <5>2
          <6>4. TotalSize(s) = TotalSize(cbuf)
            BY <1>0, <6>2, <6>3, HeaderRead
          <6>5. Len(cbuf) < TotalSize(cbuf)
            BY <5>2 DEF CacheInv
          <6> QED
            BY <1>0, <3>5, <3>6, <6>1, <6>4, <6>5
        <5> QED
          BY <1>0, <5>1, <5>2
      <4>2. PICK m \in Nat : m = Missing(s) /\ m = TotalSize(c) - Len(s)
        BY <3>4, <3>5, <3>6, <4>1 DEF Missing
      <4>3. m \in 0..Len(r)
        BY <3>4, <3>10, <4>2
      <4>4. PICK x \in Seq(Byte), y \in Seq(Byte) :
              /\ x = Front(r, m) /\ y = Rest(r, m) /\ Len(x) = m /\ x \o y = r
              /\ Len(y) = Len(r) - m
        <5>1. /\ Front(r, m) \in Seq(Byte) /\ Rest(r, m) \in Seq(Byte)
              /\ Len(Front(r, m)) = m /\ Front(r, m) \o Rest(r, m) = r
              /\ Len(Rest(r, m)) = Len(r) - m
          BY <4>3, Cut
        <5> QED
          BY ONLY <5>1
      <4>5. PICK q \in Seq(Byte) : q = s \o x /\ Len(q) = TotalSize(c)
        <5>1. s \o x \in Seq(Byte) /\ Len(s \o x) = Len(s) + m
          BY <4>4, ConcatProperties
        <5>2. Len(s) + m = TotalSize(c)
          BY <3>4, <3>6, <4>2
        <5> QED
          BY ONLY <5>1, <5>2
      <4>6. q \o y = c
        <5>1. (s \o x) \o y = s \o (x \o y)
          <6>1. s \in Seq(Byte) /\ x \in Seq(Byte) /\ y \in Seq(Byte)
            BY <3>2, <4>4
          <6> QED
            BY ONLY <6>1, Associative, ZenonT(60)
        <5> QED
          BY ONLY <3>3, <4>4, <4>5, <5>1
      <4>7. Front(c, TotalSize(c)) = q /\ Rest(c, TotalSize(c)) = y
        <5>1. Front(q \o y, Len(q)) = q /\ Rest(q \o y, Len(q)) = y
          <6>1. q \in Seq(Byte) /\ y \in Seq(Byte)
            BY <4>4, <4>5
          <6> QED
            BY ONLY <6>1, CutConcat
        <5> QED
          BY ONLY <4>5, <4>6, <5>1
      <4>8. TotalSize(c) \in HeadSize..Len(c)
        BY <1>0, <3>4, <3>6, <4>2, <4>3
      <4>9. HandOver(q, y)
        BY <3>10, <4>2, <4>4, <4>5
      <4> QED
        <5>1. left' = y /\ Len(y) <= Len(left)
          <6>1. Len(left) \in Nat /\ Len(r) = Len(left) - h /\ Len(y) = Len(r) - m
            BY <1>0, <3>1, <4>4
          <6>2. Len(y) <= Len(left)
            BY ONLY <6>1, h \in Nat, m \in Nat
          <6> QED
            BY <4>9, <6>2 DEF HandOver
        <5> QED
          BY <1>1, <3>5, <3>10, <4>7, <4>8, <4>9, <5>1 DEF HandOver
    <3> QED
      BY <3>7, <3>8, <3>9, <3>10, <3>11 DEF WithHeader
  <2> QED
    BY <1>4, <2>0, <2>1, <2>2 DEF FromCache
<1> QED
  BY <1>1, <1>3, <1>4
-----------------------------------------------------------------------------
(* What a step does to the bytes that are not handed over yet.             *)

\* They move, or nothing happens.
Moved == Unfinished' = Unfinished /\ UNCHANGED <<sent, ended, delivered>>

\* A packet p is put behind them.
Packed(p) ==
  /\ p \in Packets /\ Len(sent) < MaxPackets
  /\ sent' = Append(sent, p)
  /\ Unfinished' = Unfinished \o Bytes(Len(sent) + 1, 1, HeadSize + p.len)
  /\ UNCHANGED <<ended, delivered>>

\* They go with their session.
Emptied == Unfinished' = <<>> /\ ended' = ended + 1 /\ UNCHANGED <<sent, delivered>>

\* The first n of them are dropped for a wrong magic code.
Dropped(n) ==
  /\ n \in HeadSize..Len(Unfinished) /\ ~MagicOK(Unfinished)
  /\ Unfinished' = Rest(Unfinished, n)
  /\ UNCHANGED <<sent, ended, delivered>>

\* Packet k is taken off the front and handed over.
Taken(k) ==
  /\ k \in 1..Len(sent) /\ Fits(k)
  /\ Unfinished # <<>> /\ Unfinished[1].pkt = k /\ Unfinished[1].pos = 1
  /\ Size(sent, k) \in HeadSize..Len(Unfinished)
  /\ Unfinished' = Rest(Unfinished, Size(sent, k))
  /\ delivered' = Append(delivered, PayloadOf(k))
  /\ UNCHANGED <<sent, ended>>

\* What the stream says of a packet whose first byte comes first.
LEMMA FirstPacket ==
  ASSUME TypeOK, StreamInv, Len(Unfinished) >= 1, Unfinished[1].pos = 1, 
         NEW k, k = Unfinished[1].pkt
  PROVE  /\ k \in 1..Len(sent) /\ k \in 1..MaxPackets
         /\ sent[k].len \in 0..MaxLen /\ Size(sent, k) \in HeadSize..Len(Unfinished)
         /\ \A i \in 1..Size(sent, k) : Unfinished[i] = [pkt |-> k, pos |-> i]
<1>0. /\ HeadSize \in Nat \ {0} /\ MaxLen \in Nat /\ Len(Unfinished) \in Nat
      /\ Unfinished \in Seq(Byte)
      /\ \A l \in 1..Len(sent) : sent[l].len \in 0..MaxLen
  <2>1. /\ HeadSize \in Nat \ {0} /\ MaxLen \in Nat /\ Unfinished \in Seq(Byte)
    BY Known
  <2>2. \A l \in 1..Len(sent) : sent[l].len \in 0..MaxLen
    BY Known
  <2>3. Len(Unfinished) \in Nat
    BY <2>1
  <2> QED
    BY ONLY <2>1, <2>2, <2>3
<1>1. 1 \in 1..Len(Unfinished)
  BY <1>0
<1>2. /\ k \in 1..Len(sent)
      /\ \A t \in 0..(Size(sent, k) - 1) :
           /\ 1 + t <= Len(Unfinished)
           /\ Unfinished[1 + t].pkt = k
           /\ Unfinished[1 + t].pos = 1 + t
  BY <1>1 DEF StreamInv, Stream
<1>3. \A i \in 1..Len(Unfinished) : Unfinished[i] \in Byte
  BY <1>0
<1>4. k \in 1..MaxPackets
  BY <1>1, <1>3 DEF Byte
<1>5. sent[k].len \in 0..MaxLen
  BY <1>0, <1>2
<1>6. PICK z \in Nat : z = Size(sent, k) /\ z >= HeadSize
  <2>1. \A l \in 0..MaxLen : HeadSize + l \in Nat /\ HeadSize + l >= HeadSize
    BY <1>0
  <2>2. Size(sent, k) \in Nat /\ Size(sent, k) >= HeadSize
    BY <1>5, <2>1 DEF Size
  <2> QED
    BY ONLY <2>2
<1>7. \A i \in 1..z : /\ i \in 1..Len(Unfinished)
                      /\ Unfinished[i].pkt = k /\ Unfinished[i].pos = i
  <2>1. ASSUME NEW i \in 1..z
        PROVE  /\ i \in 1..Len(Unfinished)
               /\ Unfinished[i].pkt = k /\ Unfinished[i].pos = i
    <3>1. i - 1 \in 0..(z - 1) /\ 1 + (i - 1) = i
      BY <1>6, <2>1
    <3>2. i <= Len(Unfinished) /\ Unfinished[i].pkt = k /\ Unfinished[i].pos = i
      BY <1>2, <1>6, <3>1
    <3> QED
      BY <1>0, <2>1, <3>2
  <2> QED
    BY <2>1
<1>8. z \in HeadSize..Len(Unfinished)
  <2>1. z \in 1..z
    BY <1>0, <1>6
  <2>2. z \in 1..Len(Unfinished)
    BY <1>7, <2>1
  <2> QED
    BY <1>0, <1>6, <2>2
<1>9. ASSUME NEW i \in 1..z PROVE Unfinished[i] = [pkt |-> k, pos |-> i]
  <2>1. Unfinished[i] \in Byte /\ Unfinished[i].pkt = k /\ Unfinished[i].pos = i
    BY <1>3, <1>7, <1>9
  <2>2. \A x \in Byte : x = [pkt |-> x.pkt, pos |-> x.pos]
    BY DEF Byte
  <2> QED
    BY <2>1, <2>2
<1> QED
  BY <1>2, <1>4, <1>5, <1>6, <1>8, <1>9

\* What recv_cb gets is the payload that was sent.
LEMMA Payload ==
  ASSUME TypeOK, StreamInv, Len(Unfinished) >= 1, Unfinished[1].pos = 1,
         NEW k, k = Unfinished[1].pkt,
         NEW c \in Seq(Byte), Len(c) >= Size(sent, k), Len(c) <= Len(Unfinished),
         \A i \in 1..Len(c) : Unfinished[i] = c[i]
  PROVE  Rest(Front(c, Size(sent, k)), HeadSize) = PayloadOf(k)
<1>0. /\ HeadSize \in Nat \ {0} /\ MaxLen \in Nat /\ Len(Unfinished) \in Nat
  BY Known
<1>1. /\ k \in 1..MaxPackets /\ sent[k].len \in 0..MaxLen
      /\ \A i \in 1..Size(sent, k) : Unfinished[i] = [pkt |-> k, pos |-> i]
  BY FirstPacket
<1>2. PICK l \in Nat, z \in Nat : /\ l = sent[k].len /\ z = HeadSize + l /\ z = Size(sent, k)
                                  /\ l <= MaxLen
  <2>1. \A l \in 0..MaxLen : l \in Nat /\ HeadSize + l \in Nat /\ l <= MaxLen
    BY <1>0
  <2>2. Size(sent, k) = HeadSize + sent[k].len
    BY DEF Size
  <2> QED
    BY ONLY <1>1, <2>1, <2>2
<1>3. z \in 0..Len(c)
  BY <1>2
<1>4. PICK p \in Seq(Byte) : /\ p = Front(c, z) /\ Len(p) = z
                             /\ \A i \in 1..z : p[i] = c[i]
  <2>1. /\ Front(c, z) \in Seq(Byte) /\ Len(Front(c, z)) = z
        /\ \A i \in 1..z : Front(c, z)[i] = c[i]
    BY <1>3, Cut
  <2> QED
    BY ONLY <2>1
<1>5. HeadSize \in 0..Len(p)
  BY <1>0, <1>2, <1>4
<1>6. PICK q \in Seq(Byte) : /\ q = Rest(p, HeadSize) /\ Len(q) = Len(p) - HeadSize
                             /\ \A i \in 1..(Len(p) - HeadSize) : q[i] = p[HeadSize + i]
  <2>1. /\ Rest(p, HeadSize) \in Seq(Byte) /\ Len(Rest(p, HeadSize)) = Len(p) - HeadSize
        /\ \A i \in 1..(Len(p) - HeadSize) : Rest(p, HeadSize)[i] = p[HeadSize + i]
    BY <1>5, Cut
  <2> QED
    BY ONLY <2>1
<1>7. Len(q) = l /\ Len(p) - HeadSize = l
  BY <1>0, <1>2, <1>4, <1>6
<1>8. ASSUME NEW i \in 1..l PROVE q[i] = [pkt |-> k, pos |-> HeadSize + i]
  <2>1. HeadSize + i \in 1..z /\ HeadSize + i \in 1..Len(c)
    <3>1. PICK d \in Nat : d = HeadSize
      BY <1>0
    <3>2. z = d + l /\ l \in Nat /\ i \in 1..l
      BY <1>2, <1>8, <3>1
    <3>3. d + i \in 1..z
      BY ONLY <3>1, <3>2
    <3>4. \A x \in 1..z : x \in 1..Len(c)
      BY <1>3
    <3> QED
      BY ONLY <3>1, <3>3, <3>4
  <2>2. q[i] = p[HeadSize + i]
    BY <1>6, <1>7, <1>8
  <2>3. p[HeadSize + i] = c[HeadSize + i]
    BY <1>4, <2>1
  <2>4. c[HeadSize + i] = Unfinished[HeadSize + i]
    BY <2>1
  <2>5. Unfinished[HeadSize + i] = [pkt |-> k, pos |-> HeadSize + i]
    BY <1>1, <1>2, <2>1
  <2> QED
    BY ONLY <2>2, <2>3, <2>4, <2>5
<1>9. PayloadOf(k) = [i \in 1..l |-> [pkt |-> k, pos |-> HeadSize + i]]
  <2>1. (HeadSize + l) - (HeadSize + 1) + 1 = l
    <3>1. \A d, e \in Nat : (d + e) - (d + 1) + 1 = e
      OBVIOUS
    <3>2. HeadSize \in Nat /\ l \in Nat
      BY <1>0, <1>2
    <3> QED
      BY ONLY <3>1, <3>2
  <2>2. \A i \in 1..l : (HeadSize + 1) + i - 1 = HeadSize + i
    BY <1>0, <1>2
  <2>3. PayloadOf(k) = [i \in 1..((HeadSize + l) - (HeadSize + 1) + 1) |->
                          [pkt |-> k, pos |-> (HeadSize + 1) + i - 1]]
    BY <1>2 DEF PayloadOf, Bytes
  <2> QED
    BY <2>1, <2>2, <2>3
<1>10. \A i \in 1..l : [pkt |-> k, pos |-> HeadSize + i] \in Byte
  <2>1. \A i \in 1..l : HeadSize + i \in 1..(HeadSize + MaxLen)
    BY <1>0, <1>2
  <2> QED
    BY <1>1, <2>1 DEF Byte
<1>11. PICK w \in Seq(Byte) : /\ w = PayloadOf(k) /\ Len(w) = l
                              /\ \A i \in 1..l : w[i] = [pkt |-> k, pos |-> HeadSize + i]
  <2>1. PICK w : w = [i \in 1..l |-> [pkt |-> k, pos |-> HeadSize + i]]
    OBVIOUS
  <2>2. w \in Seq(Byte) /\ Len(w) = l /\ \A i \in 1..l : w[i] = [pkt |-> k, pos |-> HeadSize + i]
    <3>1. \A i \in 1..l : w[i] = [pkt |-> k, pos |-> HeadSize + i]
      BY ONLY <2>1
    <3>2. \A i \in 1..l : w[i] \in Byte
      BY ONLY <1>10, <3>1
    <3>3. DOMAIN w = 1..l /\ w = [i \in 1..l |-> w[i]]
      BY ONLY <2>1
    <3>4. w \in Seq(Byte) /\ Len(w) = l
      <4>1. l \in Nat
        BY <1>2
      <4>2. w \in [1..l -> Byte]
        BY ONLY <3>2, <3>3
      <4> QED
        BY ONLY <4>1, <4>2
    <3> QED
      BY ONLY <3>1, <3>4
  <2> QED
    BY ONLY <1>9, <2>1, <2>2
<1>12. q = w
  <2>1. \A i \in 1..l : q[i] = w[i]
    BY ONLY <1>8, <1>11
  <2> QED
    BY <1>7, <1>11, <2>1, SeqEqual
<1> QED
  BY <1>2, <1>4, <1>6, <1>11, <1>12

\* An iteration of unpack, seen from the whole stream.
LEMMA UnpackStream ==
  ASSUME TypeOK, StreamInv, CacheInv, Unpack
  PROVE  Moved \/ (\E n : Dropped(n)) \/ (\E k : Taken(k))
<1>0. PICK c \in Seq(Byte) :
        /\ c = cbuf \o left /\ Len(c) = Len(cbuf) + Len(left) /\ Len(c) \in Nat
        /\ wire \in Seq(Byte) /\ Unfinished = c \o wire
        /\ Len(Unfinished) = Len(c) + Len(wire) /\ Len(wire) \in Nat
        /\ Rest(Unfinished, Len(c)) = wire
        /\ \A i \in 1..Len(c) : Unfinished[i] = c[i]
  <2>1. PICK c \in Seq(Byte) : c = cbuf \o left /\ Len(c) = Len(cbuf) + Len(left)
    <3>1. cbuf \o left \in Seq(Byte) /\ Len(cbuf \o left) = Len(cbuf) + Len(left)
      BY Known
    <3> QED
      BY ONLY <3>1
  <2>2. /\ wire \in Seq(Byte) /\ Unfinished = c \o wire
        /\ Len(Unfinished) = Len(cbuf) + Len(left) + Len(wire) /\ Len(wire) \in Nat
        /\ Rest(Unfinished, Len(cbuf) + Len(left)) = wire
        /\ \A i \in 1..(Len(cbuf) + Len(left)) : Unfinished[i] = (cbuf \o left)[i]
    BY <2>1, Known DEF Unfinished
  <2>3. Len(c) \in Nat
    BY <2>1
  <2> QED
    BY ONLY <2>1, <2>2, <2>3
<1>1. HeadSize \in Nat \ {0} /\ Len(Unfinished) \in Nat
  BY Known
<1>2. UNCHANGED <<sent, ended, wire>>
  BY UnpackEffect
<1>3. CASE cbuf' = c /\ left' = <<>> /\ delivered' = delivered
  <2>1. c \o <<>> = c
    BY <1>0, ConcatEmptySeq
  <2>2. Unfinished' = (c \o <<>>) \o wire
    BY <1>2, <1>3 DEF Unfinished
  <2> QED
    BY <1>0, <1>2, <1>3, <2>1, <2>2 DEF Moved
<1>4. CASE /\ Len(c) >= HeadSize /\ ~MagicOK(c)
           /\ cbuf' = <<>> /\ left' = <<>> /\ delivered' = delivered
  <2>1. Unfinished' = wire
    <3>1. Unfinished' = (<<>> \o <<>>) \o wire
      BY <1>2, <1>4 DEF Unfinished
    <3>2. <<>> \o <<>> = <<>> /\ <<>> \o wire = wire
      BY <1>0, ConcatEmptySeq
    <3> QED
      BY ONLY <3>1, <3>2
  <2>2. Len(c) \in HeadSize..Len(Unfinished)
    BY <1>0, <1>1, <1>4
  <2>3. MagicOK(c) = MagicOK(Unfinished)
    <3>1. 1 \in 1..Len(c) /\ HeadSize \in 1..Len(c)
      BY <1>0, <1>1, <1>4
    <3> QED
      BY <1>0, <1>1, <3>1, HeaderRead
  <2>4. Dropped(Len(c))
    BY <1>0, <1>2, <1>4, <2>1, <2>2, <2>3 DEF Dropped
  <2> QED
    BY <2>4
<1>5. CASE /\ MagicOK(c) /\ TotalSize(c) \in HeadSize..Len(c)
           /\ delivered' = Append(delivered, Rest(Front(c, TotalSize(c)), HeadSize))
           /\ cbuf' = <<>> /\ left' = Rest(c, TotalSize(c))
           /\ TotalSize(c) <= Capacity
  <2>0. PICK z \in Nat : z = TotalSize(c) /\ HeadSize <= z /\ z <= Len(c)
    <3>1. \A z \in HeadSize..Len(c) : z \in Nat /\ HeadSize <= z /\ z <= Len(c)
      BY <1>0, <1>1
    <3> QED
      BY ONLY <1>5, <3>1
  <2>1. /\ 1 \in 1..Len(c) /\ HeadSize \in 1..Len(c) /\ Len(Unfinished) >= 1
        /\ Len(c) <= Len(Unfinished)
    BY <1>0, <1>1, <2>0
  <2>2. PICK k : k = Unfinished[1].pkt
    OBVIOUS
  <2>3. Unfinished[1].pos = 1 /\ sent[k].good
    BY <1>0, <1>5, <2>1, <2>2 DEF MagicOK
  <2>4. /\ k \in 1..Len(sent) /\ Size(sent, k) \in HeadSize..Len(Unfinished)
        /\ \A i \in 1..Size(sent, k) : Unfinished[i] = [pkt |-> k, pos |-> i]
    BY <2>1, <2>2, <2>3, FirstPacket
  <2>5. z = Size(sent, k)
    <3>1. HeadSize \in 1..Size(sent, k)
      BY <1>1, <2>4
    <3>2. Unfinished[HeadSize] = [pkt |-> k, pos |-> HeadSize]
      BY <2>4, <3>1
    <3>3. c[HeadSize].pkt = k
      BY <1>0, <2>1, <3>2
    <3> QED
      BY <2>0, <3>3 DEF TotalSize, LengthField, Size
  <2>6. delivered' = Append(delivered, PayloadOf(k))
    <3>1. Len(c) >= Size(sent, k)
      BY <2>0, <2>5
    <3>2. Rest(Front(c, Size(sent, k)), HeadSize) = PayloadOf(k)
      BY <1>0, <2>1, <2>2, <2>3, <3>1, Payload
    <3> QED
      BY <1>5, <2>0, <2>5, <3>2
  <2>7. Unfinished' = Rest(Unfinished, z)
    <3>0. z \in 0..Len(c)
      BY <2>0
    <3>1. PICK q \in Seq(Byte), y \in Seq(Byte) :
            q = Front(c, z) /\ y = Rest(c, z) /\ Len(q) = z /\ q \o y = c
      <4>1. /\ Front(c, z) \in Seq(Byte) /\ Rest(c, z) \in Seq(Byte)
            /\ Len(Front(c, z)) = z /\ Front(c, z) \o Rest(c, z) = c
        BY <3>0, Cut
      <4> QED
        BY ONLY <4>1
    <3>2. Unfinished' = (<<>> \o y) \o wire
      BY <1>2, <1>5, <2>0, <3>1 DEF Unfinished
    <3>3. <<>> \o y = y
      BY <3>1, ConcatEmptySeq
    <3>4. (q \o y) \o wire = q \o (y \o wire)
      <4>1. q \in Seq(Byte) /\ y \in Seq(Byte) /\ wire \in Seq(Byte)
        BY <1>0, <3>1
      <4> QED
        BY ONLY <4>1, Associative
    <3>5. y \o wire \in Seq(Byte)
      BY <1>0, <3>1, ConcatProperties
    <3>6. Rest(q \o (y \o wire), Len(q)) = y \o wire
      BY <3>1, <3>5, CutConcat
    <3> QED
      BY ONLY <1>0, <3>1, <3>2, <3>3, <3>4, <3>6
  <2>8. Unfinished # <<>>
    <3>1. Unfinished = <<>> => Len(Unfinished) = 0
      OBVIOUS
    <3> QED
      BY <1>1, <2>1, <3>1
  <2>9. Fits(k)
    <3>1. sent[k].len \in 0..MaxLen /\ MaxRx \in Nat /\ MaxLen \in Nat
      BY <2>4, Known
    <3>2. HeadSize + sent[k].len <= MaxRx + HeadSize
      BY <1>5, <2>0, <2>5 DEF Size, Capacity
    <3>3. sent[k].len <= MaxRx
      BY ONLY <1>1, <3>1, <3>2
    <3> QED
      BY <2>3, <3>3 DEF Fits
  <2>10. Taken(k)
    BY <1>2, <2>2, <2>3, <2>4, <2>5, <2>6, <2>7, <2>8, <2>9 DEF Taken
  <2> QED
    BY <2>10
<1>6. CASE cbuf' = cbuf /\ left' = left /\ delivered' = delivered
  BY <1>2, <1>6 DEF Moved, Unfinished
<1> QED
  BY <1>0, <1>3, <1>4, <1>5, <1>6, UnpackEffect

\* The steps there are.
LEMMA StepStream ==
  ASSUME TypeOK, StreamInv, CacheInv, [Next]_vars
  PROVE  \/ Moved \/ Emptied
         \/ \E p : Packed(p)
         \/ \E n : Dropped(n)
         \/ \E k : Taken(k)
<1>0. /\ cbuf \in Seq(Byte) /\ left \in Seq(Byte) /\ wire \in Seq(Byte)
      /\ cbuf \o left \in Seq(Byte)
      /\ Len(wire) \in Nat /\ MaxRx \in Nat /\ HeadSize \in Nat
  BY Known
<1>1. ASSUME NEW n \in Lengths, NEW good \in BOOLEAN, Pack(n, good)
      PROVE  \E p : Packed(p)
  <2>1. PICK p \in Packets : p = [len |-> n, good |-> good] /\ p.len = n
    <3>1. [len |-> n, good |-> good] \in Packets
      BY <1>1 DEF Packets
    <3>2. [len |-> n, good |-> good].len = n
      OBVIOUS
    <3> QED
      BY ONLY <3>1, <3>2
  <2>2. PICK b : b = Bytes(Len(sent) + 1, 1, HeadSize + n)
    OBVIOUS
  <2>3. b \in Seq(Byte)
    <3>1. sent \in Seq(Packets) /\ Unfinished \in Seq(Byte) /\ Stream(Unfinished, sent)
      BY Known DEF TypeOK, StreamInv
    <3>2. Len(sent) < MaxPackets
      BY <1>1 DEF Pack
    <3> QED
      BY <2>1, <2>2, <3>1, <3>2, StreamPack
  <2>4. Unfinished' = (cbuf \o left) \o (wire \o b)
    BY <1>1, <2>2 DEF Pack, Unfinished
  <2>5. ((cbuf \o left) \o wire) \o b = (cbuf \o left) \o (wire \o b)
    BY <1>0, <2>3, Associative
  <2>6. Unfinished' = Unfinished \o b
    BY <2>4, <2>5 DEF Unfinished
  <2>7. Packed(p)
    BY <1>1, <2>1, <2>2, <2>6 DEF Pack, Packed
  <2> QED
    BY <2>7
<1>2. CASE SendPacket
  BY <1>1, <1>2 DEF SendPacket
<1>3. CASE SendGarbage
  BY <1>1, <1>3 DEF SendGarbage
<1>4. ASSUME NEW n \in 1..MaxRx, Recv(n)
      PROVE  Moved
  <2>1. n \in 0..Len(wire)
    BY <1>0, <1>4 DEF Recv
  <2>2. /\ Front(wire, n) \in Seq(Byte) /\ Rest(wire, n) \in Seq(Byte)
        /\ Front(wire, n) \o Rest(wire, n) = wire
    BY <1>0, <2>1, Cut
  <2>3. PICK a \in Seq(Byte), r \in Seq(Byte) :
          a = Front(wire, n) /\ r = Rest(wire, n) /\ a \o r = wire
    BY ONLY <2>2
  <2>4. Unfinished' = (cbuf \o a) \o r
    BY <1>4, <2>3 DEF Recv, Unfinished
  <2>5. (cbuf \o a) \o r = cbuf \o (a \o r)
    <3>1. cbuf \in Seq(Byte) /\ a \in Seq(Byte) /\ r \in Seq(Byte)
      BY <1>0, <2>3
    <3> QED
      BY ONLY <3>1, Associative
  <2>6. cbuf \o left = cbuf
    BY <1>0, <1>4, ConcatEmptySeq DEF Recv
  <2>7. Unfinished' = Unfinished
    BY <2>3, <2>4, <2>5, <2>6 DEF Unfinished
  <2> QED
    BY <1>4, <2>7 DEF Recv, Moved
<1>5. CASE NewSession
  <2>1. Unfinished' = (<<>> \o <<>>) \o <<>>
    BY <1>5 DEF NewSession, Unfinished
  <2>2. <<>> \o <<>> = <<>>
    BY <1>0, ConcatEmptySeq
  <2> QED
    BY <1>5, <2>1, <2>2 DEF NewSession, Emptied
<1>6. CASE Unpack
  BY <1>6, UnpackStream
<1>7. CASE UNCHANGED vars
  BY <1>7 DEF vars, Moved, Unfinished
<1> QED
  BY <1>2, <1>3, <1>4, <1>5, <1>6, <1>7 DEF Next, Receive
-----------------------------------------------------------------------------
(* The invariant is kept.                                                  *)

\* Type correctness is kept.
LEMMA TypeStep ==
  ASSUME TypeOK, StreamInv, CacheInv, [Next]_vars
  PROVE  TypeOK'
<1>0. /\ HeadSize \in Nat \ {0} /\ MaxRx \in Nat /\ Len(wire) \in Nat /\ Len(sent) \in Nat
      /\ cbuf \in Seq(Byte) /\ left \in Seq(Byte) /\ wire \in Seq(Byte)
      /\ cbuf \o left \in Seq(Byte)
  BY Known
<1>1. ASSUME NEW n \in Lengths, NEW good \in BOOLEAN, Pack(n, good)
      PROVE  TypeOK'
  <2>1. PICK p \in Packets : p = [len |-> n, good |-> good] /\ p.len = n
    <3>1. [len |-> n, good |-> good] \in Packets
      BY <1>1 DEF Packets
    <3>2. [len |-> n, good |-> good].len = n
      OBVIOUS
    <3> QED
      BY ONLY <3>1, <3>2
  <2>2. PICK b \in Seq(Byte) : b = Bytes(Len(sent) + 1, 1, HeadSize + n)
    <3>1. sent \in Seq(Packets) /\ Unfinished \in Seq(Byte) /\ Stream(Unfinished, sent)
      BY Known DEF TypeOK, StreamInv
    <3>2. Len(sent) < MaxPackets
      BY <1>1 DEF Pack
    <3> QED
      BY <2>1, <3>1, <3>2, StreamPack
  <2>3. wire \o b \in Seq(Byte)
    BY <1>0, <2>2, ConcatProperties
  <2>4. Append(sent, p) \in Seq(Packets)
    BY <2>1, AppendProperties DEF TypeOK
  <2> QED
    BY <1>1, <2>1, <2>2, <2>3, <2>4 DEF Pack, TypeOK
<1>2. CASE SendPacket
  BY <1>1, <1>2 DEF SendPacket
<1>3. CASE SendGarbage
  BY <1>1, <1>3 DEF SendGarbage
<1>4. ASSUME NEW n \in 1..MaxRx, Recv(n)
      PROVE  TypeOK'
  <2>1. n \in 0..Len(wire)
    BY <1>0, <1>4 DEF Recv
  <2>2. /\ Front(wire, n) \in Seq(Byte) /\ Rest(wire, n) \in Seq(Byte)
        /\ Len(Front(wire, n)) = n
    BY <1>0, <2>1, Cut
  <2>3. Len(left') <= MaxRx
    BY <1>0, <1>4, <2>2 DEF Recv
  <2> QED
    BY <1>4, <2>2, <2>3 DEF Recv, TypeOK
<1>5. CASE NewSession
  <2>1. MaxSessions \in Nat
    BY DbPackAssumption
  <2>2. ended' \in 0..MaxSessions
    BY <1>5, <2>1 DEF NewSession, TypeOK
  <2>3. <<>> \in Seq(Byte)
    OBVIOUS
  <2> QED
    BY <1>5, <2>2, <2>3 DEF NewSession, TypeOK
<1>6. CASE Unpack
  <2>0. PICK c \in Seq(Byte) : c = cbuf \o left
    BY <1>0
  <2>1. UNCHANGED <<sent, ended, wire>>
    BY <1>6 DEF Unpack
  <2>2. /\ cbuf' \in Seq(Byte) /\ left' \in Seq(Byte) /\ delivered' \in Seq(Seq(Byte))
    <3>0. /\ <<>> \in Seq(Byte) /\ delivered \in Seq(Seq(Byte))
          /\ cbuf \in Seq(Byte) /\ left \in Seq(Byte)
      BY DEF TypeOK
    <3>4. CASE cbuf' = cbuf /\ left' = left /\ delivered' = delivered
      BY <3>0, <3>4
    <3>1. CASE cbuf' = c /\ left' = <<>> /\ delivered' = delivered
      BY <2>0, <3>0, <3>1
    <3>2. CASE cbuf' = <<>> /\ left' = <<>> /\ delivered' = delivered
      BY <3>0, <3>2
    <3>3. CASE /\ TotalSize(c) \in HeadSize..Len(c)
               /\ delivered' = Append(delivered, Rest(Front(c, TotalSize(c)), HeadSize))
               /\ cbuf' = <<>> /\ left' = Rest(c, TotalSize(c))
      <4>1. PICK z \in 0..Len(c) : z = TotalSize(c) /\ HeadSize <= z /\ z \in Nat
        <5>1. \A z \in HeadSize..Len(c) : z \in 0..Len(c) /\ HeadSize <= z /\ z \in Nat
          BY <1>0
        <5> QED
          BY ONLY <3>3, <5>1
      <4>2. Rest(c, z) \in Seq(Byte) /\ Front(c, z) \in Seq(Byte) /\ Len(Front(c, z)) = z
        BY <4>1, Cut
      <4>3. HeadSize \in 0..Len(Front(c, z))
        BY <1>0, <4>1, <4>2
      <4>4. Rest(Front(c, z), HeadSize) \in Seq(Byte)
        BY <4>2, <4>3, Cut
      <4>5. Append(delivered, Rest(Front(c, z), HeadSize)) \in Seq(Seq(Byte))
        BY <3>0, <4>4, AppendProperties
      <4> QED
        BY <3>0, <3>3, <4>1, <4>2, <4>5
    <3> QED
      BY <1>6, <2>0, <3>1, <3>2, <3>3, <3>4, UnpackEffect
  <2>3. Len(left') <= MaxRx
    <3>1. left' = <<>> \/ left' = left \/ Len(left') <= Len(left)
      BY <1>6, <2>0, UnpackEffect
    <3>2. Len(left) <= MaxRx /\ Len(left) \in Nat /\ Len(<<>>) = 0 /\ Len(left') \in Nat
      BY <2>2 DEF TypeOK
    <3> QED
      BY <1>0, <3>1, <3>2
  <2>4. overrun' \in BOOLEAN
    <3>1. overrun \in BOOLEAN
      BY DEF TypeOK
    <3>2. overrun' = overrun \/ overrun' = TRUE
      BY <1>6, <2>0, UnpackEffect
    <3> QED
      BY <3>1, <3>2
  <2> QED
    BY <2>1, <2>2, <2>3, <2>4 DEF TypeOK
<1>7. CASE UNCHANGED vars
  BY <1>7 DEF vars, TypeOK
<1> QED
  BY <1>2, <1>3, <1>4, <1>5, <1>6, <1>7 DEF Next, Receive

\* The stream stays one.
LEMMA StreamStep ==
  ASSUME TypeOK, StreamInv, CacheInv, [Next]_vars
  PROVE  StreamInv'
<1>0. /\ HeadSize \in Nat \ {0} /\ Len(Unfinished) \in Nat /\ Unfinished \in Seq(Byte)
      /\ \A k \in 1..Len(sent) : Size(sent, k) \in Nat
  BY Known
<1>1. Stream(Unfinished, sent) /\ sent \in Seq(Packets)
  BY DEF StreamInv, TypeOK
<1>2. SUFFICES Stream(Unfinished', sent')
  BY DEF StreamInv, Stream, Size
<1>3. CASE Moved
  BY <1>1, <1>3 DEF Moved
<1>4. CASE Emptied
  <2>1. Stream(<<>>, sent)
    <3>1. Len(<<>>) = 0 /\ \A i \in 1..0 : FALSE
      OBVIOUS
    <3> QED
      BY <3>1 DEF Stream
  <2> QED
    BY <1>4, <2>1 DEF Emptied
<1>5. ASSUME NEW p, Packed(p) PROVE Stream(Unfinished', sent')
  <2>1. p \in Packets /\ Len(sent) < MaxPackets
    BY <1>5 DEF Packed
  <2>2. Stream(Unfinished \o Bytes(Len(sent) + 1, 1, HeadSize + p.len), Append(sent, p))
    BY <1>0, <1>1, <2>1, StreamPack
  <2> QED
    BY <1>5, <2>2 DEF Packed
<1>6. ASSUME NEW n, Dropped(n) PROVE Stream(Unfinished', sent')
  <2>1. n \in 0..Len(Unfinished)
    BY <1>0, <1>6 DEF Dropped
  <2>2. Stream(Rest(Unfinished, n), sent)
    BY <1>0, <1>1, <2>1, StreamRest
  <2> QED
    BY <1>6, <2>2 DEF Dropped
<1>7. ASSUME NEW k, Taken(k) PROVE Stream(Unfinished', sent')
  <2>1. Size(sent, k) \in 0..Len(Unfinished)
    <3>1. \A z \in HeadSize..Len(Unfinished) : z \in 0..Len(Unfinished)
      BY <1>0
    <3> QED
      BY <1>7, <3>1 DEF Taken
  <2>2. Stream(Rest(Unfinished, Size(sent, k)), sent)
    BY <1>0, <1>1, <2>1, StreamRest
  <2> QED
    BY <1>7, <2>2 DEF Taken
<1> QED
  BY <1>3, <1>4, <1>5, <1>6, <1>7, StepStream

\* The cache keeps only the beginning of a packet.
LEMMA CacheStep ==
  ASSUME TypeOK, StreamInv, CacheInv, [Next]_vars
  PROVE  CacheInv'
<1>0. /\ HeadSize \in Nat \ {0} /\ cbuf \in Seq(Byte) /\ Len(cbuf) \in Nat
      /\ sent \in Seq(Packets) /\ Len(sent) \in Nat
  BY Known DEF TypeOK
<1>1. ASSUME NEW n \in Lengths, NEW good \in BOOLEAN, Pack(n, good)
      PROVE  CacheInv'
  <2>0. SUFFICES ASSUME Len(cbuf) >= HeadSize
                 PROVE  MagicOK(cbuf)' /\ Len(cbuf) < TotalSize(cbuf)'
    BY <1>1 DEF CacheInv, Pack
  <2>1. \A k \in 1..Len(sent) : sent'[k] = sent[k]
    <3>1. [len |-> n, good |-> good] \in Packets
      BY <1>1 DEF Packets
    <3>2. PICK p \in Packets : sent' = Append(sent, p)
      BY <1>1, <3>1 DEF Pack
    <3> QED
      BY <1>0, <3>2, AppendProperties
  <2>2. \A i \in 1..Len(cbuf) : cbuf[i].pkt \in 1..Len(sent)
    <3>1. \A i \in 1..Len(cbuf) : i \in 1..Len(Unfinished) /\ Unfinished[i] = cbuf[i]
      <4>1. /\ left \in Seq(Byte) /\ Len(left) \in Nat /\ Len(wire) \in Nat
            /\ Len(Unfinished) = Len(cbuf) + Len(left) + Len(wire)
            /\ \A i \in 1..(Len(cbuf) + Len(left)) : Unfinished[i] = (cbuf \o left)[i]
        BY Known
      <4>2. \A i \in 1..Len(cbuf) : (cbuf \o left)[i] = cbuf[i]
        BY <1>0, <4>1, CutConcat
      <4>3. \A i \in 1..Len(cbuf) : i \in 1..(Len(cbuf) + Len(left)) /\ i \in 1..Len(Unfinished)
        BY <1>0, <4>1
      <4> QED
        BY ONLY <4>1, <4>2, <4>3
    <3>2. \A i \in 1..Len(Unfinished) : Unfinished[i].pkt \in 1..Len(sent)
      BY DEF StreamInv, Stream
    <3> QED
      BY ONLY <3>1, <3>2
  <2>3. 1 \in 1..Len(cbuf) /\ HeadSize \in 1..Len(cbuf)
    BY <1>0, <2>0
  <2>4. cbuf' = cbuf
    BY <1>1 DEF Pack
  <2>5. /\ sent'[cbuf[1].pkt] = sent[cbuf[1].pkt]
        /\ sent'[cbuf[HeadSize].pkt] = sent[cbuf[HeadSize].pkt]
    BY ONLY <2>1, <2>2, <2>3
  <2>6. MagicOK(cbuf) /\ Len(cbuf) < TotalSize(cbuf)
    BY <2>0 DEF CacheInv
  <2> QED
    BY <2>4, <2>5, <2>6 DEF MagicOK, TotalSize, LengthField
<1>2. CASE SendPacket
  BY <1>1, <1>2 DEF SendPacket
<1>3. CASE SendGarbage
  BY <1>1, <1>3 DEF SendGarbage
<1>4. ASSUME UNCHANGED <<sent, cbuf>> PROVE CacheInv'
  BY <1>4 DEF CacheInv, MagicOK, TotalSize, LengthField
<1>5. ASSUME cbuf' = <<>> PROVE CacheInv'
  <2>1. Len(cbuf') = 0
    BY <1>5
  <2> QED
    BY <1>0, <2>1 DEF CacheInv
<1>6. CASE Unpack
  <2>1. PICK c : c = cbuf \o left
    OBVIOUS
  <2>2. CASE cbuf' = c /\ (Len(c) >= HeadSize => MagicOK(c) /\ Len(c) < TotalSize(c))
    <3>1. sent' = sent
      BY <1>6 DEF Unpack
    <3> QED
      BY <2>2, <3>1 DEF CacheInv, MagicOK, TotalSize, LengthField
  <2>3. CASE cbuf' = <<>>
    BY <1>5, <2>3
  <2>4. CASE cbuf' = cbuf
    BY <1>4, <1>6, <2>4 DEF Unpack
  <2> QED
    BY <1>6, <2>1, <2>2, <2>3, <2>4, UnpackEffect
<1> QED
  BY <1>2, <1>3, <1>4, <1>5, <1>6 DEF Next, Receive, Recv, NewSession, vars

\* Only a packet that does not fit overruns the cache.
LEMMA FitsStep ==
  ASSUME TypeOK, StreamInv, CacheInv, CacheFits, [Next]_vars
  PROVE  CacheFits'
<1>0. /\ HeadSize \in Nat \ {0} /\ MaxRx \in Nat /\ Len(sent) \in Nat
      /\ sent \in Seq(Packets)
  BY Known DEF TypeOK
<1>1. ASSUME NEW n \in Lengths, NEW good \in BOOLEAN, Pack(n, good)
      PROVE  CacheFits'
  <2>1. [len |-> n, good |-> good] \in Packets
    BY <1>1 DEF Packets
  <2>2. PICK p \in Packets : sent' = Append(sent, p)
    BY <1>1, <2>1 DEF Pack
  <2>3. Len(sent') = Len(sent) + 1 /\ \A k \in 1..Len(sent) : sent'[k] = sent[k]
    BY <1>0, <2>2, AppendProperties
  <2>4. \A k \in 1..Len(sent) : k \in 1..Len(sent')
    BY <1>0, <2>3
  <2>5. overrun' = overrun
    BY <1>1 DEF Pack
  <2> QED
    BY <2>3, <2>4, <2>5 DEF CacheFits
<1>2. ASSUME UNCHANGED <<sent, overrun>> PROVE CacheFits'
  BY <1>2 DEF CacheFits
<1>3. CASE Unpack
  <2>1. PICK c : c = cbuf \o left
    OBVIOUS
  <2>2. sent' = sent
    BY <1>3 DEF Unpack
  <2>3. CASE overrun' = overrun
    BY <1>2, <2>2, <2>3
  <2>4. CASE Len(c) >= HeadSize /\ MagicOK(c) /\ TotalSize(c) > Capacity
    <3>1. /\ c \in Seq(Byte) /\ Len(c) = Len(cbuf) + Len(left) /\ Len(c) \in Nat
          /\ Len(Unfinished) = Len(c) + Len(wire) /\ Len(wire) \in Nat
          /\ Len(Unfinished) \in Nat
      BY <2>1, Known
    <3>2. \A i \in 1..Len(c) : Unfinished[i] = c[i]
      BY <2>1, <3>1, Known
    <3>3. 1 \in 1..Len(c) /\ HeadSize \in 1..Len(c) /\ Len(Unfinished) >= 1
      BY <1>0, <2>4, <3>1
    <3>4. PICK k : k = Unfinished[1].pkt
      OBVIOUS
    <3>5. Unfinished[1].pos = 1 /\ sent[k].good
      BY <2>4, <3>2, <3>3, <3>4 DEF MagicOK
    <3>6. /\ k \in 1..Len(sent) /\ sent[k].len \in 0..MaxLen
          /\ Size(sent, k) \in HeadSize..Len(Unfinished)
          /\ \A i \in 1..Size(sent, k) : Unfinished[i] = [pkt |-> k, pos |-> i]
      BY <3>3, <3>4, <3>5, FirstPacket
    <3>7. HeadSize \in 1..Size(sent, k)
      BY <1>0, <3>1, <3>6
    <3>8. c[HeadSize].pkt = k
      <4>1. Unfinished[HeadSize] = [pkt |-> k, pos |-> HeadSize]
        BY <3>6, <3>7
      <4>2. Unfinished[HeadSize] = c[HeadSize]
        BY <3>2, <3>3
      <4>3. [pkt |-> k, pos |-> HeadSize].pkt = k
        OBVIOUS
      <4> QED
        BY ONLY <4>1, <4>2, <4>3
    <3>9. HeadSize + sent[k].len > MaxRx + HeadSize
      BY <2>4, <3>8 DEF TotalSize, LengthField, Capacity
    <3>10. sent[k].len > MaxRx
      <4>1. PICK l \in Nat : l = sent[k].len
        BY <3>6, Known
      <4> QED
        BY ONLY <1>0, <3>9, <4>1, l \in Nat
    <3> QED
      BY <2>2, <3>5, <3>6, <3>10 DEF CacheFits
  <2> QED
    BY <1>3, <2>1, <2>3, <2>4, UnpackEffect
<1>4. CASE SendPacket
  BY <1>1, <1>4 DEF SendPacket
<1>5. CASE SendGarbage
  BY <1>1, <1>5 DEF SendGarbage
<1> QED
  BY <1>2, <1>3, <1>4, <1>5 DEF Next, Receive, Recv, NewSession, vars

\* A packet that was taken has no bytes left, and the others are still there.
LEMMA Remainder ==
  ASSUME TypeOK, StreamInv, NEW k, Taken(k), NEW z, z = Size(sent, k)
  PROVE  /\ z \in Nat /\ Len(Unfinished') \in Nat /\ Len(Unfinished') = Len(Unfinished) - z
         /\ \A j \in 1..Len(Unfinished') : /\ z + j \in 1..Len(Unfinished)
                                           /\ Unfinished'[j] = Unfinished[z + j]
                                           /\ k < Unfinished'[j].pkt
         /\ \A i \in 1..Len(Unfinished) : Unfinished[i].pkt > k => i > z
<1>0. /\ HeadSize \in Nat \ {0} /\ Len(Unfinished) \in Nat /\ Unfinished \in Seq(Byte)
      /\ Len(sent) \in Nat
  BY Known
<1>1. /\ Unfinished # <<>> /\ Unfinished[1].pkt = k /\ Unfinished[1].pos = 1
      /\ k \in 1..Len(sent) /\ z \in HeadSize..Len(Unfinished)
      /\ Unfinished' = Rest(Unfinished, z)
  BY DEF Taken
<1>2. Len(Unfinished) >= 1 /\ z \in Nat /\ z \in 0..Len(Unfinished) /\ z <= Len(Unfinished)
  BY <1>0, <1>1
<1>3. /\ Len(Unfinished') = Len(Unfinished) - z
      /\ \A j \in 1..(Len(Unfinished) - z) : Unfinished'[j] = Unfinished[z + j]
  <2>1. /\ Len(Rest(Unfinished, z)) = Len(Unfinished) - z
        /\ \A j \in 1..(Len(Unfinished) - z) : Rest(Unfinished, z)[j] = Unfinished[z + j]
    BY ONLY <1>0, <1>2, Cut
  <2> QED
    BY ONLY <1>1, <2>1
<1>4. \A i \in 1..z : Unfinished[i] = [pkt |-> k, pos |-> i]
  BY <1>1, <1>2, FirstPacket
<1>5. \A i \in 1..z : Unfinished[i].pkt = k
  <2>1. \A i : [pkt |-> k, pos |-> i].pkt = k
    OBVIOUS
  <2> QED
    BY ONLY <1>4, <2>1, ZenonT(60)
<1>6. k \in Nat /\ \A i \in 1..Len(Unfinished) : Unfinished[i].pkt \in Nat
  <2>1. \A i \in 1..Len(Unfinished) : Unfinished[i].pkt \in 1..Len(sent)
    BY DEF StreamInv, Stream
  <2>2. \A l \in 1..Len(sent) : l \in Nat
    BY <1>0
  <2> QED
    BY ONLY <1>1, <2>1, <2>2
<1>7. ASSUME NEW j \in 1..Len(Unfinished')
      PROVE  /\ z + j \in 1..Len(Unfinished)
             /\ Unfinished'[j] = Unfinished[z + j]
             /\ k < Unfinished'[j].pkt
  <2>1. z + j \in 1..Len(Unfinished) /\ j \in 1..(Len(Unfinished) - z) /\ z + j > z
    BY <1>0, <1>2, <1>3, <1>7
  <2>2. Unfinished'[j] = Unfinished[z + j]
    BY <1>3, <2>1
  <2>3. 1 \in 1..Len(Unfinished) /\ 1 < z + j
    BY <1>0, <1>1, <1>2, <2>1
  <2>4. /\ Unfinished[1].pkt <= Unfinished[z + j].pkt
        /\ Unfinished[1].pkt = Unfinished[z + j].pkt
             => (z + j) - 1 = Unfinished[z + j].pos - Unfinished[1].pos
        /\ Unfinished[z + j].pos \in 1..Size(sent, Unfinished[z + j].pkt)
    BY <2>1, <2>3 DEF StreamInv, Stream
  <2>5. Unfinished[z + j].pkt # k
    <3>1. SUFFICES ASSUME Unfinished[z + j].pkt = k PROVE FALSE
      OBVIOUS
    <3>2. PICK x : x = Unfinished[z + j].pos
      OBVIOUS
    <3>3. (z + j) - 1 = x - 1 /\ x \in 1..z
      BY <1>1, <2>4, <3>1, <3>2
    <3> QED
      BY <1>2, <2>1, <3>3
  <2>6. k < Unfinished[z + j].pkt
    <3>1. PICK y \in Nat : y = Unfinished[z + j].pkt
      BY <1>6, <2>1
    <3>2. k <= y /\ y # k
      BY ONLY <1>1, <2>4, <2>5, <3>1
    <3> QED
      BY <1>6, <3>1, <3>2
  <2> QED
    BY <2>1, <2>2, <2>6
<1>8. ASSUME NEW i \in 1..Len(Unfinished), Unfinished[i].pkt > k
      PROVE  i > z
  <2>1. ~(i \in 1..z)
    BY <1>5, <1>6, <1>8
  <2> QED
    BY <1>2, <1>8, <2>1
<1>9. Len(Unfinished) - z \in Nat
  BY <1>0, <1>2
<1> QED
  BY <1>2, <1>3, <1>7, <1>8, <1>9

\* The packets of the bytes on the way, in the order of sending.
LEMMA Ascending ==
  ASSUME TypeOK, StreamInv
  PROVE  /\ \A i \in 1..Len(Unfinished) : /\ Unfinished[i].pkt \in Nat
                                          /\ Unfinished[i].pkt \in 1..Len(sent)
         /\ \A i, j \in 1..Len(Unfinished) : i < j => Unfinished[i].pkt <= Unfinished[j].pkt
<1>1. \A i \in 1..Len(Unfinished) : Unfinished[i].pkt \in 1..Len(sent)
  BY DEF StreamInv, Stream
<1>2. \A l \in 1..Len(sent) : l \in Nat
  BY Known
<1>3. \A i, j \in 1..Len(Unfinished) : i < j => Unfinished[i].pkt <= Unfinished[j].pkt
  BY DEF StreamInv, Stream
<1> QED
  BY ONLY <1>1, <1>2, <1>3

\* What a packet that is sent adds.
LEMMA Extended ==
  ASSUME TypeOK, StreamInv, NEW p, Packed(p), NEW s, s = Len(sent),
         NEW u, u = Len(Unfinished)
  PROVE  /\ s \in Nat /\ u \in Nat /\ Len(sent') = s + 1 /\ sent'[s + 1] = p
         /\ \A k \in 1..s : sent'[k] = sent[k]
         /\ \A i \in 1..u : i \in 1..Len(Unfinished') /\ Unfinished'[i] = Unfinished[i]
         /\ \A i \in 1..Len(Unfinished') : i \in 1..u \/ Unfinished'[i].pkt = s + 1
         /\ u + 1 \in 1..Len(Unfinished')
         /\ Unfinished'[u + 1].pkt = s + 1 /\ Unfinished'[u + 1].pos = 1
<1>0. /\ HeadSize \in Nat \ {0} /\ Unfinished \in Seq(Byte) /\ u \in Nat
      /\ sent \in Seq(Packets) /\ s \in Nat
  BY Known DEF TypeOK
<1>1. p \in Packets /\ Len(sent) < MaxPackets /\ sent' = Append(sent, p)
  BY DEF Packed
<1>2. Len(sent') = s + 1 /\ sent'[s + 1] = p /\ \A k \in 1..s : sent'[k] = sent[k]
  BY <1>0, <1>1, AppendProperties
<1>3. PICK b : b = Bytes(Len(sent) + 1, 1, HeadSize + p.len)
  OBVIOUS
<1>4. /\ b \in Seq(Byte) /\ Len(b) = HeadSize + p.len
      /\ \A i \in 1..Len(b) : b[i] = [pkt |-> s + 1, pos |-> i]
  BY <1>0, <1>1, <1>3, StreamPack DEF StreamInv
<1>5. PICK l \in Nat : l = Len(b) /\ 1 \in 1..l
  <2>1. p.len \in Lengths /\ Lengths \subseteq 0..MaxLen /\ MaxLen \in Nat
    BY <1>1, DbPackAssumption DEF Packets
  <2>2. \A n \in 0..MaxLen : HeadSize + n \in Nat /\ 1 \in 1..HeadSize + n
    BY <1>0, <2>1
  <2> QED
    BY ONLY <1>4, <2>1, <2>2
<1>6. \A i \in 1..l : b[i].pkt = s + 1 /\ b[i].pos = i
  <2>1. \A i : [pkt |-> s + 1, pos |-> i].pkt = s + 1 /\ [pkt |-> s + 1, pos |-> i].pos = i
    OBVIOUS
  <2>2. ASSUME NEW i \in 1..l PROVE b[i].pkt = s + 1 /\ b[i].pos = i
    <3>1. b[i] = [pkt |-> s + 1, pos |-> i]
      BY <1>4, <1>5, <2>2
    <3> QED
      BY ONLY <2>1, <3>1
  <2> QED
    BY <2>2
<1>7. PICK e \in Seq(Byte) :
        /\ e = Unfinished \o b /\ Len(e) = u + l
        /\ \A i \in 1..u + l : e[i] = IF i <= u THEN Unfinished[i] ELSE b[i - u]
  <2>1. PICK e \in Seq(Byte) :
          /\ e = Unfinished \o b /\ Len(e) = Len(Unfinished) + Len(b)
          /\ \A i \in 1..Len(Unfinished) + Len(b) :
               e[i] = IF i <= Len(Unfinished) THEN Unfinished[i] ELSE b[i - Len(Unfinished)]
    BY <1>0, <1>4, Joined
  <2> QED
    BY ONLY <1>5, <2>1, u = Len(Unfinished)
<1>8. Unfinished' = e
  BY <1>3, <1>7 DEF Packed
<1>9. /\ \A i \in 1..u : i \in 1..u + l /\ i <= u
      /\ \A i \in 1..u + l : i <= u => i \in 1..u
      /\ \A i \in 1..u + l : ~(i <= u) => i - u \in 1..l
      /\ u + 1 \in 1..u + l /\ ~(u + 1 <= u) /\ (u + 1) - u = 1
  BY <1>0, <1>5
<1>10. \A i \in 1..u : i \in 1..Len(e) /\ e[i] = Unfinished[i]
  BY ONLY <1>7, <1>9
<1>11. \A i \in 1..Len(e) : i \in 1..u \/ e[i].pkt = s + 1
  BY ONLY <1>6, <1>7, <1>9
<1>12. u + 1 \in 1..Len(e) /\ e[u + 1].pkt = s + 1 /\ e[u + 1].pos = 1
  BY ONLY <1>5, <1>6, <1>7, <1>9
<1> QED
  BY ONLY <1>0, <1>2, <1>8, <1>10, <1>11, <1>12

\* What is left when n bytes have been taken off the front.
LEMMA Shortened ==
  ASSUME TypeOK, StreamInv, NEW n \in 0..Len(Unfinished), Unfinished' = Rest(Unfinished, n)
  PROVE  /\ Len(Unfinished') \in Nat /\ Len(Unfinished') = Len(Unfinished) - n
         /\ \A i \in 1..Len(Unfinished') : /\ n + i \in 1..Len(Unfinished)
                                           /\ Unfinished'[i] = Unfinished[n + i]
         /\ \A i \in 1..Len(Unfinished) :
              i > n => i - n \in 1..Len(Unfinished') /\ Unfinished'[i - n] = Unfinished[i]
<1>0. Unfinished \in Seq(Byte) /\ Len(Unfinished) \in Nat /\ n \in Nat
  BY Known
<1>1. PICK v : v = Unfinished'
  OBVIOUS
<1>2. /\ Len(v) = Len(Unfinished) - n
      /\ \A i \in 1..(Len(Unfinished) - n) : v[i] = Unfinished[n + i]
  BY <1>0, <1>1, Cut
<1>3. \A l \in Nat : \A d \in 0..l :
        /\ l - d \in Nat
        /\ \A i \in 1..(l - d) : d + i \in 1..l
        /\ \A i \in 1..l : i > d => i - d \in 1..(l - d) /\ d + (i - d) = i
  OBVIOUS
<1>4. /\ Len(v) \in Nat
      /\ \A i \in 1..Len(v) : n + i \in 1..Len(Unfinished) /\ v[i] = Unfinished[n + i]
      /\ \A i \in 1..Len(Unfinished) : i > n => i - n \in 1..Len(v) /\ v[i - n] = Unfinished[i]
  <2>1. /\ Len(Unfinished) - n \in Nat
        /\ \A i \in 1..(Len(Unfinished) - n) : n + i \in 1..Len(Unfinished)
        /\ \A i \in 1..Len(Unfinished) : i > n =>
             i - n \in 1..(Len(Unfinished) - n) /\ n + (i - n) = i
    BY <1>0, <1>3
  <2> QED
    BY ONLY <1>2, <2>1
<1> QED
  BY ONLY <1>1, <1>2, <1>4

\* A payload stays what it is when more is sent.
LEMMA SamePayload ==
  ASSUME NEW k, sent'[k] = sent[k]
  PROVE  PayloadOf(k)' = PayloadOf(k)
  BY DEF PayloadOf

\* What recv_cb got is what was sent, in that order.
LEMMA InOrderStep ==
  ASSUME TypeOK, StreamInv, CacheInv, InOrder, [Next]_vars
  PROVE  InOrder'
<1>0. /\ HeadSize \in Nat \ {0} /\ Len(Unfinished) \in Nat /\ Unfinished \in Seq(Byte)
      /\ sent \in Seq(Packets) /\ Len(sent) \in Nat
      /\ delivered \in Seq(Seq(Byte)) /\ Len(delivered) \in Nat
  BY Known DEF TypeOK
<1>1. PICK f \in [1..Len(delivered) -> 1..Len(sent)] : Origin(f)
  BY DEF InOrder
<1>2. /\ \A i \in 1..Len(delivered) : sent[f[i]].good /\ delivered[i] = PayloadOf(f[i])
      /\ \A i, j \in 1..Len(delivered) : i < j => f[i] < f[j]
      /\ \A i \in 1..Len(delivered), j \in 1..Len(Unfinished) : f[i] < Unfinished[j].pkt
      /\ \A i \in 1..Len(delivered) : f[i] \in 1..Len(sent)
  BY <1>1 DEF Origin
<1>3. ASSUME UNCHANGED <<sent, delivered>>,
             \A j \in 1..Len(Unfinished') : \E l \in 1..Len(Unfinished) :
               Unfinished'[j] = Unfinished[l]
      PROVE  Origin(f)'
  <2>1. \A k : PayloadOf(k)' = PayloadOf(k)
    BY <1>3, SamePayload
  <2>2. \A i \in 1..Len(delivered), j \in 1..Len(Unfinished') : f[i] < Unfinished'[j].pkt
    BY ONLY <1>2, <1>3
  <2> QED
    BY <1>1, <1>2, <1>3, <2>1, <2>2 DEF Origin
<1>4. ASSUME Origin(f)', Len(delivered') = Len(delivered), Len(sent') >= Len(sent),
             Len(sent') \in Nat
      PROVE  InOrder'
  <2>1. f \in [1..Len(delivered') -> 1..Len(sent')]
    BY <1>4 DEF Origin
  <2> QED
    BY <1>4, <2>1 DEF InOrder
<1>5. CASE Moved
  <2>1. Origin(f)'
    BY <1>3, <1>5 DEF Moved
  <2> QED
    BY <1>0, <1>4, <1>5, <2>1 DEF Moved
<1>6. CASE Emptied
  <2>1. Len(Unfinished') = 0
    BY <1>6 DEF Emptied
  <2>2. Origin(f)'
    BY <1>3, <1>6, <2>1 DEF Emptied
  <2> QED
    BY <1>0, <1>4, <1>6, <2>2 DEF Emptied
<1>7. ASSUME NEW n, Dropped(n) PROVE InOrder'
  <2>1. n \in 0..Len(Unfinished) /\ n \in Nat
    BY <1>0, <1>7 DEF Dropped
  <2>2. /\ Len(Unfinished') = Len(Unfinished) - n
        /\ \A j \in 1..(Len(Unfinished) - n) : Unfinished'[j] = Unfinished[n + j]
    BY <1>0, <1>7, <2>1, Cut DEF Dropped
  <2>3. \A j \in 1..(Len(Unfinished) - n) : n + j \in 1..Len(Unfinished)
    BY <1>0, <2>1
  <2>4. Origin(f)'
    BY <1>3, <1>7, <2>2, <2>3 DEF Dropped
  <2> QED
    BY <1>0, <1>4, <1>7, <2>4 DEF Dropped
<1>8. ASSUME NEW p, Packed(p) PROVE InOrder'
  <2>1. /\ p \in Packets /\ Len(sent) < MaxPackets /\ sent' = Append(sent, p)
        /\ delivered' = delivered
    BY <1>8 DEF Packed
  <2>2. /\ Len(sent') = Len(sent) + 1
        /\ \A k \in 1..Len(sent) : sent'[k] = sent[k]
    BY <1>0, <2>1, AppendProperties
  <2>3. \A j \in 1..Len(Unfinished') :
          \/ j \in 1..Len(Unfinished) /\ Unfinished'[j] = Unfinished[j]
          \/ Unfinished'[j].pkt = Len(sent) + 1
    BY <1>8, Extended
  <2>4. \A i \in 1..Len(delivered) : PayloadOf(f[i])' = PayloadOf(f[i])
    BY <1>2, <2>2, SamePayload
  <2>5. \A i \in 1..Len(delivered) : sent'[f[i]].good /\ delivered[i] = PayloadOf(f[i])'
    BY ONLY <1>2, <2>2, <2>4
  <2>6. \A k \in 1..Len(sent) : k < Len(sent) + 1
    BY <1>0
  <2>7. \A i \in 1..Len(delivered), j \in 1..Len(Unfinished') : f[i] < Unfinished'[j].pkt
    BY ONLY <1>2, <2>3, <2>6
  <2>8. f \in [1..Len(delivered) -> 1..Len(sent')]
    <3>1. \A k \in 1..Len(sent) : k \in 1..Len(sent')
      BY <1>0, <2>2
    <3> QED
      BY <1>1, <3>1
  <2>9. Origin(f)'
    BY <1>2, <2>1, <2>5, <2>7, <2>8 DEF Origin
  <2> QED
    BY <1>0, <1>4, <2>1, <2>2, <2>9
<1>9. ASSUME NEW k, Taken(k) PROVE InOrder'
  <2>1. /\ k \in 1..Len(sent) /\ sent[k].good /\ Unfinished[1].pkt = k
        /\ Unfinished # <<>>
        /\ delivered' = Append(delivered, PayloadOf(k)) /\ sent' = sent
    BY <1>9 DEF Taken, Fits
  <2>2. PICK m \in Nat : m = Len(delivered)
    BY <1>0
  <2>3. /\ Len(delivered') = m + 1 /\ delivered'[m + 1] = PayloadOf(k)
        /\ \A i \in 1..m : delivered'[i] = delivered[i]
    <3>1. PICK P : P = PayloadOf(k)
      OBVIOUS
    <3>2. delivered \in Seq((Seq(Byte) \cup {P})) /\ P \in (Seq(Byte) \cup {P})
      <4>1. Seq(Byte) \subseteq (Seq(Byte) \cup {P})
        OBVIOUS
      <4>2. \A T, V : T \subseteq V => Seq(T) \subseteq Seq(V)
        OBVIOUS
      <4> QED
        BY <1>0, <4>1, <4>2
    <3>3. delivered' = Append(delivered, P)
      BY <2>1, <3>1
    <3> QED
      BY <2>2, <3>1, <3>2, <3>3, AppendProperties
  <2>4. PICK g : g = [i \in 1..(m + 1) |-> IF i <= m THEN f[i] ELSE k]
    OBVIOUS
  <2>5. /\ g \in [1..(m + 1) -> 1..Len(sent)] /\ g[m + 1] = k
        /\ \A i \in 1..m : g[i] = f[i]
    <3>1. \A i \in 1..(m + 1) : i <= m => i \in 1..m
      BY <2>2
    <3>2. \A i \in 1..m : i \in 1..(m + 1) /\ i <= m
      BY <2>2
    <3>3. m + 1 \in 1..(m + 1) /\ ~(m + 1 <= m)
      BY <2>2
    <3> QED
      BY ONLY <1>2, <2>1, <2>2, <2>4, <3>1, <3>2, <3>3
  <2>6. \A i \in 1..(m + 1) : i \in 1..m \/ i = m + 1
    BY <2>2
  <2>7. \A l : PayloadOf(l)' = PayloadOf(l)
    BY <2>1, SamePayload
  <2>8. \A i \in 1..(m + 1) : sent[g[i]].good /\ delivered'[i] = PayloadOf(g[i])'
    BY ONLY <1>2, <2>1, <2>2, <2>3, <2>5, <2>6, <2>7
  <2>9. \A i \in 1..m : f[i] < k
    <3>1. 1 \in 1..Len(Unfinished)
      BY <1>0, <2>1
    <3> QED
      BY ONLY <1>2, <2>1, <2>2, <3>1
  <2>10. \A i, j \in 1..(m + 1) : i < j => g[i] < g[j]
    <3>1. \A i, j \in 1..(m + 1) : i < j => i \in 1..m
      BY <2>2
    <3> QED
      BY ONLY <1>2, <2>2, <2>5, <2>6, <2>9, <3>1
  <2>11. \A i \in 1..(m + 1), j \in 1..Len(Unfinished') : g[i] < Unfinished'[j].pkt
    <3>1. \A j \in 1..Len(Unfinished') :
            /\ k < Unfinished'[j].pkt
            /\ \E l \in 1..Len(Unfinished) : Unfinished'[j] = Unfinished[l]
      BY <1>9, Remainder
    <3> QED
      BY ONLY <1>2, <2>2, <2>5, <2>6, <3>1
  <2>12. Origin(g)'
    BY <2>1, <2>3, <2>5, <2>8, <2>10, <2>11 DEF Origin
  <2>13. g \in [1..Len(delivered') -> 1..Len(sent')]
    BY <2>1, <2>3, <2>5
  <2> QED
    BY <2>12, <2>13 DEF InOrder
<1> QED
  BY <1>5, <1>6, <1>7, <1>8, <1>9, StepStream

\* Without foreign bytes and lost sessions the next packet to hand over comes
\* first, with its first byte.
LEMMA NextIsFirst ==
  ASSUME TypeOK, StreamInv, CleanInv, Clean, Len(Unfinished) >= 1
  PROVE  /\ Unfinished[1].pos = 1 /\ Unfinished[1].pkt = Len(delivered) + 1
         /\ Unfinished[1].pkt \in 1..Len(sent)
<1>0. Len(Unfinished) \in Nat /\ Len(sent) \in Nat /\ Len(delivered) \in Nat
  BY Known DEF TypeOK
<1>1. PICK d \in Nat : d = Len(delivered)
  BY <1>0
<1>2. 1 \in 1..Len(Unfinished)
  BY <1>0
<1>3. PICK k \in Nat, q \in Nat : /\ k = Unfinished[1].pkt /\ q = Unfinished[1].pos
                                  /\ k \in 1..Len(sent) /\ q >= 1
  <2>1. /\ Unfinished[1].pkt \in 1..Len(sent)
        /\ Unfinished[1].pos \in 1..Size(sent, Unfinished[1].pkt)
    BY <1>2 DEF StreamInv, Stream
  <2>2. \A l \in 1..Len(sent) : l \in Nat /\ Size(sent, l) \in Nat
    <3>1. \A l \in 1..Len(sent) : Size(sent, l) \in Nat
      BY Known
    <3>2. \A l \in 1..Len(sent) : l \in Nat
      BY <1>0
    <3> QED
      BY ONLY <3>1, <3>2
  <2>3. \A z \in Nat : \A x \in 1..z : x \in Nat /\ x >= 1
    OBVIOUS
  <2> QED
    BY ONLY <2>1, <2>2, <2>3
<1>4. k > d
  BY <1>1, <1>2, <1>3 DEF CleanInv
<1>5. d + 1 \in 1..Len(sent) /\ d + 1 > d
  BY <1>0, <1>1, <1>3, <1>4
<1>6. PICK i \in 1..Len(Unfinished) : Unfinished[i].pkt = d + 1 /\ Unfinished[i].pos = 1
  BY <1>1, <1>5 DEF CleanInv
<1>7. i = 1
  <2>1. SUFFICES ASSUME 1 < i PROVE FALSE
    BY <1>0, <1>6
  <2>2. k <= d + 1 /\ (k = d + 1 => i - 1 = 1 - q)
    BY <1>2, <1>3, <1>6, <2>1 DEF StreamInv, Stream
  <2>3. k = d + 1
    BY <1>1, <1>3, <1>4, <2>2
  <2> QED
    BY <1>0, <1>3, <1>6, <2>1, <2>2, <2>3
<1> QED
  BY <1>1, <1>3, <1>6, <1>7

\* Then nothing is lost.
LEMMA CleanStep ==
  ASSUME TypeOK, StreamInv, CacheInv, CleanInv, [Next]_vars
  PROVE  CleanInv'
<1>0. /\ HeadSize \in Nat \ {0} /\ Len(Unfinished) \in Nat /\ Unfinished \in Seq(Byte)
      /\ sent \in Seq(Packets) /\ Len(sent) \in Nat
      /\ delivered \in Seq(Seq(Byte)) /\ Len(delivered) \in Nat
      /\ MaxSessions \in Nat /\ ended \in 0..MaxSessions
  BY Known, DbPackAssumption DEF TypeOK
<1>1. SUFFICES ASSUME Clean' PROVE CleanInv'
  BY DEF CleanInv
<1>2. ASSUME Clean
      PROVE  /\ \A i \in 1..Len(delivered) : i \in 1..Len(sent) /\ delivered[i] = PayloadOf(i)
             /\ \A k \in 1..Len(sent) : k > Len(delivered) =>
                  \E i \in 1..Len(Unfinished) : Unfinished[i].pkt = k /\ Unfinished[i].pos = 1
             /\ \A i \in 1..Len(Unfinished) : Unfinished[i].pkt > Len(delivered)
  BY <1>2 DEF CleanInv
<1>3. CASE Moved
  <2>1. Clean
    BY <1>1, <1>3 DEF Moved, Clean
  <2>2. \A k : PayloadOf(k)' = PayloadOf(k)
    BY <1>3, SamePayload DEF Moved
  <2> QED
    BY <1>2, <1>3, <2>1, <2>2 DEF Moved, CleanInv
<1>4. CASE Emptied
  <2>1. ended' # 0
    BY <1>0, <1>4 DEF Emptied
  <2> QED
    BY <1>1, <2>1 DEF Clean
<1>5. ASSUME NEW n, Dropped(n) PROVE FALSE
  <2>1. Clean
    BY <1>1, <1>5 DEF Dropped, Clean
  <2>2. Len(Unfinished) >= 1
    BY <1>0, <1>5 DEF Dropped
  <2>3. Unfinished[1].pos = 1 /\ Unfinished[1].pkt \in 1..Len(sent)
    BY <2>1, <2>2, NextIsFirst
  <2> QED
    BY <1>5, <2>1, <2>3 DEF Dropped, MagicOK, Clean
<1>6. ASSUME NEW p, Packed(p) PROVE CleanInv'
  <2>1. /\ p \in Packets /\ Len(sent) < MaxPackets /\ sent' = Append(sent, p)
        /\ delivered' = delivered /\ ended' = ended
    BY <1>6 DEF Packed
  <2>2. PICK s \in Nat : s = Len(sent) /\ Len(sent') = s + 1
    BY <1>0, <2>1, AppendProperties
  <2>3. \A k \in 1..s : sent'[k] = sent[k] /\ k \in 1..Len(sent')
    <3>1. \A k \in 1..s : sent'[k] = sent[k]
      BY <1>0, <2>1, <2>2, AppendProperties
    <3>2. \A k \in 1..s : k \in 1..(s + 1)
      BY <2>2
    <3> QED
      BY ONLY <2>2, <3>1, <3>2
  <2>4. Clean
    BY <1>1, <2>1, <2>2, <2>3 DEF Clean
  <2>5. PICK e : e = Unfinished'
    OBVIOUS
  <2>6. /\ \A i \in 1..Len(Unfinished) : i \in 1..Len(e) /\ e[i] = Unfinished[i]
        /\ \A j \in 1..Len(e) : j \in 1..Len(Unfinished) \/ e[j].pkt = s + 1
        /\ \E i \in 1..Len(e) : e[i].pkt = s + 1 /\ e[i].pos = 1
    <3>1. PICK u : u = Len(Unfinished)
      OBVIOUS
    <3>2. /\ \A i \in 1..u : i \in 1..Len(Unfinished') /\ Unfinished'[i] = Unfinished[i]
          /\ \A i \in 1..Len(Unfinished') : i \in 1..u \/ Unfinished'[i].pkt = s + 1
          /\ u + 1 \in 1..Len(Unfinished')
          /\ Unfinished'[u + 1].pkt = s + 1 /\ Unfinished'[u + 1].pos = 1
      BY <1>6, <2>2, <3>1, Extended
    <3> QED
      BY ONLY <2>5, <3>1, <3>2
  <2>9. Unfinished' = e
    BY <2>5
  <2>10. \A i \in 1..Len(Unfinished) : i \in 1..Len(e) /\ e[i] = Unfinished[i]
    BY <2>6
  <2>11. \A j \in 1..Len(e) : \/ j \in 1..Len(Unfinished) /\ e[j] = Unfinished[j]
                              \/ e[j].pkt = s + 1
    BY ONLY <2>6
  <2>12. \E i \in 1..Len(e) : e[i].pkt = s + 1 /\ e[i].pos = 1
    BY <2>6
  <2>13. \A i \in 1..Len(delivered) : PayloadOf(i)' = PayloadOf(i) /\ i \in 1..s
    BY <1>2, <2>2, <2>3, <2>4, SamePayload
  <2>14. \A i \in 1..Len(delivered) : i \in 1..Len(sent') /\ delivered[i] = PayloadOf(i)'
    BY ONLY <1>2, <2>3, <2>4, <2>13
  <2>15. Len(delivered) < s + 1
    <3>1. CASE Len(delivered) = 0
      BY <2>2, <3>1
    <3>2. CASE Len(delivered) # 0
      <4>1. Len(delivered) \in 1..Len(delivered)
        BY <1>0, <3>2
      <4>2. Len(delivered) \in 1..s
        BY <2>13, <4>1
      <4> QED
        BY <2>2, <4>2
    <3> QED
      BY <3>1, <3>2
  <2>16. \A k \in 1..Len(sent') : k > Len(delivered) =>
           \E i \in 1..Len(e) : e[i].pkt = k /\ e[i].pos = 1
    <3>1. \A k \in 1..Len(sent') : k \in 1..Len(sent) \/ k = s + 1
      BY <2>2
    <3> QED
      <4>1. ASSUME NEW k \in 1..Len(sent'), k > Len(delivered)
            PROVE  \E i \in 1..Len(e) : e[i].pkt = k /\ e[i].pos = 1
        <5>1. CASE k \in 1..Len(sent)
          <6>1. PICK i \in 1..Len(Unfinished) : Unfinished[i].pkt = k /\ Unfinished[i].pos = 1
            BY <1>2, <2>4, <4>1, <5>1
          <6> QED
            BY <2>10, <6>1
        <5>2. CASE k = s + 1
          BY <2>12, <5>2
        <5> QED
          BY <3>1, <4>1, <5>1, <5>2
      <4> QED
        BY <4>1
  <2>17. \A i \in 1..Len(e) : e[i].pkt > Len(delivered)
    <3>1. s + 1 > Len(delivered)
      BY <1>0, <2>2, <2>15
    <3> QED
      BY ONLY <1>2, <2>4, <2>11, <3>1
  <2> QED
    BY <2>1, <2>9, <2>14, <2>16, <2>17 DEF CleanInv
<1>7. ASSUME NEW k, Taken(k) PROVE CleanInv'
  <2>1. /\ Unfinished # <<>> /\ Unfinished[1].pkt = k /\ k \in 1..Len(sent)
        /\ sent' = sent /\ ended' = ended
        /\ delivered' = Append(delivered, PayloadOf(k))
    BY <1>7 DEF Taken
  <2>2. Clean
    BY <1>1, <2>1 DEF Clean
  <2>3. Len(Unfinished) >= 1
    BY <1>0, <2>1
  <2>4. PICK m \in Nat : m = Len(delivered) /\ k = m + 1
    BY <1>0, <2>1, <2>2, <2>3, NextIsFirst
  <2>5. /\ Len(delivered') = k /\ delivered'[k] = PayloadOf(k)
        /\ \A i \in 1..m : delivered'[i] = delivered[i]
    <3>1. PICK P : P = PayloadOf(k)
      OBVIOUS
    <3>2. delivered \in Seq((Seq(Byte) \cup {P})) /\ P \in (Seq(Byte) \cup {P})
      <4>1. Seq(Byte) \subseteq (Seq(Byte) \cup {P})
        OBVIOUS
      <4>2. \A T, V : T \subseteq V => Seq(T) \subseteq Seq(V)
        OBVIOUS
      <4> QED
        BY <1>0, <4>1, <4>2
    <3>3. delivered' = Append(delivered, P)
      BY <2>1, <3>1
    <3> QED
      BY <2>4, <3>1, <3>2, <3>3, AppendProperties
  <2>6. \A l : PayloadOf(l)' = PayloadOf(l)
    BY <2>1, SamePayload
  <2>7. \A i \in 1..Len(delivered') : i \in 1..Len(sent') /\ delivered'[i] = PayloadOf(i)'
    <3>1. \A i \in 1..k : i \in 1..m \/ i = k
      BY <2>4
    <3> QED
      BY ONLY <1>2, <2>1, <2>2, <2>4, <2>5, <2>6, <3>1
  <2>8. PICK z \in Nat : 
          /\ Len(Unfinished') \in Nat /\ Len(Unfinished') = Len(Unfinished) - z
          /\ \A j \in 1..Len(Unfinished') : /\ Unfinished'[j] = Unfinished[z + j]
                                            /\ k < Unfinished'[j].pkt
          /\ \A i \in 1..Len(Unfinished) : Unfinished[i].pkt > k => i > z
    <3>1. PICK z : z = Size(sent, k)
      OBVIOUS
    <3>2. /\ z \in Nat /\ Len(Unfinished') \in Nat /\ Len(Unfinished') = Len(Unfinished) - z
          /\ \A j \in 1..Len(Unfinished') : /\ Unfinished'[j] = Unfinished[z + j]
                                            /\ k < Unfinished'[j].pkt
          /\ \A i \in 1..Len(Unfinished) : Unfinished[i].pkt > k => i > z
      BY <1>7, <3>1, Remainder
    <3> QED
      BY ONLY <3>2
  <2>9. ASSUME NEW l \in 1..Len(sent), l > k
        PROVE  \E i \in 1..Len(Unfinished') : Unfinished'[i].pkt = l /\ Unfinished'[i].pos = 1
    <3>1. l > Len(delivered)
      BY <1>0, <2>4, <2>9
    <3>2. PICK i \in 1..Len(Unfinished) : Unfinished[i].pkt = l /\ Unfinished[i].pos = 1
      BY <1>2, <2>2, <2>9, <3>1
    <3>3. i > z
      BY <2>8, <2>9, <3>2
    <3>4. i - z \in 1..Len(Unfinished') /\ z + (i - z) = i
      BY <1>0, <2>8, <3>2, <3>3
    <3>5. Unfinished'[i - z] = Unfinished[i]
      BY <2>8, <3>4
    <3> QED
      BY <3>2, <3>4, <3>5
  <2>10. \A i \in 1..Len(Unfinished') : Unfinished'[i].pkt > k
    <3>1. ASSUME NEW i \in 1..Len(Unfinished') PROVE Unfinished'[i].pkt > k
      BY <2>8, <3>1
    <3> QED
      BY <3>1
  <2> QED
    BY <2>1, <2>5, <2>7, <2>9, <2>10 DEF CleanInv
<1> QED
  BY <1>3, <1>4, <1>5, <1>6, <1>7, StepStream

-----------------------------------------------------------------------------
(* The channel of packets.                                                 *)

\* No packet gets lost between two others.
LEMMA CoveredStep ==
  ASSUME TypeOK, StreamInv, CacheInv, Covered, [Next]_vars
  PROVE  Covered'
<1>0. /\ Len(Unfinished) \in Nat /\ Unfinished \in Seq(Byte) /\ Len(sent) \in Nat
      /\ (Unfinished # <<>> <=> 1 \in 1..Len(Unfinished))
  BY Known
<1>1. CASE Moved
  BY <1>1 DEF Moved, Covered
<1>2. CASE Emptied
  BY <1>2 DEF Emptied, Covered
<1>3. ASSUME NEW p, Packed(p) PROVE Covered'
  <2>1. PICK s, u : s = Len(sent) /\ u = Len(Unfinished)
    OBVIOUS
  <2>2. /\ s \in Nat /\ u \in Nat /\ Len(sent') = s + 1
        /\ \A i \in 1..u : i \in 1..Len(Unfinished') /\ Unfinished'[i] = Unfinished[i]
        /\ u + 1 \in 1..Len(Unfinished') /\ Unfinished'[u + 1].pkt = s + 1
    BY <1>3, <2>1, Extended
  <2>3. ASSUME NEW m \in Unfinished'[1].pkt..s + 1
        PROVE  \E i \in 1..Len(Unfinished') : Unfinished'[i].pkt = m
    <3>1. CASE m = s + 1
      BY <2>2, <3>1
    <3>2. CASE m # s + 1
      <4>1. Unfinished # <<>>
        <5>1. SUFFICES ASSUME Unfinished = <<>> PROVE FALSE
          OBVIOUS
        <5>2. u = 0
          BY <2>1, <5>1
        <5>3. Unfinished'[1].pkt = s + 1
          BY <2>2, <5>2
        <5> QED
          BY <2>2, <2>3, <3>2, <5>3
      <4>2. 1 \in 1..u /\ Unfinished'[1] = Unfinished[1]
        BY <1>0, <2>1, <2>2, <4>1
      <4>3. m \in Unfinished[1].pkt..s
        <5>1. Unfinished[1].pkt \in Nat
          BY <2>1, <4>2, Ascending
        <5>2. PICK k \in Nat : k = Unfinished[1].pkt
          BY <5>1
        <5>3. m \in k..s + 1
          BY <2>3, <4>2, <5>2
        <5>4. m \in k..s
          BY <2>2, <3>2, <5>3
        <5> QED
          BY ONLY <5>2, <5>4
      <4>4. PICK i \in 1..u : Unfinished[i].pkt = m
        BY <2>1, <4>1, <4>3 DEF Covered
      <4> QED
        BY <2>2, <4>4
    <3> QED
      BY <3>1, <3>2
  <2> QED
    BY <2>2, <2>3 DEF Covered
<1>4. ASSUME NEW n \in 1..Len(Unfinished), Unfinished' = Rest(Unfinished, n), sent' = sent
      PROVE  Covered'
  <2>1. SUFFICES ASSUME Unfinished' # <<>>, NEW m \in Unfinished'[1].pkt..Len(sent)
                 PROVE  \E i \in 1..Len(Unfinished') : Unfinished'[i].pkt = m
    BY <1>4 DEF Covered
  <2>2. n \in 0..Len(Unfinished) /\ n \in Nat
    BY <1>0, <1>4
  <2>3. /\ Len(Unfinished') \in Nat
        /\ \A i \in 1..Len(Unfinished') : /\ n + i \in 1..Len(Unfinished)
                                          /\ Unfinished'[i] = Unfinished[n + i]
        /\ \A i \in 1..Len(Unfinished) :
             i > n => i - n \in 1..Len(Unfinished') /\ Unfinished'[i - n] = Unfinished[i]
    BY <1>4, <2>2, Shortened
  <2>4. 1 \in 1..Len(Unfinished')
    <3>1. Unfinished' \in Seq(Byte)
      BY <1>0, <1>4, <2>2, Cut
    <3> QED
      BY <2>1, <2>3, <3>1
  <2>5. n + 1 \in 1..Len(Unfinished) /\ Unfinished'[1] = Unfinished[n + 1]
    BY <2>3, <2>4
  <2>6. 1 \in 1..Len(Unfinished) /\ 1 < n + 1
    BY <1>0, <1>4, <2>2
  <2>7. PICK a \in Nat, b \in Nat :
          a = Unfinished[1].pkt /\ b = Unfinished[n + 1].pkt /\ a <= b
    BY <2>5, <2>6, Ascending
  <2>8. m \in b..Len(sent)
    BY <2>1, <2>5, <2>7
  <2>9. m \in a..Len(sent)
    BY <1>0, <2>7, <2>8
  <2>10. PICK i \in 1..Len(Unfinished) : Unfinished[i].pkt = m
    BY <1>0, <2>6, <2>7, <2>9 DEF Covered
  <2>11. CASE i > n
    BY <2>3, <2>10, <2>11
  <2>12. CASE ~(i > n)
    <3>1. i < n + 1
      BY <1>0, <2>2, <2>12
    <3>2. m <= b
      BY <2>5, <2>7, <2>10, <3>1, Ascending
    <3>3. m = b
      BY <1>0, <2>7, <2>8, <3>2
    <3> QED
      BY <2>4, <2>5, <2>7, <3>3
  <2> QED
    BY <2>11, <2>12
<1>5. ASSUME NEW n, Dropped(n) PROVE Covered'
  <2>1. n \in 1..Len(Unfinished)
    <3>1. HeadSize \in Nat \ {0} /\ n \in HeadSize..Len(Unfinished)
      BY <1>5, Known DEF Dropped
    <3> QED
      BY <1>0, <3>1
  <2> QED
    BY <1>4, <1>5, <2>1 DEF Dropped
<1>6. ASSUME NEW k, Taken(k) PROVE Covered'
  <2>1. PICK n : n = Size(sent, k)
    OBVIOUS
  <2>2. n \in 1..Len(Unfinished)
    <3>1. HeadSize \in Nat \ {0} /\ n \in HeadSize..Len(Unfinished)
      BY <1>6, <2>1, Known DEF Taken
    <3> QED
      BY <1>0, <3>1
  <2> QED
    BY <1>4, <1>6, <2>1, <2>2 DEF Taken
<1> QED
  BY <1>1, <1>2, <1>3, <1>5, <1>6, StepStream

\* Bytes are dropped only after something that is no packet.
LEMMA DroppedForeign ==
  ASSUME TypeOK, StreamInv, Started, NEW n, Dropped(n)
  PROVE  ~AllGood
<1>0. SUFFICES ASSUME AllGood PROVE FALSE
  OBVIOUS
<1>1. Len(Unfinished) \in Nat /\ HeadSize \in Nat \ {0} /\ n \in HeadSize..Len(Unfinished)
  BY Known DEF Dropped
<1>2. 1 \in 1..Len(Unfinished)
  BY <1>1
<1>3. PICK j \in 1..Len(Unfinished) : Unfinished[j].pkt = Unfinished[1].pkt /\ Unfinished[j].pos = 1
  BY <1>0, <1>2 DEF Started
<1>4. PICK q \in Nat : q = Unfinished[1].pos /\ q >= 1 /\ Unfinished[1].pkt \in 1..Len(sent)
  <2>1. /\ Unfinished[1].pkt \in 1..Len(sent)
        /\ Unfinished[1].pos \in 1..Size(sent, Unfinished[1].pkt)
    BY <1>2 DEF StreamInv, Stream
  <2>2. \A l \in 1..Len(sent) : Size(sent, l) \in Nat
    BY Known
  <2>3. \A z \in Nat : \A x \in 1..z : x \in Nat /\ x >= 1
    OBVIOUS
  <2> QED
    BY ONLY <2>1, <2>2, <2>3
<1>5. j = 1
  <2>1. SUFFICES ASSUME 1 < j PROVE FALSE
    BY <1>1, <1>3
  <2>2. j - 1 = 1 - q
    BY <1>2, <1>3, <1>4, <2>1 DEF StreamInv, Stream
  <2> QED
    BY <1>1, <1>3, <1>4, <2>1, <2>2
<1>6. MagicOK(Unfinished)
  BY <1>0, <1>3, <1>4, <1>5 DEF MagicOK, AllGood
<1> QED
  BY <1>6 DEF Dropped

\* Without it, what is left begins with the beginning of a packet.
LEMMA StartedStep ==
  ASSUME TypeOK, StreamInv, CacheInv, Started, [Next]_vars
  PROVE  Started'
<1>1. CASE Moved
  BY <1>1 DEF Moved, Started, AllGood
<1>2. CASE Emptied
  <2>1. \A i \in 1..Len(Unfinished') : FALSE
    BY <1>2 DEF Emptied
  <2> QED
    BY <2>1 DEF Started
<1>3. ASSUME NEW p, Packed(p) PROVE Started'
  <2>1. PICK s, u : s = Len(sent) /\ u = Len(Unfinished)
    OBVIOUS
  <2>2. /\ s \in Nat /\ u \in Nat /\ Len(sent') = s + 1
        /\ \A k \in 1..s : sent'[k] = sent[k]
        /\ \A i \in 1..u : i \in 1..Len(Unfinished') /\ Unfinished'[i] = Unfinished[i]
        /\ \A i \in 1..Len(Unfinished') : i \in 1..u \/ Unfinished'[i].pkt = s + 1
        /\ u + 1 \in 1..Len(Unfinished')
        /\ Unfinished'[u + 1].pkt = s + 1 /\ Unfinished'[u + 1].pos = 1
    BY <1>3, <2>1, Extended
  <2>3. SUFFICES ASSUME AllGood', NEW i \in 1..Len(Unfinished')
                 PROVE  \E j \in 1..Len(Unfinished') :
                          Unfinished'[j].pkt = Unfinished'[i].pkt /\ Unfinished'[j].pos = 1
    BY DEF Started
  <2>4. AllGood
    <3>1. \A k \in 1..s : k \in 1..s + 1
      BY <2>2
    <3> QED
      BY <2>1, <2>2, <2>3, <3>1 DEF AllGood
  <2>5. CASE i \in 1..u
    <3>1. PICK j \in 1..u : Unfinished[j].pkt = Unfinished[i].pkt /\ Unfinished[j].pos = 1
      BY <2>1, <2>4, <2>5 DEF Started
    <3> QED
      BY <2>2, <2>5, <3>1
  <2>6. CASE Unfinished'[i].pkt = s + 1
    BY <2>2, <2>6
  <2> QED
    BY <2>2, <2>3, <2>5, <2>6
<1>4. ASSUME NEW n, Dropped(n) PROVE Started'
  <2>1. ~AllGood /\ sent' = sent
    BY <1>4, DroppedForeign DEF Dropped
  <2> QED
    BY <2>1 DEF Started, AllGood
<1>5. ASSUME NEW k, Taken(k) PROVE Started'
  <2>1. PICK z : z = Size(sent, k)
    OBVIOUS
  <2>2. /\ z \in Nat
        /\ \A i \in 1..Len(Unfinished') : k < Unfinished'[i].pkt
        /\ \A i \in 1..Len(Unfinished) : Unfinished[i].pkt > k => i > z
    BY <1>5, <2>1, Remainder
  <2>3. z \in 0..Len(Unfinished) /\ Unfinished' = Rest(Unfinished, z) /\ sent' = sent
        /\ k \in 1..Len(sent)
    <3>1. HeadSize \in Nat \ {0} /\ z \in HeadSize..Len(Unfinished) /\ Len(Unfinished) \in Nat
      BY <1>5, <2>1, Known DEF Taken
    <3> QED
      BY <1>5, <2>1, <3>1 DEF Taken
  <2>4. /\ \A i \in 1..Len(Unfinished') : /\ z + i \in 1..Len(Unfinished)
                                          /\ Unfinished'[i] = Unfinished[z + i]
        /\ \A i \in 1..Len(Unfinished) :
             i > z => i - z \in 1..Len(Unfinished') /\ Unfinished'[i - z] = Unfinished[i]
    BY <2>3, Shortened
  <2>5. SUFFICES ASSUME AllGood', NEW i \in 1..Len(Unfinished')
                 PROVE  \E j \in 1..Len(Unfinished') :
                          Unfinished'[j].pkt = Unfinished'[i].pkt /\ Unfinished'[j].pos = 1
    BY DEF Started
  <2>6. AllGood
    BY <2>3, <2>5 DEF AllGood
  <2>7. z + i \in 1..Len(Unfinished) /\ Unfinished'[i] = Unfinished[z + i]
    BY <2>4, <2>5
  <2>8. PICK j \in 1..Len(Unfinished) :
          Unfinished[j].pkt = Unfinished[z + i].pkt /\ Unfinished[j].pos = 1
    BY <2>6, <2>7 DEF Started
  <2>9. Unfinished[j].pkt > k
    <3>1. Unfinished[j].pkt = Unfinished'[i].pkt /\ k < Unfinished'[i].pkt
      BY <2>2, <2>5, <2>7, <2>8
    <3>2. k \in Nat /\ Unfinished[j].pkt \in Nat
      <4>1. k \in Nat
        BY <2>3, Known
      <4> QED
        BY <2>8, <4>1, Ascending
    <3> QED
      BY <3>1, <3>2
  <2>10. j > z
    BY <2>2, <2>8, <2>9
  <2>11. j - z \in 1..Len(Unfinished') /\ Unfinished'[j - z] = Unfinished[j]
    BY <2>4, <2>8, <2>10
  <2> QED
    BY <2>7, <2>8, <2>11
<1> QED
  BY <1>1, <1>2, <1>3, <1>4, <1>5, StepStream

\* The first packet on the way.
LEMMA FirstPending ==
  ASSUME TypeOK, StreamInv
  PROVE  /\ PendingFrom \in Nat /\ PendingFrom \in 1..Len(sent) + 1
         /\ Len(sent) \in Nat
         /\ Unfinished # <<>> => 1 \in 1..Len(Unfinished) /\ PendingFrom = Unfinished[1].pkt
<1>0. Unfinished \in Seq(Byte) /\ Len(Unfinished) \in Nat /\ Len(sent) \in Nat
  BY Known
<1>1. CASE Unfinished = <<>>
  BY <1>0, <1>1 DEF PendingFrom
<1>2. CASE Unfinished # <<>>
  <2>1. 1 \in 1..Len(Unfinished)
    BY <1>0, <1>2
  <2>2. Unfinished[1].pkt \in 1..Len(sent)
    BY <2>1, Ascending
  <2>3. PendingFrom = Unfinished[1].pkt
    BY <1>2 DEF PendingFrom
  <2> QED
    BY <1>0, <2>1, <2>2, <2>3
<1> QED
  BY <1>1, <1>2

\* A packet that is handed over was the first on the way, and the next one
\* that was sent is the first then.
LEMMA NextPending ==
  ASSUME TypeOK, StreamInv, Covered, NEW k, Taken(k)
  PROVE  PendingFrom = k /\ PendingFrom' = k + 1
<1>0. /\ k \in 1..Len(sent) /\ Len(sent) \in Nat /\ k \in Nat /\ sent' = sent
      /\ Unfinished # <<>> /\ Unfinished[1].pkt = k
      /\ 1 \in 1..Len(Unfinished) /\ PendingFrom = k
  <2>1. /\ k \in 1..Len(sent) /\ sent' = sent /\ Unfinished # <<>> /\ Unfinished[1].pkt = k
    BY DEF Taken
  <2>2. Len(sent) \in Nat /\ 1 \in 1..Len(Unfinished) /\ PendingFrom = k
    BY <2>1, FirstPending
  <2>3. k \in Nat
    BY <2>1, <2>2
  <2> QED
    BY ONLY <2>1, <2>2, <2>3
<1>1. PICK z : z = Size(sent, k)
  OBVIOUS
<1>2. /\ z \in Nat
      /\ \A i \in 1..Len(Unfinished') : k < Unfinished'[i].pkt
      /\ \A i \in 1..Len(Unfinished) : Unfinished[i].pkt > k => i > z
  BY <1>1, Remainder
<1>3. z \in 0..Len(Unfinished) /\ Unfinished' = Rest(Unfinished, z)
  <2>1. HeadSize \in Nat \ {0} /\ z \in HeadSize..Len(Unfinished) /\ Len(Unfinished) \in Nat
    BY <1>1, Known DEF Taken
  <2> QED
    BY <1>1, <2>1 DEF Taken
<1>4. /\ Len(Unfinished') \in Nat
      /\ \A i \in 1..Len(Unfinished') : /\ z + i \in 1..Len(Unfinished)
                                        /\ Unfinished'[i] = Unfinished[z + i]
      /\ \A i \in 1..Len(Unfinished) :
           i > z => i - z \in 1..Len(Unfinished') /\ Unfinished'[i - z] = Unfinished[i]
  BY <1>3, Shortened
<1>5. \A m \in k..Len(sent) : \E i \in 1..Len(Unfinished) : Unfinished[i].pkt = m
  BY <1>0 DEF Covered
<1>6. \A m \in k + 1..Len(sent) : \E i \in 1..Len(Unfinished') : Unfinished'[i].pkt = m
  <2>1. ASSUME NEW m \in k + 1..Len(sent)
        PROVE  \E i \in 1..Len(Unfinished') : Unfinished'[i].pkt = m
    <3>1. m \in k..Len(sent) /\ m > k
      BY <1>0, <2>1
    <3>2. PICK i \in 1..Len(Unfinished) : Unfinished[i].pkt = m
      BY <1>5, <3>1
    <3>3. i > z
      BY <1>2, <3>1, <3>2
    <3> QED
      BY <1>4, <3>2, <3>3
  <2> QED
    BY <2>1
<1>7. CASE Unfinished' = <<>>
  <2>1. \A i \in 1..Len(Unfinished') : FALSE
    BY <1>7
  <2>2. ~(k + 1 \in k + 1..Len(sent))
    BY <1>6, <2>1
  <2>3. Len(sent) + 1 = k + 1
    BY <1>0, <2>2
  <2>4. PendingFrom' = Len(sent) + 1
    BY <1>0, <1>7 DEF PendingFrom
  <2> QED
    BY <1>0, <2>3, <2>4
<1>8. CASE Unfinished' # <<>>
  <2>1. /\ PendingFrom' = Unfinished'[1].pkt /\ 1 \in 1..Len(Unfinished')
        /\ Len(Unfinished') \in Nat
        /\ \A i \in 1..Len(Unfinished') : /\ Unfinished'[i].pkt \in Nat
                                          /\ Unfinished'[i].pkt \in 1..Len(sent)
        /\ \A i, j \in 1..Len(Unfinished') :
             i < j => Unfinished'[i].pkt <= Unfinished'[j].pkt
    <3>1. PendingFrom' = Unfinished'[1].pkt
      BY <1>8 DEF PendingFrom
    <3>2. 1 \in 1..Len(Unfinished')
      <4>1. Unfinished' \in Seq(Byte)
        BY <1>3, Known, Cut
      <4> QED
        BY <1>4, <1>8, <4>1
    <3>3. ASSUME NEW i \in 1..Len(Unfinished')
          PROVE  /\ Unfinished'[i].pkt \in Nat /\ Unfinished'[i].pkt \in 1..Len(sent)
      BY <1>4, <3>3, Ascending
    <3>4. ASSUME NEW i \in 1..Len(Unfinished'), NEW j \in 1..Len(Unfinished'), i < j
          PROVE  Unfinished'[i].pkt <= Unfinished'[j].pkt
      <4>1. /\ z + i \in 1..Len(Unfinished) /\ Unfinished'[i] = Unfinished[z + i]
            /\ z + j \in 1..Len(Unfinished) /\ Unfinished'[j] = Unfinished[z + j]
        BY <1>4, <3>4
      <4>2. z + i < z + j
        BY <1>2, <1>4, <3>4
      <4> QED
        BY <4>1, <4>2, Ascending
    <3> QED
      BY ONLY <1>4, <3>1, <3>2, <3>3, <3>4
  <2>2. PICK f \in Nat : f = Unfinished'[1].pkt /\ k < f /\ f <= Len(sent)
    BY <1>0, <1>2, <2>1
  <2>3. k + 1 \in k + 1..Len(sent)
    BY <1>0, <2>2
  <2>4. PICK i \in 1..Len(Unfinished') : Unfinished'[i].pkt = k + 1
    BY <1>6, <2>3
  <2>5. f <= k + 1
    <3>1. CASE i = 1
      BY <1>0, <2>2, <2>4, <3>1
    <3>2. CASE i # 1
      <4>1. 1 < i
        BY <2>1, <2>4, <3>2
      <4> QED
        BY <2>1, <2>2, <2>4, <4>1
    <3> QED
      BY <3>1, <3>2
  <2> QED
    BY <1>0, <2>1, <2>2, <2>5
<1> QED
  BY <1>0, <1>7, <1>8

\* Every step of the framing is a step of the channel or leaves it alone.
LEMMA ChannelStep ==
  ASSUME TypeOK, StreamInv, CacheInv, Covered, Started, [Next]_vars
  PROVE  [Channel!Next]_<<Len(sent), {<<k, PayloadOf(k)>> : k \in PendingPackets},
                          \A k \in 1..Len(sent) : Fits(k), delivered>>
<1> DEFINE pend == {<<k, PayloadOf(k)>> : k \in PendingPackets}
<1>0. /\ PendingFrom \in Nat /\ PendingFrom \in 1..Len(sent) + 1 /\ Len(sent) \in Nat
      /\ Unfinished # <<>> => 1 \in 1..Len(Unfinished) /\ PendingFrom = Unfinished[1].pkt
  BY FirstPending
<1>1. ASSUME sent' = sent
      PROVE  /\ \A k : PayloadOf(k)' = PayloadOf(k)
             /\ pend' = {<<k, PayloadOf(k)>> : k \in {k \in PendingFrom'..Len(sent) : Fits(k)}}
  <2>1. \A k : PayloadOf(k)' = PayloadOf(k)
    BY <1>1, SamePayload
  <2>2. PendingPackets' = {k \in PendingFrom'..Len(sent) : Fits(k)}
    BY <1>1 DEF PendingPackets, Fits
  <2> QED
    BY <2>1, <2>2
<1>2. CASE Moved
  <2>1. PendingFrom' = PendingFrom
    BY <1>2 DEF Moved, PendingFrom
  <2>2. sent' = sent /\ delivered' = delivered
    BY <1>2 DEF Moved
  <2>3. pend' = pend
    BY <1>1, <2>1, <2>2 DEF PendingPackets
  <2>4. AllFit' = AllFit
    BY <2>2 DEF AllFit, Fits
  <2> QED
    BY <2>2, <2>3, <2>4 DEF AllFit
<1>3. CASE Emptied
  <2>1. sent' = sent /\ delivered' = delivered /\ Unfinished' = <<>>
    BY <1>3 DEF Emptied
  <2>2. PendingFrom' = Len(sent) + 1
    BY <2>1 DEF PendingFrom
  <2>3. \A k \in PendingFrom'..Len(sent) : FALSE
    BY <1>0, <2>2
  <2>4. pend' = {}
    BY <1>1, <2>1, <2>3
  <2>5. AllFit' = AllFit
    BY <2>1 DEF AllFit, Fits
  <2> QED
    BY <2>1, <2>4, <2>5 DEF Channel!Next, Channel!EndSession, AllFit
<1>4. ASSUME NEW n, Dropped(n)
      PROVE  Channel!Lose \/ UNCHANGED <<Len(sent), pend, AllFit, delivered>>
  <2>1. sent' = sent /\ delivered' = delivered /\ ~AllFit /\ AllFit' = AllFit
    <3>1. sent' = sent /\ delivered' = delivered /\ ~AllGood
      BY <1>4, DroppedForeign DEF Dropped
    <3> QED
      BY <3>1 DEF AllGood, AllFit, Fits
  <2>2. PendingFrom' \in Nat /\ PendingFrom' >= PendingFrom /\ PendingFrom' <= Len(sent) + 1
    <3>1. n \in 0..Len(Unfinished) /\ n >= 1 /\ n \in Nat /\ Unfinished' = Rest(Unfinished, n)
          /\ Unfinished # <<>> /\ Unfinished \in Seq(Byte) /\ Len(Unfinished) \in Nat
      <4>1. /\ HeadSize \in Nat \ {0} /\ Len(Unfinished) \in Nat
            /\ n \in HeadSize..Len(Unfinished) /\ Unfinished \in Seq(Byte)
        BY <1>4, Known DEF Dropped
      <4> QED
        BY <1>4, <4>1 DEF Dropped
    <3>2. CASE Unfinished' = <<>>
      <4>1. PendingFrom' = Len(sent) + 1
        BY <2>1, <3>2 DEF PendingFrom
      <4> QED
        BY <1>0, <4>1
    <3>3. CASE Unfinished' # <<>>
      <4>1. PendingFrom' = Unfinished'[1].pkt
        BY <3>3 DEF PendingFrom
      <4>2. /\ Len(Unfinished') \in Nat
            /\ \A i \in 1..Len(Unfinished') : /\ n + i \in 1..Len(Unfinished)
                                              /\ Unfinished'[i] = Unfinished[n + i]
        BY <3>1, Shortened
      <4>3. 1 \in 1..Len(Unfinished')
        <5>1. Unfinished' \in Seq(Byte)
          BY <3>1, Cut
        <5> QED
          BY <3>3, <4>2, <5>1
      <4>4. n + 1 \in 1..Len(Unfinished) /\ Unfinished'[1] = Unfinished[n + 1] /\ 1 < n + 1
        BY <3>1, <4>2, <4>3
      <4>5. /\ Unfinished[1].pkt <= Unfinished[n + 1].pkt
            /\ Unfinished[n + 1].pkt \in 1..Len(sent) /\ PendingFrom = Unfinished[1].pkt
        BY <1>0, <3>1, <4>4, Ascending
      <4>6. PICK f \in 1..Len(sent) : f = PendingFrom' /\ PendingFrom <= f
        BY <4>1, <4>4, <4>5
      <4> QED
        BY <1>0, <4>6
    <3> QED
      BY <3>2, <3>3
  <2>3. CASE PendingFrom' = PendingFrom
    <3>1. pend' = pend
      BY <1>1, <2>1, <2>3 DEF PendingPackets
    <3> QED
      BY <2>1, <3>1
  <2>4. CASE PendingFrom' # PendingFrom
    <3>0. PICK a \in Nat, b \in Nat, s \in Nat :
            /\ a = PendingFrom /\ b = PendingFrom' /\ s = Len(sent)
            /\ a \in 1..s + 1 /\ a <= b /\ b <= s + 1 /\ a # b
      BY ONLY <1>0, <2>2, <2>4
    <3>1. PICK m \in 1..s : m + 1 = b
      <4>1. a >= 1 /\ a <= b /\ a # b /\ b <= s + 1
        BY <3>0
      <4>2. b - 1 \in 1..s /\ (b - 1) + 1 = b
        BY ONLY <4>1, a \in Nat, b \in Nat, s \in Nat
      <4> QED
        BY ONLY <4>2
    <3>2. {k \in PendingFrom'..Len(sent) : Fits(k)} = {k \in PendingPackets : k > m}
      <4>1. \A k : k \in b..s <=> k \in a..s /\ k > m
        BY ONLY <3>0, <3>1, a \in Nat, b \in Nat, s \in Nat
      <4> QED
        BY ONLY <3>0, <4>1 DEF PendingPackets
    <3>3. pend' = {e \in pend : e[1] > m}
      <4>1. pend' = {<<k, PayloadOf(k)>> : k \in {k \in PendingPackets : k > m}}
        BY <1>1, <2>1, <3>2
      <4>2. \A k, d : <<k, d>>[1] = k
        OBVIOUS
      <4> QED
        BY ONLY <4>1, <4>2
    <3> QED
      BY <2>1, <3>0, <3>1, <3>3 DEF Channel!Lose, AllFit
  <2> QED
    BY <2>3, <2>4
<1>5. ASSUME NEW k, Taken(k) PROVE Channel!Deliver
  <2>1. /\ k \in 1..Len(sent) /\ Fits(k) /\ sent' = sent
        /\ delivered' = Append(delivered, PayloadOf(k))
    BY <1>5 DEF Taken
  <2>2. PendingFrom = k /\ PendingFrom' = k + 1
    BY <1>5, NextPending
  <2>3. /\ k \in PendingPackets /\ \A l \in PendingPackets : k <= l
        /\ {l \in PendingFrom'..Len(sent) : Fits(l)} = PendingPackets \ {k}
    <3>1. k \in k..Len(sent) /\ \A l \in k..Len(sent) : k <= l
      BY <1>0, <2>1
    <3>2. \A l : l \in k + 1..Len(sent) <=> l \in k..Len(sent) /\ l # k
      BY <1>0, <2>1
    <3> QED
      BY ONLY <2>1, <2>2, <3>1, <3>2 DEF PendingPackets
  <2>4. PICK e : e = <<k, PayloadOf(k)>>
    OBVIOUS
  <2>5. \A l, d : <<l, d>>[1] = l /\ <<l, d>>[2] = d
    OBVIOUS
  <2>6. e \in pend /\ e[1] = k /\ e[2] = PayloadOf(k) /\ \A f \in pend : e[1] <= f[1]
    BY ONLY <2>3, <2>4, <2>5
  <2>7. pend' = pend \ {e}
    <3>1. pend' = {<<l, PayloadOf(l)>> : l \in PendingPackets \ {k}}
      BY <1>1, <2>1, <2>3
    <3> QED
      BY ONLY <2>3, <2>4, <2>5, <3>1
  <2>8. AllFit' = AllFit
    BY <2>1 DEF AllFit, Fits
  <2> QED
    BY <2>1, <2>6, <2>7, <2>8 DEF Channel!Deliver, AllFit
<1>6. ASSUME NEW p, Packed(p) PROVE Channel!Send \/ Channel!Soil
  <2>1. PICK s, u : s = Len(sent) /\ u = Len(Unfinished)
    OBVIOUS
  <2>2. /\ s \in Nat /\ u \in Nat /\ Len(sent') = s + 1 /\ sent'[s + 1] = p
        /\ \A k \in 1..s : sent'[k] = sent[k]
        /\ \A i \in 1..u : i \in 1..Len(Unfinished') /\ Unfinished'[i] = Unfinished[i]
        /\ u + 1 \in 1..Len(Unfinished') /\ Unfinished'[u + 1].pkt = s + 1
    BY <1>6, <2>1, Extended
  <2>3. p \in Packets /\ s < MaxPackets /\ delivered' = delivered
    BY <1>6, <2>1 DEF Packed
  <2>4. PendingFrom' = PendingFrom
    <3>1. Unfinished' # <<>>
      BY <2>2
    <3>2. PendingFrom' = Unfinished'[1].pkt
      BY <3>1 DEF PendingFrom
    <3>3. CASE Unfinished = <<>>
      <4>1. u = 0 /\ PendingFrom = s + 1
        BY <2>1, <3>3 DEF PendingFrom
      <4> QED
        BY <2>2, <3>2, <4>1
    <3>4. CASE Unfinished # <<>>
      BY <1>0, <2>1, <2>2, <3>2, <3>4
    <3> QED
      BY <3>3, <3>4
  <2>5. PICK f \in Nat : f = PendingFrom /\ f \in 1..s + 1
    BY <1>0, <2>1
  <2>6. \A k : k \in f..s + 1 <=> k \in f..s \/ k = s + 1
    BY <2>2, <2>5
  <2>7. \A k \in f..s : k \in 1..s
    BY <2>2, <2>5
  <2>8. \A k \in 1..s : PayloadOf(k)' = PayloadOf(k) /\ k \in 1..s + 1
    <3>1. \A k \in 1..s : PayloadOf(k)' = PayloadOf(k)
      BY <2>2, SamePayload
    <3>2. \A k \in 1..s : k \in 1..s + 1
      BY <2>2
    <3> QED
      BY ONLY <3>1, <3>2
  <2>9. PendingPackets = {k \in f..s : Fits(k)}
    BY <2>1, <2>5 DEF PendingPackets
  <2>10. PendingPackets' = {k \in f..s + 1 : Fits(k)'}
    BY <2>2, <2>4, <2>5 DEF PendingPackets
  <2>14. /\ \A k \in 1..s : Fits(k)' = Fits(k)
         /\ Fits(s + 1)' = (p.good /\ p.len <= MaxRx)
    BY <2>2 DEF Fits
  <2>11. \A k \in PendingPackets : k \in 1..s
    BY ONLY <2>7, <2>9
  <2>12. CASE p.good /\ p.len <= MaxRx
    <3>1. PendingPackets' = PendingPackets \cup {s + 1}
      BY ONLY <2>6, <2>7, <2>9, <2>10, <2>12, <2>14
    <3>2. PICK d : d = PayloadOf(s + 1)'
      OBVIOUS
    <3>3. pend' = pend \cup {<<s + 1, d>>}
      BY ONLY <2>8, <2>11, <3>1, <3>2
    <3>4. d \in {Bytes(k, HeadSize + 1, HeadSize + n) : k \in 1..MaxPackets, n \in Lengths}
      <4>1. d = Bytes(s + 1, HeadSize + 1, HeadSize + p.len)
        BY <2>2, <3>2 DEF PayloadOf
      <4>2. s + 1 \in 1..MaxPackets
        BY <2>2, <2>3, DbPackAssumption
      <4>3. p.len \in Lengths
        BY <2>3 DEF Packets
      <4> QED
        BY ONLY <4>1, <4>2, <4>3
    <3>5. AllFit' <=> AllFit
      <4>1. \A k : k \in 1..s + 1 <=> k \in 1..s \/ k = s + 1
        BY <2>2
      <4> QED
        BY ONLY <2>1, <2>2, <2>12, <2>14, <4>1 DEF AllFit
    <3> QED
      BY <2>1, <2>2, <2>3, <3>3, <3>4, <3>5 DEF Channel!Send, AllFit
  <2>13. CASE ~(p.good /\ p.len <= MaxRx)
    <3>1. PendingPackets' = PendingPackets
      BY ONLY <2>6, <2>7, <2>9, <2>10, <2>13, <2>14
    <3>2. pend' = pend
      BY ONLY <2>8, <2>11, <3>1
    <3>3. ~AllFit'
      <4>1. s + 1 \in 1..s + 1
        BY <2>2
      <4> QED
        BY ONLY <2>2, <2>13, <2>14, <4>1 DEF AllFit
    <3> QED
      BY <2>1, <2>2, <2>3, <3>2, <3>3 DEF Channel!Soil, AllFit
  <2> QED
    BY <2>12, <2>13
<1> QED
  BY <1>2, <1>3, <1>4, <1>5, <1>6, StepStream DEF Channel!Next, AllFit

-----------------------------------------------------------------------------
(* The theorems.                                                           *)

\* The inductive invariant holds in every state of every behaviour: however
\* the connection cuts the stream and whatever foreign bytes it carries.
THEOREM PackInvariance == Spec => []PackInv
<1>1. Init => PackInv
  <2>0. SUFFICES ASSUME Init PROVE PackInv
    OBVIOUS
  <2>1. /\ sent = <<>> /\ ended = 0 /\ wire = <<>> /\ left = <<>> /\ cbuf = <<>>
        /\ delivered = <<>> /\ overrun = FALSE
    BY <2>0 DEF Init
  <2>2. TypeOK
    <3>1. MaxSessions \in Nat /\ MaxRx \in Nat /\ Len(<<>>) = 0
      BY DbPackAssumption
    <3>2. ended \in 0..MaxSessions /\ Len(left) <= MaxRx
      BY <2>1, <3>1
    <3>3. /\ sent \in Seq(Packets) /\ wire \in Seq(Byte) /\ left \in Seq(Byte)
          /\ cbuf \in Seq(Byte) /\ delivered \in Seq(Seq(Byte))
      BY <2>1
    <3>4. overrun \in BOOLEAN
      BY <2>1
    <3> QED
      BY ONLY <3>2, <3>3, <3>4 DEF TypeOK
  <2>3. Unfinished = <<>> /\ Len(Unfinished) = 0 /\ Len(sent) = 0 /\ Len(delivered) = 0
    <3>1. <<>> \o <<>> = <<>>
      BY <2>1, <2>2, ConcatEmptySeq DEF TypeOK
    <3> QED
      BY <2>1, <3>1 DEF Unfinished
  <2>4. \A i \in 1..0 : FALSE
    OBVIOUS
  <2>5. StreamInv
    BY <2>3, <2>4 DEF StreamInv, Stream
  <2>6. CacheInv
    <3>1. HeadSize \in Nat \ {0} /\ Len(cbuf) = 0
      BY <2>1, DbPackAssumption
    <3> QED
      BY <3>1 DEF CacheInv
  <2>7. InOrder
    <3>1. PICK f : f = [i \in 1..0 |-> 1]
      OBVIOUS
    <3>2. f \in [1..Len(delivered) -> 1..Len(sent)]
      BY <2>3, <2>4, <3>1
    <3>3. Origin(f)
      BY <2>3, <2>4, <3>2 DEF Origin
    <3> QED
      BY <3>2, <3>3 DEF InOrder
  <2>8. CleanInv
    BY <2>3, <2>4 DEF CleanInv
  <2>9. CacheFits
    BY <2>1 DEF CacheFits
  <2> QED
    BY <2>2, <2>5, <2>6, <2>7, <2>8, <2>9 DEF PackInv
<1>2. PackInv /\ [Next]_vars => PackInv'
  BY TypeStep, StreamStep, CacheStep, FitsStep, InOrderStep, CleanStep DEF PackInv
<1> QED
  BY <1>1, <1>2, PTL DEF Spec

\* Type correctness of the framing.
THEOREM TypeCorrect == Spec => []TypeOK
<1>1. PackInv => TypeOK
  BY DEF PackInv
<1> QED
  BY <1>1, PackInvariance, PTL

\* No os_memcpy of db_pack_unpack writes behind the cache before a packet with
\* the magic code announces more than max_rx_size bytes; foreign bytes and
\* ended sessions, and the way the stream is cut, never make one do so.
THEOREM CacheIsBounded == Spec => []CacheFits
<1>1. PackInv => CacheFits
  BY DEF PackInv
<1> QED
  BY <1>1, PackInvariance, PTL

\* recv_cb is called with payloads of packets that were sent with the magic
\* code, each whole, none twice, and in the order in which they were sent.
THEOREM DeliveredInOrder == Spec => []InOrder
<1>1. PackInv => InOrder
  BY DEF PackInv
<1> QED
  BY <1>1, PackInvariance, PTL

\* As long as no session has ended and nothing else than packets was on the
\* connection, recv_cb has been called for every packet once all bytes are
\* processed, wherever the stream was cut.
THEOREM NoPacketLost == Spec => []NothingLost
<1>1. PackInv => NothingLost
  <2>0. SUFFICES ASSUME PackInv, Clean, Unfinished = <<>>
                 PROVE  delivered = [k \in 1..Len(sent) |-> PayloadOf(k)]
    BY DEF NothingLost
  <2>1. /\ delivered \in Seq(Seq(Byte)) /\ Len(delivered) \in Nat /\ Len(sent) \in Nat
        /\ sent \in Seq(Packets)
    BY <2>0 DEF PackInv, TypeOK
  <2>2. /\ \A i \in 1..Len(delivered) : i \in 1..Len(sent) /\ delivered[i] = PayloadOf(i)
        /\ \A k \in 1..Len(sent) : ~(k > Len(delivered))
    <3>1. \A i \in 1..Len(Unfinished) : FALSE
      BY <2>0
    <3> QED
      BY <2>0, <3>1 DEF PackInv, CleanInv
  <2>3. Len(delivered) = Len(sent)
    <3>1. Len(delivered) = 0 \/ Len(delivered) \in 1..Len(delivered)
      BY <2>1
    <3>2. Len(delivered) <= Len(sent)
      BY <2>1, <2>2, <3>1
    <3>3. Len(sent) = 0 \/ Len(sent) \in 1..Len(sent)
      BY <2>1
    <3>4. Len(sent) <= Len(delivered)
      BY <2>1, <2>2, <3>3
    <3> QED
      BY <2>1, <3>2, <3>4
  <2>4. delivered = [i \in 1..Len(delivered) |-> delivered[i]]
    BY <2>1
  <2>5. [i \in 1..Len(delivered) |-> delivered[i]] = [i \in 1..Len(delivered) |-> PayloadOf(i)]
    BY ONLY <2>2
  <2> QED
    BY ONLY <2>3, <2>4, <2>5
<1> QED
  BY <1>1, PackInvariance, PTL

\* db_pack implements the channel: recv_cb is called with the packets that were
\* sent, whole, each once and in order; none is lost but with its session or
\* after bytes that are no packet or a packet that does not fit.
THEOREM FramingIsChannel == Spec => Channel!Safety
<1>1. Init => Covered /\ Started /\ Channel!Init
  <2>0. SUFFICES ASSUME Init PROVE Covered /\ Started /\ Channel!Init
    OBVIOUS
  <2>1. sent = <<>> /\ wire = <<>> /\ left = <<>> /\ cbuf = <<>> /\ delivered = <<>>
    BY <2>0 DEF Init
  <2>2. Unfinished = <<>> /\ Len(Unfinished) = 0 /\ Len(sent) = 0
    <3>1. <<>> \o <<>> = <<>>
      BY <2>1, ConcatEmptySeq
    <3> QED
      BY <2>1, <3>1 DEF Unfinished
  <2>3. (\A i \in 1..0 : FALSE) /\ (\A i \in 0 + 1..0 : FALSE)
    OBVIOUS
  <2>4. PendingPackets = {}
    BY <2>2, <2>3 DEF PendingPackets, PendingFrom
  <2> QED
    BY <2>1, <2>2, <2>3, <2>4 DEF Covered, Started, Channel!Init
<1>2. PackInv /\ Covered /\ Started /\ [Next]_vars =>
        /\ Covered' /\ Started' /\ [Channel!Next]_Channel!vars
  BY CoveredStep, StartedStep, ChannelStep DEF PackInv, Channel!vars
<1> QED
  BY <1>1, <1>2, PackInvariance, PTL DEF Spec, Channel!Safety
=============================================================================
