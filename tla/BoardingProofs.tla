--------------------------- MODULE BoardingProofs ---------------------------
(***************************************************************************)
(* Proofs about the provisioning over BLE, for every set of networks,      *)
(* every length of the queue and every number of operations: the CS2       *)
(* service starts with the credentials the phone wrote, and each of them   *)
(* is answered once, unless the full queue drops the answer.               *)
(***************************************************************************)
EXTENDS Boarding, SequenceTheorems, TLAPS

-----------------------------------------------------------------------------
(* The inductive invariant.                                                *)

Events == Fields \cup {"connect", "cs2", "lan", "ble_off"}
Composed == [f \in Fields |-> IF f \in {"apilicense", "initstring"}
                              THEN <<f, "key">> ELSE <<f>>]

(* Before the start a credential is empty or as it was written, and it was *)
(* written when its answer is under way or has arrived; from the start on  *)
(* all are composed.  The service follows the start only.                  *)
CredentialInv ==
  /\ \A f \in Fields : ~started => cs2[f] \in {<<>>, <<f>>}
  /\ \A f \in Fields : Posted(f) \/ f \in acked => cs2[f] # <<>>
  /\ started => cs2 = Composed
  /\ Posted("cs2") \/ service = "cs2" => started

(* A credential that was written has its answer given, waiting or dropped, *)
(* and a dropped answer is never made up for.                              *)
AnswerInv ==
  /\ \A f \in Fields : cs2[f] # <<>> /\ ble => f \in acked \/ Posted(f) \/ f \in lost
  /\ \A f \in Fields : f \in lost => cs2[f] # <<>> /\ f \notin acked /\ ~Posted(f)

QueueInv == queue \in Seq(Events)

BoardingInv == TypeOK /\ QueueInv /\ CredentialInv /\ AnswerInv

-----------------------------------------------------------------------------
(* The queue of the core thread.                                           *)

Occurs(q, e) == \E i \in 1..Len(q) : q[i] = e

\* doorbell_send_msg adds its message, or drops it.
LEMMA PostEffect ==
  ASSUME QueueInv, NEW e \in Events, Post(e), Len(queue) <= QueueLen
  PROVE  /\ queue' \in Seq(Events) /\ Len(queue') <= QueueLen
         /\ \A x : Occurs(queue', x) => Occurs(queue, x) \/ x = e
         /\ \A x : Occurs(queue, x) => Occurs(queue', x)
         /\ \/ Occurs(queue', e) /\ lost' = lost
            \/ queue' = queue /\ lost' = lost \cup {e}
<1>0. QueueLen \in Nat /\ Len(queue) \in Nat /\ queue \in Seq(Events)
  BY BoardingAssumption DEF QueueInv
<1>1. CASE Len(queue) < QueueLen
  <2>1. queue' = Append(queue, e) /\ lost' = lost
    BY <1>0, <1>1 DEF Post
  <2>2. /\ queue' \in Seq(Events) /\ Len(queue') = Len(queue) + 1
        /\ queue'[Len(queue) + 1] = e
        /\ \A i \in 1..Len(queue) : queue'[i] = queue[i]
    BY <1>0, <2>1
  <2>3. \A i \in 1..Len(queue') : i = Len(queue) + 1 \/ i \in 1..Len(queue)
    BY <1>0, <2>2
  <2>4. \A i \in 1..Len(queue) : i \in 1..Len(queue')
    BY <1>0, <2>2
  <2>5. Len(queue) + 1 \in 1..Len(queue') /\ Len(queue') <= QueueLen
    BY <1>0, <1>1, <2>2
  <2> QED
    BY <2>1, <2>2, <2>3, <2>4, <2>5 DEF Occurs
<1>2. CASE ~(Len(queue) < QueueLen)
  <2>1. queue' = queue /\ lost' = lost \cup {e}
    BY <1>2 DEF Post
  <2> QED
    BY <1>0, <2>1
<1> QED
  BY <1>1, <1>2

\* The core thread takes the oldest message.
LEMMA PopEffect ==
  ASSUME QueueInv, NEW e, Pop(e), Len(queue) <= QueueLen
  PROVE  /\ queue' \in Seq(Events) /\ Len(queue') <= QueueLen
         /\ Occurs(queue, e)
         /\ \A x : Occurs(queue', x) => Occurs(queue, x)
         /\ \A x : Occurs(queue, x) => Occurs(queue', x) \/ x = e
<1>0. /\ QueueLen \in Nat /\ Len(queue) \in Nat /\ queue \in Seq(Events)
      /\ queue # <<>> /\ queue[1] = e /\ queue' = Tail(queue)
  BY BoardingAssumption DEF QueueInv, Pop
<1>1. /\ queue' \in Seq(Events) /\ Len(queue') = Len(queue) - 1 /\ Len(queue) >= 1
      /\ \A i \in 1..Len(queue') : queue'[i] = queue[i + 1]
  BY <1>0
<1>2. \A i \in 1..Len(queue') : i + 1 \in 1..Len(queue)
  BY <1>0, <1>1
<1>3. \A i \in 1..Len(queue) : i = 1 \/ (i - 1 \in 1..Len(queue') /\ queue[i] = queue'[i - 1])
  BY <1>0, <1>1
<1>4. 1 \in 1..Len(queue) /\ Len(queue') <= QueueLen
  BY <1>0, <1>1
<1>5. \A x : Occurs(queue', x) => Occurs(queue, x)
  BY <1>1, <1>2 DEF Occurs
<1>6. \A x : Occurs(queue, x) => Occurs(queue', x) \/ x = e
  BY <1>0, <1>3 DEF Occurs
<1> QED
  BY <1>0, <1>1, <1>4, <1>5, <1>6 DEF Occurs
-----------------------------------------------------------------------------
(* The steps of the system.                                                *)

\* os_memcpy of the key to the end of a credential.
LEMMA PairOf ==
  ASSUME NEW a \in Fields, NEW b \in Fields
  PROVE  <<a>> \o <<b>> = <<a, b>>
<1>1. PICK s \in Seq(Fields), t \in Seq(Fields) :
        s = <<a>> /\ t = <<b>> /\ Len(s) = 1 /\ Len(t) = 1 /\ s[1] = a /\ t[1] = b
  <2>1. /\ <<a>> \in Seq(Fields) /\ Len(<<a>>) = 1 /\ <<a>>[1] = a
        /\ <<b>> \in Seq(Fields) /\ Len(<<b>>) = 1 /\ <<b>>[1] = b
    OBVIOUS
  <2> QED
    BY ONLY <2>1
<1>2. PICK u \in Seq(Fields) : u = <<a, b>> /\ Len(u) = 2 /\ u[1] = a /\ u[2] = b
  <2>1. <<a, b>> \in Seq(Fields) /\ Len(<<a, b>>) = 2 /\ <<a, b>>[1] = a /\ <<a, b>>[2] = b
    OBVIOUS
  <2> QED
    BY ONLY <2>1
<1>3. /\ s \o t \in Seq(Fields) /\ Len(s \o t) = 2
      /\ (s \o t)[1] = a /\ (s \o t)[2] = b
  BY <1>1, ConcatProperties
<1>4. \A i \in 1..2 : i = 1 \/ i = 2
  OBVIOUS
<1>5. \A i \in 1..Len(s \o t) : (s \o t)[i] = u[i]
  BY <1>2, <1>3, <1>4
<1>6. s \o t = u
  BY <1>2, <1>3, <1>5, SeqEqual
<1> QED
  BY <1>1, <1>2, <1>6

\* Every step keeps the types and puts only known messages in the queue.
LEMMA TypeStep ==
  ASSUME TypeOK, QueueInv, [Next]_vars
  PROVE  TypeOK' /\ QueueInv'
<1> USE BoardingAssumption
<1>1. CASE \E n \in Networks : WriteWifi(n)
  BY <1>1 DEF WriteWifi, TypeOK, QueueInv
<1>2. CASE StationStart
  <2>1. Post("connect") /\ "connect" \in Events
    BY <1>2 DEF StationStart, Events
  <2>2. queue' \in Seq(Events) /\ Len(queue') <= QueueLen /\ lost' \subseteq Events
    BY <2>1, PostEffect DEF TypeOK, Events
  <2> QED
    BY <1>2, <2>2 DEF StationStart, Operation, TypeOK, QueueInv, Events
<1>3. CASE \E f \in Fields : SetCs2(f)
  <2>1. PICK f \in Fields : SetCs2(f)
    BY <1>3
  <2>2. queue' \in Seq(Events) /\ Len(queue') <= QueueLen /\ lost' \subseteq Events
    <3>1. f \in Events
      BY DEF Events
    <3>2. CASE Post(f)
      BY <3>1, <3>2, PostEffect DEF TypeOK, Events
    <3>3. CASE UNCHANGED <<cs2, queue, lost>>
      BY <3>3 DEF TypeOK, QueueInv, Events
    <3> QED
      BY <2>1, <3>2, <3>3 DEF SetCs2
  <2>3. cs2' \in [Fields -> Seq(Fields)]
    <3>1. <<f>> \in Seq(Fields)
      OBVIOUS
    <3> QED
      BY <2>1, <3>1 DEF SetCs2, TypeOK
  <2> QED
    BY <2>1, <2>2, <2>3 DEF SetCs2, Operation, TypeOK, QueueInv, Events
<1>4. CASE Cs2Start
  <2>1. queue' \in Seq(Events) /\ Len(queue') <= QueueLen /\ lost' \subseteq Events
    <3>1. "cs2" \in Events
      BY DEF Events
    <3>2. CASE Post("cs2")
      BY <3>1, <3>2, PostEffect DEF TypeOK, Events
    <3>3. CASE UNCHANGED <<cs2, started, queue, lost>>
      BY <3>3 DEF TypeOK, QueueInv, Events
    <3> QED
      BY <1>4, <3>2, <3>3 DEF Cs2Start
  <2>2. cs2' \in [Fields -> Seq(Fields)]
    <3>1. \A f \in Fields : cs2[f] \o cs2["key"] \in Seq(Fields)
      BY DEF TypeOK, Fields
    <3> QED
      BY <1>4, <3>1 DEF Cs2Start, TypeOK, Fields
  <2>3. started' \in BOOLEAN
    BY <1>4 DEF Cs2Start, TypeOK
  <2> QED
    BY <1>4, <2>1, <2>2, <2>3 DEF Cs2Start, Operation, TypeOK, QueueInv, Events
<1>5. CASE \E e \in {"lan", "ble_off"} : RequestOther(e)
  <2>1. PICK e \in {"lan", "ble_off"} : RequestOther(e)
    BY <1>5
  <2>2. Post(e) /\ e \in Events
    BY <2>1 DEF RequestOther, Events
  <2>3. queue' \in Seq(Events) /\ Len(queue') <= QueueLen /\ lost' \subseteq Events
    BY <2>2, PostEffect DEF TypeOK, Events
  <2> QED
    BY <2>1, <2>3 DEF RequestOther, Operation, TypeOK, QueueInv, Events
<1>6. ASSUME NEW e, Pop(e)
      PROVE  queue' \in Seq(Events) /\ Len(queue') <= QueueLen
  BY <1>6, PopEffect DEF TypeOK
<1>7. CASE HandleConnect
  BY <1>6, <1>7 DEF HandleConnect, TypeOK, QueueInv
<1>8. CASE HandleBleDisable
  BY <1>6, <1>8 DEF HandleBleDisable, TypeOK, QueueInv
<1>9. CASE \E f \in Fields : HandleAck(f)
  BY <1>6, <1>9 DEF HandleAck, TypeOK, QueueInv
<1>10. CASE \E s \in {"lan", "cs2"} : HandleService(s)
  BY <1>6, <1>10 DEF HandleService, TypeOK, QueueInv
<1>11. CASE UNCHANGED vars
  BY <1>11 DEF vars, TypeOK, QueueInv
<1> QED
  BY <1>1, <1>2, <1>3, <1>4, <1>5, <1>7, <1>8, <1>9, <1>10, <1>11 DEF Next, Core
\* Every step keeps what is known of the credentials.
LEMMA CredentialStep ==
  ASSUME BoardingInv, [Next]_vars
  PROVE  CredentialInv'
<1>0. /\ TypeOK /\ QueueInv /\ Len(queue) <= QueueLen
      /\ cs2 \in [Fields -> Seq(Fields)] /\ CredentialInv
  BY DEF BoardingInv, TypeOK
<1>1. /\ \A x : Posted(x) <=> Occurs(queue, x)
      /\ \A x : Posted(x)' <=> Occurs(queue', x)
  BY DEF Posted, Occurs
<1>2. ASSUME NEW e \in Events \ (Fields \cup {"cs2"}), Post(e),
             UNCHANGED <<started, cs2, acked, service>>
      PROVE  CredentialInv'
  <2>1. \A x : Posted(x)' => Posted(x) \/ x = e
    BY <1>0, <1>1, <1>2, PostEffect
  <2> QED
    BY <1>0, <1>2, <2>1 DEF CredentialInv
<1>3. ASSUME NEW e, Pop(e)
      PROVE  Posted(e) /\ \A x : Posted(x)' => Posted(x)
  BY <1>0, <1>1, <1>3, PopEffect
<1>4. CASE (\E n \in Networks : WriteWifi(n)) \/ UNCHANGED vars
  BY <1>0, <1>4 DEF WriteWifi, vars, CredentialInv, Posted
<1>5. CASE StationStart
  BY <1>2, <1>5 DEF StationStart, Events, Fields
<1>6. CASE \E f \in Fields : SetCs2(f)
  <2>1. PICK f \in Fields : SetCs2(f)
    BY <1>6
  <2>2. CASE cs2[f] = <<>> /\ cs2' = [cs2 EXCEPT ![f] = <<f>>] /\ Post(f)
    <3>1. \A x : Posted(x)' => Posted(x) \/ x = f
      BY <1>0, <1>1, <2>2, PostEffect DEF Events
    <3>2. ~started
      <4>1. Composed[f] # <<>>
        BY DEF Composed
      <4> QED
        BY <1>0, <2>2, <4>1 DEF CredentialInv
    <3>3. UNCHANGED <<started, acked, service>>
      BY <2>1 DEF SetCs2
    <3>4. \A g \in Fields : cs2'[g] = IF g = f THEN <<f>> ELSE cs2[g]
      BY <1>0, <2>2
    <3>5. f # "cs2" /\ <<f>> # <<>>
      BY DEF Fields
    <3> QED
      BY <1>0, <3>1, <3>2, <3>3, <3>4, <3>5 DEF CredentialInv
  <2>3. CASE UNCHANGED <<cs2, queue, lost>>
    BY <1>0, <2>1, <2>3 DEF SetCs2, CredentialInv, Posted
  <2> QED
    BY <2>1, <2>2, <2>3 DEF SetCs2
<1>7. CASE Cs2Start
  <2>1. CASE started /\ UNCHANGED <<cs2, started, queue, lost>>
    BY <1>0, <1>7, <2>1 DEF Cs2Start, CredentialInv, Posted
  <2>2. CASE /\ ~started
             /\ cs2' = [cs2 EXCEPT !["apilicense"] = @ \o cs2["key"],
                                   !["initstring"] = @ \o cs2["key"]]
             /\ started' = TRUE
             /\ Post("cs2")
    <3>1. \A f \in Fields : cs2[f] = <<f>>
      BY <1>0, <1>7, <2>2 DEF Cs2Start, CredentialInv
    <3>2. cs2' = Composed
      <4>1. \A f \in Fields : cs2'[f] = Composed[f]
        <5>1. /\ cs2'["apilicense"] = <<"apilicense", "key">>
              /\ cs2'["initstring"] = <<"initstring", "key">>
              /\ cs2'["key"] = <<"key">> /\ cs2'["did"] = <<"did">>
          <6>1. /\ cs2["apilicense"] = <<"apilicense">> /\ cs2["initstring"] = <<"initstring">>
                /\ cs2["key"] = <<"key">> /\ cs2["did"] = <<"did">>
            BY <3>1 DEF Fields
          <6>2. /\ cs2'["apilicense"] = <<"apilicense">> \o <<"key">>
                /\ cs2'["initstring"] = <<"initstring">> \o <<"key">>
                /\ cs2'["key"] = <<"key">> /\ cs2'["did"] = <<"did">>
            BY <1>0, <2>2, <6>1 DEF Fields
          <6>3. /\ <<"apilicense">> \o <<"key">> = <<"apilicense", "key">>
                /\ <<"initstring">> \o <<"key">> = <<"initstring", "key">>
            BY PairOf DEF Fields
          <6> QED
            BY <6>2, <6>3
        <5> QED
          BY <5>1 DEF Fields, Composed
      <4>2. cs2' \in [Fields -> Seq(Fields)]
        BY <1>0, TypeStep DEF TypeOK
      <4>3. DOMAIN Composed = Fields /\ Composed = [f \in Fields |-> Composed[f]]
        BY DEF Composed
      <4> QED
        BY <4>1, <4>2, <4>3
    <3>3. \A f \in Fields : Composed[f] # <<>>
      BY DEF Composed
    <3> QED
      BY <2>2, <3>2, <3>3 DEF CredentialInv
  <2> QED
    BY <1>7, <2>1, <2>2 DEF Cs2Start
<1>8. CASE \E e \in {"lan", "ble_off"} : RequestOther(e)
  <2>1. PICK e \in {"lan", "ble_off"} : RequestOther(e)
    BY <1>8
  <2>2. e \in Events \ (Fields \cup {"cs2"})
    BY DEF Events, Fields
  <2> QED
    BY <1>2, <2>1, <2>2 DEF RequestOther
<1>9. CASE HandleConnect \/ HandleBleDisable
  BY <1>0, <1>3, <1>9 DEF HandleConnect, HandleBleDisable, CredentialInv
<1>10. CASE \E f \in Fields : HandleAck(f)
  <2>1. PICK f \in Fields : HandleAck(f)
    BY <1>10
  <2>2. Posted(f) /\ \A x : Posted(x)' => Posted(x)
    BY <1>3, <2>1 DEF HandleAck
  <2>3. UNCHANGED <<cs2, started, service>> /\ \A g \in acked' : g \in acked \/ g = f
    BY <2>1 DEF HandleAck
  <2> QED
    BY <1>0, <2>2, <2>3 DEF CredentialInv
<1>11. CASE \E s \in {"lan", "cs2"} : HandleService(s)
  <2>1. PICK s \in {"lan", "cs2"} : HandleService(s)
    BY <1>11
  <2>2. Posted(s) /\ \A x : Posted(x)' => Posted(x)
    BY <1>3, <2>1 DEF HandleService
  <2>3. UNCHANGED <<cs2, started, acked>> /\ (service' = service \/ service' = s)
    BY <2>1 DEF HandleService
  <2> QED
    BY <1>0, <2>2, <2>3 DEF CredentialInv
<1> QED
  BY <1>4, <1>5, <1>6, <1>7, <1>8, <1>9, <1>10, <1>11 DEF Next, Core

\* Every step keeps what is known of the answers.
LEMMA AnswerStep ==
  ASSUME BoardingInv, [Next]_vars
  PROVE  AnswerInv'
<1>0. /\ TypeOK /\ QueueInv /\ Len(queue) <= QueueLen
      /\ cs2 \in [Fields -> Seq(Fields)] /\ CredentialInv /\ AnswerInv
  BY DEF BoardingInv, TypeOK
<1>1. /\ \A x : Posted(x) <=> Occurs(queue, x)
      /\ \A x : Posted(x)' <=> Occurs(queue', x)
  BY DEF Posted, Occurs
<1>2. ASSUME NEW e \in Events \ Fields, Post(e), UNCHANGED <<acked, ble>>,
             \A f \in Fields : cs2'[f] # <<>> <=> cs2[f] # <<>>
      PROVE  AnswerInv'
  <2>1. \A f \in Fields : (Posted(f)' <=> Posted(f)) /\ (f \in lost' <=> f \in lost)
    BY <1>0, <1>1, <1>2, PostEffect
  <2> QED
    BY <1>0, <1>2, <2>1 DEF AnswerInv
<1>3. ASSUME NEW e, e \notin Fields, Pop(e), UNCHANGED <<cs2, acked, lost>>, ble' => ble
      PROVE  AnswerInv'
  <2>1. \A f \in Fields : Posted(f)' <=> Posted(f)
    BY <1>0, <1>1, <1>3, PopEffect
  <2> QED
    BY <1>0, <1>3, <2>1 DEF AnswerInv
<1>4. CASE (\E n \in Networks : WriteWifi(n)) \/ UNCHANGED vars
  BY <1>0, <1>4 DEF WriteWifi, vars, AnswerInv, Posted
<1>5. CASE StationStart
  <2>1. "connect" \in Events \ Fields
    BY DEF Events, Fields
  <2> QED
    BY <1>2, <1>5, <2>1 DEF StationStart
<1>6. CASE \E f \in Fields : SetCs2(f)
  <2>1. PICK f \in Fields : SetCs2(f)
    BY <1>6
  <2>2. CASE cs2[f] = <<>> /\ cs2' = [cs2 EXCEPT ![f] = <<f>>] /\ Post(f)
    <3>1. /\ \A x : Posted(x)' => Posted(x) \/ x = f
          /\ \A x : Posted(x) => Posted(x)'
          /\ \/ Posted(f)' /\ lost' = lost
             \/ (\A x : Posted(x)' <=> Posted(x)) /\ lost' = lost \cup {f}
      BY <1>0, <1>1, <2>2, PostEffect DEF Events
    <3>2. f \notin acked /\ ~Posted(f) /\ f \notin lost
      BY <1>0, <2>2 DEF CredentialInv, AnswerInv
    <3>3. UNCHANGED <<acked, ble>>
      BY <2>1 DEF SetCs2
    <3>4. \A g \in Fields : cs2'[g] = IF g = f THEN <<f>> ELSE cs2[g]
      BY <1>0, <2>2
    <3>5. <<f>> # <<>>
      OBVIOUS
    <3> QED
      BY <1>0, <3>1, <3>2, <3>3, <3>4, <3>5 DEF AnswerInv
  <2>3. CASE UNCHANGED <<cs2, queue, lost>>
    BY <1>0, <2>1, <2>3 DEF SetCs2, AnswerInv, Posted
  <2> QED
    BY <2>1, <2>2, <2>3 DEF SetCs2
<1>7. CASE Cs2Start
  <2>1. "cs2" \in Events \ Fields
    BY DEF Events, Fields
  <2>2. CASE Post("cs2") /\ started'
    <3>1. \A f \in Fields : cs2[f] # <<>>
      BY <1>0, <1>7 DEF Cs2Start, CredentialInv
    <3>2. \A f \in Fields : cs2'[f] # <<>>
      <4>1. cs2' = Composed
        BY <2>2, CredentialStep DEF CredentialInv
      <4> QED
        BY <4>1 DEF Composed
    <3>3. UNCHANGED <<acked, ble>>
      BY <1>7 DEF Cs2Start
    <3> QED
      BY <1>2, <2>1, <2>2, <3>1, <3>2, <3>3
  <2>3. CASE UNCHANGED <<cs2, started, queue, lost>>
    BY <1>0, <1>7, <2>3 DEF Cs2Start, AnswerInv, Posted
  <2> QED
    BY <1>7, <2>2, <2>3 DEF Cs2Start
<1>8. CASE \E e \in {"lan", "ble_off"} : RequestOther(e)
  <2>1. PICK e \in {"lan", "ble_off"} : RequestOther(e)
    BY <1>8
  <2>2. e \in Events \ Fields
    BY DEF Events, Fields
  <2> QED
    BY <1>2, <2>1, <2>2 DEF RequestOther
<1>9. CASE HandleConnect \/ HandleBleDisable
  BY <1>3, <1>9 DEF HandleConnect, HandleBleDisable, Fields
<1>10. CASE \E f \in Fields : HandleAck(f)
  <2>1. PICK f \in Fields : HandleAck(f)
    BY <1>10
  <2>2. /\ Posted(f) /\ \A x : Posted(x)' => Posted(x)
        /\ \A x : Posted(x) => Posted(x)' \/ x = f
    BY <1>0, <1>1, <2>1, PopEffect DEF HandleAck
  <2>3. /\ UNCHANGED <<cs2, lost, ble>> /\ (ble => f \in acked')
        /\ \A g : g \in acked => g \in acked'
        /\ \A g : g \in acked' => g \in acked \/ g = f
    BY <2>1 DEF HandleAck
  <2> QED
    BY <1>0, <2>2, <2>3 DEF AnswerInv
<1>11. CASE \E s \in {"lan", "cs2"} : HandleService(s)
  BY <1>3, <1>11 DEF HandleService, Fields
<1> QED
  BY <1>4, <1>5, <1>6, <1>7, <1>8, <1>9, <1>10, <1>11 DEF Next, Core

-----------------------------------------------------------------------------
(* The theorems.                                                           *)

\* The inductive invariant holds.
THEOREM BoardingInvariance == Spec => []BoardingInv
<1>1. Init => BoardingInv
  <2> SUFFICES ASSUME Init PROVE BoardingInv
    OBVIOUS
  <2>1. TypeOK
    <3>1. <<>> \in Seq(Fields) /\ Len(queue) = 0
      BY DEF Init
    <3>2. cs2 \in [Fields -> Seq(Fields)]
      BY <3>1 DEF Init
    <3>3. Len(queue) <= QueueLen /\ ops \in 0..MaxOps
      BY <3>1, BoardingAssumption DEF Init
    <3>4. /\ started \in BOOLEAN /\ lost \subseteq Events /\ ble \in BOOLEAN
          /\ wifi \subseteq Networks /\ asked \subseteq Networks /\ station \subseteq Networks
          /\ service \in {"none", "lan", "cs2"} /\ acked \subseteq Fields
      BY Zenon DEF Init
    <3> QED
      BY <3>2, <3>3, <3>4 DEF TypeOK, Events
  <2>2. QueueInv
    BY DEF Init, QueueInv
  <2>3. CredentialInv
    BY DEF Init, CredentialInv, Posted
  <2>4. AnswerInv
    BY DEF Init, AnswerInv
  <2> QED
    BY <2>1, <2>2, <2>3, <2>4 DEF BoardingInv
<1>2. BoardingInv /\ [Next]_vars => BoardingInv'
  BY TypeStep, CredentialStep, AnswerStep DEF BoardingInv
<1> QED
  BY <1>1, <1>2, PTL DEF Spec

\* The CS2 service starts with complete credentials, the key appended once,
\* whatever the phone repeats and whatever the full queue drops.
THEOREM CredentialsAreComposed == Spec => []CredentialsComposed
<1>1. BoardingInv => CredentialsComposed
  BY DEF BoardingInv, CredentialInv, CredentialsComposed, Composed
<1> QED
  BY <1>1, BoardingInvariance, PTL

\* doorbell_boarding_operation_handle answers a credential it keeps, and a
\* dropped answer is the only thing that keeps a listening phone waiting.
THEOREM CredentialsAreAnswered == Spec => []CredentialAnswered
<1>1. BoardingInv => CredentialAnswered
  BY DEF BoardingInv, AnswerInv, CredentialAnswered
<1> QED
  BY <1>1, BoardingInvariance, PTL
=============================================================================
