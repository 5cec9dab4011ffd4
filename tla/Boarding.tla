----------------------------- MODULE Boarding -----------------------------
(***************************************************************************)
(* Provisioning over BLE (doorbell_boarding.c with the Wi-Fi and CS2 cases *)
(* of the core thread).  The phone writes the Wi-Fi data and the four CS2  *)
(* credentials; the BLE thread runs the handler of each operation, which   *)
(* keeps the credentials and posts to the queue of the core thread.  The   *)
(* Wi-Fi data is not copied into the message: the core thread reads it     *)
(* where the BLE service keeps it.                                         *)
(*                                                                         *)
(* The phone may repeat every write (it does when it gets no answer); it   *)
(* starts CS2 when all four credentials are acknowledged.                  *)
(***************************************************************************)
EXTENDS Naturals, Sequences

CONSTANTS
  Networks,     \* Wi-Fi networks, known by the length of their keys
  QueueLen,     \* length of the core thread's queue (10)
  MaxOps        \* bound: operations the phone starts

ASSUME BoardingAssumption ==
  /\ Networks \subseteq 0..64
  /\ QueueLen \in Nat \ {0}
  /\ MaxOps \in Nat

Fields == {"did", "apilicense", "key", "initstring"}

VARIABLES
  wifi,      \* boarding_info: set of at most one network, written by BLE
  asked,     \* history: the networks of the last BOARDING_OP_STATION_START
  station,   \* the network the Wi-Fi driver was told to join (a set too)
  cs2,       \* p2p_cs2_key: the pieces each string is made of
  started,   \* p2p_cs2_key->cs2_started
  queue,     \* messages of the core thread
  lost,      \* history: the messages that found the queue full
  service,   \* db_info->service
  acked,     \* credentials whose answer reached the phone
  ble,       \* bluetooth is on
  ops        \* operations the phone has started

vars == <<wifi, asked, station, cs2, started, queue, lost, service, acked,
          ble, ops>>

-----------------------------------------------------------------------------
Init ==
  /\ wifi = {}
  /\ asked = {}
  /\ station = {}
  /\ cs2 = [f \in Fields |-> <<>>]
  /\ started = FALSE
  /\ queue = <<>>
  /\ lost = {}
  /\ service = "none"
  /\ acked = {}
  /\ ble = TRUE
  /\ ops = 0

Posted(e) == \E i \in 1..Len(queue) : queue[i] = e

\* doorbell_send_msg: without waiting; a full queue drops the message.
Post(e) ==
  /\ queue' = IF Len(queue) < QueueLen THEN Append(queue, e) ELSE queue
  /\ lost' = IF Len(queue) < QueueLen THEN lost ELSE lost \cup {e}

\* The phone starts an operation.
Operation ==
  /\ ble
  /\ ops < MaxOps
  /\ ops' = ops + 1

\* The BLE service takes new Wi-Fi data of the phone, whether or not a request
\* that points to the data before waits in the queue.
WriteWifi(n) ==
  /\ ble
  /\ wifi' = {n}
  /\ UNCHANGED <<asked, station, cs2, started, queue, lost, service, acked,
                 ble, ops>>

\* BOARDING_OP_STATION_START.  The copy it saves to flash is left out: nothing
\* reads it.
StationStart ==
  /\ Operation
  /\ wifi # {}
  /\ asked' = wifi
  /\ Post("connect")
  /\ UNCHANGED <<wifi, station, cs2, started, service, acked, ble>>

\* Mutant: the case of the init string answers for the key.
SetCs2WrongAnswer(f) ==
  /\ Operation
  /\ \/ /\ cs2[f] = <<>>
        /\ cs2' = [cs2 EXCEPT ![f] = <<f>>]
        /\ Post(IF f = "initstring" THEN "key" ELSE f)
     \/ UNCHANGED <<cs2, queue, lost>>
  /\ UNCHANGED <<wifi, asked, station, started, service, acked, ble>>

\* BOARDING_OP_SET_CS2_DID, _APILICENSE, _KEY and _INIT_STRING: only the
\* first write of a credential is kept and answered; a write is refused
\* without an answer when the credential is there, when it is too long and
\* when there is no memory.
SetCs2(f) ==
  /\ Operation
  /\ \/ /\ cs2[f] = <<>>
        /\ cs2' = [cs2 EXCEPT ![f] = <<f>>]
        /\ Post(f)
     \/ UNCHANGED <<cs2, queue, lost>>
  /\ UNCHANGED <<wifi, asked, station, started, service, acked, ble>>

\* Mutant: without the test of cs2_started.
Cs2StartAgain ==
  /\ Operation
  /\ acked = Fields
  /\ cs2' = [cs2 EXCEPT !["apilicense"] = @ \o cs2["key"],
                        !["initstring"] = @ \o cs2["key"]]
  /\ started' = TRUE
  /\ Post("cs2")
  /\ UNCHANGED <<wifi, asked, station, service, acked, ble>>

\* BOARDING_OP_SRRVICE_CS2_START: the key is appended to the license and to
\* the init string, once.
Cs2Start ==
  /\ Operation
  /\ acked = Fields
  /\ \/ /\ ~started
        /\ cs2' = [cs2 EXCEPT !["apilicense"] = @ \o cs2["key"],
                              !["initstring"] = @ \o cs2["key"]]
        /\ started' = TRUE
        /\ Post("cs2")
     \/ started /\ UNCHANGED <<cs2, started, queue, lost>>
  /\ UNCHANGED <<wifi, asked, station, service, acked, ble>>

\* BOARDING_OP_SERVICE_UDP_START and _TCP_START, BOARDING_OP_BLE_DISABLE.
RequestOther(e) ==
  /\ Operation
  /\ e \in {"lan", "ble_off"}
  /\ Post(e)
  /\ UNCHANGED <<wifi, asked, station, cs2, started, service, acked, ble>>

-----------------------------------------------------------------------------
(* The core thread.                                                        *)

Pop(e) == queue # <<>> /\ Head(queue) = e /\ queue' = Tail(queue)

\* The length tests of doorbell_wifi_sta_connect: both are made of the key.
Accepted(n) == n <= 32 /\ n <= 64

\* doorbell_wifi_sta_connect with the data the BLE service has now.
HandleConnect ==
  /\ Pop("connect")
  /\ station' = IF \A n \in wifi : Accepted(n) THEN wifi ELSE station
  /\ UNCHANGED <<wifi, asked, cs2, started, lost, service, acked, ble, ops>>

\* DBEVT_START_BOARDING_EVENT: the answer goes to the phone.
HandleAck(f) ==
  /\ Pop(f)
  /\ acked' = IF ble THEN acked \cup {f} ELSE acked
  /\ UNCHANGED <<wifi, asked, station, cs2, started, lost, service, ble, ops>>

\* A request to start a service: ignored when one is started.
HandleService(s) ==
  /\ Pop(s)
  /\ service' = IF service = "none" THEN s ELSE service
  /\ UNCHANGED <<wifi, asked, station, cs2, started, lost, acked, ble, ops>>

\* DBEVT_BLE_DISABLE.
HandleBleDisable ==
  /\ Pop("ble_off")
  /\ ble' = FALSE
  /\ UNCHANGED <<wifi, asked, station, cs2, started, lost, service, acked, ops>>

Core ==
  \/ HandleConnect \/ HandleBleDisable
  \/ \E f \in Fields : HandleAck(f)
  \/ \E s \in {"lan", "cs2"} : HandleService(s)

Next ==
  \/ \E n \in Networks : WriteWifi(n)
  \/ StationStart \/ Cs2Start
  \/ \E f \in Fields : SetCs2(f)
  \/ \E e \in {"lan", "ble_off"} : RequestOther(e)
  \/ Core

Spec == Init /\ [][Next]_vars

-----------------------------------------------------------------------------
(* Properties.                                                             *)

\* The types of the data of the two threads.
TypeOK ==
  /\ wifi \subseteq Networks /\ asked \subseteq Networks
  /\ station \subseteq Networks
  /\ cs2 \in [Fields -> Seq(Fields)]
  /\ started \in BOOLEAN /\ ble \in BOOLEAN
  /\ lost \subseteq Fields \cup {"connect", "cs2", "lan", "ble_off"}
  /\ Len(queue) <= QueueLen
  /\ service \in {"none", "lan", "cs2"}
  /\ acked \subseteq Fields
  /\ ops \in 0..MaxOps

\* The CS2 service starts with complete credentials: each as the phone wrote
\* it, the key appended once to the license and to the init string, whatever
\* the phone repeats, before and after the start, and whatever gets lost.
CredentialsComposed ==
  service = "cs2" =>
    cs2 = [f \in Fields |-> IF f \in {"apilicense", "initstring"}
                            THEN <<f, "key">> ELSE <<f>>]

\* A credential the device keeps is answered as long as the phone can hear it:
\* the answer has arrived or waits in the queue, or the full queue dropped it.
\* It is answered once: a repeat is refused without an answer, so that after a
\* dropped one the phone waits for ever.
CredentialAnswered ==
  \A f \in Fields : cs2[f] # <<>> /\ ble =>
    /\ f \in acked \/ Posted(f) \/ f \in lost
    /\ f \in lost => f \notin acked /\ ~Posted(f)

\* What the phone asked to join is what the driver is told to join, once the
\* request is taken.  Not so: the request points to data that a later write
\* changes before the core thread reads it (doorbell_core.c:88), and keys of
\* more than 32 characters are refused by the SSID's limit.
JoinsAsked ==
  asked # {} /\ ~Posted("connect") /\ "connect" \notin lost => station = asked
=============================================================================
