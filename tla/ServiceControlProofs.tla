------------------------ MODULE ServiceControlProofs ------------------------
(***************************************************************************)
(* Proofs about the channels of the network service and the hand-over to   *)
(* the CP, for every length of the event queue and every number of         *)
(* requests, losses, sessions and faults.                                  *)
(***************************************************************************)
EXTENDS ServiceControl, TLAPS

\* The channels left to stop at each step of the stop.
Lefts == {<<"ctrl", "video", "audio">>, <<"video", "audio">>, <<"audio">>, <<>>}

\* Where the core thread is, and the types of the channels and the mask.
CoreInv ==
  /\ chan \in [Chan -> {"off", "new", "on", "conn"}] /\ mask \subseteq Chan
  /\ rep \in [Chan -> Reports] /\ torn \in BOOLEAN
  /\ \/ core = [at |-> "idle"]
     \/ core = [at |-> "handover"]
     \/ core \in [at : {"stop"}, left : Lefts, of : Lan]

\* Channels that the core thread has stopped stay off until it is idle again:
\* only its own handler of a start event starts one.
StopInv ==
  /\ core.at = "stop" =>
       /\ core.left # <<"ctrl", "video", "audio">> => chan["ctrl"] = "off"
       /\ core.left \in {<<"audio">>, <<>>} => chan["video"] = "off"
       /\ core.left = <<>> => chan["audio"] = "off"
  /\ core.at = "handover" => \A c \in Chan : chan[c] = "off"

\* A thread that is about to store the mask has just reported that its channel
\* connected, or that it lost its connection.
RepInv ==
  \A c \in Chan : rep[c].at = "store" =>
    chan[c] = IF rep[c].set THEN "conn" ELSE "on"

\* Bits left by a stopped service are gone once the control channel has
\* started, and from then on, until an update is lost, a bit stands for a
\* connection or one whose loss is being reported.
Sound(c) == chan[c] = "conn" \/ Clearing(c)
MaskInv ==
  ~torn =>
    /\ "ctrl" \in mask => Sound("ctrl")
    /\ chan["ctrl"] \in {"on", "conn"} => \A c \in mask : Sound(c)

ServiceInv == CoreInv /\ StopInv /\ RepInv /\ MaskInv

-----------------------------------------------------------------------------
(* The steps.                                                              *)

\* One channel changes, as the code of that channel or the core thread does it.
LEMMA ChanSet ==
  ASSUME CoreInv, NEW c \in Chan, NEW v \in {"off", "new", "on", "conn"},
         chan' = [chan EXCEPT ![c] = v]
  PROVE  /\ chan' \in [Chan -> {"off", "new", "on", "conn"}] /\ chan'[c] = v
         /\ \A e \in Chan : e # c => chan'[e] = chan[e]
  BY DEF CoreInv

\* One channel's thread goes on with its report.
LEMMA RepSet ==
  ASSUME CoreInv, NEW c \in Chan, NEW r \in Reports, rep' = [rep EXCEPT ![c] = r]
  PROVE  /\ rep' \in [Chan -> Reports] /\ rep'[c] = r
         /\ \A e \in Chan : e # c => rep'[e] = rep[e]
  BY DEF CoreInv

\* The start of a channel keeps the invariant.
LEMMA StartedStep ==
  ASSUME ServiceInv, NEW c \in Chan, ChanStarted(c)
  PROVE  ServiceInv'
<1>0. CoreInv /\ StopInv /\ RepInv /\ MaskInv /\ core' = core /\ rep' = rep
  BY DEF ServiceInv, ChanStarted
<1>1. /\ chan[c] = "new" /\ chan' = [chan EXCEPT ![c] = "on"]
      /\ mask' = (IF c = "ctrl" THEN {} ELSE mask) /\ torn' = (torn /\ c # "ctrl")
  BY DEF ChanStarted
<1>2. /\ chan' \in [Chan -> {"off", "new", "on", "conn"}] /\ chan'[c] = "on"
      /\ \A e \in Chan : e # c => chan'[e] = chan[e]
  BY <1>0, <1>1, ChanSet
<1>3. CoreInv'
  BY <1>0, <1>1, <1>2 DEF CoreInv
<1>4. StopInv'
  BY <1>0, <1>1, <1>2 DEF StopInv, Chan
<1>5. rep[c].at # "store"
  BY <1>0, <1>1 DEF RepInv
<1>6. RepInv'
  BY <1>0, <1>2, <1>5 DEF RepInv
<1>7. \A e \in Chan : Sound(e) => Sound(e)'
  BY <1>0, <1>1, <1>2 DEF Sound, Clearing
<1>8. MaskInv'
  <2>1. CASE c = "ctrl"
    BY <1>1, <2>1 DEF MaskInv
  <2>2. CASE c # "ctrl"
    <3>1. mask' = mask /\ torn' = torn /\ chan'["ctrl"] = chan["ctrl"] /\ mask \subseteq Chan
      BY <1>0, <1>1, <1>2, <2>2 DEF CoreInv, Chan
    <3> QED
      BY <1>0, <1>7, <3>1 DEF MaskInv
  <2> QED
    BY <2>1, <2>2
<1> QED
  BY <1>3, <1>4, <1>6, <1>8 DEF ServiceInv

\* A connection or its loss, up to the load of the mask, keeps it.
LEMMA LoadStep ==
  ASSUME ServiceInv, NEW c \in Chan, ChanConnected(c) \/ ChanDisconnected(c)
  PROVE  ServiceInv'
<1>0. /\ CoreInv /\ StopInv /\ RepInv /\ MaskInv
      /\ core' = core /\ mask' = mask /\ torn' = torn /\ mask \subseteq Chan
  BY DEF ServiceInv, ChanConnected, ChanDisconnected, CoreInv
<1>1. /\ chan[c] \in {"on", "conn"} /\ rep[c].at = "idle"
      /\ \E set \in BOOLEAN, e \in Posts :
           /\ chan' = [chan EXCEPT ![c] = IF set THEN "conn" ELSE "on"]
           /\ rep' = [rep EXCEPT ![c] =
                        [at |-> "store", read |-> mask, set |-> set, post |-> e]]
  <2>1. CASE ChanConnected(c)
    <3>1. ConnectedReport \in Posts
      BY DEF ConnectedReport, Posts, Event
    <3>2. /\ chan[c] = "on" /\ rep[c].at = "idle"
          /\ chan' = [chan EXCEPT ![c] = "conn"]
          /\ rep' = [rep EXCEPT ![c] = [at |-> "store", read |-> mask, set |-> TRUE,
                                         post |-> ConnectedReport]]
      BY <2>1 DEF ChanConnected, Load
    <3> QED
      BY <3>1, <3>2
  <2>2. CASE ChanDisconnected(c)
    <3>1. \A n \in BOOLEAN : DisconnectedReport(c, n) \in Posts
      BY DEF DisconnectedReport, Posts, Event
    <3>2. PICK n \in BOOLEAN :
            /\ chan[c] = "conn" /\ rep[c].at = "idle"
            /\ chan' = [chan EXCEPT ![c] = "on"]
            /\ rep' = [rep EXCEPT ![c] = [at |-> "store", read |-> mask, set |-> FALSE,
                                           post |-> DisconnectedReport(c, n)]]
      BY <2>2 DEF ChanDisconnected, Load
    <3> QED
      BY <3>1, <3>2
  <2> QED
    BY <2>1, <2>2
<1>2. PICK set \in BOOLEAN, e \in Posts :
        /\ chan' = [chan EXCEPT ![c] = IF set THEN "conn" ELSE "on"]
        /\ rep' = [rep EXCEPT ![c] = [at |-> "store", read |-> mask, set |-> set, post |-> e]]
  BY <1>1
<1>3. PICK r \in Reports : /\ r = [at |-> "store", read |-> mask, set |-> set, post |-> e]
                           /\ r.at = "store" /\ r.set = set
  <2>1. PICK r : r = [at |-> "store", read |-> mask, set |-> set, post |-> e]
    OBVIOUS
  <2>2. r.at = "store" /\ r.set = set
    BY <2>1
  <2>3. r \in [at : {"store"}, read : SUBSET Chan, set : BOOLEAN, post : Posts]
    BY <1>0, <2>1
  <2> QED
    BY <2>1, <2>2, <2>3 DEF Reports
<1>4. /\ chan' \in [Chan -> {"off", "new", "on", "conn"}]
      /\ chan'[c] = IF set THEN "conn" ELSE "on"
      /\ \A d \in Chan : d # c => chan'[d] = chan[d]
  BY <1>0, <1>2, ChanSet
<1>5. /\ rep' \in [Chan -> Reports] /\ rep'[c] = r
      /\ \A d \in Chan : d # c => rep'[d] = rep[d]
  BY <1>0, <1>2, <1>3, RepSet
<1>6. CoreInv'
  BY <1>0, <1>4, <1>5 DEF CoreInv
<1>7. StopInv'
  BY <1>0, <1>1, <1>4 DEF StopInv, Chan
<1>8. RepInv'
  BY <1>0, <1>3, <1>4, <1>5 DEF RepInv
<1>9. \A d \in Chan : Sound(d) => Sound(d)'
  <2>1. Sound(c)'
    BY <1>3, <1>4, <1>5 DEF Sound, Clearing
  <2>2. \A d \in Chan : d # c => (Sound(d)' <=> Sound(d))
    BY <1>4, <1>5 DEF Sound, Clearing
  <2> QED
    BY <2>1, <2>2
<1>10. chan'["ctrl"] \in {"on", "conn"} => chan["ctrl"] \in {"on", "conn"}
  BY <1>1, <1>4 DEF Chan
<1>11. MaskInv'
  BY <1>0, <1>9, <1>10 DEF MaskInv
<1> QED
  BY <1>6, <1>7, <1>8, <1>11 DEF ServiceInv

\* The store and the test keep it: a store that loses nothing sets the bit of a
\* channel that is connected, or clears one.
LEMMA ReportStep ==
  ASSUME ServiceInv, NEW c \in Chan, ReportStore(c) \/ ReportTest(c)
  PROVE  ServiceInv'
<1>0. /\ CoreInv /\ StopInv /\ RepInv /\ MaskInv
      /\ core' = core /\ chan' = chan /\ mask \subseteq Chan /\ torn \in BOOLEAN
      /\ rep[c] \in Reports
  BY DEF ServiceInv, ReportStore, ReportTest, CoreInv
<1>1. CASE ReportStore(c)
  <2>1. /\ rep[c].at = "store" /\ rep[c].read \subseteq Chan /\ rep[c].set \in BOOLEAN
        /\ rep[c].post \in Posts
    <3>1. rep[c].at = "store"
      BY <1>1 DEF ReportStore
    <3> QED
      BY <1>0, <3>1 DEF Reports, NoReport
  <2>2. PICK r \in Reports : rep' = [rep EXCEPT ![c] = r] /\ r.at # "store"
    <3>1. NoReport \in Reports /\ NoReport.at # "store"
      BY DEF Reports, NoReport
    <3>2. PICK q \in Reports : q = [at |-> "test", post |-> rep[c].post] /\ q.at # "store"
      <4>1. PICK q : q = [at |-> "test", post |-> rep[c].post]
        OBVIOUS
      <4>2. q.at # "store" /\ q \in [at : {"test"}, post : Posts]
        BY <2>1, <4>1
      <4> QED
        BY <4>1, <4>2 DEF Reports
    <3> QED
      BY <1>1, <3>1, <3>2 DEF ReportStore
  <2>3. /\ rep' \in [Chan -> Reports] /\ rep'[c] = r
        /\ \A e \in Chan : e # c => rep'[e] = rep[e]
    BY <1>0, <2>2, RepSet
  <2>4. /\ mask' = (IF rep[c].set THEN rep[c].read \cup {c} ELSE rep[c].read \ {c})
        /\ torn' = (torn \/ mask # rep[c].read)
    BY <1>1 DEF ReportStore
  <2>5. CoreInv'
    BY <1>0, <2>1, <2>3, <2>4 DEF CoreInv
  <2>6. StopInv'
    BY <1>0 DEF StopInv
  <2>7. RepInv'
    BY <1>0, <2>2, <2>3 DEF RepInv
  <2>8. \A e \in Chan : e # c => (Sound(e)' <=> Sound(e))
    BY <1>0, <2>3 DEF Sound, Clearing
  <2>9. rep[c].set => Sound(c)'
    BY <1>0, <2>1 DEF RepInv, Sound
  <2>10. MaskInv'
    <3>1. SUFFICES ASSUME ~torn'
                   PROVE  /\ "ctrl" \in mask' => Sound("ctrl")'
                          /\ chan["ctrl"] \in {"on", "conn"} => \A e \in mask' : Sound(e)'
      BY <1>0 DEF MaskInv
    <3>2. ~torn /\ rep[c].read = mask
      BY <2>4, <3>1
    <3>3. /\ "ctrl" \in mask => Sound("ctrl")
          /\ chan["ctrl"] \in {"on", "conn"} => \A e \in mask : Sound(e)
      BY <1>0, <3>2 DEF MaskInv
    <3>4. \A e \in mask' : e \in Chan /\ ((e = c /\ rep[c].set) \/ (e # c /\ e \in mask))
      BY <1>0, <2>1, <2>4, <3>2
    <3> QED
      BY <2>8, <2>9, <3>3, <3>4
  <2> QED
    BY <2>5, <2>6, <2>7, <2>10 DEF ServiceInv
<1>2. CASE ReportTest(c)
  <2>1. rep[c].at = "test" /\ rep' = [rep EXCEPT ![c] = NoReport] /\ mask' = mask /\ torn' = torn
    BY <1>2 DEF ReportTest
  <2>2. NoReport \in Reports /\ NoReport.at = "idle"
    BY DEF Reports, NoReport
  <2>3. /\ rep' \in [Chan -> Reports] /\ rep'[c] = NoReport
        /\ \A e \in Chan : e # c => rep'[e] = rep[e]
    BY <1>0, <2>1, <2>2, RepSet
  <2>4. CoreInv' /\ StopInv'
    BY <1>0, <2>1, <2>3 DEF CoreInv, StopInv
  <2>5. RepInv'
    BY <1>0, <2>2, <2>3 DEF RepInv
  <2>6. \A e \in Chan : Sound(e) => Sound(e)'
    BY <1>0, <2>1, <2>3 DEF Sound, Clearing
  <2>7. MaskInv'
    BY <1>0, <2>1, <2>6 DEF MaskInv, Chan
  <2> QED
    BY <2>4, <2>5, <2>7 DEF ServiceInv
<1> QED
  BY <1>1, <1>2

\* What is said of the mask depends on nothing but the channels and reports.
LEMMA Unmoved ==
  ASSUME RepInv, MaskInv, UNCHANGED <<chan, mask, rep, torn>>
  PROVE  RepInv' /\ MaskInv'
  BY DEF RepInv, MaskInv, Sound, Clearing

\* The order of doorbell_bk_network_transfer_deinit.
LEMMA Order ==
  /\ Head(<<"ctrl", "video", "audio">>) = "ctrl" /\ Head(<<"video", "audio">>) = "video"
  /\ Head(<<"audio">>) = "audio"
  /\ Tail(<<"ctrl", "video", "audio">>) = <<"video", "audio">>
  /\ Tail(<<"video", "audio">>) = <<"audio">> /\ Tail(<<"audio">>) = <<>>
  /\ <<"video", "audio">> # <<"audio">> /\ <<"video", "audio">> # <<>>
  /\ <<"audio">> # <<>> /\ <<"video", "audio">> # <<"ctrl", "video", "audio">>
  /\ <<"ctrl", "video", "audio">> \notin {<<"audio">>, <<>>}
  OBVIOUS

\* The stop of a service takes the channels in order.
LEMMA StopStep ==
  ASSUME ServiceInv, ChanStop \/ ServiceDeinit \/ SendKeepalive \/ \E s \in Lan : HandleStop(s)
  PROVE  ServiceInv'
<1>0. CoreInv /\ StopInv /\ RepInv /\ MaskInv
  BY DEF ServiceInv
<1>1. CASE ChanStop
  <2>1. core \in [at : {"stop"}, left : Lefts, of : Lan] /\ core.left # <<>>
    BY <1>0, <1>1 DEF ChanStop, CoreInv
  <2>2. PICK c \in Chan :
          \/ core.left = <<"ctrl", "video", "audio">> /\ c = "ctrl"
             /\ Tail(core.left) = <<"video", "audio">>
          \/ core.left = <<"video", "audio">> /\ c = "video" /\ Tail(core.left) = <<"audio">>
          \/ core.left = <<"audio">> /\ c = "audio" /\ Tail(core.left) = <<>>
    BY <2>1, Order DEF Lefts, Chan
  <2>3. /\ core' = [core EXCEPT !.left = Tail(@)]
        /\ chan' = [chan EXCEPT ![c] = "off"]
        /\ mask' = (IF c = "ctrl" /\ chan[c] # "off" THEN {} ELSE mask)
        /\ torn' = (torn /\ ~(c = "ctrl" /\ chan[c] # "off"))
        /\ rep' = [rep EXCEPT ![c] = NoReport]
    <3>1. c = Head(core.left)
      BY <2>2, Order
    <3> QED
      BY <1>1, <3>1 DEF ChanStop
  <2>4. core' \in [at : {"stop"}, left : Lefts, of : Lan] /\ core'.left = Tail(core.left)
    BY <2>1, <2>2, <2>3 DEF Lefts
  <2>8. /\ chan' \in [Chan -> {"off", "new", "on", "conn"}] /\ chan'[c] = "off"
        /\ \A e \in Chan : e # c => chan'[e] = chan[e]
    BY <1>0, <2>3, ChanSet
  <2>9. NoReport \in Reports /\ NoReport.at = "idle"
    BY DEF Reports, NoReport
  <2>10. /\ rep' \in [Chan -> Reports] /\ rep'[c] = NoReport
         /\ \A e \in Chan : e # c => rep'[e] = rep[e]
    BY <1>0, <2>3, <2>9, RepSet
  <2>5. CoreInv'
    BY <1>0, <2>3, <2>4, <2>8, <2>10 DEF CoreInv
  <2>6. StopInv'
    BY <1>0, <2>1, <2>2, <2>4, <2>8, Order DEF StopInv, Chan
  <2>11. RepInv'
    BY <1>0, <2>8, <2>9, <2>10 DEF RepInv
  <2>7. MaskInv'
    <3>1. CASE c = "ctrl" /\ chan[c] # "off"
      <4>1. mask' = {}
        BY <2>3, <3>1
      <4> QED
        BY <4>1 DEF MaskInv
    <3>2. CASE ~(c = "ctrl" /\ chan[c] # "off")
      <4>1. chan["ctrl"] = "off" /\ mask' = mask /\ torn' = torn
        BY <1>0, <2>1, <2>2, <2>3, <3>2, Order DEF StopInv, ChanStop, CoreInv
      <4>2. chan'["ctrl"] = "off"
        BY <2>8, <4>1 DEF Chan
      <4>3. ~torn => "ctrl" \notin mask
        <5>1. ~Sound("ctrl")
          BY <1>0, <4>1 DEF RepInv, Sound, Clearing, Chan
        <5> QED
          BY <1>0, <5>1 DEF MaskInv
      <4> QED
        BY <4>1, <4>2, <4>3 DEF MaskInv
    <3> QED
      BY <3>1, <3>2
  <2> QED
    BY <2>5, <2>6, <2>7, <2>11 DEF ServiceInv
<1>2. CASE ServiceDeinit
  <2>1. UNCHANGED <<chan, mask, rep, torn>> /\ core' = [at |-> "handover"]
        /\ core.at = "stop" /\ core.left = <<>>
    BY <1>2 DEF ServiceDeinit
  <2>2. StopInv' /\ CoreInv'
    BY <1>0, <2>1, Order DEF CoreInv, StopInv, Chan
  <2> QED
    BY <1>0, <2>1, <2>2, Unmoved DEF ServiceInv
<1>3. CASE SendKeepalive
  <2>1. UNCHANGED <<chan, mask, rep, torn>> /\ core' = [at |-> "idle"]
    BY <1>3 DEF SendKeepalive, net
  <2>2. StopInv' /\ CoreInv'
    BY <1>0, <2>1 DEF CoreInv, StopInv
  <2> QED
    BY <1>0, <2>1, <2>2, Unmoved DEF ServiceInv
<1>4. ASSUME NEW s \in Lan, HandleStop(s) PROVE ServiceInv'
  <2>1. /\ UNCHANGED <<chan, mask, rep, torn>>
        /\ core' = [at |-> "stop", left |-> <<"ctrl", "video", "audio">>, of |-> s]
    BY <1>4 DEF HandleStop, net
  <2>2. StopInv' /\ CoreInv'
    BY <1>0, <1>4, <2>1, Order DEF CoreInv, StopInv, Lefts
  <2> QED
    BY <1>0, <2>1, <2>2, Unmoved DEF ServiceInv
<1> QED
  BY <1>1, <1>2, <1>3, <1>4

\* A start event is handled when the core thread is idle, and starts only
\* channels that are off.
LEMMA StartStep ==
  ASSUME ServiceInv, NEW s \in Service \ {"none"}, HandleStart(s)
  PROVE  ServiceInv'
<1>0. CoreInv /\ StopInv /\ RepInv /\ MaskInv
  BY DEF ServiceInv
<1>1. core.at = "idle" /\ core' = core /\ UNCHANGED <<mask, rep, torn>>
  BY DEF HandleStart, Pop
<1>2. \/ chan' = chan
      \/ chan' = [c \in Chan |-> IF chan[c] = "off" THEN "new" ELSE chan[c]]
  BY DEF HandleStart, TransferInit
<1>3. /\ chan' \in [Chan -> {"off", "new", "on", "conn"}]
      /\ \A c \in Chan : chan'[c] = chan[c] \/ (chan[c] = "off" /\ chan'[c] = "new")
  BY <1>0, <1>2 DEF CoreInv
<1>4. CoreInv' /\ StopInv'
  BY <1>0, <1>1, <1>3 DEF CoreInv, StopInv
<1>5. RepInv'
  BY <1>0, <1>1, <1>3 DEF RepInv
<1>6. \A c \in Chan : Sound(c) => Sound(c)'
  BY <1>0, <1>1, <1>3 DEF Sound, Clearing
<1>7. MaskInv'
  <2>1. mask \subseteq Chan /\ "ctrl" \in Chan
    BY <1>0 DEF CoreInv, Chan
  <2>2. chan'["ctrl"] \in {"on", "conn"} => chan["ctrl"] \in {"on", "conn"}
    BY <1>3, <2>1
  <2> QED
    BY <1>0, <1>1, <1>6, <2>1, <2>2 DEF MaskInv
<1> QED
  BY <1>4, <1>5, <1>7 DEF ServiceInv

\* Every other step leaves channels, mask and core thread alone, or is the
\* loss of power, which clears them.
LEMMA OtherStep ==
  ASSUME [Next]_vars
  PROVE  \/ UNCHANGED <<core, chan, mask, rep, torn>> /\ (cp' = "start" => cp = "start")
         \/ PowerDown
         \/ ChanStop \/ ServiceDeinit \/ SendKeepalive
         \/ \E s \in Lan : HandleStop(s)
         \/ \E s \in Service \ {"none"} : HandleStart(s)
         \/ \E c \in Chan : \/ ChanStarted(c) \/ ChanConnected(c) \/ ChanDisconnected(c)
                            \/ ReportStore(c) \/ ReportTest(c)
<1>1. CASE HandleConnected \/ HandleDisconnected \/ HandleOther
  BY <1>1 DEF HandleConnected, HandleDisconnected, HandleOther, net
<1>2. CASE Boot
  BY <1>2 DEF Boot, BootPower, BootWake, BootMark, BootFail, ctl, net
<1>3. CASE Phone
  BY <1>3 DEF Phone, BoardingStart, BoardingOther, Command, net
<1>4. CASE Tick \/ TickMark \/ TimePasses
  BY <1>4 DEF Tick, TickMark, TimePasses, ctl, net
<1>5. CASE KeepaliveDisconnection \/ PowerUp
  BY <1>5 DEF KeepaliveDisconnection, PowerUp, ctl, net
<1>6. CASE UNCHANGED vars
  BY <1>6 DEF vars, ctl, net
<1> QED
  BY <1>1, <1>2, <1>3, <1>4, <1>5, <1>6 DEF Next, Core

-----------------------------------------------------------------------------
(* The theorems.                                                           *)

\* The inductive invariant holds: where the core thread is in a stop, which
\* channels are off by then, and what the bits of the mask stand for.
THEOREM ServiceInvariance == Spec => []ServiceInv
<1>1. Init => ServiceInv
  <2> SUFFICES ASSUME Init PROVE ServiceInv
    OBVIOUS
  <2>1. /\ core = [at |-> "idle"] /\ chan = [c \in Chan |-> "off"] /\ mask = {}
        /\ rep = [c \in Chan |-> NoReport] /\ torn = FALSE
    BY DEF Init
  <2>2. NoReport \in Reports /\ NoReport.at = "idle"
    BY DEF Reports, NoReport
  <2>3. CoreInv /\ StopInv
    BY <2>1, <2>2 DEF CoreInv, StopInv
  <2>4. RepInv /\ MaskInv
    BY <2>1, <2>2 DEF RepInv, MaskInv
  <2> QED
    BY <2>3, <2>4 DEF ServiceInv
<1>2. ServiceInv /\ [Next]_vars => ServiceInv'
  <2> SUFFICES ASSUME ServiceInv, [Next]_vars PROVE ServiceInv'
    OBVIOUS
  <2>1. CASE UNCHANGED <<core, chan, mask, rep, torn>>
    BY <2>1, Unmoved DEF ServiceInv, CoreInv, StopInv
  <2>2. CASE PowerDown
    BY <2>2 DEF PowerDown, ServiceInv, CoreInv, StopInv, RepInv, MaskInv, Chan, Reports,
                NoReport
  <2> QED
    BY <2>1, <2>2, OtherStep, StopStep, StartStep, StartedStep, LoadStep, ReportStep
<1> QED
  BY <1>1, <1>2, PTL DEF Spec

\* As long as no two channels' threads update chan_connected_mask at once, the
\* mask that doorbell_bk_net_msg_evt_handle tests before it announces a
\* connection has only bits of channels that are connected, or whose loss is
\* just being reported, although only the control channel ever resets it.
THEOREM MaskIsSound == Spec => []MaskSound
<1>1. ServiceInv => MaskSound
  <2>1. SUFFICES ASSUME ServiceInv, ~torn, "ctrl" \in mask
                 PROVE  \A c \in mask : chan[c] = "conn" \/ Clearing(c)
    BY DEF MaskSound
  <2>2. Sound("ctrl")
    BY <2>1 DEF ServiceInv, MaskInv
  <2>3. chan["ctrl"] \in {"on", "conn"}
    BY <2>1, <2>2 DEF ServiceInv, RepInv, Sound, Clearing, Chan
  <2> QED
    BY <2>1, <2>3 DEF ServiceInv, MaskInv, Sound
<1> QED
  BY <1>1, ServiceInvariance, PTL

\* db_keepalive_send_keepalive finds every channel stopped: no channel comes up
\* between doorbell_bk_network_transfer_deinit and the hand-over.
THEOREM HandoverIsQuiet == Spec => HandoverQuiet
<1>1. ServiceInv /\ [Next]_vars =>
        [cp' = "start" /\ cp # "start" => \A c \in Chan : chan[c] = "off"]_vars
  <2> SUFFICES ASSUME ServiceInv, [Next]_vars, cp' = "start", cp # "start"
               PROVE  \A c \in Chan : chan[c] = "off"
    OBVIOUS
  <2>1. SendKeepalive
    BY OtherStep DEF PowerDown, ChanStop, ServiceDeinit, HandleStop, HandleStart,
       ChanStarted, ChanConnected, ChanDisconnected, ReportStore, ReportTest
  <2> QED
    BY <2>1 DEF SendKeepalive, ServiceInv, StopInv
<1> QED
  BY <1>1, ServiceInvariance, PTL DEF Spec, HandoverQuiet
=============================================================================
