--------------------------- MODULE ServiceControl ---------------------------
(***************************************************************************)
(* Who owns the connection to the server in doorbell_lp: the application   *)
(* processor (AP), through the network service its core thread starts and  *)
(* stops, or the co-processor (CP), to which the AP hands the connection   *)
(* over before it is switched off.  The core thread handles events from a  *)
(* queue filled by the channels of the network library, the phone, the     *)
(* status timer and the boot code, none of which wait when it is full.     *)
(* The network library and the CP are external; KeepaliveCP has the CP.    *)
(***************************************************************************)
EXTENDS Naturals, Sequences, FiniteSets

CONSTANTS
  QueueLen,      \* entries of db_info->queue (10 in the code)
  MaxRequests,   \* bound: requests of the phone over Bluetooth
  MaxCommands,   \* bound: commands over the control channel
  MaxLosses,     \* bound: connections the network loses
  MaxSessions,   \* bound: keepalive sessions handed to the CP
  MaxFaults,     \* bound: flash reads, timers and IPC calls that fail
  MaxIncidents   \* bound: commands, losses and faults together

ASSUME ServiceAssumption ==
  /\ QueueLen \in Nat \ {0}
  /\ {MaxRequests, MaxCommands, MaxLosses, MaxSessions, MaxFaults, MaxIncidents}
       \subseteq Nat

Chan == {"ctrl", "video", "audio"}
Lan == {"udp", "tcp"}                  \* the services saved to flash
Service == Lan \cup {"none", "cs2"}
Start == [udp |-> "udp_start", tcp |-> "tcp_start", cs2 |-> "cs2_start"]
Stop == [udp |-> "udp_stop", tcp |-> "tcp_stop"]
StopEvents == {Stop[s] : s \in Lan}
\* "notify": the events whose handler only answers the phone or logs.
Event == {Start[s] : s \in Service \ {"none"}} \cup StopEvents
           \cup {"notify", "ble_off", "connected", "disconnected", "image_off"}

VARIABLES
  queue,      \* db_info->queue
  service,    \* db_info->service
  core,       \* what the core thread is at: "idle", a service it stops: the
              \* record of what is left to stop, or "handover"
  name,       \* the service the network library runs
  chan,       \* its channels: "off", "new" (start not reported), "on", "conn"
  mask,       \* chan_connected_mask
  rep,        \* the report each channel's thread is at: "idle", "store" between
              \* the load and the store of the mask, "test" before it is tested
  torn,       \* history: an update of the mask was lost since its last reset
  flash,      \* flash: saved service; server address: "none", "empty", "ok"
  server,
  ble,        \* Bluetooth is on
  mm,         \* doorbell_mm_service_get_status() # 0
  recent,     \* the last command is younger than MM_STATUS_CHECK_MIN_INTERVAL_MS
  timer,      \* s_timer_started
  tick,       \* timer handler: "idle", or "mark" before it sets the flag
  pending,    \* s_pending_keepalive_after_service_stop
  cmd,        \* s_pending_wakeup_cmd # 0
  main,       \* boot: "boot", "mark" before it sets cmd, "done", "off" (no power)
  reason,     \* pl_wakeup_env->wakeup_reason
  online,     \* history: "connected" was handled since boot
  cp,         \* the CP: "idle", "start" (asked to start), "run" (AP off)
  used        \* the bounds used up: requests, commands, losses, sessions, faults

ctl == <<queue, service, core>>
net == <<name, chan, mask, rep, torn>>
stored == <<flash, server>>
alive == <<timer, tick, pending, cmd>>
boot == <<main, reason, online>>
vars == <<ctl, net, stored, ble, mm, recent, alive, boot, cp, used>>

NoReport == [at |-> "idle"]
Bounded == {"requests", "commands", "losses", "sessions", "faults"}

Init ==
  /\ queue = <<>> /\ service = "none" /\ core = [at |-> "idle"]
  /\ name = "none" /\ chan = [c \in Chan |-> "off"] /\ mask = {}
  /\ rep = [c \in Chan |-> NoReport] /\ torn = FALSE
  /\ flash = "none" /\ server = "none" /\ ble = TRUE /\ mm = FALSE
  /\ recent = FALSE
  /\ timer = FALSE /\ tick = "idle" /\ pending = FALSE /\ cmd = FALSE
  /\ main = "boot" /\ reason = "power" /\ online = FALSE
  /\ cp = "idle" /\ used = [u \in Bounded |-> 0]

Use(what, bound) ==
  used[what] < bound /\ used' = [used EXCEPT ![what] = @ + 1]

(* A command, a loss or a fault. *)
Incident(what, bound) ==
  used.commands + used.losses + used.faults < MaxIncidents /\ Use(what, bound)

(* An external call that may fail, at the cost of a fault. *)
Ok == UNCHANGED used
Fault == Incident("faults", MaxFaults)

-----------------------------------------------------------------------------
(* doorbell_send_msg: push without waiting; a full queue drops the event.  *)
Full(q) == Len(q) >= QueueLen
Push(q, e) == IF Full(q) THEN q ELSE Append(q, e)
PushIf(q, e) == IF e = "none" THEN q ELSE Push(q, e)

(* handle_start_event, handle_connected_event, handle_disconnected_event   *)
(* and handle_stop_event: the event a report of the library is turned into.*)
(* notconn: the report carries ENOTCONN.                                   *)
StartReport(c) ==
  IF (c = "video" /\ name \in Lan) \/ (c = "ctrl" /\ name = "cs2")
    THEN "notify" ELSE "none"

ConnectedReport == IF name # "none" THEN "connected" ELSE "none"

DisconnectedReport(c, notconn) ==
  CASE c = "ctrl" /\ name # "none"                 -> "disconnected"
    [] c = "video" /\ name = "tcp" /\ notconn      -> "image_off"
    [] c # "ctrl" /\ name \in Lan /\ ~notconn      -> "disconnected"
    [] OTHER                                       -> "none"

StopReport(c, notconn) ==
  IF c = "ctrl" /\ (name = "cs2" \/ (name \in Lan /\ ~notconn))
    THEN "disconnected" ELSE "none"

\* Mutant: the mask is not reset when the control channel starts.
ChanStartedNoReset(c) ==
  /\ chan[c] = "new"
  /\ chan' = [chan EXCEPT ![c] = "on"]
  /\ queue' = PushIf(queue, StartReport(c))
  /\ UNCHANGED <<service, core, name, mask, rep, torn, stored, ble, mm, recent, alive,
                 boot, cp, used>>

(* doorbell_bk_net_msg_evt_handle, called in the thread of the channel.    *)
ChanStarted(c) ==
  /\ chan[c] = "new"
  /\ chan' = [chan EXCEPT ![c] = "on"]
  /\ mask' = IF c = "ctrl" THEN {} ELSE mask
  /\ torn' = (torn /\ c # "ctrl")
  /\ queue' = PushIf(queue, StartReport(c))
  /\ UNCHANGED <<service, core, name, rep, stored, ble, mm, recent, alive, boot, cp, used>>

(* set_chan_connected and clear_chan_connected load the mask, change the   *)
(* channel's bit and store it, without a lock: two channels' threads may   *)
(* do so at once.                                                          *)
Load(c, set, event) ==
  /\ rep[c].at = "idle"
  /\ rep' = [rep EXCEPT ![c] = [at |-> "store", read |-> mask, set |-> set, post |-> event]]

ChanConnected(c) ==
  /\ chan[c] = "on"
  /\ chan' = [chan EXCEPT ![c] = "conn"]
  /\ Load(c, TRUE, ConnectedReport)
  /\ UNCHANGED <<queue, service, core, name, mask, torn, stored, ble, mm, recent, alive,
                 boot, cp, used>>

ChanDisconnected(c) == \E notconn \in BOOLEAN :
  /\ chan[c] = "conn" /\ Incident("losses", MaxLosses)
  /\ chan' = [chan EXCEPT ![c] = "on"]
  /\ Load(c, FALSE, DisconnectedReport(c, notconn))
  /\ UNCHANGED <<queue, service, core, name, mask, torn, stored, ble, mm, recent, alive,
                 boot, cp>>

ReportStore(c) ==
  /\ rep[c].at = "store"
  /\ mask' = IF rep[c].set THEN rep[c].read \cup {c} ELSE rep[c].read \ {c}
  /\ torn' = (torn \/ mask # rep[c].read)
  /\ \/ /\ rep[c].set
        /\ rep' = [rep EXCEPT ![c] = [at |-> "test", post |-> rep[c].post]]
        /\ UNCHANGED queue
     \/ /\ ~rep[c].set
        /\ rep' = [rep EXCEPT ![c] = NoReport]
        /\ queue' = PushIf(queue, rep[c].post)
  /\ UNCHANGED <<service, core, name, chan, stored, ble, mm, recent, alive, boot, cp, used>>

(* check_all_channels_connected *)
ReportTest(c) ==
  /\ rep[c].at = "test"
  /\ rep' = [rep EXCEPT ![c] = NoReport]
  /\ queue' = IF mask = Chan THEN PushIf(queue, rep[c].post) ELSE queue
  /\ UNCHANGED <<service, core, name, chan, mask, torn, stored, ble, mm, recent, alive,
                 boot, cp, used>>

-----------------------------------------------------------------------------
(* doorbell_message_handle.  The core thread pops an event when idle.      *)
Pop(e) ==
  /\ main # "off" /\ core.at = "idle" /\ queue # <<>> /\ Head(queue) = e
  /\ queue' = Tail(queue)

(* doorbell_bk_network_transfer_init: without a server address in flash    *)
(* nothing is started; a channel that already runs is left alone.          *)
TransferInit(s) ==
  \/ /\ server # "none" /\ Ok
     /\ name' = s
     /\ chan' = [c \in Chan |-> IF chan[c] = "off" THEN "new" ELSE chan[c]]
  \/ /\ \/ server = "none" /\ Ok
        \/ server # "none" /\ Fault
     /\ UNCHANGED <<name, chan>>

HandleStart(s) ==
  /\ Pop(Start[s])
  /\ IF service # "none"
       THEN UNCHANGED <<service, flash, name, chan, used>>
       ELSE /\ service' = s
            /\ flash' = IF s \in Lan THEN s ELSE flash
            /\ TransferInit(s)
  /\ UNCHANGED <<core, mask, rep, torn, server, ble, mm, recent, alive, boot, cp>>

\* Mutant: the audio channel is not stopped.
HandleStopNoAudio(s) ==
  /\ Pop(Stop[s])
  /\ core' = [at |-> "stop", left |-> <<"ctrl", "video">>, of |-> s]
  /\ UNCHANGED <<service, net, stored, ble, mm, recent, alive, boot, cp, used>>

(* DBEVT_LAN_TCP_SERVICE_STOP and DBEVT_LAN_UDP_SERVICE_STOP:              *)
(* doorbell_bk_network_transfer_deinit stops the channels one after the    *)
(* other, then the service, then db_keepalive_send_keepalive is called.    *)
HandleStop(s) ==
  /\ Pop(Stop[s])
  /\ core' = [at |-> "stop", left |-> <<"ctrl", "video", "audio">>, of |-> s]
  /\ UNCHANGED <<service, net, stored, ble, mm, recent, alive, boot, cp, used>>

\* A stopped channel's thread goes with it, and the core thread reports the
\* stop.  Only a channel that is not connected may do so with ENOTCONN.
ChanStop ==
  /\ core.at = "stop" /\ core.left # <<>>
  /\ LET c == Head(core.left) IN
     \E notconn \in IF chan[c] = "conn" THEN {FALSE} ELSE BOOLEAN :
       /\ chan' = [chan EXCEPT ![c] = "off"]
       /\ mask' = IF c = "ctrl" /\ chan[c] # "off" THEN {} ELSE mask
       /\ torn' = (torn /\ ~(c = "ctrl" /\ chan[c] # "off"))
       /\ rep' = [rep EXCEPT ![c] = NoReport]
       /\ queue' = IF chan[c] = "off" THEN queue
                     ELSE PushIf(queue, StopReport(c, notconn))
       /\ core' = [core EXCEPT !.left = Tail(@)]
  /\ UNCHANGED <<service, name, stored, ble, mm, recent, alive, boot, cp, used>>

ServiceDeinit ==
  /\ core.at = "stop" /\ core.left = <<>>
  /\ name' = IF name = core.of THEN "none" ELSE name
  /\ core' = [at |-> "handover"]
  /\ UNCHANGED <<queue, service, chan, mask, rep, torn, stored, ble, mm, recent, alive,
                 boot, cp, used>>

\* Mutant: the flag is cleared only when the keepalive has started.
SendKeepaliveClearsLast ==
  /\ core.at = "handover"
  /\ core' = [at |-> "idle"]
  /\ \/ /\ pending /\ server = "ok" /\ used' = [used EXCEPT !.sessions = @ + 1]
        /\ cp' = "start" /\ timer' = FALSE /\ pending' = FALSE
     \/ /\ ~pending \/ server # "ok"
        /\ UNCHANGED <<cp, timer, pending, used>>
  /\ UNCHANGED <<queue, service, net, stored, ble, mm, recent, tick, cmd, boot>>

(* db_keepalive_stop_mm_status_check *)
StopStatusCheck == timer' = FALSE

(* db_keepalive_send_keepalive: hand the connection over to the CP.        *)
SendKeepalive ==
  /\ core.at = "handover"
  /\ core' = [at |-> "idle"]
  /\ pending' = FALSE
  /\ \/ /\ pending /\ server = "ok" /\ used' = [used EXCEPT !.sessions = @ + 1]
        /\ cp' = "start" /\ StopStatusCheck
     \/ /\ \/ (~pending \/ server # "ok") /\ Ok
           \/ pending /\ server = "ok" /\ Fault
        /\ UNCHANGED <<cp, timer>>
  /\ UNCHANGED <<queue, service, net, stored, ble, mm, recent, tick, cmd, boot>>

(* db_keepalive_on_service_start_success: the noted command is delivered.  *)
DeliverWake ==
  /\ cmd' = FALSE
  /\ recent' = (recent \/ cmd)

(* db_keepalive_start_mm_status_check: starts the timer unless it runs.    *)
StartStatusCheck ==
  \/ timer' = TRUE /\ Ok
  \/ ~timer /\ timer' = FALSE /\ Fault

(* DBEVT_REMOTE_DEVICE_CONNECTED *)
HandleConnected ==
  /\ Pop("connected")
  /\ online' = TRUE
  /\ DeliverWake
  /\ StartStatusCheck
  /\ UNCHANGED <<service, core, net, stored, ble, mm, tick, pending, main, reason, cp>>

(* DBEVT_REMOTE_DEVICE_DISCONNECTED; the media it turns off are in         *)
(* MediaControl.                                                           *)
HandleDisconnected ==
  /\ Pop("disconnected")
  /\ service' = "none"
  /\ UNCHANGED <<core, net, stored, ble, mm, recent, alive, boot, cp, used>>

HandleOther ==
  \/ /\ Pop("notify") \/ Pop("image_off")
     /\ UNCHANGED <<service, core, net, stored, ble, mm, recent, alive, boot, cp, used>>
  \/ /\ Pop("ble_off") /\ ble' = FALSE
     /\ UNCHANGED <<service, core, net, stored, mm, recent, alive, boot, cp, used>>

-----------------------------------------------------------------------------
(* db_keepalive_mm_status_check_timer_handler with                         *)
(* db_keepalive_stop_service_if_running.  The stop event is posted first;  *)
(* the flag is set after it, also when nothing could be posted.            *)
Tick ==
  /\ timer /\ tick = "idle" /\ used.sessions < MaxSessions
  /\ ~mm /\ ~recent /\ ~pending
  /\ tick' = "mark"
  /\ \/ Ok /\ queue' = IF flash \in Lan THEN Push(queue, Stop[flash]) ELSE queue
     \/ Fault /\ UNCHANGED queue
  /\ UNCHANGED <<service, core, net, stored, ble, mm, recent, timer, pending, cmd, boot, cp>>

TickMark ==
  /\ tick = "mark"
  /\ tick' = "idle" /\ pending' = TRUE
  /\ UNCHANGED <<ctl, net, stored, ble, mm, recent, timer, cmd, boot, cp, used>>

(* The phone: doorbell_boarding_operation_handle over BLE, and commands    *)
(* over the control channel that start or end a multimedia service.        *)
BoardingStart(s) ==
  /\ main = "done" /\ ble /\ Use("requests", MaxRequests)
  /\ recent' = TRUE
  /\ queue' = Push(queue, Start[s])
  /\ UNCHANGED <<service, core, net, stored, ble, mm, alive, boot, cp>>

BoardingOther ==
  /\ main = "done" /\ ble /\ Use("requests", MaxRequests)
  /\ recent' = TRUE
  /\ \/ server' \in {"empty", "ok"} /\ queue' = Push(queue, "notify")
     \/ server' = server /\ queue' = Push(queue, "ble_off")
  /\ UNCHANGED <<service, core, net, flash, ble, mm, alive, boot, cp>>

Command ==
  /\ chan["ctrl"] = "conn" /\ Incident("commands", MaxCommands)
  /\ recent' = TRUE
  /\ \/ mm' = ~mm /\ UNCHANGED queue
     \/ \E s \in Lan : queue' = Push(queue, Start[s]) /\ UNCHANGED mm
  /\ UNCHANGED <<service, core, net, stored, ble, alive, boot, cp>>

TimePasses ==
  /\ recent /\ recent' = FALSE
  /\ UNCHANGED <<ctl, net, stored, ble, mm, alive, boot, cp, used>>

-----------------------------------------------------------------------------
(* db_keepalive_handle_wakeup_reason, from main and, when the CP reports   *)
(* that it could not connect, from the event of the CP.                    *)
StartFromFlash(q) == IF flash \in Lan THEN Push(q, Start[flash]) ELSE q
FlashStarts(q) == flash \in Lan /\ ~Full(q)

BootPower ==
  /\ main = "boot" /\ reason = "power"
  /\ flash' = "none" /\ server' = "none" /\ cmd' = FALSE /\ main' = "done"
  /\ UNCHANGED <<ctl, net, ble, mm, recent, timer, tick, pending, reason, online, cp, used>>

(* Multimedia wake-up: Bluetooth off, CP keepalive stopped, service        *)
(* started; the command to deliver is noted last.  Each step ends the      *)
(* handler when it fails.                                                  *)
BootWake ==
  /\ main = "boot" /\ reason = "mm"
  /\ LET q == Push(queue, "ble_off") IN
     \/ /\ ~Full(queue) /\ Ok
        /\ queue' = StartFromFlash(q)
        /\ cp' = "idle" /\ cmd' = FALSE
        /\ main' = IF FlashStarts(q) THEN "mark" ELSE "done"
     \/ /\ ~Full(queue) /\ Fault          \* db_ipc_stop_keepalive fails
        /\ queue' = q /\ cmd' = FALSE /\ main' = "done" /\ UNCHANGED cp
  /\ UNCHANGED <<service, core, net, stored, ble, mm, recent, timer, tick, pending,
                 reason, online>>

BootMark ==
  /\ main = "mark"
  /\ main' = "done" /\ cmd' = TRUE
  /\ UNCHANGED <<ctl, net, stored, ble, mm, recent, timer, tick, pending, reason,
                 online, cp, used>>

\* Mutant: Bluetooth is switched off, the service is not started.
BootFailNoStart ==
  /\ main = "boot" /\ reason = "fail"
  /\ queue' = Push(queue, "ble_off")
  /\ pending' = FALSE /\ cmd' = FALSE /\ main' = "done"
  /\ UNCHANGED <<service, core, net, stored, ble, mm, recent, timer, tick, reason,
                 online, cp, used>>

(* Keepalive failed, AP switched on again. *)
BootFail ==
  /\ main = "boot" /\ reason = "fail"
  /\ queue' = StartFromFlash(Push(queue, "ble_off"))
  /\ pending' = FALSE /\ cmd' = FALSE /\ main' = "done"
  /\ UNCHANGED <<service, core, net, stored, ble, mm, recent, timer, tick, reason,
                 online, cp, used>>

(* Keepalive could not be established, AP still on: the CP's event. *)
KeepaliveDisconnection ==
  /\ cp = "start" /\ main = "done"
  /\ cp' = "idle" /\ reason' = "disconnection"
  /\ pending' = FALSE /\ cmd' = FALSE
  /\ queue' = StartFromFlash(queue)
  /\ UNCHANGED <<service, core, net, stored, ble, mm, recent, timer, tick, main,
                 online, used>>

(* The CP switches the AP off (pl_power_down_host): its memory is lost,    *)
(* flash stays; later it switches it on with a reason.                     *)
PowerDown ==
  /\ cp = "start" /\ main = "done"
  /\ cp' = "run" /\ main' = "off"
  /\ queue' = <<>> /\ service' = "none" /\ core' = [at |-> "idle"]
  /\ name' = "none" /\ chan' = [c \in Chan |-> "off"] /\ mask' = {}
  /\ rep' = [c \in Chan |-> NoReport] /\ torn' = FALSE
  /\ ble' = FALSE /\ mm' = FALSE /\ recent' = FALSE
  /\ timer' = FALSE /\ tick' = "idle" /\ pending' = FALSE /\ cmd' = FALSE
  /\ online' = FALSE
  /\ UNCHANGED <<stored, reason, used>>

PowerUp ==
  /\ cp = "run" /\ main = "off"
  /\ main' = "boot" /\ ble' = TRUE
  /\ \/ reason' = "mm" /\ cp' = "run"
     \/ reason' = "fail" /\ cp' = "idle"
  /\ UNCHANGED <<ctl, net, stored, mm, recent, alive, online, used>>

-----------------------------------------------------------------------------
Core ==
  \/ \E s \in Service \ {"none"} : HandleStart(s)
  \/ \E s \in Lan : HandleStop(s)
  \/ ChanStop \/ ServiceDeinit \/ SendKeepalive
  \/ HandleConnected \/ HandleDisconnected \/ HandleOther

Boot == BootPower \/ BootWake \/ BootMark \/ BootFail

Phone ==
  \/ \E s \in Service \ {"none"} : BoardingStart(s)
  \/ BoardingOther \/ Command

Next ==
  \/ Core \/ Boot \/ Phone
  \/ \E c \in Chan : \/ ChanStarted(c) \/ ChanConnected(c) \/ ChanDisconnected(c)
                     \/ ReportStore(c) \/ ReportTest(c)
  \/ Tick \/ TickMark \/ TimePasses
  \/ KeepaliveDisconnection \/ PowerDown \/ PowerUp

Spec == Init /\ [][Next]_vars

(* Threads are scheduled, the server can be reached, and the CP acts on    *)
(* what it is asked; the phone owes nothing.                               *)
Fairness ==
  /\ WF_vars(Core) /\ WF_vars(Boot) /\ WF_vars(Tick) /\ WF_vars(TickMark)
  /\ \A c \in Chan : /\ WF_vars(ChanStarted(c)) /\ WF_vars(ChanConnected(c))
                    /\ WF_vars(ReportStore(c) \/ ReportTest(c))
  /\ WF_vars(TimePasses)
  /\ WF_vars(KeepaliveDisconnection \/ PowerDown) /\ WF_vars(PowerUp)

FairSpec == Spec /\ Fairness
-----------------------------------------------------------------------------
AllConnected == \A c \in Chan : chan[c] = "conn"
StopUnderway == core.at # "idle" \/ \E i \in DOMAIN queue : queue[i] \in StopEvents

Posts == Event \cup {"none"}
Reports ==
  {NoReport} \cup [at : {"test"}, post : Posts]
    \cup [at : {"store"}, read : SUBSET Chan, set : BOOLEAN, post : Posts]

\* The thread of channel c is about to clear its bit.
Clearing(c) == rep[c].at = "store" /\ ~rep[c].set

(* Type invariant. *)
TypeOK ==
  /\ queue \in Seq(Event) /\ Len(queue) <= QueueLen
  /\ service \in Service /\ name \in Service
  /\ \/ core \in [at : {"idle", "handover"}]
     \/ core \in [at : {"stop"}, of : Lan, left : Seq(Chan)]
  /\ chan \in [Chan -> {"off", "new", "on", "conn"}] /\ mask \subseteq Chan
  /\ rep \in [Chan -> Reports] /\ torn \in BOOLEAN
  /\ flash \in Lan \cup {"none"} /\ server \in {"none", "empty", "ok"}
  /\ {ble, mm, recent, timer, pending, cmd, online} \subseteq BOOLEAN
  /\ tick \in {"idle", "mark"} /\ main \in {"boot", "mark", "done", "off"}
  /\ reason \in {"power", "mm", "fail", "disconnection"}
  /\ cp \in {"idle", "start", "run"}
  /\ used \in [Bounded -> Nat]

(* chan_connected_mask is never reset when the video or the audio channel  *)
(* stops, and its bits are changed by three threads; all the same, as long *)
(* as no two changes have overlapped since the control channel started or  *)
(* stopped, and the control channel is in the mask, every bit of it stands *)
(* for a connection, or one whose loss is being reported: the bits of an   *)
(* earlier service never let "device connected" be announced.              *)
MaskSound ==
  ~torn /\ "ctrl" \in mask => \A c \in mask : chan[c] = "conn" \/ Clearing(c)

(* The same with changes that overlap, which the code does nothing to      *)
(* prevent.  It does not hold: the store of one channel's connection       *)
(* brings back the bit that another channel has just cleared.              *)
MaskAlwaysSound ==
  "ctrl" \in mask => \A c \in mask : chan[c] = "conn" \/ Clearing(c)

(* The CP is asked to take the connection over only when the AP has no     *)
(* channel left, whatever arrived while the service was being stopped.     *)
HandoverQuiet ==
  [][cp' = "start" /\ cp # "start" => \A c \in Chan : chan[c] = "off"]_vars

(* A keepalive the CP could not keep is answered by the AP: switched on    *)
(* again for that reason, it connects to the server, unless a call fails   *)
(* or the queue fills up on the way.                                       *)
ReconnectsAfterFailure ==
  main = "boot" /\ reason = "fail"
    ~> AllConnected \/ used.faults > 0 \/ Full(queue)

(* A posted stop that the timer handler has marked is answered: the flag   *)
(* that blocks further ticks is cleared again.                             *)
StopAnswered == pending /\ StopUnderway /\ tick = "idle" ~> ~pending

(* db_keepalive.c:110 takes the flag as the sign that the stop message "has*)
(* already been sent" and skips the tick: while the flag is set a stop is  *)
(* in the queue or being handled.                                          *)
PendingMeansSent == pending => StopUnderway

(* README.md:135 "Send pending wake commands after service start": once    *)
(* boot is over and the connection has been announced no command is left.  *)
WakeSent == main = "done" /\ online => ~cmd
=============================================================================
