---------------------------- MODULE KeepaliveCP ----------------------------
(***************************************************************************)
(* The low-power keepalive of the co-processor (doorbell_lp, db_keepalive.c *)
(* and powerctrl.c).  While the host (the application processor) is off, a *)
(* TX thread keeps a TCP connection alive with heartbeats, an RX thread    *)
(* listens for the server's wake-up command, and the chip sleeps between   *)
(* RTC alarms.  The threads, the alarm, the software timer, the IPC        *)
(* handler, the server and the host run concurrently; an action is a       *)
(* statement, or a group of them between which nobody can tell.            *)
(***************************************************************************)
EXTENDS Integers

CONSTANTS
  MaxRetry,     \* DB_KEEPALIVE_MAX_RETRY_CNT
  MaxSessions   \* bound: keepalive sessions the host starts

ASSUME KeepaliveAssumption == MaxRetry \in Nat \ {0} /\ MaxSessions \in Nat

VARIABLES
  ongoing,   \* env.keepalive_ongoing
  sock,      \* env.sock: "none" (-1), "open", "zero" (cleared by memset)
  sema,      \* env.sema: -1 (NULL) or its count (a binary semaphore)
  bufs,      \* rx_buffer, rx_raw_buffer and db_pack's buffers are allocated
  lp,        \* env.lp_state = PM_MODE_LOW_VOLTAGE
  timer,     \* env.timer exists and runs
  txThread,  \* env.tx_thread # NULL
  tx,        \* where the TX thread is
  retry,     \* connection attempts of the TX thread
  rx,        \* where the RX thread is
  ipc,       \* where the IPC handler is: idle, start (after init), stop, deinit
  dpc,       \* step of db_keepalive_cp_deinit a thread is at (0: not in it)
  after,     \* where the TX thread continues after deinit
  rtc,       \* the RTC alarm is registered
  sleep,     \* the CIF is in low-voltage sleep
  host,      \* power of the application processor: on, off
  reason,    \* pl_wakeup_env.wakeup_reason
  ap,        \* the host's software: service, waiting (to be switched off), off,
             \* boot, restarted (in service, by a wake-up command), idle
  cmd,       \* IPC command from the host
  evt,       \* event KEEPALIVE_DISCONNECTION to the host
  server,    \* none, up, silent, closed
  inbox,     \* packet from the server
  sessions   \* sessions started

env == <<ongoing, sock, sema, bufs, lp, timer, txThread>>
threads == <<tx, retry, rx, ipc, dpc, after>>
power == <<rtc, sleep, host, reason>>
outside == <<ap, cmd, evt, server, inbox, sessions>>
vars == <<env, threads, power, outside>>

Init ==
  /\ ongoing = FALSE /\ sock = "zero" /\ sema = -1 /\ bufs = FALSE
  /\ lp = FALSE /\ timer = FALSE /\ txThread = FALSE
  /\ tx = "dead" /\ retry = 0 /\ rx = "dead" /\ ipc = "idle"
  /\ dpc = [t \in {"tx", "ipc"} |-> 0] /\ after = "dead"
  /\ rtc = FALSE /\ sleep = FALSE /\ host = "on" /\ reason = "power"
  /\ ap = "service" /\ cmd = "none" /\ evt = FALSE
  /\ server = "none" /\ inbox = "none" /\ sessions = 0

\* db_keepalive_sema_post_safe: only an existing semaphore is posted.
Posted == IF sema = -1 THEN -1 ELSE 1

-----------------------------------------------------------------------------
(* The host, modelled from how the code of the AP uses the keepalive.      *)

\* Nothing of an earlier session is left.  The host starts the next one only
\* when its service has been up for a status check interval (5 s), and the
\* threads of the last session have ended long before.
Quiet == tx = "dead" /\ rx = "dead" /\ ipc = "idle"

Serving == ap \in {"service", "restarted"}

\* db_keepalive_send_keepalive: the service is stopped, CP shall take over.
HostStart ==
  /\ Serving /\ cmd = "none" /\ Quiet
  /\ sessions < MaxSessions
  /\ sessions' = sessions + 1
  /\ cmd' = "start"
  /\ ap' = "waiting"
  /\ UNCHANGED <<env, threads, power, evt, server, inbox>>

\* db_keepalive_handle_wakeup_reason after power-up: a wake-up command stops
\* the keepalive and starts the service, a failure starts the service.
HostBoot ==
  /\ ap = "boot" /\ cmd = "none"
  /\ cmd' = IF reason = "multimedia" THEN "stop" ELSE "none"
  /\ ap' = CASE reason = "multimedia" -> "restarted"
             [] reason \in {"fail", "disconnection"} -> "service"
             [] OTHER -> "idle"
  /\ UNCHANGED <<env, threads, power, evt, server, inbox, sessions>>

\* The same function, called for the event KEEPALIVE_DISCONNECTION.
HostEvent ==
  /\ evt /\ ap = "waiting"
  /\ evt' = FALSE
  /\ ap' = IF reason = "disconnection" THEN "service" ELSE "waiting"
  /\ UNCHANGED <<env, threads, power, cmd, server, inbox, sessions>>

\* pl_wakeup_host and pl_power_down_host, their last statements.
PowerUp ==
  /\ host' = "on"
  /\ ap' = IF host = "off" THEN "boot" ELSE ap

PowerDown ==
  /\ host' = "off"
  /\ ap' = "off"

-----------------------------------------------------------------------------
(* The server and the network.                                             *)

\* A response to a heartbeat, a wake-up command or another command arrives.
ServerSend ==
  /\ server = "up" /\ inbox = "none"
  /\ inbox' \in {"response", "wake", "other"}
  /\ UNCHANGED <<env, threads, power, ap, cmd, evt, server, sessions>>

\* The server closes the connection, or is no longer reachable.
ServerGone ==
  /\ server = "up"
  /\ server' \in {"closed", "silent"}
  /\ UNCHANGED <<env, threads, power, ap, cmd, evt, inbox, sessions>>

-----------------------------------------------------------------------------
(* The IPC handler: KEEPALIVESTART and KEEPALIVESTOP.                      *)

\* The end of a failing init (mutant: the buffers are not freed).
InitFailedLeaks ==
  /\ ongoing' = FALSE /\ sock' = "zero" /\ sema' = -1 /\ bufs' = TRUE
  /\ lp' = FALSE /\ timer' = FALSE /\ txThread' = FALSE

\* The end of a failing init: what was allocated is freed.
InitFailed ==
  /\ ongoing' = FALSE /\ sock' = "zero" /\ sema' = -1 /\ bufs' = FALSE
  /\ lp' = FALSE /\ timer' = FALSE /\ txThread' = FALSE

\* db_keepalive_cp_init; the handler calls start only when it succeeds.
CpInit ==
  /\ cmd = "start" /\ ipc = "idle"
  /\ cmd' = "none"
  /\ \/ /\ ~ongoing
        /\ ongoing' = TRUE /\ sock' = "none" /\ sema' = 0 /\ bufs' = TRUE
        /\ lp' = FALSE /\ timer' = FALSE /\ txThread' = FALSE
        /\ ipc' = "start"
     \/ ~ongoing /\ InitFailed /\ UNCHANGED ipc
     \/ ongoing /\ UNCHANGED <<env, ipc>>
  /\ UNCHANGED <<tx, retry, rx, dpc, after, power, ap, evt, server, inbox,
                 sessions>>

\* db_keepalive_cp_start; the handler ignores its result.
CpStart ==
  /\ ipc = "start"
  /\ ipc' = "idle"
  /\ \/ ongoing /\ tx' = "connect" /\ retry' = 0 /\ txThread' = TRUE
     \/ UNCHANGED <<tx, retry, txThread>>
  /\ UNCHANGED <<ongoing, sock, sema, bufs, lp, timer, rx, dpc, after, power,
                 outside>>

\* db_keepalive_cp_stop clears the flag, then posts the semaphore, ...
CpStop ==
  /\ cmd = "stop" /\ ipc = "idle"
  /\ cmd' = "none"
  /\ ongoing' = FALSE
  /\ ipc' = "stop"
  /\ UNCHANGED <<sock, sema, bufs, lp, timer, txThread, tx, retry, rx, dpc,
                 after, power, ap, evt, server, inbox, sessions>>

CpStopPost ==
  /\ ipc = "stop"
  /\ sema' = Posted
  /\ ipc' = "stopped"
  /\ UNCHANGED <<ongoing, sock, bufs, lp, timer, txThread, tx, retry, rx, dpc,
                 after, power, outside>>

\* Mutant: cleans up under the TX thread.
CpStoppedAlways ==
  /\ ipc = "stopped"
  /\ ipc' = "deinit" /\ dpc' = [dpc EXCEPT !["ipc"] = 1]
  /\ UNCHANGED <<env, tx, retry, rx, after, power, outside>>

\* ... and cleans up itself when there is no TX thread to do it.
CpStopped ==
  /\ ipc = "stopped"
  /\ IF txThread
     THEN ipc' = "idle" /\ UNCHANGED dpc
     ELSE ipc' = "deinit" /\ dpc' = [dpc EXCEPT !["ipc"] = 1]
  /\ UNCHANGED <<env, tx, retry, rx, after, power, outside>>

-----------------------------------------------------------------------------
(* db_keepalive_cp_deinit, by the TX thread or by the IPC handler.         *)

At(t, k) == dpc[t] = k /\ dpc' = [dpc EXCEPT ![t] = k + 1]

Deinit(t) ==
  \/ /\ At(t, 1)                     \* no more heartbeats, no alarm
     /\ ongoing' = FALSE /\ rtc' = FALSE /\ sema' = Posted
     /\ UNCHANGED <<sock, bufs, lp, timer, txThread, tx, ipc, sleep>>
  \/ /\ At(t, 2)                     \* leave low-voltage sleep
     /\ lp' = FALSE
     /\ sleep' = IF lp THEN FALSE ELSE sleep
     /\ UNCHANGED <<ongoing, sock, sema, bufs, timer, txThread, tx, ipc, rtc>>
  \/ /\ At(t, 3)                     \* stop the timer, close the socket
     /\ timer' = FALSE /\ sock' = "none"
     /\ UNCHANGED <<ongoing, sema, bufs, lp, txThread, tx, ipc, rtc, sleep>>
  \/ /\ At(t, 4)                     \* free the buffers
     /\ bufs' = FALSE
     /\ UNCHANGED <<ongoing, sock, sema, lp, timer, txThread, tx, ipc, rtc, sleep>>
  \/ /\ At(t, 5)                     \* delete the semaphore
     /\ sema' = -1
     /\ UNCHANGED <<ongoing, sock, bufs, lp, timer, txThread, tx, ipc, rtc, sleep>>
  \/ /\ dpc[t] = 6                   \* memset, and return
     /\ dpc' = [dpc EXCEPT ![t] = 0]
     /\ ongoing' = FALSE /\ sock' = "zero" /\ sema' = -1 /\ bufs' = FALSE
     /\ lp' = FALSE /\ timer' = FALSE /\ txThread' = FALSE
     /\ IF t = "tx" THEN tx' = after /\ UNCHANGED ipc
                    ELSE ipc' = "idle" /\ UNCHANGED tx
     /\ UNCHANGED <<rtc, sleep>>

DeinitStep(t) ==
  /\ Deinit(t)
  /\ UNCHANGED <<retry, rx, after, host, reason, outside>>

-----------------------------------------------------------------------------
(* The TX thread: db_keepalive_tx_handler.                                 *)

\* The TX thread calls deinit and then continues at pc.
TxDeinit(pc) ==
  /\ tx' = "deinit" /\ after' = pc
  /\ dpc' = [dpc EXCEPT !["tx"] = 1]

\* db_keepalive_init_connection succeeds.
TxConnect ==
  /\ tx = "connect" /\ retry < MaxRetry
  /\ sock' = "open" /\ server' = "up" /\ inbox' = "none"
  /\ tx' = "rx"
  /\ UNCHANGED <<ongoing, sema, bufs, lp, timer, txThread, retry, rx, ipc, dpc,
                 after, power, ap, cmd, evt, sessions>>

\* Mutant: one attempt too many.
TxConnectFailLate ==
  /\ tx = "connect" /\ retry <= MaxRetry
  /\ retry' = retry + 1
  /\ tx' = IF retry = MaxRetry THEN "report" ELSE "connect"
  /\ UNCHANGED <<env, rx, ipc, dpc, after, power, outside>>

\* No socket, no port or no answer: after MaxRetry attempts it gives up.
TxConnectFail ==
  /\ tx = "connect" /\ retry < MaxRetry
  /\ retry' = retry + 1
  /\ tx' = IF retry + 1 = MaxRetry THEN "report" ELSE "connect"
  /\ UNCHANGED <<env, rx, ipc, dpc, after, power, outside>>

\* Mutant: the event is sent without the reason.
TxReportNoReason ==
  /\ tx = "report"
  /\ evt' = TRUE
  /\ TxDeinit("dead")
  /\ UNCHANGED <<env, retry, rx, ipc, power, ap, cmd, server, inbox, sessions>>

\* The host, still on, is told why the keepalive did not start.
TxReport ==
  /\ tx = "report"
  /\ reason' = "disconnection"
  /\ evt' = TRUE
  /\ TxDeinit("dead")
  /\ UNCHANGED <<env, retry, rx, ipc, rtc, sleep, host, ap, cmd, server, inbox,
                 sessions>>

\* db_keepalive_init_rx: without a thread it calls deinit itself.
TxInitRx ==
  /\ tx = "rx"
  /\ \/ rx' = "top" /\ tx' = "down" /\ UNCHANGED <<after, dpc>>
     \/ TxDeinit("report") /\ UNCHANGED rx
  /\ UNCHANGED <<env, retry, ipc, power, outside>>

\* pl_power_down_host: the reason is reset, then the power goes.
TxPowerDown ==
  \/ /\ tx = "down"
     /\ reason' = "none"
     /\ tx' = "off"
     /\ UNCHANGED <<env, retry, rx, ipc, dpc, after, rtc, sleep, host, outside>>
  \/ /\ tx = "off"
     /\ PowerDown
     /\ tx' = "sleep"
     /\ UNCHANGED <<env, retry, rx, ipc, dpc, after, rtc, sleep, reason, cmd, evt,
                    server, inbox, sessions>>

\* db_keepalive_start_lv_sleep.
TxSleep ==
  /\ tx = "sleep"
  /\ lp' = TRUE /\ sleep' = (sleep \/ ~lp)
  /\ tx' = "timer"
  /\ UNCHANGED <<ongoing, sock, sema, bufs, timer, txThread, retry, rx, ipc, dpc,
                 after, rtc, host, reason, outside>>

\* The timer starts, or the host is woken because it does not.
TxTimer ==
  /\ tx = "timer"
  /\ \/ timer' = TRUE /\ tx' = "first" /\ UNCHANGED <<after, dpc, host, reason, ap>>
     \/ /\ reason' = "fail" /\ PowerUp
        /\ TxDeinit("dead") /\ UNCHANGED timer
  /\ UNCHANGED <<ongoing, sock, sema, bufs, lp, txThread, retry, rx, ipc, rtc,
                 sleep, cmd, evt, server, inbox, sessions>>

\* db_keepalive_set_keepalive_rtc: the alarm is replaced by a new one.
SetRtc == rtc' = TRUE

\* The first heartbeat and the loop: a heartbeat after every alarm.
TxLoop ==
  /\ \/ tx = "first" /\ tx' = "loop" /\ UNCHANGED <<after, dpc, sema, rtc>>
     \/ tx = "loop" /\ ongoing /\ tx' = "arm" /\ UNCHANGED <<after, dpc, sema, rtc>>
     \/ tx = "loop" /\ ~ongoing /\ TxDeinit("dead") /\ UNCHANGED <<sema, rtc>>
     \/ tx = "arm" /\ SetRtc /\ tx' = "wait" /\ UNCHANGED <<after, dpc, sema>>
     \/ tx = "wait" /\ sema = 1 /\ sema' = 0 /\ tx' = "woken" /\ UNCHANGED <<after, dpc, rtc>>
     \/ tx = "woken" /\ ongoing /\ tx' = "beat" /\ UNCHANGED <<after, dpc, sema, rtc>>
     \/ tx = "woken" /\ ~ongoing /\ TxDeinit("dead") /\ UNCHANGED <<sema, rtc>>
     \/ tx = "beat" /\ tx' = "loop" /\ UNCHANGED <<after, dpc, sema, rtc>>
  /\ UNCHANGED <<ongoing, sock, bufs, lp, timer, txThread, retry, rx, ipc, sleep,
                 host, reason, outside>>

\* db_keepalive_rtc_timer_handler, in the interrupt; the alarm fires once.
RtcFire ==
  /\ rtc
  /\ rtc' = FALSE
  /\ sema' = IF ongoing THEN Posted ELSE sema
  /\ UNCHANGED <<ongoing, sock, bufs, lp, timer, txThread, threads, sleep, host,
                 reason, outside>>

\* db_keepalive_timer_handler, in the timer task, once per interval.
TimerFire ==
  /\ timer
  /\ sleep' = TRUE /\ SetRtc
  /\ UNCHANGED <<env, threads, host, reason, outside>>

-----------------------------------------------------------------------------
(* The RX thread: db_keepalive_rx_handler.                                 *)

RxTop ==
  /\ rx = "top"
  /\ rx' = IF ongoing /\ sock # "none" THEN "recv" ELSE "exit"
  /\ UNCHANGED <<env, tx, retry, ipc, dpc, after, power, outside>>

\* db_keepalive_recv_raw_data: data, a closed connection or a closed socket.
RxRecv ==
  /\ rx = "recv"
  /\ \/ inbox # "none" /\ sock = "open" /\ rx' = inbox /\ inbox' = "none"
     \/ (sock # "open" \/ (server = "closed" /\ inbox = "none"))
          /\ rx' = "exit" /\ UNCHANGED inbox
  /\ UNCHANGED <<env, tx, retry, ipc, dpc, after, power, ap, cmd, evt, server,
                 sessions>>

\* Mutant: the host is not woken when the server does not answer.
RxGiveUpQuietly ==
  /\ rx = "recv" /\ server = "silent" /\ inbox = "none"
  /\ tx \notin {"down", "off", "sleep", "timer"}
  /\ rx' = "exit"
  /\ UNCHANGED <<env, tx, retry, ipc, dpc, after, power, outside>>

\* 21 timeouts of 3 s without data: by then the TX thread, which has only to
\* switch the host off and start its timer, has reached its loop.
RxGiveUp ==
  /\ rx = "recv" /\ server = "silent" /\ inbox = "none"
  /\ tx \notin {"down", "off", "sleep", "timer"}
  /\ rx' = "fail"
  /\ UNCHANGED <<env, tx, retry, ipc, dpc, after, power, outside>>

\* db_keepalive_unpack_callback: a response, or a command that is answered.
RxAnswer ==
  /\ rx \in {"response", "other"}
  /\ rx' = "top"
  /\ UNCHANGED <<env, tx, retry, ipc, dpc, after, power, outside>>

\* pl_wakeup_host: first the reason, then the power.
RxWakeReason ==
  /\ rx \in {"wake", "fail"}
  /\ reason' = IF rx = "wake" THEN "multimedia" ELSE "fail"
  /\ rx' = IF rx = "wake" THEN "wakeup" ELSE "failup"
  /\ UNCHANGED <<env, tx, retry, ipc, dpc, after, rtc, sleep, host, outside>>

RxWakeHost ==
  /\ rx \in {"wakeup", "failup"}
  /\ PowerUp
  /\ rx' = IF rx = "wakeup" THEN "top" ELSE "exit"
  /\ UNCHANGED <<env, tx, retry, ipc, dpc, after, rtc, sleep, reason, cmd, evt,
                 server, inbox, sessions>>

\* The RX thread ends the session: the flag first, then the semaphore.
RxExit ==
  /\ rx = "exit"
  /\ ongoing' = FALSE
  /\ rx' = "post"
  /\ UNCHANGED <<sock, sema, bufs, lp, timer, txThread, tx, retry, ipc, dpc,
                 after, power, outside>>

\* Mutant: the TX thread is not woken.
RxPostForgotten ==
  /\ rx = "post"
  /\ rx' = "dead"
  /\ UNCHANGED <<env, tx, retry, ipc, dpc, after, power, outside>>

RxPost ==
  /\ rx = "post"
  /\ sema' = Posted
  /\ rx' = "dead"
  /\ UNCHANGED <<ongoing, sock, bufs, lp, timer, txThread, tx, retry, ipc, dpc,
                 after, power, outside>>

-----------------------------------------------------------------------------
TxNext ==
  \/ TxConnect \/ TxConnectFail \/ TxReport \/ TxInitRx \/ TxPowerDown
  \/ TxSleep \/ TxTimer \/ TxLoop \/ DeinitStep("tx")

RxNext ==
  \/ RxTop \/ RxRecv \/ RxGiveUp \/ RxAnswer \/ RxWakeReason \/ RxWakeHost
  \/ RxExit \/ RxPost

IpcNext ==
  \/ CpInit \/ CpStart \/ CpStop \/ CpStopPost \/ CpStopped \/ DeinitStep("ipc")

HostNext == HostStart \/ HostBoot \/ HostEvent

Next ==
  \/ TxNext \/ RxNext \/ IpcNext \/ HostNext
  \/ RtcFire \/ TimerFire \/ ServerSend \/ ServerGone

\* The scheduler runs every thread that is ready, a registered alarm fires,
\* and the host that is switched on boots.
Fairness ==
  /\ WF_vars(TxNext) /\ WF_vars(RxNext) /\ WF_vars(IpcNext)
  /\ WF_vars(RtcFire) /\ WF_vars(HostBoot \/ HostEvent)

Spec == Init /\ [][Next]_vars /\ Fairness

-----------------------------------------------------------------------------
(* Properties.                                                             *)

\* The types of the session record, the threads and the power state.
TypeOK ==
  /\ ongoing \in BOOLEAN /\ sock \in {"none", "open", "zero"}
  /\ sema \in -1..1 /\ bufs \in BOOLEAN /\ lp \in BOOLEAN
  /\ timer \in BOOLEAN /\ txThread \in BOOLEAN
  /\ tx \in {"dead", "connect", "report", "rx", "down", "off", "sleep", "timer",
             "first", "loop", "arm", "wait", "woken", "beat", "deinit"}
  /\ retry \in 0..MaxRetry
  /\ rx \in {"dead", "top", "recv", "response", "wake", "other", "fail",
             "wakeup", "failup", "exit", "post"}
  /\ ipc \in {"idle", "start", "stop", "stopped", "deinit"}
  /\ dpc \in [{"tx", "ipc"} -> 0..6] /\ after \in {"dead", "report"}
  /\ rtc \in BOOLEAN /\ sleep \in BOOLEAN /\ host \in {"on", "off"}
  /\ reason \in {"none", "power", "multimedia", "fail", "disconnection"}
  /\ ap \in {"service", "restarted", "waiting", "off", "boot", "idle"}
  /\ cmd \in {"none", "start", "stop"} /\ evt \in BOOLEAN
  /\ server \in {"none", "up", "silent", "closed"}
  /\ inbox \in {"none", "response", "wake", "other"}
  /\ sessions \in 0..MaxSessions

\* When a session is over, whoever ended it and at whatever moment, its
\* buffers, semaphore and timer are gone.
NothingLeft ==
  Quiet /\ ~ongoing => ~bufs /\ sema = -1 /\ ~timer

\* The TX thread waits on the semaphore only while it exists, and nobody
\* frees it under the wait.
WaitsOnSemaphore == tx \in {"arm", "wait"} => sema # -1

\* A session that was told to end ends: clearing the flag and then posting
\* the semaphore reaches the TX thread wherever it is, although the alarm no
\* longer posts once the flag is clear; and the RX thread follows.
SessionEnds == (~ongoing /\ tx # "dead") ~> (tx = "dead" /\ rx = "dead")

\* A server that no longer answers while the RX thread listens is noticed:
\* the host is switched on and starts its service again.
SilentServerWakesHost ==
  (host = "off" /\ server = "silent" /\ rx = "recv" /\ inbox = "none")
    ~> Serving

\* A connection that cannot be made is reported and the host, which waits to
\* be switched off, restarts its service.
FailureReported == (tx = "report") ~> Serving

\* On receiving a wake command the host is powered up and its service starts
\* ("On receiving a wake command CP quickly powers up AP and restarts
\* multimedia services").
WakeCommandServed == (rx = "wake") ~> Serving

\* While the host is off a session keeps the connection ("CP maintains
\* keepalive and will wake AP on server command").
KeepaliveWhileOff == host = "off" => tx # "dead" \/ rx # "dead"

\* The host was woken by a command and has stopped the keepalive.
Stopped ==
  ap = "restarted" /\ cmd = "none" /\ ~ongoing

\* Stop exits low-voltage sleep ("2. Exit low-voltage sleep").
AwakeAfterStop == Stopped /\ Quiet => ~sleep

\* Stop deletes the threads and then releases the resources: the RX thread
\* does not handle a packet in buffers that are freed ("4. Delete TX and RX
\* threads 5. Release all resources").
ThreadsBeforeResources ==
  Stopped /\ rx \in {"response", "wake", "other"} => bufs
=============================================================================
