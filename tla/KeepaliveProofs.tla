-------------------------- MODULE KeepaliveProofs --------------------------
(***************************************************************************)
(* Proofs about the keepalive session of the co-processor, for every       *)
(* number of connection attempts and of sessions.                          *)
(***************************************************************************)
EXTENDS KeepaliveCP, TLAPS

\* What a session allocates is gone.
Freed == ~bufs /\ sema = -1 /\ ~timer

\* A thread is in db_keepalive_cp_deinit when its step says so.
DeinitInv ==
  /\ tx = "deinit" <=> dpc["tx"] # 0
  /\ ipc = "deinit" <=> dpc["ipc"] # 0

\* A session begins when nothing of the last one runs, and until it has a
\* connection the host, which waits, asks for nothing.
StartInv ==
  /\ cmd = "start" => Quiet /\ ap # "boot"
  /\ ipc = "start" =>
       tx = "dead" /\ rx = "dead" /\ ongoing /\ sema # -1 /\ cmd = "none" /\ ap # "boot"
  /\ \/ tx \in {"connect", "report", "rx"}
     \/ tx = "deinit" /\ after = "report"
     \/ tx = "deinit" /\ ~txThread
     => rx = "dead" /\ ipc = "idle" /\ cmd = "none" /\ ap # "boot"

\* env.tx_thread is set: the TX thread runs, only it cleans up, and the
\* semaphore exists until it deletes it.
OwnerInv == txThread =>
  /\ tx # "dead" /\ ipc \notin {"start", "deinit"} /\ cmd # "start"
  /\ sema = -1 => dpc["tx"] = 6

\* The TX thread after db_keepalive_init_rx has cleaned up: it reports, and
\* calls deinit once more on an empty record.
OrphanInv == ~txThread /\ tx # "dead" =>
  /\ tx = "report" \/ (tx = "deinit" /\ after = "dead")
  /\ Freed /\ ~ongoing

\* Without a TX thread the record is empty, unless a start failed or the IPC
\* handler is about to clean up.
IdleInv == tx = "dead" =>
  /\ ~txThread
  /\ rx # "dead" => Freed /\ ~ongoing /\ ipc # "start" /\ cmd # "start"
  /\ ipc = "idle" /\ ~ongoing => Freed

SessionInv == DeinitInv /\ StartInv /\ OwnerInv /\ OrphanInv /\ IdleInv
KeepaliveInv == TypeOK /\ SessionInv

\* db_keepalive_cp_deinit, which frees without a lock, is run by one thread at
\* a time, although the TX thread and the IPC handler both call it.
OneCleaner == dpc["tx"] = 0 \/ dpc["ipc"] = 0

-----------------------------------------------------------------------------
(* The steps of db_keepalive_cp_deinit.                                    *)

\* The steps are made one after the other; the last one returns.
LEMMA DeinitSteps ==
  ASSUME NEW t \in {"tx", "ipc"}, Deinit(t), dpc \in [{"tx", "ipc"} -> 0..6]
  PROVE  /\ dpc[t] \in 1..6
         /\ dpc' = [dpc EXCEPT ![t] = IF dpc[t] = 6 THEN 0 ELSE dpc[t] + 1]
         /\ dpc' \in [{"tx", "ipc"} -> 0..6]
<1>1. \/ dpc[t] = 1 /\ dpc' = [dpc EXCEPT ![t] = 1 + 1]
      \/ dpc[t] = 2 /\ dpc' = [dpc EXCEPT ![t] = 2 + 1]
      \/ dpc[t] = 3 /\ dpc' = [dpc EXCEPT ![t] = 3 + 1]
      \/ dpc[t] = 4 /\ dpc' = [dpc EXCEPT ![t] = 4 + 1]
      \/ dpc[t] = 5 /\ dpc' = [dpc EXCEPT ![t] = 5 + 1]
      \/ dpc[t] = 6 /\ dpc' = [dpc EXCEPT ![t] = 0]
  BY Zenon DEF Deinit, At
<1> QED
  BY <1>1

\* A step before the last only takes away from the session.
LEMMA DeinitEffect ==
  ASSUME NEW t \in {"tx", "ipc"}, Deinit(t), dpc[t] # 6
  PROVE  /\ UNCHANGED <<tx, ipc, txThread>>
         /\ sock' = sock \/ sock' = "none"
         /\ sema' = sema \/ sema' = Posted \/ (dpc[t] = 5 /\ sema' = -1)
         /\ ongoing' = ongoing \/ ongoing' = FALSE
         /\ bufs' = bufs \/ bufs' = FALSE
         /\ timer' = timer \/ timer' = FALSE
  BY Zenon DEF Deinit, At

-----------------------------------------------------------------------------
(* The steps of the system.                                                *)

\* Every step keeps the types.
LEMMA TypeStep ==
  ASSUME TypeOK, [Next]_vars PROVE TypeOK'
<1> DEFINE BoolOK == /\ ongoing \in BOOLEAN /\ bufs \in BOOLEAN /\ lp \in BOOLEAN
                     /\ timer \in BOOLEAN /\ txThread \in BOOLEAN
                     /\ rtc \in BOOLEAN /\ sleep \in BOOLEAN /\ evt \in BOOLEAN
           RestOK ==
             /\ sock \in {"none", "open", "zero"} /\ sema \in -1..1
             /\ tx \in {"dead", "connect", "report", "rx", "down", "off", "sleep", "timer",
                        "first", "loop", "arm", "wait", "woken", "beat", "deinit"}
             /\ retry \in 0..MaxRetry
             /\ rx \in {"dead", "top", "recv", "response", "wake", "other", "fail",
                        "wakeup", "failup", "exit", "post"}
             /\ ipc \in {"idle", "start", "stop", "stopped", "deinit"}
             /\ dpc \in [{"tx", "ipc"} -> 0..6] /\ after \in {"dead", "report"}
             /\ host \in {"on", "off"}
             /\ reason \in {"none", "power", "multimedia", "fail", "disconnection"}
             /\ ap \in {"service", "restarted", "waiting", "off", "boot", "idle"}
             /\ cmd \in {"none", "start", "stop"}
             /\ server \in {"none", "up", "silent", "closed"}
             /\ inbox \in {"none", "response", "wake", "other"}
             /\ sessions \in 0..MaxSessions
<1>0. BoolOK /\ RestOK /\ (BoolOK' /\ RestOK' => TypeOK')
  BY DEF TypeOK
<1>1. CASE TxConnect
  BY <1>1 DEF TxConnect, env, threads, power, outside, TypeOK
<1>2. CASE TxConnectFail
  BY <1>2, KeepaliveAssumption DEF TxConnectFail, env, threads, power, outside, TypeOK
<1>3. CASE TxReport
  BY <1>3 DEF TxReport, TxDeinit, env, threads, power, outside, TypeOK
<1>4. CASE TxInitRx
  BY <1>4 DEF TxInitRx, TxDeinit, env, threads, power, outside, TypeOK
<1>5. CASE TxPowerDown
  BY <1>5 DEF TxPowerDown, PowerDown, env, threads, power, outside, TypeOK
<1>6. CASE TxSleep
  BY <1>6 DEF TxSleep, env, threads, power, outside, TypeOK
<1>7. CASE TxTimer
  <2>1. BoolOK'
    BY <1>0, <1>7, Zenon DEF TxTimer, TxDeinit, PowerUp, env, threads, power, outside
  <2>2. RestOK'
    BY <1>0, <1>7 DEF TxTimer, TxDeinit, PowerUp, env, threads, power, outside
  <2> QED
    BY <1>0, <2>1, <2>2
<1>8. CASE TxLoop
  <2>1. BoolOK'
    BY <1>0, <1>8, Zenon DEF TxLoop, TxDeinit, SetRtc, env, threads, power, outside
  <2>2. RestOK'
    BY <1>0, <1>8 DEF TxLoop, TxDeinit, SetRtc, env, threads, power, outside
  <2> QED
    BY <1>0, <2>1, <2>2
<1>9. ASSUME NEW t \in {"tx", "ipc"}, DeinitStep(t) PROVE TypeOK'
  <2> DEFINE Rest == UNCHANGED <<retry, rx, after, host, reason, outside>>
  <2>1. Deinit(t) /\ Rest
    BY <1>9 DEF DeinitStep
  <2>2. BoolOK'
    BY <1>0, <2>1, Zenon DEF Deinit, outside
  <2>3. dpc \in [{"tx", "ipc"} -> 0..6]
    BY <1>0
  <2>4. dpc' \in [{"tx", "ipc"} -> 0..6]
    BY <2>1, <2>3, DeinitSteps
  <2>5. CASE dpc[t] # 6
    <3>1. UNCHANGED <<tx, ipc>> /\ sock' \in {sock, "none"} /\ sema' \in {sema, Posted, -1}
      BY <2>1, <2>5, DeinitEffect
    <3> QED
      BY <1>0, <2>1, <2>2, <2>4, <3>1 DEF Posted, outside
  <2>6. CASE dpc[t] = 6
    <3>1. /\ sock' = "zero" /\ sema' = -1
          /\ IF t = "tx" THEN tx' = after /\ ipc' = ipc ELSE ipc' = "idle" /\ tx' = tx
      BY <2>1, <2>6 DEF Deinit, At
    <3> QED
      BY <1>0, <2>1, <2>2, <2>4, <3>1 DEF outside
  <2> QED
    BY <2>5, <2>6
<1>10. CASE RxTop
  BY <1>10 DEF RxTop, env, threads, power, outside, TypeOK
<1>11. CASE RxRecv
  BY <1>11 DEF RxRecv, env, threads, power, outside, TypeOK
<1>12. CASE RxGiveUp
  BY <1>12 DEF RxGiveUp, env, threads, power, outside, TypeOK
<1>13. CASE RxAnswer
  BY <1>13 DEF RxAnswer, env, threads, power, outside, TypeOK
<1>14. CASE RxWakeReason
  BY <1>14 DEF RxWakeReason, env, threads, power, outside, TypeOK
<1>15. CASE RxWakeHost
  BY <1>15 DEF RxWakeHost, PowerUp, env, threads, power, outside, TypeOK
<1>16. CASE RxExit
  <2>1. BoolOK'
    BY <1>0, <1>16, Zenon DEF RxExit, env, threads, power, outside
  <2>2. RestOK'
    BY <1>0, <1>16 DEF RxExit, env, threads, power, outside
  <2> QED
    BY <1>0, <2>1, <2>2
<1>17. CASE RxPost
  BY <1>17 DEF RxPost, Posted, env, threads, power, outside, TypeOK
<1>18. CASE CpInit
  <2>1. BoolOK'
    BY <1>0, <1>18, Zenon DEF CpInit, InitFailed, env, threads, power, outside
  <2>2. RestOK'
    BY <1>0, <1>18 DEF CpInit, InitFailed, env, threads, power, outside
  <2> QED
    BY <1>0, <2>1, <2>2
<1>19. CASE CpStart
  <2>1. BoolOK'
    BY <1>0, <1>19, Zenon DEF CpStart, env, threads, power, outside
  <2>2. RestOK'
    BY <1>0, <1>19, KeepaliveAssumption DEF CpStart, env, threads, power, outside
  <2> QED
    BY <1>0, <2>1, <2>2
<1>20. CASE CpStop
  <2>1. BoolOK'
    BY <1>0, <1>20, Zenon DEF CpStop, env, threads, power, outside
  <2>2. RestOK'
    BY <1>0, <1>20 DEF CpStop, env, threads, power, outside
  <2> QED
    BY <1>0, <2>1, <2>2
<1>21. CASE CpStopPost
  BY <1>21 DEF CpStopPost, Posted, env, threads, power, outside, TypeOK
<1>22. CASE CpStopped
  BY <1>22 DEF CpStopped, env, threads, power, outside, TypeOK
<1>23. CASE HostStart
  BY <1>23, KeepaliveAssumption
  DEF HostStart, Serving, Quiet, env, threads, power, outside, TypeOK
<1>24. CASE HostBoot
  BY <1>24 DEF HostBoot, env, threads, power, outside, TypeOK
<1>25. CASE HostEvent
  <2>1. BoolOK'
    BY <1>0, <1>25, Zenon DEF HostEvent, env, threads, power, outside
  <2>2. RestOK'
    BY <1>0, <1>25 DEF HostEvent, env, threads, power, outside
  <2> QED
    BY <1>0, <2>1, <2>2
<1>26. CASE RtcFire
  <2>1. BoolOK'
    BY <1>0, <1>26, Zenon DEF RtcFire, Posted, env, threads, power, outside
  <2>2. RestOK'
    BY <1>0, <1>26 DEF RtcFire, Posted, env, threads, power, outside
  <2> QED
    BY <1>0, <2>1, <2>2
<1>27. CASE TimerFire
  BY <1>27 DEF TimerFire, SetRtc, env, threads, power, outside, TypeOK
<1>28. CASE ServerSend
  BY <1>28 DEF ServerSend, env, threads, power, outside, TypeOK
<1>29. CASE ServerGone
  BY <1>29 DEF ServerGone, env, threads, power, outside, TypeOK
<1>30. CASE UNCHANGED vars
  BY <1>30 DEF vars, env, threads, power, outside, TypeOK
<1> QED
  BY <1>1, <1>2, <1>3, <1>4, <1>5, <1>6, <1>7, <1>8, <1>9, <1>10, <1>11, <1>12, <1>13,
     <1>14, <1>15, <1>16, <1>17, <1>18, <1>19, <1>20, <1>21, <1>22, <1>23, <1>24,
     <1>25, <1>26, <1>27, <1>28, <1>29, <1>30
  DEF Next, TxNext, RxNext, IpcNext, HostNext

\* Every step keeps what is known of a session.
LEMMA SessionStep ==
  ASSUME TypeOK, SessionInv, [Next]_vars PROVE SessionInv'
<1>1. CASE TxConnect
  BY <1>1
  DEF TxConnect, env, threads, power, outside, TypeOK, SessionInv, DeinitInv,
     StartInv, OwnerInv, OrphanInv, IdleInv, Freed, Quiet
<1>2. CASE TxConnectFail
  BY <1>2
  DEF TxConnectFail, env, threads, power, outside, TypeOK, SessionInv, DeinitInv,
     StartInv, OwnerInv, OrphanInv, IdleInv, Freed, Quiet
<1>3. CASE TxReport
  BY <1>3
  DEF TxReport, TxDeinit, env, threads, power, outside, TypeOK, SessionInv, DeinitInv,
     StartInv, OwnerInv, OrphanInv, IdleInv, Freed, Quiet
<1>4. CASE TxInitRx
  BY <1>4
  DEF TxInitRx, TxDeinit, env, threads, power, outside, TypeOK, SessionInv, DeinitInv,
     StartInv, OwnerInv, OrphanInv, IdleInv, Freed, Quiet
<1>5. CASE TxPowerDown
  BY <1>5
  DEF TxPowerDown, PowerDown, env, threads, power, outside, TypeOK, SessionInv,
     DeinitInv, StartInv, OwnerInv, OrphanInv, IdleInv, Freed, Quiet
<1>6. CASE TxSleep
  BY <1>6
  DEF TxSleep, env, threads, power, outside, TypeOK, SessionInv, DeinitInv, StartInv,
     OwnerInv, OrphanInv, IdleInv, Freed, Quiet
<1>7. CASE TxTimer
  BY <1>7
  DEF TxTimer, TxDeinit, PowerUp, env, threads, power, outside, TypeOK, SessionInv,
     DeinitInv, StartInv, OwnerInv, OrphanInv, IdleInv, Freed, Quiet
<1>8. CASE TxLoop
  BY <1>8
  DEF TxLoop, TxDeinit, SetRtc, env, threads, power, outside, TypeOK, SessionInv,
     DeinitInv, StartInv, OwnerInv, OrphanInv, IdleInv, Freed, Quiet
<1>9. ASSUME NEW t \in {"tx", "ipc"}, DeinitStep(t) PROVE SessionInv'
  <2>1. Deinit(t) /\ UNCHANGED <<retry, rx, after, host, reason, outside>>
    BY <1>9 DEF DeinitStep
  <2>2. dpc \in [{"tx", "ipc"} -> 0..6] /\ sema \in -1..1
    BY DEF TypeOK
  <2>4. CASE dpc[t] = 6
    <3>1. /\ dpc'[t] = 0 /\ \A u \in {"tx", "ipc"} : u # t => dpc'[u] = dpc[u]
          /\ ~ongoing' /\ Freed' /\ ~txThread'
          /\ IF t = "tx" THEN tx' = after /\ ipc' = ipc ELSE ipc' = "idle" /\ tx' = tx
      BY <2>1, <2>2, <2>4 DEF Deinit, At, Freed
    <3> QED
      BY <2>1, <2>4, <3>1
      DEF outside, TypeOK, SessionInv, DeinitInv, StartInv, OwnerInv, OrphanInv,
         IdleInv, Freed, Quiet
  <2>5. CASE dpc[t] # 6
    <3>1. /\ dpc[t] \in 1..5 /\ dpc'[t] = dpc[t] + 1
          /\ \A u \in {"tx", "ipc"} : u # t => dpc'[u] = dpc[u]
      BY <2>1, <2>2, <2>5, DeinitSteps
    <3>2. /\ UNCHANGED <<tx, ipc, txThread>>
          /\ ongoing' => ongoing
          /\ bufs' => bufs
          /\ timer' => timer
          /\ sema' = sema \/ sema' = Posted \/ (dpc[t] = 5 /\ sema' = -1)
      BY <2>1, <2>5, DeinitEffect
    <3>3. /\ sema = -1 => sema' = -1
          /\ sema' = -1 => sema = -1 \/ dpc[t] = 5
      BY <2>2, <3>2 DEF Posted
    <3> QED
      BY <2>1, <3>1, <3>2, <3>3
      DEF outside, TypeOK, SessionInv, DeinitInv, StartInv, OwnerInv, OrphanInv,
         IdleInv, Freed, Quiet
  <2> QED
    BY <2>4, <2>5
<1>10. CASE RxTop
  BY <1>10
  DEF RxTop, env, threads, power, outside, TypeOK, SessionInv, DeinitInv, StartInv,
     OwnerInv, OrphanInv, IdleInv, Freed, Quiet
<1>11. CASE RxRecv
  BY <1>11
  DEF RxRecv, env, threads, power, outside, TypeOK, SessionInv, DeinitInv, StartInv,
     OwnerInv, OrphanInv, IdleInv, Freed, Quiet
<1>12. CASE RxGiveUp
  BY <1>12
  DEF RxGiveUp, env, threads, power, outside, TypeOK, SessionInv, DeinitInv, StartInv,
     OwnerInv, OrphanInv, IdleInv, Freed, Quiet
<1>13. CASE RxAnswer
  BY <1>13
  DEF RxAnswer, env, threads, power, outside, TypeOK, SessionInv, DeinitInv, StartInv,
     OwnerInv, OrphanInv, IdleInv, Freed, Quiet
<1>14. CASE RxWakeReason
  BY <1>14
  DEF RxWakeReason, env, threads, power, outside, TypeOK, SessionInv, DeinitInv,
     StartInv, OwnerInv, OrphanInv, IdleInv, Freed, Quiet
<1>15. CASE RxWakeHost
  BY <1>15
  DEF RxWakeHost, PowerUp, env, threads, power, outside, TypeOK, SessionInv,
     DeinitInv, StartInv, OwnerInv, OrphanInv, IdleInv, Freed, Quiet
<1>16. CASE RxExit
  BY <1>16
  DEF RxExit, env, threads, power, outside, TypeOK, SessionInv, DeinitInv, StartInv,
     OwnerInv, OrphanInv, IdleInv, Freed, Quiet
<1>17. CASE RxPost
  BY <1>17
  DEF RxPost, Posted, env, threads, power, outside, TypeOK, SessionInv, DeinitInv,
     StartInv, OwnerInv, OrphanInv, IdleInv, Freed, Quiet
<1>18. CASE CpInit
  BY <1>18
  DEF CpInit, InitFailed, env, threads, power, outside, TypeOK, SessionInv, DeinitInv,
     StartInv, OwnerInv, OrphanInv, IdleInv, Freed, Quiet
<1>19. CASE CpStart
  BY <1>19
  DEF CpStart, env, threads, power, outside, TypeOK, SessionInv, DeinitInv, StartInv,
     OwnerInv, OrphanInv, IdleInv, Freed, Quiet
<1>20. CASE CpStop
  BY <1>20
  DEF CpStop, env, threads, power, outside, TypeOK, SessionInv, DeinitInv, StartInv,
     OwnerInv, OrphanInv, IdleInv, Freed, Quiet
<1>21. CASE CpStopPost
  BY <1>21
  DEF CpStopPost, Posted, env, threads, power, outside, TypeOK, SessionInv, DeinitInv,
     StartInv, OwnerInv, OrphanInv, IdleInv, Freed, Quiet
<1>22. CASE CpStopped
  BY <1>22
  DEF CpStopped, env, threads, power, outside, TypeOK, SessionInv, DeinitInv,
     StartInv, OwnerInv, OrphanInv, IdleInv, Freed, Quiet
<1>23. CASE HostStart
  BY <1>23
  DEF HostStart, Serving, Quiet, env, threads, power, outside, TypeOK, SessionInv,
     DeinitInv, StartInv, OwnerInv, OrphanInv, IdleInv, Freed, Quiet
<1>24. CASE HostBoot
  BY <1>24
  DEF HostBoot, env, threads, power, outside, TypeOK, SessionInv, DeinitInv, StartInv,
     OwnerInv, OrphanInv, IdleInv, Freed, Quiet
<1>25. CASE HostEvent
  BY <1>25
  DEF HostEvent, env, threads, power, outside, TypeOK, SessionInv, DeinitInv,
     StartInv, OwnerInv, OrphanInv, IdleInv, Freed, Quiet
<1>26. CASE RtcFire
  BY <1>26
  DEF RtcFire, Posted, env, threads, power, outside, TypeOK, SessionInv, DeinitInv,
     StartInv, OwnerInv, OrphanInv, IdleInv, Freed, Quiet
<1>27. CASE TimerFire
  BY <1>27
  DEF TimerFire, SetRtc, env, threads, power, outside, TypeOK, SessionInv, DeinitInv,
     StartInv, OwnerInv, OrphanInv, IdleInv, Freed, Quiet
<1>28. CASE ServerSend
  BY <1>28
  DEF ServerSend, env, threads, power, outside, TypeOK, SessionInv, DeinitInv,
     StartInv, OwnerInv, OrphanInv, IdleInv, Freed, Quiet
<1>29. CASE ServerGone
  BY <1>29
  DEF ServerGone, env, threads, power, outside, TypeOK, SessionInv, DeinitInv,
     StartInv, OwnerInv, OrphanInv, IdleInv, Freed, Quiet
<1>30. CASE UNCHANGED vars
  BY <1>30
  DEF vars, env, threads, power, outside, TypeOK, SessionInv, DeinitInv, StartInv,
     OwnerInv, OrphanInv, IdleInv, Freed, Quiet
<1> QED
  BY <1>1, <1>2, <1>3, <1>4, <1>5, <1>6, <1>7, <1>8, <1>9, <1>10, <1>11, <1>12, <1>13,
     <1>14, <1>15, <1>16, <1>17, <1>18, <1>19, <1>20, <1>21, <1>22, <1>23, <1>24,
     <1>25, <1>26, <1>27, <1>28, <1>29, <1>30
  DEF Next, TxNext, RxNext, IpcNext, HostNext

-----------------------------------------------------------------------------
(* The theorems.                                                           *)

\* The inductive invariant holds: the types, who may be in deinit, who owns
\* the session and what exists of it at each step of its end.
THEOREM KeepaliveInvariance == Spec => []KeepaliveInv
<1>1. Init => KeepaliveInv
  <2>1. Init => TypeOK
    <3>1. 0 \in 0..MaxRetry /\ 0 \in 0..MaxSessions /\ -1 \in -1..1
      BY KeepaliveAssumption
    <3>2. [t \in {"tx", "ipc"} |-> 0] \in [{"tx", "ipc"} -> 0..6]
      OBVIOUS
    <3> QED
      BY <3>1, <3>2 DEF Init, TypeOK
  <2>2. Init => SessionInv
    BY
    DEF Init, SessionInv, DeinitInv, StartInv, OwnerInv, OrphanInv, IdleInv, Freed,
       Quiet
  <2> QED
    BY <2>1, <2>2 DEF KeepaliveInv
<1>2. KeepaliveInv /\ [Next]_vars => KeepaliveInv'
  BY TypeStep, SessionStep DEF KeepaliveInv
<1> QED
  BY <1>1, <1>2, PTL DEF Spec

\* Type correctness of the session record, the threads and the power state.
THEOREM TypeCorrect == Spec => []TypeOK
<1>1. KeepaliveInv => TypeOK
  BY DEF KeepaliveInv
<1> QED
  BY <1>1, KeepaliveInvariance, PTL

\* Whoever ends a session, TX thread, RX thread or IPC handler, and whenever:
\* when all of them are done its buffers, semaphore and timer are gone.
THEOREM SessionFreed == Spec => []NothingLeft
<1>1. KeepaliveInv => NothingLeft
  BY DEF KeepaliveInv, SessionInv, IdleInv, Freed, Quiet, NothingLeft
<1> QED
  BY <1>1, KeepaliveInvariance, PTL

\* db_keepalive_tx_handler never waits on a deleted semaphore.
THEOREM SemaphoreAlive == Spec => []WaitsOnSemaphore
<1>1. KeepaliveInv => WaitsOnSemaphore
  BY
  DEF KeepaliveInv, TypeOK, SessionInv, DeinitInv, OwnerInv, OrphanInv,
     WaitsOnSemaphore
<1> QED
  BY <1>1, KeepaliveInvariance, PTL

\* The IPC handler and the TX thread never run db_keepalive_cp_deinit at once:
\* no buffer or semaphore is freed twice.
THEOREM FreedByOne == Spec => []OneCleaner
<1>1. KeepaliveInv => OneCleaner
  BY
  DEF KeepaliveInv, TypeOK, SessionInv, DeinitInv, StartInv, OwnerInv, IdleInv,
     OneCleaner
<1> QED
  BY <1>1, KeepaliveInvariance, PTL
=============================================================================
