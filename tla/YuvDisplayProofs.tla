-------------------------- MODULE YuvDisplayProofs --------------------------
(***************************************************************************)
(* Proofs about the YUV display task, for every set of frames and every    *)
(* length of its queue.                                                    *)
(***************************************************************************)
EXTENDS YuvDisplay, TLAPS

Working == task.at \in {"pop", "get", "failed"}
Waiting(e) == {i \in 1..Len(obj.queue) : obj.queue[i] = e}

\* The handshakes of open and close: which token is in the semaphore says
\* where the task is, and a stop waits in the queue only while close waits.
StageInv ==
  /\ ~obj.live => obj = Null /\ api = "idle"
  /\ api = "idle" => IF obj.live THEN Working /\ obj.sem = 0 ELSE task.at = "none"
  /\ api = "opening" => \/ task.at = "start" /\ obj.sem = 0 /\ obj.queue = <<>>
                        \/ Working /\ obj.sem = 1
  /\ api = "closing" => \/ (Working \/ task.at = "exit") /\ obj.sem = 0
                        \/ task.at = "none" /\ obj.sem = 1
  /\ api = "cleanup" => task.at = "none"
  /\ api \in {"idle", "opening"} => Waiting("stop") = {}

\* The rotator works, or its interrupt waits in the queue, once for the frame
\* the task keeps.
RotateInv ==
  /\ rott # "off" => obj.rotate
  /\ task.at = "start" => rott # "busy"
  /\ Working /\ rott = "busy" =>
       input = task.frame /\ input # None /\ Waiting("ready") = {}
  /\ Working => \A i, j \in Waiting("ready") : i = j
  /\ Working /\ Waiting("ready") # {} => task.frame # None /\ obj.rotate

\* A frame is held for the display or for the task, not for both.
HeldInv ==
  /\ held = shown.yuv \cup
       (IF task.frame # None /\ task.at # "failed" THEN {task.frame} ELSE {})
  /\ task.frame \notin shown.yuv
  /\ task.at \in {"none", "start"} => task.frame = None
  /\ task.at = "failed" => task.frame # None /\ ~obj.rotate /\ faults.flush > 0
  /\ twice => faults.flush > 0

YuvInv == TypeOK /\ StageInv /\ RotateInv /\ HeldInv

-----------------------------------------------------------------------------
(* The queue of the task.                                                  *)

\* A message put at the end.
LEMMA Appended ==
  ASSUME NEW S, NEW s \in Seq(S), NEW x \in S
  PROVE  /\ Append(s, x) \in Seq(S) /\ Len(Append(s, x)) = Len(s) + 1
         /\ Len(s) \in Nat
         /\ \A i \in 1..(Len(s) + 1) : Append(s, x)[i] = IF i <= Len(s) THEN s[i] ELSE x
  OBVIOUS

\* A message taken from the front.
LEMMA Taken ==
  ASSUME NEW S, NEW s \in Seq(S), s # <<>>
  PROVE  /\ Tail(s) \in Seq(S) /\ Len(Tail(s)) = Len(s) - 1
         /\ Len(s) \in Nat \ {0} /\ Head(s) = s[1] /\ Head(s) \in S
         /\ \A i \in 1..(Len(s) - 1) : Tail(s)[i] = s[i + 1]
  OBVIOUS


\* The record of a task that is created.
LEMMA ObjectMade ==
  /\ Null \in Object /\ Len(Null.queue) = 0
  /\ \A c \in BOOLEAN : /\ [Null EXCEPT !.live = TRUE, !.rotate = c] \in Object
                        /\ Len([Null EXCEPT !.live = TRUE, !.rotate = c].queue) = 0
<1>1. <<>> \in Seq({"stop", "ready"})
  OBVIOUS
<1>2. [Null EXCEPT !.live = TRUE, !.rotate = TRUE] \in Object
  BY <1>1 DEF Null, Object
<1>3. [Null EXCEPT !.live = TRUE, !.rotate = FALSE] \in Object
  BY <1>1 DEF Null, Object
<1>4. Null \in Object
  BY <1>1 DEF Null, Object
<1>5. \A c \in BOOLEAN : Len([Null EXCEPT !.live = TRUE, !.rotate = c].queue) = 0
  BY DEF Null
<1>6. Len(Null.queue) = 0
  BY DEF Null
<1> QED
  BY <1>2, <1>3, <1>4, <1>5, <1>6

\* Every step keeps the types.
LEMMA TypeStep ==
  ASSUME TypeOK, [Next]_vars PROVE TypeOK'
<1> DEFINE Msg == {"stop", "ready"}
           ObjOK == obj \in Object /\ Len(obj.queue) <= QueueLen
           OtherOK ==
             /\ task \in [at : {"none", "start", "pop", "get", "failed", "exit"},
                          frame : Frames \cup {None}]
             /\ api \in {"idle", "opening", "closing", "cleanup"}
             /\ rott \in {"off", "idle", "busy"} /\ input \in Frames \cup {None}
             /\ held \subseteq Frames /\ twice \in BOOLEAN
             /\ shown \in [yuv : SUBSET Frames, rotated : 0..MaxShown]
             /\ faults \in [call : 0..MaxFaults, flush : 0..MaxFlushFaults]
<1>0. ObjOK /\ OtherOK /\ (ObjOK' /\ OtherOK' => TypeOK')
  BY DEF TypeOK
<1>q. obj.queue \in Seq(Msg) /\ Len(obj.queue) \in Nat /\ QueueLen \in Nat
  BY <1>0, YuvAssumption DEF Object
<1>a. \A m \in Msg : Append(obj.queue, m) \in Seq(Msg)
                       /\ Len(Append(obj.queue, m)) = Len(obj.queue) + 1
  BY <1>q
<1>t. obj.queue # <<>> => Tail(obj.queue) \in Seq(Msg)
                            /\ Len(Tail(obj.queue)) = Len(obj.queue) - 1
  BY <1>q
<1> HIDE DEF ObjOK, OtherOK
<1>1. ASSUME OpenFail PROVE ObjOK' /\ OtherOK'
  <2>1. ObjOK'
    BY <1>0, <1>1 DEF OpenFail, ObjOK, Object
  <2>2. OtherOK'
    BY <1>0, <1>1, YuvAssumption DEF OpenFail, Fails, Fault, OtherOK
  <2> QED
    BY <2>1, <2>2
<1>2. ASSUME NEW rotate \in BOOLEAN, Open(rotate) PROVE ObjOK' /\ OtherOK'
  <2>1. ObjOK'
    <3>1. obj' \in Object /\ Len(obj'.queue) = 0
      BY <1>2, ObjectMade, Zenon DEF Open
    <3> QED
      BY <1>q, <3>1 DEF ObjOK
  <2>2. OtherOK'
    BY <1>0, <1>2, YuvAssumption DEF Open, OtherOK
  <2> QED
    BY <2>1, <2>2
<1>3. ASSUME Close PROVE ObjOK' /\ OtherOK'
  <2>0. PICK q \in Seq(Msg) : q = Append(obj.queue, "stop") /\ Len(q) = Len(obj.queue) + 1
    BY <1>a
  <2>3. obj' = [obj EXCEPT !.queue = q] /\ Len(obj.queue) < QueueLen
    BY <1>3, <2>0 DEF Close
  <2>4. obj' \in Object /\ obj'.queue = q
    BY <1>0, <2>3 DEF ObjOK, Object
  <2>1. ObjOK'
    BY <1>q, <2>0, <2>3, <2>4 DEF ObjOK
  <2>2. OtherOK'
    BY <1>0, <1>3, YuvAssumption DEF Close, OtherOK
  <2> QED
    BY <2>1, <2>2
<1>4. ASSUME TaskStart PROVE ObjOK' /\ OtherOK'
  <2>1. ObjOK'
    BY <1>0, <1>4, <1>q, <1>a, <1>t DEF TaskStart, Signal, ObjOK, Object
  <2>2. OtherOK'
    BY <1>0, <1>4, YuvAssumption DEF TaskStart, OtherOK
  <2> QED
    BY <2>1, <2>2
<1>5. ASSUME TaskStop PROVE ObjOK' /\ OtherOK'
  <2>0. PICK q \in Seq(Msg) : q = Tail(obj.queue) /\ Len(q) = Len(obj.queue) - 1
    BY <1>5, <1>t DEF TaskStop, Popped
  <2>3. obj' = [obj EXCEPT !.queue = q]
    BY <1>5, <2>0 DEF TaskStop
  <2>4. obj' \in Object /\ obj'.queue = q
    BY <1>0, <2>3 DEF ObjOK, Object
  <2>1. ObjOK'
    BY <1>0, <1>q, <2>0, <2>4 DEF ObjOK
  <2>2. OtherOK'
    BY <1>0, <1>5, YuvAssumption DEF TaskStop, OtherOK
  <2> QED
    BY <2>1, <2>2
<1>6. ASSUME TaskTimeout PROVE ObjOK' /\ OtherOK'
  <2>1. ObjOK'
    BY <1>0, <1>6 DEF TaskTimeout, ObjOK, Object
  <2>2. OtherOK'
    BY <1>0, <1>6, YuvAssumption DEF TaskTimeout, OtherOK
  <2> QED
    BY <2>1, <2>2
<1>7. ASSUME TaskRotated PROVE ObjOK' /\ OtherOK'
  <2>0. PICK q \in Seq(Msg) : q = Tail(obj.queue) /\ Len(q) = Len(obj.queue) - 1
    BY <1>7, <1>t DEF TaskRotated, Popped
  <2>3. obj' = [obj EXCEPT !.queue = q, !.out = FALSE]
    BY <1>7, <2>0 DEF TaskRotated
  <2>4. obj' \in Object /\ obj'.queue = q
    BY <1>0, <2>3 DEF ObjOK, Object
  <2>1. ObjOK'
    BY <1>0, <1>q, <2>0, <2>4 DEF ObjOK
  <2>2. OtherOK'
    BY <1>0, <1>7, YuvAssumption
    DEF TaskRotated, Popped, Release, FlushFails, Fault, OtherOK
  <2> QED
    BY <2>1, <2>2
<1>8. ASSUME GetNothing PROVE ObjOK' /\ OtherOK'
  <2>1. ObjOK'
    BY <1>0, <1>8 DEF GetNothing, ObjOK, Object
  <2>2. OtherOK'
    BY <1>0, <1>8, YuvAssumption DEF GetNothing, OtherOK
  <2> QED
    BY <2>1, <2>2
<1>9. ASSUME TaskFailed PROVE ObjOK' /\ OtherOK'
  <2>1. ObjOK'
    BY <1>0, <1>9 DEF TaskFailed, ObjOK, Object
  <2>2. OtherOK'
    BY <1>0, <1>9, YuvAssumption DEF TaskFailed, Release, OtherOK
  <2> QED
    BY <2>1, <2>2
<1>10. ASSUME TaskExit PROVE ObjOK' /\ OtherOK'
  <2>1. ObjOK'
    BY <1>0, <1>10, <1>q, <1>a, <1>t DEF TaskExit, Signal, ObjOK, Object
  <2>2. OtherOK'
    BY <1>0, <1>10, YuvAssumption DEF TaskExit, Release, OtherOK
  <2> QED
    BY <2>1, <2>2
<1>11. ASSUME NEW f \in Frames, StartRotation(f) PROVE ObjOK' /\ OtherOK'
  <2>1. ObjOK'
    BY <1>0, <1>11, <1>q, <1>a, <1>t DEF StartRotation, ObjOK, Object
  <2>2. OtherOK'
    BY <1>0, <1>11, YuvAssumption DEF StartRotation, Get, OtherOK
  <2> QED
    BY <2>1, <2>2
<1>12. ASSUME NEW f \in Frames, RotationFails(f) PROVE ObjOK' /\ OtherOK'
  <2>1. ObjOK'
    BY <1>0, <1>12, <1>q, <1>a, <1>t DEF RotationFails, Get, ObjOK, Object
  <2>2. OtherOK'
    BY <1>0, <1>12, YuvAssumption DEF RotationFails, Get, Fails, Fault, OtherOK
  <2> QED
    BY <2>1, <2>2
<1>13. ASSUME NEW f \in Frames, Show(f) PROVE ObjOK' /\ OtherOK'
  <2>1. ObjOK'
    BY <1>0, <1>13 DEF Show, ObjOK, Object
  <2>2. OtherOK'
    BY <1>0, <1>13, YuvAssumption DEF Show, Get, OtherOK
  <2> QED
    BY <2>1, <2>2
<1>14. ASSUME NEW f \in Frames, ShowFails(f) PROVE ObjOK' /\ OtherOK'
  <2>1. ObjOK'
    BY <1>0, <1>14 DEF ShowFails, ObjOK, Object
  <2>2. OtherOK'
    BY <1>0, <1>14, YuvAssumption DEF ShowFails, Get, FlushFails, Fault, OtherOK
  <2> QED
    BY <2>1, <2>2
<1>15. ASSUME OpenWait PROVE ObjOK' /\ OtherOK'
  <2>1. ObjOK'
    BY <1>0, <1>15, <1>q, <1>a, <1>t DEF OpenWait, ObjOK, Object
  <2>2. OtherOK'
    BY <1>0, <1>15, YuvAssumption DEF OpenWait, OtherOK
  <2> QED
    BY <2>1, <2>2
<1>16. ASSUME CloseWait PROVE ObjOK' /\ OtherOK'
  <2>1. ObjOK'
    BY <1>0, <1>16, <1>q, <1>a, <1>t DEF CloseWait, ObjOK, Object
  <2>2. OtherOK'
    BY <1>0, <1>16, YuvAssumption DEF CloseWait, OtherOK
  <2> QED
    BY <2>1, <2>2
<1>17. ASSUME Cleanup PROVE ObjOK' /\ OtherOK'
  <2>1. ObjOK'
    <3>1. obj' \in Object /\ Len(obj'.queue) = 0
      BY <1>17, ObjectMade, Zenon DEF Cleanup
    <3> QED
      BY <1>q, <3>1 DEF ObjOK
  <2>2. OtherOK'
    BY <1>0, <1>17, YuvAssumption DEF Cleanup, OtherOK
  <2> QED
    BY <2>1, <2>2
<1>18. ASSUME RotateComplete PROVE ObjOK' /\ OtherOK'
  <2>0. PICK q \in Seq(Msg) : q = Append(obj.queue, "ready") /\ Len(q) = Len(obj.queue) + 1
    BY <1>a
  <2>3. ASSUME obj' # obj PROVE obj' = [obj EXCEPT !.queue = q] /\ Len(obj.queue) < QueueLen
    BY <1>18, <2>0, <2>3 DEF RotateComplete
  <2>4. ASSUME obj' # obj PROVE obj' \in Object /\ obj'.queue = q
    BY <1>0, <2>3, <2>4 DEF ObjOK, Object
  <2>1. ObjOK'
    BY <1>0, <1>q, <2>0, <2>3, <2>4 DEF ObjOK
  <2>2. OtherOK'
    BY <1>0, <1>18, YuvAssumption DEF RotateComplete, OtherOK
  <2> QED
    BY <2>1, <2>2
<1>19. ASSUME DisplayFreeRotated PROVE ObjOK' /\ OtherOK'
  <2>1. ObjOK'
    BY <1>0, <1>19 DEF DisplayFreeRotated, ObjOK, Object
  <2>2. OtherOK'
    BY <1>0, <1>19, YuvAssumption DEF DisplayFreeRotated, OtherOK
  <2> QED
    BY <2>1, <2>2
<1>20. ASSUME NEW f \in Frames, DisplayFree(f) PROVE ObjOK' /\ OtherOK'
  <2>1. ObjOK'
    BY <1>0, <1>20 DEF DisplayFree, ObjOK, Object
  <2>2. OtherOK'
    BY <1>0, <1>20, YuvAssumption DEF DisplayFree, Release, OtherOK
  <2> QED
    BY <2>1, <2>2
<1>21. CASE UNCHANGED vars
  BY <1>0, <1>21 DEF vars, ObjOK, OtherOK
<1> QED
  BY <1>0, <1>1, <1>2, <1>3, <1>4, <1>5, <1>6, <1>7, <1>8, <1>9, <1>10, <1>11, <1>12,
     <1>13, <1>14, <1>15, <1>16, <1>17, <1>18, <1>19, <1>20, <1>21
  DEF Next, Task, Api, Display

\* Every step keeps the handshakes.
LEMMA StageStep ==
  ASSUME YuvInv, [Next]_vars PROVE StageInv'
<1> USE DEF YuvInv
<1>1. CASE OpenFail
  BY <1>1 DEF OpenFail, Fails, Fault, TypeOK, Object, StageInv, Working, Waiting, Null
<1>2. ASSUME NEW rotate \in BOOLEAN, Open(rotate) PROVE StageInv'
  BY <1>2, YuvAssumption
  DEF Open, Null, TypeOK, Object, StageInv, Working, Waiting, Null
<1>3. CASE Close
  BY <1>3, YuvAssumption, Appended
  DEF Close, TypeOK, Object, StageInv, Working, Waiting, Null
<1>4. CASE TaskStart
  BY <1>4 DEF TaskStart, Signal, TypeOK, Object, StageInv, Working, Waiting, Null
<1>5. CASE TaskStop
  BY <1>5, Taken
  DEF TaskStop, Popped, TypeOK, Object, StageInv, Working, Waiting, Null
<1>6. CASE TaskTimeout
  BY <1>6 DEF TaskTimeout, TypeOK, Object, StageInv, Working, Waiting, Null
<1>7. CASE TaskRotated
  <2>1. /\ obj'.live = obj.live /\ obj'.sem = obj.sem /\ obj'.queue = Tail(obj.queue)
        /\ obj.queue \in Seq({"stop", "ready"}) /\ obj.queue # <<>> /\ obj.live
    BY <1>7 DEF TaskRotated, Popped, TypeOK, Object, StageInv, Null
  <2>2. Waiting("stop") = {} => Waiting("stop")' = {}
    BY <2>1, Taken DEF Waiting
  <2>3. task.at = "pop" /\ task'.at = "get" /\ api' = api
    BY <1>7 DEF TaskRotated, Popped
  <2> QED
    BY <2>1, <2>2, <2>3 DEF StageInv, Working
<1>8. CASE GetNothing
  BY <1>8 DEF GetNothing, TypeOK, Object, StageInv, Working, Waiting, Null
<1>9. CASE TaskFailed
  BY <1>9 DEF TaskFailed, Release, TypeOK, Object, StageInv, Working, Waiting, Null
<1>10. CASE TaskExit
  BY <1>10
  DEF TaskExit, Release, Signal, TypeOK, Object, StageInv, Working, Waiting, Null
<1>11. ASSUME NEW f \in Frames, StartRotation(f) PROVE StageInv'
  BY <1>11 DEF StartRotation, Get, TypeOK, Object, StageInv, Working, Waiting, Null
<1>12. ASSUME NEW f \in Frames, RotationFails(f) PROVE StageInv'
  BY <1>12, YuvAssumption
  DEF RotationFails, Get, Fails, Fault, TypeOK, Object, StageInv, Working, Waiting,
     Null
<1>13. ASSUME NEW f \in Frames, Show(f) PROVE StageInv'
  BY <1>13 DEF Show, Get, TypeOK, Object, StageInv, Working, Waiting, Null
<1>14. ASSUME NEW f \in Frames, ShowFails(f) PROVE StageInv'
  BY <1>14, YuvAssumption
  DEF ShowFails, Get, FlushFails, Fault, TypeOK, Object, StageInv, Working, Waiting,
     Null
<1>15. CASE OpenWait
  BY <1>15 DEF OpenWait, TypeOK, Object, StageInv, Working, Waiting, Null
<1>16. CASE CloseWait
  BY <1>16 DEF CloseWait, TypeOK, Object, StageInv, Working, Waiting, Null
<1>17. CASE Cleanup
  BY <1>17, YuvAssumption
  DEF Cleanup, Null, TypeOK, Object, StageInv, Working, Waiting, Null
<1>18. CASE RotateComplete
  BY <1>18, YuvAssumption, Appended
  DEF RotateComplete, TypeOK, Object, StageInv, RotateInv, Working, Waiting, Null
<1>19. CASE DisplayFreeRotated
  BY <1>19 DEF DisplayFreeRotated, TypeOK, Object, StageInv, Working, Waiting, Null
<1>20. ASSUME NEW f \in Frames, DisplayFree(f) PROVE StageInv'
  BY <1>20 DEF DisplayFree, Release, TypeOK, Object, StageInv, Working, Waiting, Null
<1>21. CASE UNCHANGED vars
  BY <1>21 DEF vars, TypeOK, Object, StageInv, Working, Waiting, Null
<1> QED
  BY <1>1, <1>2, <1>3, <1>4, <1>5, <1>6, <1>7, <1>8, <1>9, <1>10, <1>11, <1>12, <1>13,
     <1>14, <1>15, <1>16, <1>17, <1>18, <1>19, <1>20, <1>21
  DEF Next, Task, Api, Display

\* Every step keeps the rotator and the frame it works on together.
LEMMA RotateStep ==
  ASSUME YuvInv, [Next]_vars PROVE RotateInv'
<1> USE DEF YuvInv
<1>1. CASE OpenFail
  BY <1>1
  DEF OpenFail, Fails, Fault, TypeOK, Object, StageInv, RotateInv, Working, Waiting,
     Null
<1>2. ASSUME NEW rotate \in BOOLEAN, Open(rotate) PROVE RotateInv'
  BY <1>2, YuvAssumption
  DEF Open, Null, TypeOK, Object, StageInv, RotateInv, Working, Waiting, Null
<1>3. CASE Close
  BY <1>3, YuvAssumption, Appended
  DEF Close, TypeOK, Object, StageInv, RotateInv, Working, Waiting, Null
<1>4. CASE TaskStart
  BY <1>4
  DEF TaskStart, Signal, TypeOK, Object, StageInv, RotateInv, Working, Waiting, Null
<1>5. CASE TaskStop
  BY <1>5, Taken
  DEF TaskStop, Popped, TypeOK, Object, StageInv, RotateInv, Working, Waiting, Null
<1>6. CASE TaskTimeout
  BY <1>6 DEF TaskTimeout, TypeOK, Object, StageInv, RotateInv, Working, Waiting, Null
<1>7. CASE TaskRotated
  <2>1. /\ obj'.rotate = obj.rotate /\ obj'.queue = Tail(obj.queue) /\ rott' = rott
        /\ obj.queue \in Seq({"stop", "ready"}) /\ obj.queue # <<>>
        /\ Head(obj.queue) = "ready" /\ task.at = "pop" /\ task'.at = "get"
    BY <1>7 DEF TaskRotated, Popped, TypeOK, Object
  <2>2. 1 \in Waiting("ready")
    BY <2>1, Taken DEF Waiting
  <2>3. \A i \in Waiting("ready")' : i + 1 \in Waiting("ready") /\ i + 1 # 1
    BY <2>1, Taken DEF Waiting
  <2>4. Waiting("ready")' = {} /\ rott # "busy"
    BY <2>1, <2>2, <2>3 DEF RotateInv, Working
  <2> QED
    BY <2>1, <2>4 DEF RotateInv, Working
<1>8. CASE GetNothing
  BY <1>8 DEF GetNothing, TypeOK, Object, StageInv, RotateInv, Working, Waiting, Null
<1>9. CASE TaskFailed
  BY <1>9
  DEF TaskFailed, Release, TypeOK, Object, StageInv, RotateInv, HeldInv, Working,
     Waiting, Null
<1>10. CASE TaskExit
  BY <1>10
  DEF TaskExit, Release, Signal, TypeOK, Object, StageInv, RotateInv, Working,
     Waiting, Null
<1>11. ASSUME NEW f \in Frames, StartRotation(f) PROVE RotateInv'
  BY <1>11, YuvAssumption
  DEF StartRotation, Get, TypeOK, Object, StageInv, RotateInv, Working, Waiting, Null
<1>12. ASSUME NEW f \in Frames, RotationFails(f) PROVE RotateInv'
  BY <1>12, YuvAssumption
  DEF RotationFails, Get, Fails, Fault, TypeOK, Object, StageInv, RotateInv, Working,
     Waiting, Null
<1>13. ASSUME NEW f \in Frames, Show(f) PROVE RotateInv'
  BY <1>13 DEF Show, Get, TypeOK, Object, StageInv, RotateInv, Working, Waiting, Null
<1>14. ASSUME NEW f \in Frames, ShowFails(f) PROVE RotateInv'
  BY <1>14, YuvAssumption
  DEF ShowFails, Get, FlushFails, Fault, TypeOK, Object, StageInv, RotateInv, Working,
     Waiting, Null
<1>15. CASE OpenWait
  BY <1>15 DEF OpenWait, TypeOK, Object, StageInv, RotateInv, Working, Waiting, Null
<1>16. CASE CloseWait
  BY <1>16 DEF CloseWait, TypeOK, Object, StageInv, RotateInv, Working, Waiting, Null
<1>17. CASE Cleanup
  BY <1>17, YuvAssumption
  DEF Cleanup, Null, TypeOK, Object, StageInv, RotateInv, Working, Waiting, Null
<1>18. CASE RotateComplete
  BY <1>18, YuvAssumption, Appended
  DEF RotateComplete, TypeOK, Object, StageInv, RotateInv, Working, Waiting, Null
<1>19. CASE DisplayFreeRotated
  BY <1>19
  DEF DisplayFreeRotated, TypeOK, Object, StageInv, RotateInv, Working, Waiting, Null
<1>20. ASSUME NEW f \in Frames, DisplayFree(f) PROVE RotateInv'
  BY <1>20
  DEF DisplayFree, Release, TypeOK, Object, StageInv, RotateInv, Working, Waiting,
     Null
<1>21. CASE UNCHANGED vars
  BY <1>21 DEF vars, TypeOK, Object, StageInv, RotateInv, Working, Waiting, Null
<1> QED
  BY <1>1, <1>2, <1>3, <1>4, <1>5, <1>6, <1>7, <1>8, <1>9, <1>10, <1>11, <1>12, <1>13,
     <1>14, <1>15, <1>16, <1>17, <1>18, <1>19, <1>20, <1>21
  DEF Next, Task, Api, Display

\* Every step keeps the frames held.
LEMMA HeldStep ==
  ASSUME YuvInv, [Next]_vars PROVE HeldInv'
<1> USE DEF YuvInv
<1>1. CASE OpenFail
  BY <1>1
  DEF OpenFail, Fails, Fault, TypeOK, Object, StageInv, RotateInv, HeldInv, Working,
     Waiting, Null
<1>2. ASSUME NEW rotate \in BOOLEAN, Open(rotate) PROVE HeldInv'
  BY <1>2, YuvAssumption
  DEF Open, Null, TypeOK, Object, StageInv, RotateInv, HeldInv, Working, Waiting, Null
<1>3. CASE Close
  BY <1>3, YuvAssumption, Appended
  DEF Close, TypeOK, Object, StageInv, RotateInv, HeldInv, Working, Waiting, Null
<1>4. CASE TaskStart
  BY <1>4
  DEF TaskStart, Signal, TypeOK, Object, StageInv, RotateInv, HeldInv, Working,
     Waiting, Null
<1>5. CASE TaskStop
  BY <1>5, Taken
  DEF TaskStop, Popped, TypeOK, Object, StageInv, RotateInv, HeldInv, Working,
     Waiting, Null
<1>6. CASE TaskTimeout
  BY <1>6
  DEF TaskTimeout, TypeOK, Object, StageInv, RotateInv, HeldInv, Working, Waiting,
     Null
<1>7. CASE TaskRotated
  <2>1. task.at = "pop" /\ obj.queue # <<>> /\ Head(obj.queue) = "ready"
    BY <1>7 DEF TaskRotated, Popped
  <2>2. obj.queue \in Seq({"stop", "ready"})
    BY DEF TypeOK, Object
  <2>3. 1 \in Waiting("ready")
    BY <2>1, <2>2, Taken DEF Waiting
  <2>4. task.frame # None
    BY <2>1, <2>3 DEF RotateInv, Working
  <2>5. held = shown.yuv \cup {task.frame} /\ task.frame \notin shown.yuv
    BY <2>1, <2>4 DEF HeldInv
  <2>6. held' = held \ {task.frame} /\ twice' = (twice \/ task.frame \notin held)
    BY <1>7 DEF TaskRotated, Release
  <2>7. held' = shown.yuv /\ twice' = twice
    BY <2>5, <2>6 DEF TypeOK
  <2>8. task'.at = "get" /\ task'.frame = None
    BY <1>7 DEF TaskRotated
  <2>9. shown'.yuv = shown.yuv
    BY <1>7 DEF TaskRotated, TypeOK
  <2>10. faults.flush > 0 => faults'.flush > 0
    BY <1>7, YuvAssumption DEF TaskRotated, FlushFails, Fault, TypeOK
  <2>11. None \notin shown.yuv
    BY YuvAssumption DEF TypeOK
  <2>12. twice => faults.flush > 0
    BY DEF HeldInv
  <2> QED
    BY ONLY <2>7, <2>8, <2>9, <2>10, <2>11, <2>12 DEF HeldInv
<1>8. CASE GetNothing
  BY <1>8
  DEF GetNothing, TypeOK, Object, StageInv, RotateInv, HeldInv, Working, Waiting, Null
<1>9. CASE TaskFailed
  BY <1>9, YuvAssumption
  DEF TaskFailed, Release, TypeOK, Object, StageInv, RotateInv, HeldInv, Working,
     Waiting, Null
<1>10. CASE TaskExit
  BY <1>10, YuvAssumption
  DEF TaskExit, Release, Signal, TypeOK, Object, StageInv, RotateInv, HeldInv,
     Working, Waiting, Null
<1>11. ASSUME NEW f \in Frames, StartRotation(f) PROVE HeldInv'
  BY <1>11, YuvAssumption
  DEF StartRotation, Get, TypeOK, Object, StageInv, RotateInv, HeldInv, Working,
     Waiting, Null
<1>12. ASSUME NEW f \in Frames, RotationFails(f) PROVE HeldInv'
  BY <1>12, YuvAssumption
  DEF RotationFails, Get, Fails, Fault, TypeOK, Object, StageInv, RotateInv, HeldInv,
     Working, Waiting, Null
<1>13. ASSUME NEW f \in Frames, Show(f) PROVE HeldInv'
  BY <1>13, YuvAssumption
  DEF Show, Get, TypeOK, Object, StageInv, RotateInv, HeldInv, Working, Waiting, Null
<1>14. ASSUME NEW f \in Frames, ShowFails(f) PROVE HeldInv'
  BY <1>14, YuvAssumption
  DEF ShowFails, Get, FlushFails, Fault, TypeOK, Object, StageInv, RotateInv, HeldInv,
     Working, Waiting, Null
<1>15. CASE OpenWait
  BY <1>15
  DEF OpenWait, TypeOK, Object, StageInv, RotateInv, HeldInv, Working, Waiting, Null
<1>16. CASE CloseWait
  BY <1>16
  DEF CloseWait, TypeOK, Object, StageInv, RotateInv, HeldInv, Working, Waiting, Null
<1>17. CASE Cleanup
  BY <1>17, YuvAssumption
  DEF Cleanup, Null, TypeOK, Object, StageInv, RotateInv, HeldInv, Working, Waiting,
     Null
<1>18. CASE RotateComplete
  BY <1>18, YuvAssumption, Appended
  DEF RotateComplete, TypeOK, Object, StageInv, RotateInv, HeldInv, Working, Waiting,
     Null
<1>19. CASE DisplayFreeRotated
  BY <1>19
  DEF DisplayFreeRotated, TypeOK, Object, StageInv, RotateInv, HeldInv, Working,
     Waiting, Null
<1>20. ASSUME NEW f \in Frames, DisplayFree(f) PROVE HeldInv'
  BY <1>20
  DEF DisplayFree, Release, TypeOK, Object, StageInv, RotateInv, HeldInv, Working,
     Waiting, Null
<1>21. CASE UNCHANGED vars
  BY <1>21
  DEF vars, TypeOK, Object, StageInv, RotateInv, HeldInv, Working, Waiting, Null
<1> QED
  BY <1>1, <1>2, <1>3, <1>4, <1>5, <1>6, <1>7, <1>8, <1>9, <1>10, <1>11, <1>12, <1>13,
     <1>14, <1>15, <1>16, <1>17, <1>18, <1>19, <1>20, <1>21
  DEF Next, Task, Api, Display


-----------------------------------------------------------------------------
(* The theorems.                                                           *)

\* Nothing is open in the beginning.
LEMMA YuvInit == Init => YuvInv
<1> SUFFICES ASSUME Init PROVE YuvInv
  OBVIOUS
<1>1. TypeOK
  <2>1. obj \in Object /\ Len(obj.queue) = 0
    BY ObjectMade DEF Init
  <2>2. /\ 0 <= QueueLen /\ shown \in [yuv : SUBSET Frames, rotated : 0..MaxShown]
        /\ faults \in [call : 0..MaxFaults, flush : 0..MaxFlushFaults]
    BY YuvAssumption DEF Init
  <2> QED
    BY <2>1, <2>2 DEF Init, TypeOK
<1>2. StageInv /\ RotateInv
  BY DEF Init, StageInv, RotateInv, Waiting, Working, Null
<1>3. HeldInv
  BY YuvAssumption DEF Init, HeldInv
<1> QED
  BY <1>1, <1>2, <1>3 DEF YuvInv

\* The inductive invariant holds: types, the handshakes of open and close with
\* the task, the rotator with the frame it reads, and the frames held.
THEOREM YuvInvariance == Spec => []YuvInv
<1>1. YuvInv /\ [Next]_vars => YuvInv'
  BY TypeStep, StageStep, RotateStep, HeldStep DEF YuvInv
<1> QED
  BY <1>1, YuvInit, PTL DEF Spec

\* yuv_display_task_entry never runs on a freed s_yuv_display.
THEOREM TaskKeepsObject == Spec => []TaskHasObject
<1>1. YuvInv => TaskHasObject
  BY DEF YuvInv, StageInv, TypeOK, TaskHasObject
<1> QED
  BY <1>1, YuvInvariance, PTL

\* What the display or the rotator reads is not given back to the frame queue.
THEOREM ReadFramesHeld == Spec => []ReadersHold
<1>1. YuvInv => ReadersHold
  BY DEF YuvInv, StageInv, RotateInv, HeldInv, TypeOK, Working, ReadersHold
<1> QED
  BY <1>1, YuvInvariance, PTL

\* yuv_display_close leaves no frame of the queue and no rotator behind.
THEOREM CloseReleases == Spec => []ClosedIsEmpty
<1>1. YuvInv => ClosedIsEmpty
  BY DEF YuvInv, StageInv, RotateInv, HeldInv, Null, ClosedIsEmpty
<1> QED
  BY <1>1, YuvInvariance, PTL

\* Without a failed flush no frame is released twice, by task, callback or exit.
THEOREM NoDoubleRelease == Spec => []ReleasedOnce
<1>1. YuvInv => ReleasedOnce
  BY DEF YuvInv, HeldInv, ReleasedOnce
<1> QED
  BY <1>1, YuvInvariance, PTL
=============================================================================
