----------------------------- MODULE YuvDisplay -----------------------------
(***************************************************************************)
(* The task that shows the YUV frames of a DVP camera: it takes a frame    *)
(* from the frame queue, hands it to the display, or to the hardware       *)
(* rotator first, whose interrupt tells the task that the rotated frame is *)
(* ready.  Open and close are called by the command thread and wait for    *)
(* the task on one semaphore.  Frame queue, display and rotator are        *)
(* external.                                                               *)
(***************************************************************************)
EXTENDS Naturals, Sequences

CONSTANTS
  Frames,         \* frames of the YUV queue
  None,           \* no frame
  QueueLen,       \* messages of the task's queue (10 in the code)
  MaxShown,       \* bound: rotated frames the display holds at a time
  MaxFaults,      \* bound: failing calls other than a flush
  MaxFlushFaults  \* bound: failing flushes of the display

ASSUME YuvAssumption ==
  /\ None \notin Frames /\ QueueLen \in Nat \ {0}
  /\ {MaxShown, MaxFaults, MaxFlushFaults} \subseteq Nat

VARIABLES
  obj,    \* s_yuv_display: live, its fields when it is
  task,   \* the task: where it is, processing_frame
  api,    \* command thread: "idle", "opening", "closing", "cleanup"
  rott,   \* rotator: "off", "idle", "busy"
  input,  \* frame the rotator reads
  held,   \* frames taken by this consumer and not released
  shown,  \* frames held by the display; of the rotated ones, how many
  twice,  \* history: a frame was released that was not held
  faults

vars == <<obj, task, api, rott, input, held, shown, twice, faults>>

Object == [live : BOOLEAN, rotate : BOOLEAN, queue : Seq({"stop", "ready"}),
           sem : {0, 1}, running : BOOLEAN, out : BOOLEAN]
Null == [live |-> FALSE, rotate |-> FALSE, queue |-> <<>>, sem |-> 0,
         running |-> FALSE, out |-> FALSE]

Init ==
  /\ obj = Null /\ task = [at |-> "none", frame |-> None] /\ api = "idle"
  /\ rott = "off" /\ input = None
  /\ held = {} /\ shown = [yuv |-> {}, rotated |-> 0] /\ twice = FALSE
  /\ faults = [call |-> 0, flush |-> 0]

Fault(kind, bound) ==
  faults[kind] < bound /\ faults' = [faults EXCEPT ![kind] = @ + 1]
Fails == Fault("call", MaxFaults)
FlushFails == Fault("flush", MaxFlushFaults)

Signal(o) == [o EXCEPT !.sem = 1]              \* rtos_set_semaphore, limit 1

(* frame_queue_v2_release_frame.                                           *)
Release(f) == held' = held \ {f} /\ twice' = (twice \/ f \notin held)

-----------------------------------------------------------------------------
(* yuv_display_open: every failure undoes what was made.  An open display  *)
(* returns BK_OK unchanged, whatever the angle.                            *)
OpenFail == api = "idle" /\ ~obj.live /\ Fails
            /\ UNCHANGED <<obj, task, api, rott, input, held, shown, twice>>

Open(rotate) ==
  /\ api = "idle" /\ ~obj.live
  /\ obj' = [Null EXCEPT !.live = TRUE, !.rotate = rotate]
  /\ rott' = IF rotate THEN "idle" ELSE rott
  /\ task' = [at |-> "start", frame |-> None] /\ api' = "opening"
  /\ UNCHANGED <<input, held, shown, twice, faults>>

\* Mutant: open does not take the token with which the task says it runs.
OpenWaitPeeks ==
  /\ api = "opening" /\ obj.sem > 0 /\ api' = "idle"
  /\ UNCHANGED <<obj, task, rott, input, held, shown, twice, faults>>
OpenWait ==
  /\ api = "opening" /\ obj.sem > 0
  /\ obj' = [obj EXCEPT !.sem = 0] /\ api' = "idle"
  /\ UNCHANGED <<task, rott, input, held, shown, twice, faults>>

(* yuv_display_close: the message waits for room, then the task is waited  *)
(* for; 100 ms later (the display's callbacks) all is undone.              *)
Close ==
  /\ api = "idle" /\ obj.live /\ obj.running
  /\ Len(obj.queue) < QueueLen
  /\ obj' = [obj EXCEPT !.queue = Append(@, "stop")] /\ api' = "closing"
  /\ UNCHANGED <<task, rott, input, held, shown, twice, faults>>

CloseWait ==
  /\ api = "closing" /\ obj.sem > 0
  /\ obj' = [obj EXCEPT !.sem = 0] /\ api' = "cleanup"
  /\ UNCHANGED <<task, rott, input, held, shown, twice, faults>>

Cleanup ==
  /\ api = "cleanup"
  /\ obj' = Null /\ api' = "idle"
  /\ rott' = "off" /\ input' = None
  /\ UNCHANGED <<task, held, shown, twice, faults>>

-----------------------------------------------------------------------------
TaskStart ==
  /\ task.at = "start"
  /\ obj' = Signal([obj EXCEPT !.running = TRUE]) /\ task' = [task EXCEPT !.at = "pop"]
  /\ UNCHANGED <<api, rott, input, held, shown, twice, faults>>

Popped(e) ==
  /\ task.at = "pop" /\ obj.queue # <<>> /\ Head(obj.queue) = e

\* Mutant: the stop message only leaves the switch, not the loop.
TaskStopBreaks ==
  /\ Popped("stop")
  /\ obj' = [obj EXCEPT !.queue = Tail(@)] /\ task' = [task EXCEPT !.at = "get"]
  /\ UNCHANGED <<api, rott, input, held, shown, twice, faults>>
TaskStop ==
  /\ Popped("stop")
  /\ obj' = [obj EXCEPT !.queue = Tail(@)] /\ task' = [task EXCEPT !.at = "exit"]
  /\ UNCHANGED <<api, rott, input, held, shown, twice, faults>>

TaskTimeout ==
  /\ task.at = "pop" /\ obj.queue = <<>> /\ task' = [task EXCEPT !.at = "get"]
  /\ UNCHANGED <<obj, api, rott, input, held, shown, twice, faults>>

\* Mutant: processing_frame is not reset after the rotation.
TaskRotatedKeeps ==
  /\ Popped("ready") /\ obj.out
  /\ Release(task.frame)
  /\ shown.rotated < MaxShown /\ shown' = [shown EXCEPT !.rotated = @ + 1]
  /\ obj' = [obj EXCEPT !.queue = Tail(@), !.out = FALSE]
  /\ task' = [task EXCEPT !.at = "get"]
  /\ UNCHANGED <<api, rott, input, faults>>
(* yuv_display_rotation_complete: the input is released; the rotated frame *)
(* goes to the display, or is freed when the flush fails.                  *)
TaskRotated ==
  /\ Popped("ready") /\ obj.out
  /\ Release(task.frame)
  /\ \/ shown.rotated < MaxShown /\ shown' = [shown EXCEPT !.rotated = @ + 1]
        /\ UNCHANGED faults
     \/ FlushFails /\ UNCHANGED shown
  /\ obj' = [obj EXCEPT !.queue = Tail(@), !.out = FALSE]
  /\ task' = [at |-> "get", frame |-> None]
  /\ UNCHANGED <<api, rott, input>>

(* frame_queue_v2_get_frame and yuv_display_process_frame.                 *)
GetNothing ==
  /\ task.at = "get" /\ task' = [task EXCEPT !.at = "pop"]
  /\ UNCHANGED <<obj, api, rott, input, held, shown, twice, faults>>

Get(f) == task.at = "get" /\ task.frame = None /\ f \in Frames \ held

\* Mutant: the frame is not kept while the rotator reads it.
StartRotationReleases(f) ==
  /\ Get(f) /\ obj.rotate
  /\ obj' = [obj EXCEPT !.out = TRUE] /\ rott' = "busy" /\ input' = f
  /\ task' = [at |-> "pop", frame |-> None]
  /\ UNCHANGED <<api, held, shown, twice, faults>>
StartRotation(f) ==
  /\ Get(f) /\ obj.rotate
  /\ held' = held \cup {f}
  /\ obj' = [obj EXCEPT !.out = TRUE] /\ rott' = "busy" /\ input' = f
  /\ task' = [at |-> "pop", frame |-> f]
  /\ UNCHANGED <<api, shown, twice, faults>>

\* No output frame, or the rotator cannot be configured or started: the
\* caller releases the frame; an output frame is kept for the next one.
RotationFails(f) ==
  /\ Get(f) /\ obj.rotate /\ Fails
  /\ \E made \in BOOLEAN : obj' = [obj EXCEPT !.out = @ \/ made]
  /\ task' = [task EXCEPT !.at = "pop"]
  /\ UNCHANGED <<api, rott, input, held, shown, twice>>

Show(f) ==
  /\ Get(f) /\ ~obj.rotate
  /\ held' = held \cup {f} /\ shown' = [shown EXCEPT !.yuv = @ \cup {f}]
  /\ task' = [task EXCEPT !.at = "pop"]
  /\ UNCHANGED <<obj, api, rott, input, twice, faults>>

\* A failed flush releases the frame, and then the caller does.
ShowFails(f) ==
  /\ Get(f) /\ ~obj.rotate /\ FlushFails
  /\ task' = [at |-> "failed", frame |-> f]
  /\ UNCHANGED <<obj, api, rott, input, held, shown, twice>>

TaskFailed ==
  /\ task.at = "failed" /\ Release(task.frame)
  /\ task' = [at |-> "pop", frame |-> None]
  /\ UNCHANGED <<obj, api, rott, input, shown, faults>>

\* Mutant: the waiting frame is not released.
TaskExitKeeps ==
  /\ task.at = "exit"
  /\ obj' = Signal([obj EXCEPT !.out = FALSE, !.running = FALSE])
  /\ task' = [at |-> "none", frame |-> None]
  /\ UNCHANGED <<api, rott, input, held, shown, twice, faults>>
(* exit: a frame that waits for its rotation and the output are released,  *)
(* though the rotator may still be at work on them.                        *)
TaskExit ==
  /\ task.at = "exit"
  /\ IF task.frame = None THEN UNCHANGED <<held, twice>> ELSE Release(task.frame)
  /\ obj' = Signal([obj EXCEPT !.out = FALSE, !.running = FALSE])
  /\ task' = [at |-> "none", frame |-> None]
  /\ UNCHANGED <<api, rott, input, shown, faults>>

-----------------------------------------------------------------------------
\* Mutant: the interrupt is only passed on to a task that waits for it.
RotateCompleteBusy ==
  /\ rott = "busy" /\ rott' = "idle" /\ input' = None
  /\ obj' = IF obj.live /\ obj.running /\ Len(obj.queue) < QueueLen /\ task.at = "pop"
              THEN [obj EXCEPT !.queue = Append(@, "ready")] ELSE obj
  /\ UNCHANGED <<task, api, held, shown, twice, faults>>
(* yuv_display_rotate_complete_cb: the message does not wait for room.     *)
RotateComplete ==
  /\ rott = "busy" /\ rott' = "idle" /\ input' = None
  /\ obj' = IF obj.live /\ obj.running /\ Len(obj.queue) < QueueLen
              THEN [obj EXCEPT !.queue = Append(@, "ready")] ELSE obj
  /\ UNCHANGED <<task, api, held, shown, twice, faults>>

(* yuv_display_frame_free_cb, yuv_display_rotate_frame_free_cb: called by  *)
(* the display when a later frame replaced this one, or it is closed.      *)
DisplayFree(f) ==
  /\ f \in shown.yuv /\ shown' = [shown EXCEPT !.yuv = @ \ {f}] /\ Release(f)
  /\ UNCHANGED <<obj, task, api, rott, input, faults>>

DisplayFreeRotated ==
  /\ shown.rotated > 0 /\ shown' = [shown EXCEPT !.rotated = @ - 1]
  /\ UNCHANGED <<obj, task, api, rott, input, held, twice, faults>>

Task ==
  \/ TaskStart \/ TaskStop \/ TaskTimeout \/ TaskRotated \/ GetNothing \/ TaskFailed
  \/ TaskExit
  \/ \E f \in Frames : StartRotation(f) \/ RotationFails(f) \/ Show(f) \/ ShowFails(f)

Api == OpenWait \/ CloseWait \/ Cleanup
Display == DisplayFreeRotated \/ \E f \in Frames : DisplayFree(f)

Next ==
  \/ OpenFail \/ (\E rotate \in BOOLEAN : Open(rotate)) \/ Close
  \/ Task \/ Api \/ RotateComplete \/ Display

(* The threads run, the rotator finishes, the display lets frames go.      *)
Spec == Init /\ [][Next]_vars
          /\ WF_vars(Task) /\ WF_vars(Api) /\ WF_vars(RotateComplete) /\ WF_vars(Display)

-----------------------------------------------------------------------------
(* Every variable has its type. *)
TypeOK ==
  /\ obj \in Object /\ Len(obj.queue) <= QueueLen
  /\ task \in [at : {"none", "start", "pop", "get", "failed", "exit"}, frame : Frames \cup {None}]
  /\ api \in {"idle", "opening", "closing", "cleanup"}
  /\ rott \in {"off", "idle", "busy"} /\ input \in Frames \cup {None}
  /\ held \subseteq Frames /\ twice \in BOOLEAN
  /\ shown \in [yuv : SUBSET Frames, rotated : 0..MaxShown]
  /\ faults \in [call : 0..MaxFaults, flush : 0..MaxFlushFaults]

(* The task finds s_yuv_display wherever it uses it: close frees it only   *)
(* after the task has ended, and the token of the start is not mistaken    *)
(* for that of the end.                                                    *)
TaskHasObject == task.at # "none" => obj.live

(* What the display or the rotator reads is held by this consumer, so that *)
(* the frame queue does not refill it; as long as the task has not been    *)
(* told to stop (it then gives frames back under the rotator).             *)
ReadersHold ==
  /\ shown.yuv \subseteq held
  /\ rott = "busy" /\ task.at \notin {"exit", "none"} => input \in held

(* After close nothing is left behind: only frames the display still shows *)
(* are held, and the rotator is off.                                       *)
ClosedIsEmpty == ~obj.live => held = shown.yuv /\ rott = "off"

(* No frame is released twice, whichever of task, callback and exit does   *)
(* it.  Behaviours with a failed flush are excepted: a frame shown without *)
(* rotation whose flush fails is released by yuv_display_process_frame,    *)
(* and then by the task.                                                   *)
ReleasedOnce == twice => faults.flush > 0

(* Open and close return. *)
CallsReturn == api # "idle" ~> api = "idle"

(* A frame given to the rotator does not block the task: it is shown or    *)
(* released in the end, whenever the interrupt comes.                      *)
FrameMoves == task.frame # None ~> task.frame = None
=============================================================================
