---------------------------- MODULE MediaControl ----------------------------
(***************************************************************************)
(* The devices behind the commands of the phone: camera, video transfer,   *)
(* display, audio and heartbeat, and the votes that keep the AP powered.   *)
(* Commands run in the thread of the control channel, the answer to a lost *)
(* connection in the core thread.  Both stop the video transfer, which has *)
(* a task of its own: its start and its stop are split wherever they wait  *)
(* or the other thread can come between.  What the other functions do is   *)
(* an operator from the devices to the set of its outcomes; the threads    *)
(* interleave between them.  The drivers, the video pipeline, the display  *)
(* and the voice library are external calls that may fail; Uvc and         *)
(* YuvDisplay have the inside of two of them.                              *)
(***************************************************************************)
EXTENDS Naturals, FiniteSets

CONSTANTS
  Cameras,     \* the cameras the phone may ask for: "uvc", "dvp"
  Intervals,   \* heartbeat intervals the phone may ask for
  MaxTimers,   \* bound: timers left allocated by a stopped heartbeat
  MaxFaults    \* bound: external calls that fail

ASSUME MediaAssumption ==
  /\ Cameras \subseteq {"uvc", "dvp"}
  /\ Intervals \subseteq Nat \ {0} /\ {MaxTimers, MaxFaults} \subseteq Nat

VARIABLES
  d,       \* the devices (see Device)
  trans,   \* the video transfer (see Transfer)
  votes,   \* mm_service_status, as the set of its bits
  cmd,     \* command thread: where it is in a camera command; result so far
  core,    \* core thread: where it is; image: only the image channel is lost
  beat     \* db_cmd_info and its timers

vars == <<d, trans, votes, cmd, core, beat>>

(* db_device_info, the decoder registered with the frame queue, the        *)
(* display supply and the audio device.                                    *)
Device == [handle : BOOLEAN,                 \* camera handle
           type : {"none", "uvc", "dvp"},    \* cam_type: survives the camera
           changed : BOOLEAN,                \* history: it was another one before
           notify : BOOLEAN,                 \* flash operations pause the camera
           pipe : BOOLEAN,                   \* video_pipeline_handle
           h264e : BOOLEAN, rotate : BOOLEAN,\* its encoder, its decoder
           yuv : BOOLEAN,                    \* YUV display task runs
           decoder : BOOLEAN,                \* consumer of the MJPEG queue
           disp : BOOLEAN, lcd : BOOLEAN,    \* display_ctlr_handle, lcd_device
           ldo : BOOLEAN,
           audio : BOOLEAN, voice : BOOLEAN, \* audio_enable, the voice handles
           faults : 0..MaxFaults]

(* s_db_trans_cfg with its one semaphore, its task and its consumer.       *)
Transfer == [cfg : BOOLEAN,                  \* s_db_trans_cfg is allocated
             enable : BOOLEAN,
             token : BOOLEAN,                \* sem, of limit 1
             task : {"none", "new", "run"},  \* created, in its loop
             sender : BOOLEAN]               \* consumer of the H264 queue

NoTransfer == [cfg |-> FALSE, enable |-> FALSE, token |-> FALSE,
               task |-> "none", sender |-> FALSE]

\* Where a thread is in doorbell_devices_stop; "stranded": for ever, on a
\* semaphore that was freed or in a NULL configuration.
Stopping == {"clear", "wait", "unreg", "stranded"}

Init ==
  /\ d = [handle |-> FALSE, type |-> "none", changed |-> FALSE,
          notify |-> FALSE, pipe |-> FALSE,
          h264e |-> FALSE, rotate |-> FALSE, yuv |-> FALSE, decoder |-> FALSE,
          disp |-> FALSE, lcd |-> FALSE, ldo |-> FALSE,
          audio |-> FALSE, voice |-> FALSE, faults |-> 0]
  /\ trans = NoTransfer /\ votes = {}
  /\ cmd = [at |-> "idle", ok |-> FALSE]
  /\ core = [at |-> "idle", image |-> FALSE]
  /\ beat = [info |-> FALSE, interval |-> 0, timer |-> "none", running |-> 0,
             stopped |-> 0, faults |-> 0]

-----------------------------------------------------------------------------
(* Outcomes: the devices after a call and whether it returned BK_OK.       *)
Done(e) == {[d |-> e, ok |-> TRUE]}
Failed(e) == {[d |-> e, ok |-> FALSE]}
\* An external call: to e, or a fault that leaves the devices as they were.
Try(c, e) ==
  Done(e) \cup (IF c.faults < MaxFaults THEN Failed([c EXCEPT !.faults = @ + 1])
                                        ELSE {})
AndThen(outs, Op(_)) == UNION {IF o.ok THEN Op(o.d) ELSE {o} : o \in outs}
OnFail(outs, Undo(_)) ==
  {IF o.ok THEN o ELSE [o EXCEPT !.d = Undo(o.d)] : o \in outs}

Register(c) == [c EXCEPT !.decoder = TRUE]
Unregister(c) == [c EXCEPT !.decoder = FALSE]

(* The pipeline is created once and kept; both users undo the registration *)
(* of the decoder when it cannot be created.                               *)
NewPipeline(c) ==
  IF c.pipe THEN Done(c) ELSE OnFail(Try(c, [c EXCEPT !.pipe = TRUE]), Unregister)

(* doorbell_h264_encode_turn_on: a failed open leaves the consumer.        *)
EncodeTurnOn(c) ==
  AndThen(NewPipeline(Register(c)), LAMBDA e : Try(e, [e EXCEPT !.h264e = TRUE]))

(* mjpeg_decode_open.  yuv_display_open returns BK_OK when it runs already.*)
DecodeOpen(c) ==
  CASE c.type = "dvp" -> IF c.yuv THEN Done(c) ELSE Try(c, [c EXCEPT !.yuv = TRUE])
    [] c.type = "uvc" ->
         AndThen(NewPipeline(Register(c)),
                 LAMBDA e : OnFail(Try(e, [e EXCEPT !.rotate = TRUE]), Unregister))
    [] OTHER -> Done(c)

\* Mutant: the consumer goes although the encoder of an open camera needs it.
DecodeCloseAlways(c) ==
  IF c.type = "dvp" /\ c.yuv THEN Try(c, [c EXCEPT !.yuv = FALSE])
  ELSE IF ~c.pipe THEN Done(c)
  ELSE {[o EXCEPT !.d = Unregister(o.d)] : o \in Try(c, [c EXCEPT !.rotate = FALSE])}
\* Mutant: only the pipeline is closed, not the YUV display.
DecodeCloseNoYuv(c) ==
  IF ~c.pipe THEN Done(c)
  ELSE {IF c.handle THEN o ELSE [o EXCEPT !.d = Unregister(o.d)] :
          o \in Try(c, [c EXCEPT !.rotate = FALSE])}
(* mjpeg_decode_close: by the type of the camera opened last; the consumer *)
(* goes only when no camera is open.                                       *)
DecodeClose(c) ==
  IF c.type = "dvp" /\ c.yuv THEN Try(c, [c EXCEPT !.yuv = FALSE])
  ELSE IF ~c.pipe THEN Done(c)
  ELSE {IF c.handle THEN o ELSE [o EXCEPT !.d = Unregister(o.d)] :
          o \in Try(c, [c EXCEPT !.rotate = FALSE])}

(* doorbell_camera_open: the handle stays when a later step fails.         *)
CameraOpen(c, cam) ==
  LET typed == [c EXCEPT !.type = cam,
                         !.changed = @ \/ c.type \notin {"none", cam}] IN
  AndThen(Try(typed, [typed EXCEPT !.handle = TRUE]), LAMBDA e :
    AndThen(IF cam = "uvc" THEN EncodeTurnOn(e) ELSE Done(e), LAMBDA f :
      IF f.disp THEN DecodeOpen(f) ELSE Done(f)))

(* doorbell_camera_turn_on; the MJPEG format is refused.                   *)
CameraTurnOn(c, cam, h264) ==
  IF c.handle THEN Done(c)
  ELSE IF ~h264 THEN Failed(c)
  ELSE AndThen(Try(c, c), LAMBDA e :                     \* frame_queue_v2_init_all
         AndThen(CameraOpen(e, cam), LAMBDA f : Done([f EXCEPT !.notify = TRUE])))

(* doorbell_camera_close: the consumer goes unless the display has it.     *)
CameraClose(c) ==
  AndThen(IF c.pipe THEN Try(c, [c EXCEPT !.h264e = FALSE]) ELSE Done(c), LAMBDA e :
    {IF c.lcd THEN o ELSE [o EXCEPT !.d = Unregister(o.d)] : o \in Try(e, e)})

CameraTurnOff(c) ==
  IF ~c.handle THEN Done(c)
  ELSE AndThen(CameraClose(c), LAMBDA e :
         Done([e EXCEPT !.handle = FALSE, !.notify = FALSE]))

(* doorbell_display_turn_on: the error path closes the decoder and deletes *)
(* the display; the supply stays on.                                       *)
DisplayTurnOn(c) ==
  AndThen(Try(c, c), LAMBDA q :                         \* frame_queue_v2_init_all
    IF q.lcd THEN Failed(q) ELSE
    AndThen(Try(q, q), LAMBDA f :                       \* get_lcd_device_by_id
      LET on == [f EXCEPT !.ldo = TRUE]
          Undone(o) == IF o.ok THEN {o} ELSE
            {[d |-> [p.d EXCEPT !.disp = FALSE], ok |-> FALSE] : p \in DecodeClose(o.d)}
      IN AndThen(Try(on, [on EXCEPT !.disp = TRUE]), LAMBDA n :
           UNION {Undone(o) :
             o \in AndThen(Try(n, n), LAMBDA e :        \* bk_display_open
                     AndThen(DecodeOpen(e), LAMBDA g : Done([g EXCEPT !.lcd = TRUE])))})))

DisplayTurnOff(c) ==
  IF ~c.lcd THEN Failed(c)
  ELSE {[o EXCEPT !.d.disp = FALSE, !.d.lcd = FALSE, !.d.ldo = FALSE] :
          o \in DecodeClose(c)}

(* doorbell_audio_turn_on: the handles are made and started, or all        *)
(* released; then a missing service name fails the call with audio on.     *)
AudioTurnOn(c) ==
  IF c.audio THEN Failed(c)
  ELSE AndThen(OnFail(Try(c, [c EXCEPT !.audio = TRUE, !.voice = TRUE]),
                      LAMBDA e : [e EXCEPT !.voice = FALSE]),
               LAMBDA e : Try(e, e))

(* doorbell_audio_turn_off: without a service name the handles stay.       *)
AudioTurnOff(c) ==
  IF ~c.audio THEN Failed(c)
  ELSE LET off == [c EXCEPT !.audio = FALSE] IN Try(off, [off EXCEPT !.voice = FALSE])

-----------------------------------------------------------------------------
\* Mutant: a removed vote stays.
VoteStays(service, add) == votes \cup {service}
Vote(service, add) == IF add THEN votes \cup {service} ELSE votes \ {service}
VoteIf(ok, service, add) == votes' = IF ok THEN Vote(service, add) ELSE votes

(* doorbell_transmission_cmd_recive_callback: the camera commands.  The    *)
(* vote follows the result of the camera, not that of the transfer.        *)
CmdCameraOn(cam, h264) ==
  /\ cmd.at = "idle"
  /\ \E o \in CameraTurnOn(d, cam, h264) :
       d' = o.d /\ cmd' = [at |-> "transfer_on", ok |-> o.ok]
  /\ UNCHANGED <<trans, votes, core, beat>>

CmdOnDone ==
  /\ VoteIf(cmd.ok, "camera", TRUE)
  /\ cmd' = [at |-> "idle", ok |-> FALSE] /\ UNCHANGED <<core, beat>>

(* doorbell_video_transfer_turn_on without a camera, or with a transfer    *)
(* that is already there, whatever its state.                              *)
TransferAlready ==
  /\ cmd.at = "transfer_on" /\ (~d.handle \/ trans.cfg)
  /\ trans' = IF d.handle THEN [trans EXCEPT !.sender = TRUE] ELSE trans
  /\ CmdOnDone /\ UNCHANGED d

(* doorbell_devices_start fails: nothing is allocated, or the error path   *)
(* calls doorbell_devices_stop, which refuses, as no task has set enable.  *)
TransferFault ==
  /\ cmd.at = "transfer_on" /\ d.handle /\ ~trans.cfg /\ d.faults < MaxFaults
  /\ \E allocated \in BOOLEAN :
       trans' = [NoTransfer EXCEPT !.cfg = allocated, !.sender = TRUE]
  /\ d' = [d EXCEPT !.faults = @ + 1]
  /\ CmdOnDone

(* The task is created; the thread waits for the task's first token.       *)
TransferCreate ==
  /\ cmd.at = "transfer_on" /\ d.handle /\ ~trans.cfg
  /\ trans' = [NoTransfer EXCEPT !.cfg = TRUE, !.task = "new", !.sender = TRUE]
  /\ cmd' = [cmd EXCEPT !.at = "start_wait"]
  /\ UNCHANGED <<d, votes, core, beat>>

TransferStarted ==
  /\ cmd.at = "start_wait" /\ trans.token
  /\ trans' = [trans EXCEPT !.token = FALSE]
  /\ CmdOnDone /\ UNCHANGED d

(* doorbell_devices_task_entry: enable and a token, the loop, a token.  A  *)
(* token that finds one there is lost.                                     *)
TaskStarts ==
  /\ trans.task = "new"
  /\ trans' = [trans EXCEPT !.task = "run", !.enable = TRUE, !.token = TRUE]
  /\ UNCHANGED <<d, votes, cmd, core, beat>>

TaskEnds ==
  /\ trans.task = "run" /\ ~trans.enable
  /\ trans' = [trans EXCEPT !.task = "none", !.token = TRUE]
  /\ UNCHANGED <<d, votes, cmd, core, beat>>

-----------------------------------------------------------------------------
(* doorbell_video_transfer_turn_off and, in it, doorbell_devices_stop, by  *)
(* either thread.                                                          *)
Threads == {"cmd", "core"}
At(t) == IF t = "cmd" THEN cmd.at ELSE core.at
Goto(t, at) ==
  /\ cmd' = IF t = "cmd" THEN [cmd EXCEPT !.at = at] ELSE cmd
  /\ core' = IF t = "core" THEN [core EXCEPT !.at = at] ELSE core

\* What comes after the call.
AfterStop(t, image) ==
  IF t = "cmd" THEN "camera_off" ELSE IF image THEN "idle" ELSE "audio_off"

\* Mutant: a stop that finds no transfer leaves the consumer.
StopCheckedSkips(t, image) ==
  IF ~d.handle \/ ~trans.cfg THEN AfterStop(t, image)
  ELSE IF trans.enable THEN "clear" ELSE "unreg"
(* The tests: no camera, no transfer, or one that is not enabled (refused).*)
StopChecked(t, image) ==
  IF ~d.handle THEN AfterStop(t, image)
  ELSE IF trans.cfg /\ trans.enable THEN "clear" ELSE "unreg"

(* enable = 0, which another thread's stop may have done since the test,   *)
(* together with freeing the configuration.                                *)
StopClear(t) ==
  /\ At(t) = "clear"
  /\ IF trans.cfg THEN trans' = [trans EXCEPT !.enable = FALSE] /\ Goto(t, "wait")
                  ELSE trans' = trans /\ Goto(t, "stranded")
  /\ UNCHANGED <<d, votes, beat>>

Strand(at) == IF at \in {"wait", "start_wait"} THEN "stranded" ELSE at

(* A token, whichever of the two it is: the task is deleted if it is still *)
(* there, the semaphore too, under whoever waits on it, and the memory is  *)
(* freed.                                                                  *)
StopFree(t) ==
  /\ At(t) = "wait" /\ trans.token
  /\ trans' = [NoTransfer EXCEPT !.sender = trans.sender]
  /\ cmd' = [cmd EXCEPT !.at = IF t = "cmd" THEN "unreg" ELSE Strand(@)]
  /\ core' = [core EXCEPT !.at = IF t = "core" THEN "unreg" ELSE Strand(@)]
  /\ UNCHANGED <<d, votes, beat>>

StopUnregister(t) ==
  /\ At(t) = "unreg"
  /\ trans' = [trans EXCEPT !.sender = FALSE]
  /\ Goto(t, AfterStop(t, core.image))
  /\ UNCHANGED <<d, votes, beat>>

-----------------------------------------------------------------------------
CmdTransferOff ==
  /\ cmd.at = "idle"
  /\ cmd' = [at |-> StopChecked("cmd", FALSE), ok |-> FALSE]
  /\ UNCHANGED <<d, trans, votes, core, beat>>

CmdCameraOff ==
  /\ cmd.at = "camera_off"
  /\ \E o \in CameraTurnOff(d) : d' = o.d /\ VoteIf(o.ok, "camera", FALSE)
  /\ cmd' = [at |-> "idle", ok |-> FALSE] /\ UNCHANGED <<trans, core, beat>>

CmdDevice(outs, service, add) ==
  /\ cmd.at = "idle"
  /\ \E o \in outs : d' = o.d /\ VoteIf(o.ok, service, add)
  /\ UNCHANGED <<trans, cmd, core, beat>>

CmdAudioOn == CmdDevice(AudioTurnOn(d), "audio", TRUE)
CmdAudioOff == CmdDevice(AudioTurnOff(d), "audio", FALSE)
CmdLcdOn == CmdDevice(DisplayTurnOn(d), "lcd", TRUE)
CmdLcdOff == CmdDevice(DisplayTurnOff(d), "lcd", FALSE)

(* DBEVT_REMOTE_DEVICE_DISCONNECTED: both calls; DBEVT_IMAGE_TCP_SERVICE_  *)
(* DISCONNECTED: the first only.                                           *)
CoreDisconnected(image) ==
  /\ core.at = "idle"
  /\ core' = [at |-> StopChecked("core", image), image |-> image]
  /\ UNCHANGED <<d, trans, votes, cmd, beat>>

CoreAudioOff ==
  /\ core.at = "audio_off"
  /\ \E o \in AudioTurnOff(d) : d' = o.d
  /\ core' = [core EXCEPT !.at = "idle"] /\ UNCHANGED <<trans, votes, cmd, beat>>

-----------------------------------------------------------------------------
(* doorbell_keep_alive_start_timer: a timer of another interval is deleted *)
(* first; a start that fails leaves the interval set, so that the same     *)
(* interval is refused from then on.                                       *)
Faulted(b) == [b EXCEPT !.faults = @ + 1]
NoTimer(b) == [b EXCEPT !.running = IF b.timer = "run" THEN @ - 1 ELSE @, !.timer = "none"]
\* Mutant: the timer of the old interval is forgotten, not deleted.
StartTimerForgets(b, ms) ==
  IF b.interval = ms THEN {b}
  ELSE LET ready == [b EXCEPT !.timer = "init", !.interval = ms]
       IN {[ready EXCEPT !.timer = "run", !.running = @ + 1]}
StartTimer(b, ms) ==
  IF b.interval = ms THEN {b}
  ELSE LET gone == IF b.interval # 0 THEN NoTimer(b) ELSE b
           ready == [gone EXCEPT !.timer = "init", !.interval = ms]
       IN {[ready EXCEPT !.timer = "run", !.running = @ + 1]}
            \cup (IF b.faults < MaxFaults
                    THEN {Faulted(b), Faulted(gone), Faulted(ready)} ELSE {})

(* doorbell_keep_alive_stop_timer and doorbell_cmd_server_deinit: the      *)
(* timer is stopped, not deleted, and its handle freed with db_cmd_info;   *)
(* one that could not be stopped runs on.                                  *)
StopTimer(b) ==
  LET off == [b EXCEPT !.info = FALSE, !.interval = 0, !.timer = "none",
                       !.stopped = IF b.timer = "none" THEN @ ELSE @ + 1]
  IN {[off EXCEPT !.running = IF b.timer = "run" THEN @ - 1 ELSE @]}
       \cup (IF b.faults < MaxFaults THEN {Faulted(off)} ELSE {})

HeartbeatOn(ms) ==
  /\ cmd.at = "idle" /\ beat.stopped < MaxTimers
  /\ \/ beat' \in StartTimer([beat EXCEPT !.info = TRUE], ms)
     \/ ~beat.info /\ beat.faults < MaxFaults /\ beat' = Faulted(beat)  \* os_malloc
  /\ UNCHANGED <<d, trans, votes, cmd, core>>

HeartbeatOff ==
  /\ cmd.at = "idle"
  /\ IF beat.info THEN beat' \in StopTimer(beat) ELSE beat' = beat
  /\ UNCHANGED <<d, trans, votes, cmd, core>>

-----------------------------------------------------------------------------
Next ==
  \/ \E cam \in Cameras, h264 \in BOOLEAN : CmdCameraOn(cam, h264)
  \/ TransferAlready \/ TransferFault \/ TransferCreate \/ TransferStarted
  \/ TaskStarts \/ TaskEnds
  \/ \E t \in Threads : StopClear(t) \/ StopFree(t) \/ StopUnregister(t)
  \/ CmdTransferOff \/ CmdCameraOff
  \/ CmdAudioOn \/ CmdAudioOff \/ CmdLcdOn \/ CmdLcdOff
  \/ \E image \in BOOLEAN : CoreDisconnected(image)
  \/ CoreAudioOff
  \/ \E ms \in Intervals : HeartbeatOn(ms)
  \/ HeartbeatOff

Spec == Init /\ [][Next]_vars

-----------------------------------------------------------------------------
(* Every variable has its type. *)
TypeOK ==
  /\ d \in Device /\ trans \in Transfer /\ votes \subseteq {"camera", "audio", "lcd"}
  /\ cmd \in [at : Stopping \cup {"idle", "transfer_on", "start_wait", "camera_off"},
              ok : BOOLEAN]
  /\ core \in [at : Stopping \cup {"idle", "audio_off"}, image : BOOLEAN]
  /\ beat \in [info : BOOLEAN, interval : Intervals \cup {0},
               timer : {"none", "init", "run"}, running : Nat,
               stopped : 0..MaxTimers + 1, faults : 0..MaxFaults]

\* No external call has failed and the device has used one kind of camera.
\* After a change of the camera under an open display mjpeg_decode_close, which
\* goes by cam_type, no longer closes what the first one had opened.
Plain == d.faults = 0 /\ ~d.changed

(* While a camera is open, the encoder and the decoder of the pipeline are *)
(* fed: turning the display off leaves their consumer of the MJPEG queue.  *)
EncoderFed == Plain /\ d.handle /\ (d.h264e \/ d.rotate) => d.decoder

(* Nothing that flushes frames to the display outlives it.                 *)
DisplayUsersStopped == Plain /\ (d.rotate \/ d.yuv) => d.disp

(* With camera and display both off, in whichever order they were turned   *)
(* on and off and whoever stopped the transfer, no consumer, encoder, task *)
(* or supply is left behind, and the configuration of the transfer only if *)
(* the core thread is in the middle of freeing it.                         *)
AllReleased ==
  Plain /\ ~d.handle /\ ~d.lcd =>
    /\ ~d.decoder /\ ~d.h264e /\ ~d.rotate /\ ~d.yuv /\ ~d.ldo
    /\ ~trans.sender
    /\ trans.cfg => core.at = "wait" /\ ~trans.enable

(* What the last clause would rather say; it does not hold: the command's  *)
(* stop is refused while the core thread waits for the task, and goes on   *)
(* to close the camera.                                                    *)
TransferFreed == Plain /\ ~d.handle => ~trans.cfg

(* A thread that stops or starts the transfer comes back.  Does not hold:  *)
(* the start and the end of the task post one semaphore, and either thread *)
(* may take the token the other one waits for.                             *)
NobodyStranded == d.faults = 0 => cmd.at # "stranded" /\ core.at # "stranded"

(* One heartbeat timer at most runs, whatever intervals are asked for, and *)
(* none after the heartbeat was turned off.                                *)
OneHeartbeat ==
  beat.faults = 0 => beat.running <= (IF beat.info THEN 1 ELSE 0)

(* The votes are exact (doorbell_cmd.h has the bit of a service as its     *)
(* status): the status timer cannot power the AP down under an open        *)
(* camera, display or voice, and does so when nothing is in use.  Not so   *)
(* for audio, which a lost connection turns off without its vote: the      *)
(* client's own command to turn it off then fails, and removes the vote    *)
(* no more.                                                                *)
VotesMatch == d.faults = 0 =>
  /\ cmd.at = "idle" => ("camera" \in votes <=> d.handle)
  /\ "lcd" \in votes <=> d.lcd
  /\ d.audio => "audio" \in votes
=============================================================================
