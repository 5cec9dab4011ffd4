---------------------- MODULE MediaControlProofs ----------------------
(***************************************************************************)
(* Proofs about MediaControl: with the external calls it makes succeeding, *)
(* the camera, the display and the transfer stay consistent in whatever    *)
(* order the commands and a lost connection use them, the votes are exact, *)
(* and one heartbeat timer runs.                                           *)
(***************************************************************************)
EXTENDS MediaControl, TLAPS

(* What a device function returns.                                         *)
Outcome == [d : Device, ok : BOOLEAN]

-----------------------------------------------------------------------------
(* The inductive invariant.                                                *)

(* db_cmd_info: a timer runs only under an interval, and an interval is    *)
(* set only while db_cmd_info exists; without a fault the two agree.       *)
Beats == [info : BOOLEAN, interval : Intervals \cup {0},
          timer : {"none", "init", "run"}, running : Nat,
          stopped : 0..MaxTimers + 1, faults : 0..MaxFaults]

BeatSound(b) ==
  /\ b.timer = "run" => b.running >= 1
  /\ b.timer # "none" => b.stopped <= MaxTimers
  /\ b.interval = 0 => b.timer = "none"
  /\ ~b.info => b.interval = 0
  /\ b.faults = 0 => IF b.interval = 0 THEN b.running = 0
                     ELSE b.timer = "run" /\ b.running = 1

BeatInv == BeatSound(beat)

(* The votes between the two halves of a camera command too: once the      *)
(* camera is on its vote follows, and only then.                           *)
Opening(c) == c.at \in {"transfer_on", "start_wait", "stranded"} /\ c.ok

VoteInv ==
  /\ cmd.at \in {"clear", "wait"} => ~cmd.ok
  /\ d.faults = 0 =>
       /\ "lcd" \in votes <=> d.lcd
       /\ d.audio => "audio" \in votes
       /\ IF Opening(cmd) THEN d.handle ELSE "camera" \in votes <=> d.handle

(* The devices of one kind of camera: the display, its supply and its      *)
(* handle go together; every user of the pipeline has what it uses, and    *)
(* the decoder has somebody who uses it.                                   *)
Consistent(c) ==
  /\ c.disp = c.lcd /\ c.ldo = c.lcd
  /\ c.rotate => c.disp /\ c.type = "uvc" /\ c.decoder
  /\ c.yuv => c.disp /\ c.type = "dvp"
  /\ c.h264e => c.handle /\ c.type = "uvc" /\ c.decoder
  /\ c.decoder => c.pipe /\ c.type = "uvc" /\ (c.handle \/ c.lcd)
  /\ c.pipe => c.type = "uvc"
  /\ c.handle => c.type # "none"

DeviceInv == Plain => Consistent(d)

(* The transfer.  Without a camera, and before the camera is turned off,   *)
(* its consumer is gone, and a configuration is there only while the core  *)
(* thread waits to free it.  The rest says why the command may rely on     *)
(* that when its own stop is refused: a transfer that is not enabled is    *)
(* one whose task has not begun, or one that somebody is stopping.         *)
Stopped == trans.cfg => core.at = "wait" /\ ~trans.enable

TransferInv == d.faults = 0 =>
  /\ ~d.handle \/ cmd.at = "camera_off" => ~trans.sender
  /\ ~d.handle \/ cmd.at \in {"unreg", "camera_off"} => Stopped
  /\ trans.cfg /\ ~trans.enable =>
       core.at = "wait" \/ cmd.at = "wait" \/ trans.task = "new"
  /\ trans.task = "new" => cmd.at = "start_wait" /\ d.handle /\ ~trans.token

MediaInv == TypeOK /\ BeatInv /\ VoteInv /\ DeviceInv /\ TransferInv

-----------------------------------------------------------------------------
(* What the device functions return has its type.                          *)

\* Turning a part of the devices on or off.
LEMMA Updates ==
  ASSUME NEW c \in Device, NEW b \in BOOLEAN
  PROVE  /\ [c EXCEPT !.pipe = b] \in Device /\ [c EXCEPT !.h264e = b] \in Device
         /\ [c EXCEPT !.yuv = b] \in Device /\ [c EXCEPT !.rotate = b] \in Device
         /\ [c EXCEPT !.handle = b] \in Device /\ [c EXCEPT !.disp = b] \in Device
         /\ [c EXCEPT !.lcd = b] \in Device /\ [c EXCEPT !.ldo = b] \in Device
  BY DEF Device

\* Those of the audio, and the notification of the flash.
LEMMA MoreUpdates ==
  ASSUME NEW c \in Device, NEW b \in BOOLEAN
  PROVE  /\ [c EXCEPT !.notify = b] \in Device
         /\ [c EXCEPT !.audio = b] \in Device /\ [c EXCEPT !.voice = b] \in Device
  BY DEF Device

\* The consumer of the MJPEG queue.
LEMMA RegisterType ==
  ASSUME NEW c \in Device
  PROVE  Register(c) \in Device /\ Unregister(c) \in Device
  BY DEF Device, Register, Unregister

\* Functions that call nothing outside.
LEMMA DoneType ==
  ASSUME NEW e \in Device
  PROVE  Done(e) \subseteq Outcome /\ Failed(e) \subseteq Outcome
  BY DEF Done, Failed, Outcome

\* An external call.
LEMMA TryType ==
  ASSUME NEW c \in Device, NEW e \in Device
  PROVE  Try(c, e) \subseteq Outcome
<1>1. c.faults < MaxFaults => [c EXCEPT !.faults = @ + 1] \in Device
  <2>1. c.faults < MaxFaults => c.faults + 1 \in 0..MaxFaults
    BY MediaAssumption DEF Device
  <2> QED
    BY <2>1 DEF Device
<1> QED
  BY <1>1, DoneType DEF Try

\* The pipeline.
LEMMA NewPipelineType ==
  ASSUME NEW c \in Device
  PROVE  NewPipeline(c) \subseteq Outcome
<1>1. Try(c, [c EXCEPT !.pipe = TRUE]) \subseteq Outcome
  BY Updates, TryType
<1>2. OnFail(Try(c, [c EXCEPT !.pipe = TRUE]), Unregister) \subseteq Outcome
  BY <1>1, RegisterType DEF OnFail, Outcome
<1> QED
  BY <1>2, DoneType DEF NewPipeline

\* doorbell_h264_encode_turn_on.
LEMMA EncodeType ==
  ASSUME NEW c \in Device
  PROVE  EncodeTurnOn(c) \subseteq Outcome
<1>1. \A e \in Device : Try(e, [e EXCEPT !.h264e = TRUE]) \subseteq Outcome
  BY Updates, TryType
<1>2. NewPipeline(Register(c)) \subseteq Outcome
  BY RegisterType, NewPipelineType
<1> QED
  BY <1>1, <1>2 DEF EncodeTurnOn, AndThen, Outcome

\* mjpeg_decode_open.
LEMMA DecodeOpenType ==
  ASSUME NEW c \in Device
  PROVE  DecodeOpen(c) \subseteq Outcome
<1>1. Try(c, [c EXCEPT !.yuv = TRUE]) \subseteq Outcome /\ Done(c) \subseteq Outcome
  BY Updates, TryType, DoneType
<1>2. \A e \in Device : Try(e, [e EXCEPT !.rotate = TRUE]) \subseteq Outcome
  BY Updates, TryType
<1>3. \A e \in Device :
        OnFail(Try(e, [e EXCEPT !.rotate = TRUE]), Unregister) \subseteq Outcome
  BY <1>2, RegisterType DEF OnFail, Outcome
<1>4. NewPipeline(Register(c)) \subseteq Outcome
  BY RegisterType, NewPipelineType
<1>5. AndThen(NewPipeline(Register(c)),
              LAMBDA e : OnFail(Try(e, [e EXCEPT !.rotate = TRUE]), Unregister))
        \subseteq Outcome
  BY <1>3, <1>4 DEF AndThen, Outcome
<1> QED
  BY <1>1, <1>5 DEF DecodeOpen

\* mjpeg_decode_close.
LEMMA DecodeCloseType ==
  ASSUME NEW c \in Device
  PROVE  DecodeClose(c) \subseteq Outcome
<1>1. /\ Try(c, [c EXCEPT !.yuv = FALSE]) \subseteq Outcome
      /\ Try(c, [c EXCEPT !.rotate = FALSE]) \subseteq Outcome /\ Done(c) \subseteq Outcome
  BY Updates, TryType, DoneType
<1>2. {IF c.handle THEN o ELSE [o EXCEPT !.d = Unregister(o.d)] :
         o \in Try(c, [c EXCEPT !.rotate = FALSE])} \subseteq Outcome
  BY <1>1, RegisterType DEF Outcome
<1> QED
  BY <1>1, <1>2 DEF DecodeClose

\* doorbell_camera_open.
LEMMA CameraOpenType ==
  ASSUME NEW c \in Device, NEW cam \in {"uvc", "dvp"}
  PROVE  CameraOpen(c, cam) \subseteq Outcome
<1> DEFINE typed == [c EXCEPT !.type = cam,
                              !.changed = @ \/ c.type \notin {"none", cam}]
           Decode(f) == IF f.disp THEN DecodeOpen(f) ELSE Done(f)
           Encode(e) == IF cam = "uvc" THEN EncodeTurnOn(e) ELSE Done(e)
           Rest(e) == AndThen(Encode(e), Decode)
<1>1. typed \in Device
  BY DEF Device
<1>2. Try(typed, [typed EXCEPT !.handle = TRUE]) \subseteq Outcome
  <2> HIDE DEF typed
  <2> QED
    BY <1>1, Updates, TryType
<1>3. \A f \in Device : Decode(f) \subseteq Outcome
  BY DecodeOpenType, DoneType
<1>4. \A e \in Device : Encode(e) \subseteq Outcome
  BY EncodeType, DoneType
<1>5. \A e \in Device : Rest(e) \subseteq Outcome
  <2> HIDE DEF Encode, Decode
  <2> QED
    BY <1>3, <1>4 DEF AndThen, Outcome
<1>6. AndThen(Try(typed, [typed EXCEPT !.handle = TRUE]), Rest) \subseteq Outcome
  <2> HIDE DEF typed, Rest
  <2> QED
    BY <1>2, <1>5 DEF AndThen, Outcome
<1> QED
  BY <1>6 DEF CameraOpen

\* doorbell_camera_turn_on.
LEMMA CameraTurnOnType ==
  ASSUME NEW c \in Device, NEW cam \in {"uvc", "dvp"}, NEW h264 \in BOOLEAN
  PROVE  CameraTurnOn(c, cam, h264) \subseteq Outcome
<1> DEFINE Noted(f) == Done([f EXCEPT !.notify = TRUE])
           Open(e) == AndThen(CameraOpen(e, cam), Noted)
<1>1. \A f \in Device : Noted(f) \subseteq Outcome
  <2>1. \A f \in Device : [f EXCEPT !.notify = TRUE] \in Device
    BY DEF Device
  <2> QED
    BY <2>1, DoneType
<1>2. \A e \in Device : Open(e) \subseteq Outcome
  <2> HIDE DEF Noted
  <2> QED
    BY <1>1, CameraOpenType DEF AndThen, Outcome
<1>3. AndThen(Try(c, c), Open) \subseteq Outcome
  <2>1. Try(c, c) \subseteq Outcome
    BY TryType
  <2> HIDE DEF Open
  <2> QED
    BY <1>2, <2>1 DEF AndThen, Outcome
<1> QED
  BY <1>3, DoneType DEF CameraTurnOn

\* doorbell_camera_turn_off.
LEMMA CameraTurnOffType ==
  ASSUME NEW c \in Device
  PROVE  CameraTurnOff(c) \subseteq Outcome
<1> DEFINE Closed == IF c.pipe THEN Try(c, [c EXCEPT !.h264e = FALSE]) ELSE Done(c)
           Last(e) == {IF c.lcd THEN o ELSE [o EXCEPT !.d = Unregister(o.d)] : o \in Try(e, e)}
           Off(e) == Done([e EXCEPT !.handle = FALSE, !.notify = FALSE])
<1>1. Closed \subseteq Outcome
  BY Updates, TryType, DoneType
<1>2. \A e \in Device : Last(e) \subseteq Outcome
  <2>1. \A e \in Device : Try(e, e) \subseteq Outcome
    BY TryType
  <2> QED
    BY <2>1, RegisterType DEF Outcome
<1>3. CameraClose(c) \subseteq Outcome
  <2>1. AndThen(Closed, Last) \subseteq Outcome
    <3> HIDE DEF Closed, Last
    <3> QED
      BY <1>1, <1>2 DEF AndThen, Outcome
  <2> QED
    BY <2>1 DEF CameraClose
<1>4. \A e \in Device : Off(e) \subseteq Outcome
  <2>1. ASSUME NEW e \in Device
        PROVE  [e EXCEPT !.handle = FALSE, !.notify = FALSE] \in Device
    <3>1. PICK f \in Device : f = [e EXCEPT !.handle = FALSE]
      BY Updates
    <3>2. [f EXCEPT !.notify = FALSE] \in Device
      BY MoreUpdates
    <3> QED
      BY <3>1, <3>2
  <2> QED
    BY <2>1, DoneType
<1>5. AndThen(CameraClose(c), Off) \subseteq Outcome
  <2> HIDE DEF Off
  <2> QED
    BY <1>3, <1>4 DEF AndThen, Outcome
<1> QED
  BY <1>5, DoneType DEF CameraTurnOff

\* doorbell_display_turn_on and _off.
LEMMA DisplayType ==
  ASSUME NEW c \in Device
  PROVE  DisplayTurnOn(c) \subseteq Outcome /\ DisplayTurnOff(c) \subseteq Outcome
<1> DEFINE Shown(g) == Done([g EXCEPT !.lcd = TRUE])
           Decode(e) == AndThen(DecodeOpen(e), Shown)
           Open(n) == AndThen(Try(n, n), Decode)
           Undone(o) == IF o.ok THEN {o} ELSE
             {[d |-> [p.d EXCEPT !.disp = FALSE], ok |-> FALSE] : p \in DecodeClose(o.d)}
           New(n) == UNION {Undone(o) : o \in Open(n)}
           Supply(f) == AndThen(Try([f EXCEPT !.ldo = TRUE],
                                    [[f EXCEPT !.ldo = TRUE] EXCEPT !.disp = TRUE]), New)
           Lcd(q) == IF q.lcd THEN Failed(q) ELSE AndThen(Try(q, q), Supply)
<1>0. \A e \in Device : Try(e, e) \subseteq Outcome
  BY TryType
<1>1. \A g \in Device : Shown(g) \subseteq Outcome
  BY Updates, DoneType
<1>2. \A e \in Device : Decode(e) \subseteq Outcome
  <2> HIDE DEF Shown
  <2> QED
    BY <1>1, DecodeOpenType DEF AndThen, Outcome
<1>3. \A n \in Device : Open(n) \subseteq Outcome
  <2> HIDE DEF Decode
  <2> QED
    BY <1>0, <1>2 DEF AndThen, Outcome
<1>4. \A o \in Outcome : Undone(o) \subseteq Outcome
  <2>1. \A e \in Device : [e EXCEPT !.disp = FALSE] \in Device
    BY Updates
  <2>2. \A e \in Device : [d |-> e, ok |-> FALSE] \in Outcome
    BY DEF Outcome
  <2>3. \A o \in Outcome : \A p \in DecodeClose(o.d) : p.d \in Device
    BY DecodeCloseType DEF Outcome
  <2> QED
    BY <2>1, <2>2, <2>3
<1>5. \A n \in Device : New(n) \subseteq Outcome
  <2> HIDE DEF Open, Undone
  <2> QED
    BY <1>3, <1>4
<1>6. \A f \in Device : Supply(f) \subseteq Outcome
  <2>1. \A f \in Device : [f EXCEPT !.ldo = TRUE] \in Device
    BY Updates
  <2>2. \A f \in Device : [f EXCEPT !.disp = TRUE] \in Device
    BY Updates
  <2>3. \A f \in Device : Try([f EXCEPT !.ldo = TRUE],
                              [[f EXCEPT !.ldo = TRUE] EXCEPT !.disp = TRUE]) \subseteq Outcome
    BY <2>1, <2>2, TryType
  <2> HIDE DEF New
  <2> QED
    BY <1>5, <2>3 DEF AndThen, Outcome
<1>7. \A q \in Device : Lcd(q) \subseteq Outcome
  <2> HIDE DEF Supply
  <2> QED
    BY <1>0, <1>6, DoneType DEF AndThen, Outcome
<1>8. AndThen(Try(c, c), Lcd) \subseteq Outcome
  <2> HIDE DEF Lcd
  <2> QED
    BY <1>0, <1>7 DEF AndThen, Outcome
<1>9. DisplayTurnOn(c) \subseteq Outcome
  BY <1>8 DEF DisplayTurnOn
<1>10. DisplayTurnOff(c) \subseteq Outcome
  <2>1. \A e \in Device : /\ [e EXCEPT !.disp = FALSE] \in Device
                          /\ [e EXCEPT !.lcd = FALSE] \in Device
                          /\ [e EXCEPT !.ldo = FALSE] \in Device
    BY Updates
  <2>2. \A o \in Outcome : /\ [o EXCEPT !.d.disp = FALSE] \in Outcome
                           /\ [o EXCEPT !.d.lcd = FALSE] \in Outcome
                           /\ [o EXCEPT !.d.ldo = FALSE] \in Outcome
    BY <2>1 DEF Outcome
  <2>3. \A o \in Outcome :
          [o EXCEPT !.d.disp = FALSE, !.d.lcd = FALSE, !.d.ldo = FALSE] \in Outcome
    BY <2>2, Zenon
  <2>4. {[o EXCEPT !.d.disp = FALSE, !.d.lcd = FALSE, !.d.ldo = FALSE] :
           o \in DecodeClose(c)} \subseteq Outcome
    BY <2>3, DecodeCloseType
  <2> QED
    BY <2>4, DoneType DEF DisplayTurnOff
<1> QED
  BY <1>9, <1>10

\* doorbell_audio_turn_on and _off.
LEMMA AudioType ==
  ASSUME NEW c \in Device
  PROVE  AudioTurnOn(c) \subseteq Outcome /\ AudioTurnOff(c) \subseteq Outcome
<1> DEFINE Silent(e) == [e EXCEPT !.voice = FALSE]
           Made == OnFail(Try(c, [c EXCEPT !.audio = TRUE, !.voice = TRUE]), Silent)
           Named(e) == Try(e, e)
           off == [c EXCEPT !.audio = FALSE]
<1>1. /\ [c EXCEPT !.audio = TRUE, !.voice = TRUE] \in Device /\ off \in Device
      /\ [off EXCEPT !.voice = FALSE] \in Device
  <2>1. off \in Device
    BY MoreUpdates
  <2>2. [off EXCEPT !.voice = FALSE] \in Device
    <3> HIDE DEF off
    <3> QED
      BY <2>1, MoreUpdates
  <2>3. PICK f \in Device : f = [c EXCEPT !.audio = TRUE]
    BY MoreUpdates
  <2>4. [f EXCEPT !.voice = TRUE] \in Device
    BY MoreUpdates
  <2> QED
    BY <2>1, <2>2, <2>3, <2>4
<1>2. \A e \in Device : Silent(e) \in Device
  BY MoreUpdates
<1>3. Made \subseteq Outcome
  <2>1. Try(c, [c EXCEPT !.audio = TRUE, !.voice = TRUE]) \subseteq Outcome
    BY <1>1, TryType
  <2> HIDE DEF Silent
  <2> QED
    BY <1>2, <2>1 DEF OnFail, Outcome
<1>4. \A e \in Device : Named(e) \subseteq Outcome
  BY TryType
<1>5. AndThen(Made, Named) \subseteq Outcome
  <2> HIDE DEF Made, Named
  <2> QED
    BY <1>3, <1>4 DEF AndThen, Outcome
<1>6. Try(off, [off EXCEPT !.voice = FALSE]) \subseteq Outcome
  <2> HIDE DEF off
  <2> QED
    BY <1>1, TryType
<1> QED
  BY <1>5, <1>6, DoneType DEF AudioTurnOn, AudioTurnOff

-----------------------------------------------------------------------------
(* What the device functions do when no external call fails: their one     *)
(* outcome without a fault.                                                *)

\* An external call that leaves no fault succeeded.
LEMMA TryPlain ==
  ASSUME NEW c \in Device, NEW e, e.faults = c.faults, NEW o \in Try(c, e),
         o.d.faults = 0
  PROVE  o = [d |-> e, ok |-> TRUE] /\ c.faults = 0
  BY MediaAssumption DEF Try, Done, Failed, Device

\* The pipeline is there afterwards.
LEMMA NewPipelinePlain ==
  ASSUME NEW c \in Device, NEW o \in NewPipeline(c), o.d.faults = 0
  PROVE  o = [d |-> [c EXCEPT !.pipe = TRUE], ok |-> TRUE] /\ c.faults = 0
<1>1. CASE c.pipe
  <2>1. c = [c EXCEPT !.pipe = TRUE]
    BY <1>1 DEF Device
  <2> QED
    BY <1>1, <2>1 DEF NewPipeline, Done
<1>2. CASE ~c.pipe
  <2>1. PICK p \in Try(c, [c EXCEPT !.pipe = TRUE]) :
          o = IF p.ok THEN p ELSE [p EXCEPT !.d = Unregister(p.d)]
    BY <1>2 DEF NewPipeline, OnFail
  <2>2. p \in Outcome
    BY Updates, TryType
  <2>3. p.d.faults = 0
    BY <2>1, <2>2 DEF Outcome, Unregister, Device
  <2>4. [c EXCEPT !.pipe = TRUE].faults = c.faults
    BY DEF Device
  <2>5. p = [d |-> [c EXCEPT !.pipe = TRUE], ok |-> TRUE] /\ c.faults = 0
    BY <2>3, <2>4, TryPlain
  <2> QED
    BY <2>1, <2>5
<1> QED
  BY <1>1, <1>2

\* The encoder runs, fed by its consumer.
LEMMA EncodePlain ==
  ASSUME NEW c \in Device, NEW o \in EncodeTurnOn(c), o.d.faults = 0
  PROVE  /\ o = [d |-> [c EXCEPT !.decoder = TRUE, !.pipe = TRUE, !.h264e = TRUE], ok |-> TRUE]
         /\ c.faults = 0
<1>1. PICK p \in NewPipeline(Register(c)) :
        IF p.ok THEN o \in Try(p.d, [p.d EXCEPT !.h264e = TRUE]) ELSE o = p
  BY DEF EncodeTurnOn, AndThen
<1>2. p \in Outcome
  BY RegisterType, NewPipelineType
<1>3. p.d.faults = 0
  <2>1. p.ok => [p.d EXCEPT !.h264e = TRUE].faults = p.d.faults
    BY <1>2 DEF Outcome, Device
  <2> QED
    BY <1>1, <1>2, <2>1, TryPlain DEF Outcome
<1>4. p = [d |-> [Register(c) EXCEPT !.pipe = TRUE], ok |-> TRUE] /\ Register(c).faults = 0
  BY <1>3, RegisterType, NewPipelinePlain
<1>5. o = [d |-> [p.d EXCEPT !.h264e = TRUE], ok |-> TRUE]
  <2>1. [p.d EXCEPT !.h264e = TRUE].faults = p.d.faults
    BY <1>2 DEF Outcome, Device
  <2> QED
    BY <1>1, <1>2, <1>4, <2>1, TryPlain DEF Outcome
<1> QED
  BY <1>4, <1>5 DEF Register, Device

\* mjpeg_decode_open and mjpeg_decode_close.
Decoding(c) ==
  CASE c.type = "dvp" -> [c EXCEPT !.yuv = TRUE]
    [] c.type = "uvc" -> [c EXCEPT !.decoder = TRUE, !.pipe = TRUE, !.rotate = TRUE]
    [] OTHER -> c
NotDecoding(c) ==
  IF c.type = "dvp" /\ c.yuv THEN [c EXCEPT !.yuv = FALSE]
  ELSE IF ~c.pipe THEN c
  ELSE IF c.handle THEN [c EXCEPT !.rotate = FALSE]
  ELSE [c EXCEPT !.rotate = FALSE, !.decoder = FALSE]

\* mjpeg_decode_open, by the type of the camera.
LEMMA DecodeOpenPlain ==
  ASSUME NEW c \in Device, NEW o \in DecodeOpen(c), o.d.faults = 0
  PROVE  o = [d |-> Decoding(c), ok |-> TRUE] /\ c.faults = 0
<1>1. CASE c.type = "dvp" /\ c.yuv
  <2>1. c = [c EXCEPT !.yuv = TRUE]
    BY <1>1 DEF Device
  <2> QED
    BY <1>1, <2>1 DEF DecodeOpen, Done, Decoding
<1>2. CASE c.type = "dvp" /\ ~c.yuv
  <2>1. [c EXCEPT !.yuv = TRUE].faults = c.faults
    BY DEF Device
  <2> QED
    BY <1>2, <2>1, TryPlain DEF DecodeOpen, Decoding
<1>3. CASE c.type = "uvc"
  <2>1. PICK p \in NewPipeline(Register(c)) :
          IF p.ok THEN o \in OnFail(Try(p.d, [p.d EXCEPT !.rotate = TRUE]), Unregister)
                  ELSE o = p
    BY <1>3 DEF DecodeOpen, AndThen
  <2>2. p \in Outcome
    BY RegisterType, NewPipelineType
  <2>3. [p.d EXCEPT !.rotate = TRUE].faults = p.d.faults /\ [p.d EXCEPT !.rotate = TRUE] \in Device
    BY <2>2 DEF Outcome, Device
  <2>4. ASSUME p.ok
        PROVE  o = [d |-> [p.d EXCEPT !.rotate = TRUE], ok |-> TRUE] /\ p.d.faults = 0
    <3>1. PICK q \in Try(p.d, [p.d EXCEPT !.rotate = TRUE]) :
            o = IF q.ok THEN q ELSE [q EXCEPT !.d = Unregister(q.d)]
      BY <2>1, <2>4 DEF OnFail
    <3>2. q \in Outcome
      BY <2>2, <2>3, TryType DEF Outcome
    <3>3. q.d.faults = 0
      BY <3>1, <3>2 DEF Outcome, Unregister, Device
    <3>4. p.d \in Device
      BY <2>2 DEF Outcome
    <3>5. q = [d |-> [p.d EXCEPT !.rotate = TRUE], ok |-> TRUE] /\ p.d.faults = 0
      BY <2>3, <3>3, <3>4, TryPlain
    <3> QED
      BY <3>1, <3>5
  <2>5. p.d.faults = 0
    BY <2>1, <2>4
  <2>6. p = [d |-> [Register(c) EXCEPT !.pipe = TRUE], ok |-> TRUE] /\ Register(c).faults = 0
    BY <2>5, RegisterType, NewPipelinePlain
  <2>7. o = [d |-> [p.d EXCEPT !.rotate = TRUE], ok |-> TRUE]
    BY <2>4, <2>6
  <2> QED
    BY <1>3, <2>6, <2>7 DEF Register, Device, Decoding
<1>4. CASE c.type \notin {"uvc", "dvp"}
  BY <1>4 DEF DecodeOpen, Done, Decoding
<1> QED
  BY <1>1, <1>2, <1>3, <1>4

\* mjpeg_decode_close, by the type of the camera.
LEMMA DecodeClosePlain ==
  ASSUME NEW c \in Device, NEW o \in DecodeClose(c), o.d.faults = 0
  PROVE  o = [d |-> NotDecoding(c), ok |-> TRUE] /\ c.faults = 0
<1>1. CASE c.type = "dvp" /\ c.yuv
  <2>1. [c EXCEPT !.yuv = FALSE].faults = c.faults
    BY DEF Device
  <2>2. /\ DecodeClose(c) = Try(c, [c EXCEPT !.yuv = FALSE])
        /\ NotDecoding(c) = [c EXCEPT !.yuv = FALSE]
    BY <1>1, Zenon DEF DecodeClose, NotDecoding
  <2> QED
    BY <2>1, <2>2, TryPlain
<1>2. CASE ~(c.type = "dvp" /\ c.yuv) /\ ~c.pipe
  <2>1. DecodeClose(c) = Done(c) /\ NotDecoding(c) = c
    BY <1>2, Zenon DEF DecodeClose, NotDecoding
  <2> QED
    BY <2>1 DEF Done
<1>3. CASE ~(c.type = "dvp" /\ c.yuv) /\ c.pipe
  <2>1. PICK p \in Try(c, [c EXCEPT !.rotate = FALSE]) :
          o = IF c.handle THEN p ELSE [p EXCEPT !.d = Unregister(p.d)]
    BY <1>3 DEF DecodeClose
  <2>2. [c EXCEPT !.rotate = FALSE].faults = c.faults /\ [c EXCEPT !.rotate = FALSE] \in Device
    BY DEF Device
  <2>3. p \in Outcome
    BY <2>2, TryType
  <2>4. p.d.faults = 0
    BY <2>1, <2>3 DEF Outcome, Unregister, Device
  <2>5. p = [d |-> [c EXCEPT !.rotate = FALSE], ok |-> TRUE] /\ c.faults = 0
    BY <2>2, <2>4, TryPlain
  <2> QED
    BY <1>3, <2>1, <2>5 DEF Unregister, NotDecoding
<1> QED
  BY <1>1, <1>2, <1>3

\* doorbell_camera_turn_on and doorbell_camera_turn_off.
Encoding(c, cam) ==
  IF cam = "uvc" THEN [c EXCEPT !.decoder = TRUE, !.pipe = TRUE, !.h264e = TRUE] ELSE c
Typed(c, cam) ==
  [c EXCEPT !.type = cam, !.changed = @ \/ c.type \notin {"none", cam}]
Opened(c, cam) ==
  LET e == Encoding([Typed(c, cam) EXCEPT !.handle = TRUE], cam)
  IN IF e.disp THEN Decoding(e) ELSE e

\* doorbell_camera_open, with the decoder when the display is up.
LEMMA CameraOpenPlain ==
  ASSUME NEW c \in Device, NEW cam \in {"uvc", "dvp"}, NEW o \in CameraOpen(c, cam),
         o.d.faults = 0
  PROVE  o = [d |-> Opened(c, cam), ok |-> TRUE] /\ c.faults = 0
<1> DEFINE typed == Typed(c, cam)
           Decode(f) == IF f.disp THEN DecodeOpen(f) ELSE Done(f)
           Encode(e) == IF cam = "uvc" THEN EncodeTurnOn(e) ELSE Done(e)
<1>1. /\ typed \in Device /\ typed.faults = c.faults
      /\ [typed EXCEPT !.handle = TRUE] \in Device
      /\ [typed EXCEPT !.handle = TRUE].faults = c.faults
  <2>1. PICK z \in BOOLEAN : z = (c.changed \/ c.type \notin {"none", cam})
    BY DEF Device
  <2>2. typed = [c EXCEPT !.type = cam, !.changed = z]
    BY <2>1 DEF Typed
  <2>3. typed \in Device /\ typed.faults = c.faults
    <3>1. [c EXCEPT !.type = cam, !.changed = z] \in Device
      BY ONLY c \in Device, cam \in {"uvc", "dvp"}, z \in BOOLEAN DEF Device
    <3>2. [c EXCEPT !.type = cam, !.changed = z].faults = c.faults
      BY ONLY c \in Device DEF Device
    <3> QED
      BY ONLY <2>2, <3>1, <3>2
  <2> HIDE DEF typed
  <2>4. [typed EXCEPT !.handle = TRUE] \in Device
    BY <2>3, Updates
  <2>5. [typed EXCEPT !.handle = TRUE].faults = typed.faults
    BY ONLY <2>3 DEF Device
  <2> QED
    BY ONLY <2>3, <2>4, <2>5
<1>2. PICK p \in Try(typed, [typed EXCEPT !.handle = TRUE]) :
        IF p.ok THEN o \in AndThen(Encode(p.d), Decode) ELSE o = p
  BY DEF CameraOpen, AndThen, Typed
<1> HIDE DEF typed
<1>3. p \in Outcome
  BY <1>1, TryType
<1>4. ASSUME p.ok
      PROVE  /\ p.d.faults = 0
             /\ o = [d |-> IF Encoding(p.d, cam).disp THEN Decoding(Encoding(p.d, cam))
                                                      ELSE Encoding(p.d, cam), ok |-> TRUE]
  <2>1. PICK q \in Encode(p.d) : IF q.ok THEN o \in Decode(q.d) ELSE o = q
    BY <1>2, <1>4 DEF AndThen
  <2>2. q \in Outcome
    BY <1>3, EncodeType, DoneType DEF Outcome
  <2>3. ASSUME q.ok
        PROVE  /\ q.d.faults = 0
               /\ o = [d |-> IF q.d.disp THEN Decoding(q.d) ELSE q.d, ok |-> TRUE]
    <3>1. CASE q.d.disp
      BY <2>1, <2>2, <2>3, <3>1, DecodeOpenPlain DEF Outcome
    <3>2. CASE ~q.d.disp
      BY <2>1, <2>3, <3>2 DEF Done
    <3> QED
      BY <3>1, <3>2
  <2>4. q.d.faults = 0
    BY <2>1, <2>3
  <2>5. q = [d |-> Encoding(p.d, cam), ok |-> TRUE] /\ p.d.faults = 0
    <3>1. p.d \in Device
      BY <1>3 DEF Outcome
    <3>2. CASE cam = "uvc"
      BY <2>4, <3>1, <3>2, EncodePlain DEF Encoding
    <3>3. CASE cam # "uvc"
      BY <2>4, <3>3 DEF Done, Encoding
    <3> QED
      BY <3>2, <3>3
  <2> QED
    BY <2>3, <2>5
<1>5. p.d.faults = 0
  BY <1>2, <1>4
<1>6. p = [d |-> [typed EXCEPT !.handle = TRUE], ok |-> TRUE] /\ c.faults = 0
  BY <1>1, <1>5, TryPlain
<1> QED
  BY <1>4, <1>6 DEF Opened, typed

\* doorbell_camera_turn_on: done already, refused, or opened.
LEMMA CameraOnPlain ==
  ASSUME NEW c \in Device, NEW cam \in {"uvc", "dvp"}, NEW h264 \in BOOLEAN,
         NEW o \in CameraTurnOn(c, cam, h264), o.d.faults = 0
  PROVE  /\ c.faults = 0
         /\ IF c.handle THEN o = [d |-> c, ok |-> TRUE]
            ELSE IF ~h264 THEN o = [d |-> c, ok |-> FALSE]
            ELSE o = [d |-> [Opened(c, cam) EXCEPT !.notify = TRUE], ok |-> TRUE]
<1>1. CASE c.handle
  <2>1. o = [d |-> c, ok |-> TRUE]
    BY <1>1 DEF CameraTurnOn, Done
  <2> QED
    BY <1>1, <2>1
<1>3. CASE ~c.handle /\ ~h264
  <2>1. o = [d |-> c, ok |-> FALSE]
    BY <1>3 DEF CameraTurnOn, Failed
  <2> QED
    BY <1>3, <2>1
<1>2. CASE ~c.handle /\ h264
  <2>1. PICK p \in Try(c, c) :
          IF p.ok THEN o \in AndThen(CameraOpen(p.d, cam),
                                     LAMBDA f : Done([f EXCEPT !.notify = TRUE]))
                  ELSE o = p
    BY <1>2 DEF CameraTurnOn, AndThen
  <2>2. p \in Outcome
    BY TryType
  <2>3. ASSUME p.ok
        PROVE  /\ p.d.faults = 0
               /\ o = [d |-> [Opened(p.d, cam) EXCEPT !.notify = TRUE], ok |-> TRUE]
    <3>1. p.d \in Device
      BY <2>2 DEF Outcome
    <3>2. PICK q \in CameraOpen(p.d, cam) :
            IF q.ok THEN o = [d |-> [q.d EXCEPT !.notify = TRUE], ok |-> TRUE] ELSE o = q
      BY <2>1, <2>3 DEF AndThen, Done
    <3>3. q.d \in Device
      BY <3>1, CameraOpenType DEF Outcome
    <3>4. q.d.faults = 0
      BY <3>2, <3>3 DEF Device
    <3>5. q = [d |-> Opened(p.d, cam), ok |-> TRUE] /\ p.d.faults = 0
      BY <3>1, <3>4, CameraOpenPlain
    <3> QED
      BY <3>2, <3>5
  <2>4. p.d.faults = 0
    BY <2>1, <2>3
  <2>5. p = [d |-> c, ok |-> TRUE] /\ c.faults = 0
    BY <2>4, TryPlain
  <2> QED
    BY <1>2, <2>3, <2>5
<1> QED
  BY <1>1, <1>2, <1>3

\* The camera of doorbell_camera_turn_off.
Closed(c) ==
  LET e == IF c.pipe THEN [c EXCEPT !.h264e = FALSE] ELSE c
      f == IF c.lcd THEN e ELSE [e EXCEPT !.decoder = FALSE]
  IN [f EXCEPT !.handle = FALSE, !.notify = FALSE]

\* doorbell_camera_turn_off: done already, or closed.
LEMMA CameraOffPlain ==
  ASSUME NEW c \in Device, NEW o \in CameraTurnOff(c), o.d.faults = 0
  PROVE  /\ c.faults = 0
         /\ o = [d |-> IF c.handle THEN Closed(c) ELSE c, ok |-> TRUE]
<1> DEFINE Encode == IF c.pipe THEN Try(c, [c EXCEPT !.h264e = FALSE]) ELSE Done(c)
           Last(e) == {IF c.lcd THEN u ELSE [u EXCEPT !.d = Unregister(u.d)] : u \in Try(e, e)}
           e0 == IF c.pipe THEN [c EXCEPT !.h264e = FALSE] ELSE c
<1>1. CASE ~c.handle
  <2>1. o = [d |-> c, ok |-> TRUE]
    BY <1>1 DEF CameraTurnOff, Done
  <2> QED
    BY <1>1, <2>1
<1>2. CASE c.handle
  <2>1. PICK p \in CameraClose(c) :
          IF p.ok THEN o = [d |-> [p.d EXCEPT !.handle = FALSE, !.notify = FALSE], ok |-> TRUE]
                  ELSE o = p
    BY <1>2 DEF CameraTurnOff, AndThen, Done
  <2>2. PICK q \in Encode : IF q.ok THEN p \in Last(q.d) ELSE p = q
    BY DEF CameraClose, AndThen
  <2>3. e0 \in Device /\ e0.faults = c.faults
    <3>1. [c EXCEPT !.h264e = FALSE] \in Device /\ [c EXCEPT !.h264e = FALSE].faults = c.faults
      BY DEF Device
    <3> QED
      BY <3>1
  <2>4. q \in Outcome
    BY Updates, TryType, DoneType
  <2>5. ASSUME q.ok PROVE \E u \in Try(q.d, q.d) :
                            p = IF c.lcd THEN u ELSE [u EXCEPT !.d = Unregister(u.d)]
    BY <2>2, <2>5
  <2>6. p \in Outcome
    <3>1. \A e \in Device : Try(e, e) \subseteq Outcome
      BY TryType
    <3> QED
      BY <2>2, <2>4, <2>5, <3>1, RegisterType DEF Outcome
  <2>7. p.d.faults = 0
    <3>1. p.d \in Device
      BY <2>6 DEF Outcome
    <3>5. [p.d EXCEPT !.handle = FALSE, !.notify = FALSE].faults = p.d.faults
      BY <3>1 DEF Device
    <3>2. PICK x : /\ x = [p.d EXCEPT !.handle = FALSE, !.notify = FALSE]
                   /\ x.faults = p.d.faults
      BY ONLY <3>5
    <3>3. CASE p.ok
      <4>1. o = [d |-> x, ok |-> TRUE]
        BY <2>1, <3>2, <3>3
      <4> QED
        BY <3>2, <4>1
    <3>4. CASE ~p.ok
      BY <2>1, <3>4
    <3> QED
      BY <3>3, <3>4
  <2>8. ASSUME q.ok
        PROVE  /\ q.d.faults = 0
               /\ p = [d |-> IF c.lcd THEN q.d ELSE [q.d EXCEPT !.decoder = FALSE], ok |-> TRUE]
    <3>1. PICK u \in Try(q.d, q.d) :
            p = IF c.lcd THEN u ELSE [u EXCEPT !.d = Unregister(u.d)]
      BY <2>5, <2>8
    <3>2. q.d \in Device /\ u \in Outcome
      BY <2>4, TryType DEF Outcome
    <3>3. u.d.faults = 0
      BY <2>7, <3>1, <3>2 DEF Outcome, Unregister, Device
    <3>4. u = [d |-> q.d, ok |-> TRUE] /\ q.d.faults = 0
      BY <3>2, <3>3, TryPlain
    <3> QED
      BY <3>1, <3>4 DEF Unregister
  <2>9. q.d.faults = 0
    BY <2>2, <2>7, <2>8
  <2>10. q = [d |-> e0, ok |-> TRUE] /\ c.faults = 0
    <3>1. CASE c.pipe
      BY <2>3, <2>9, <3>1, TryPlain
    <3>2. CASE ~c.pipe
      BY <2>9, <3>2 DEF Done
    <3> QED
      BY <3>1, <3>2
  <2> HIDE DEF Encode, Last
  <2>11. /\ p = [d |-> IF c.lcd THEN e0 ELSE [e0 EXCEPT !.decoder = FALSE], ok |-> TRUE]
         /\ o = [d |-> [p.d EXCEPT !.handle = FALSE, !.notify = FALSE], ok |-> TRUE]
    <3> HIDE DEF e0
    <3>1. q.ok /\ q.d = e0
      BY <2>10
    <3>2. p = [d |-> IF c.lcd THEN e0 ELSE [e0 EXCEPT !.decoder = FALSE], ok |-> TRUE]
      BY <2>8, <3>1
    <3>3. p.ok
      BY <3>2
    <3> QED
      BY <2>1, <3>2, <3>3
  <2> QED
    BY <1>2, <2>10, <2>11 DEF Closed
<1> QED
  BY <1>1, <1>2

\* doorbell_display_turn_on and doorbell_display_turn_off.
Showing(c) == [Decoding([c EXCEPT !.ldo = TRUE, !.disp = TRUE]) EXCEPT !.lcd = TRUE]

\* doorbell_display_turn_on: its error path is not taken.
LEMMA DisplayOnPlain ==
  ASSUME NEW c \in Device, NEW o \in DisplayTurnOn(c), o.d.faults = 0
  PROVE  /\ c.faults = 0
         /\ o = IF c.lcd THEN [d |-> c, ok |-> FALSE] ELSE [d |-> Showing(c), ok |-> TRUE]
<1> DEFINE Shown(g) == Done([g EXCEPT !.lcd = TRUE])
           Decode(e) == AndThen(DecodeOpen(e), Shown)
           Open(n) == AndThen(Try(n, n), Decode)
           Undone(u) == IF u.ok THEN {u} ELSE
             {[d |-> [p.d EXCEPT !.disp = FALSE], ok |-> FALSE] : p \in DecodeClose(u.d)}
           New(n) == UNION {Undone(u) : u \in Open(n)}
           Supply(f) == AndThen(Try([f EXCEPT !.ldo = TRUE],
                                    [[f EXCEPT !.ldo = TRUE] EXCEPT !.disp = TRUE]), New)
           Lcd(q) == IF q.lcd THEN Failed(q) ELSE AndThen(Try(q, q), Supply)
<1>1. ASSUME NEW e \in Device, NEW u \in Decode(e), u.d.faults = 0
      PROVE  /\ e.faults = 0 /\ u \in Outcome
             /\ u = [d |-> [Decoding(e) EXCEPT !.lcd = TRUE], ok |-> TRUE]
  <2>1. PICK g \in DecodeOpen(e) :
          IF g.ok THEN u = [d |-> [g.d EXCEPT !.lcd = TRUE], ok |-> TRUE] ELSE u = g
    BY <1>1 DEF AndThen, Done
  <2>2. g.d \in Device /\ [g.d EXCEPT !.lcd = TRUE] \in Device
    BY DecodeOpenType, Updates DEF Outcome
  <2>3. [g.d EXCEPT !.lcd = TRUE].faults = g.d.faults
    BY <2>2 DEF Device
  <2>4. PICK x : x = [g.d EXCEPT !.lcd = TRUE] /\ x.faults = g.d.faults /\ x \in Device
    BY ONLY <2>2, <2>3
  <2>5. g.ok => u = [d |-> x, ok |-> TRUE]
    BY <2>1, <2>4
  <2>6. g.d.faults = 0
    <3> HIDE DEF Decode
    <3>1. CASE g.ok
      <4>1. u.d.faults = x.faults
        BY <2>5, <3>1
      <4> QED
        BY <1>1, <2>4, <4>1
    <3>2. CASE ~g.ok
      <4>1. u = g
        BY <2>1, <3>2
      <4> QED
        BY <1>1, <4>1
    <3> QED
      BY <3>1, <3>2
  <2>7. g = [d |-> Decoding(e), ok |-> TRUE] /\ e.faults = 0
    BY <2>6, DecodeOpenPlain
  <2>8. u = [d |-> x, ok |-> TRUE]
    BY <2>5, <2>7
  <2> QED
    BY <2>4, <2>7, <2>8 DEF Outcome
<1>2. ASSUME NEW n \in Device, NEW u \in Open(n), u.d.faults = 0
      PROVE  /\ n.faults = 0
             /\ u = [d |-> [Decoding(n) EXCEPT !.lcd = TRUE], ok |-> TRUE]
  <2> HIDE DEF Decode
  <2>1. PICK p \in Try(n, n) : IF p.ok THEN u \in Decode(p.d) ELSE u = p
    BY <1>2 DEF AndThen
  <2>2. p.d \in Device
    BY TryType DEF Outcome
  <2>3. p.d.faults = 0
    BY <1>1, <1>2, <2>1, <2>2
  <2>4. p = [d |-> n, ok |-> TRUE] /\ n.faults = 0
    BY <2>3, TryPlain
  <2> QED
    BY <1>1, <1>2, <2>1, <2>4
<1>3. \A n \in Device : Open(n) \subseteq Outcome
  <2>1. \A e \in Device : Try(e, e) \subseteq Outcome
    BY TryType
  <2>2. \A g \in Device : Shown(g) \subseteq Outcome
    BY Updates, DoneType
  <2>3. \A e \in Device : Decode(e) \subseteq Outcome
    <3> HIDE DEF Shown
    <3> QED
      BY <2>2, DecodeOpenType DEF AndThen, Outcome
  <2> HIDE DEF Decode
  <2> QED
    BY <2>1, <2>3 DEF AndThen, Outcome
<1>4. ASSUME NEW n \in Device, NEW r \in New(n), r.d.faults = 0
      PROVE  /\ n.faults = 0
             /\ r = [d |-> [Decoding(n) EXCEPT !.lcd = TRUE], ok |-> TRUE]
  <2> HIDE DEF Open
  <2>1. PICK u \in Open(n) : r \in Undone(u)
    BY <1>4
  <2>2. u \in Outcome
    BY <1>3
  <2>3. CASE u.ok
    <3>1. r = u
      BY <2>1, <2>3
    <3> QED
      BY <1>2, <1>4, <3>1
  <2>4. CASE ~u.ok
    <3>1. PICK p \in DecodeClose(u.d) :
            r = [d |-> [p.d EXCEPT !.disp = FALSE], ok |-> FALSE]
      BY <2>1, <2>4
    <3>2. u.d \in Device /\ p.d \in Device
      BY <2>2, DecodeCloseType DEF Outcome
    <3>3. [p.d EXCEPT !.disp = FALSE].faults = p.d.faults
      BY <3>2 DEF Device
    <3>4. PICK x : x = [p.d EXCEPT !.disp = FALSE] /\ x.faults = p.d.faults
      BY ONLY <3>3
    <3>5. r = [d |-> x, ok |-> FALSE]
      BY <3>1, <3>4
    <3>6. p.d.faults = 0
      BY <1>4, <3>4, <3>5
    <3>7. u.d.faults = 0
      BY <3>2, <3>6, DecodeClosePlain
    <3>8. u.ok
      BY <1>2, <3>7
    <3> QED
      BY <2>4, <3>8
  <2> QED
    BY <2>3, <2>4
<1>5. ASSUME NEW f \in Device, NEW r \in Supply(f), r.d.faults = 0
      PROVE  f.faults = 0 /\ r = [d |-> Showing(f), ok |-> TRUE]
  <2>1. [f EXCEPT !.ldo = TRUE] \in Device
    BY Updates
  <2>2. /\ [[f EXCEPT !.ldo = TRUE] EXCEPT !.disp = TRUE] \in Device
        /\ [f EXCEPT !.ldo = TRUE].faults = f.faults
        /\ [[f EXCEPT !.ldo = TRUE] EXCEPT !.disp = TRUE].faults = f.faults
    BY <2>1 DEF Device
  <2>3. PICK a, z : /\ a = [f EXCEPT !.ldo = TRUE] /\ a \in Device /\ a.faults = f.faults
                    /\ z = [[f EXCEPT !.ldo = TRUE] EXCEPT !.disp = TRUE]
                    /\ z \in Device /\ z.faults = f.faults
    BY ONLY <2>1, <2>2
  <2>4. z = [f EXCEPT !.ldo = TRUE, !.disp = TRUE]
    BY <2>3
  <2>5. PICK p \in Try(a, z) : IF p.ok THEN r \in New(p.d) ELSE r = p
    <3> HIDE DEF New
    <3> QED
      BY <1>5, <2>3 DEF AndThen
  <2>6. p.d \in Device
    BY <2>3, TryType DEF Outcome
  <2> HIDE DEF New
  <2>7. p.d.faults = 0
    BY <1>4, <1>5, <2>5, <2>6
  <2>8. p = [d |-> z, ok |-> TRUE] /\ a.faults = 0
    BY <2>3, <2>7, TryPlain
  <2>9. r = [d |-> [Decoding(z) EXCEPT !.lcd = TRUE], ok |-> TRUE]
    BY <1>4, <1>5, <2>5, <2>6, <2>8
  <2> QED
    BY <2>3, <2>4, <2>8, <2>9 DEF Showing
<1>6. ASSUME NEW q \in Device, NEW r \in Lcd(q), r.d.faults = 0
      PROVE  /\ q.faults = 0
             /\ r = IF q.lcd THEN [d |-> q, ok |-> FALSE] ELSE [d |-> Showing(q), ok |-> TRUE]
  <2> HIDE DEF Supply
  <2>1. CASE q.lcd
    <3>1. r = [d |-> q, ok |-> FALSE]
      BY <1>6, <2>1 DEF Failed
    <3> QED
      BY <1>6, <2>1, <3>1
  <2>2. CASE ~q.lcd
    <3>1. PICK p \in Try(q, q) : IF p.ok THEN r \in Supply(p.d) ELSE r = p
      BY <1>6, <2>2 DEF AndThen
    <3>2. p.d \in Device
      BY TryType DEF Outcome
    <3>3. p.d.faults = 0
      BY <1>5, <1>6, <3>1, <3>2
    <3>4. p = [d |-> q, ok |-> TRUE] /\ q.faults = 0
      BY <3>3, TryPlain
    <3> QED
      BY <1>5, <1>6, <2>2, <3>1, <3>4
  <2> QED
    BY <2>1, <2>2
<1>7. PICK p \in Try(c, c) : IF p.ok THEN o \in Lcd(p.d) ELSE o = p
  <2>1. o \in AndThen(Try(c, c), Lcd)
    BY DEF DisplayTurnOn
  <2> HIDE DEF Lcd
  <2> QED
    BY <2>1 DEF AndThen
<1> HIDE DEF Lcd
<1>8. p.d \in Device
  BY TryType DEF Outcome
<1>9. p.d.faults = 0
  BY <1>6, <1>7, <1>8
<1>10. p = [d |-> c, ok |-> TRUE] /\ c.faults = 0
  BY <1>9, TryPlain
<1> QED
  BY <1>6, <1>7, <1>10

NotShowing(c) == [NotDecoding(c) EXCEPT !.disp = FALSE, !.lcd = FALSE, !.ldo = FALSE]

\* doorbell_display_turn_off.
LEMMA DisplayOffPlain ==
  ASSUME NEW c \in Device, NEW o \in DisplayTurnOff(c), o.d.faults = 0
  PROVE  /\ c.faults = 0
         /\ o = IF c.lcd THEN [d |-> NotShowing(c), ok |-> TRUE] ELSE [d |-> c, ok |-> FALSE]
<1>1. CASE ~c.lcd
  <2>1. o = [d |-> c, ok |-> FALSE]
    BY <1>1 DEF DisplayTurnOff, Failed
  <2> QED
    BY <1>1, <2>1
<1>2. CASE c.lcd
  <2>1. PICK p \in DecodeClose(c) :
          o = [p EXCEPT !.d.disp = FALSE, !.d.lcd = FALSE, !.d.ldo = FALSE]
    BY <1>2 DEF DisplayTurnOff
  <2>2. p \in Outcome
    BY DecodeCloseType
  <2>3. o = [d |-> [p.d EXCEPT !.disp = FALSE, !.lcd = FALSE, !.ldo = FALSE], ok |-> p.ok]
    BY <2>1, <2>2 DEF Outcome, Device
  <2>4. [p.d EXCEPT !.disp = FALSE, !.lcd = FALSE, !.ldo = FALSE].faults = p.d.faults
    BY <2>2 DEF Outcome, Device
  <2>5. PICK x : /\ x = [p.d EXCEPT !.disp = FALSE, !.lcd = FALSE, !.ldo = FALSE]
                 /\ x.faults = p.d.faults
    BY ONLY <2>4
  <2>6. o = [d |-> x, ok |-> p.ok]
    BY <2>3, <2>5
  <2>7. p = [d |-> NotDecoding(c), ok |-> TRUE] /\ c.faults = 0
    BY <2>5, <2>6, DecodeClosePlain
  <2>8. p.ok /\ p.d = NotDecoding(c)
    BY <2>7
  <2>9. x = NotShowing(c)
    BY <2>5, <2>8 DEF NotShowing
  <2> QED
    BY <1>2, <2>6, <2>7, <2>8, <2>9
<1> QED
  BY <1>1, <1>2

\* doorbell_audio_turn_on.
LEMMA AudioOnPlain ==
  ASSUME NEW c \in Device, NEW o \in AudioTurnOn(c), o.d.faults = 0
  PROVE  /\ c.faults = 0
         /\ o = IF c.audio THEN [d |-> c, ok |-> FALSE]
                ELSE [d |-> [c EXCEPT !.audio = TRUE, !.voice = TRUE], ok |-> TRUE]
<1>1. CASE c.audio
  <2>1. o = [d |-> c, ok |-> FALSE]
    BY <1>1 DEF AudioTurnOn, Failed
  <2> QED
    BY <1>1, <2>1
<1>2. CASE ~c.audio
  <2> DEFINE Silent(e) == [e EXCEPT !.voice = FALSE]
             Made(on) == OnFail(Try(c, on), Silent)
  <2>1. /\ [c EXCEPT !.audio = TRUE, !.voice = TRUE] \in Device
        /\ [c EXCEPT !.audio = TRUE, !.voice = TRUE].faults = c.faults
    BY DEF Device
  <2>2. PICK on : /\ on = [c EXCEPT !.audio = TRUE, !.voice = TRUE]
                  /\ on \in Device /\ on.faults = c.faults
    BY ONLY <2>1
  <2>3. PICK p \in Made(on) : IF p.ok THEN o \in Try(p.d, p.d) ELSE o = p
    BY <1>2, <2>2 DEF AudioTurnOn, AndThen
  <2>4. PICK q \in Try(c, on) : p = IF q.ok THEN q ELSE [q EXCEPT !.d = Silent(q.d)]
    BY <2>3 DEF OnFail
  <2>5. q \in Outcome
    BY <2>2, TryType
  <2>6. Silent(q.d) \in Device /\ Silent(q.d).faults = q.d.faults
    BY <2>5 DEF Outcome, Device
  <2>7. PICK x : x = Silent(q.d) /\ x \in Device /\ x.faults = q.d.faults
    BY ONLY <2>6
  <2>8. p.d \in Device /\ p.d.faults = q.d.faults
    BY <2>4, <2>5, <2>7 DEF Outcome
  <2>9. p.d.faults = 0
    BY <2>3, <2>8, TryPlain
  <2>10. q = [d |-> on, ok |-> TRUE] /\ c.faults = 0
    BY <2>2, <2>8, <2>9, TryPlain
  <2>11. p = q /\ p.ok /\ p.d = on
    BY <2>4, <2>10
  <2>12. o = [d |-> on, ok |-> TRUE]
    BY <2>2, <2>3, <2>11, TryPlain
  <2> QED
    BY <1>2, <2>2, <2>10, <2>12
<1> QED
  BY <1>1, <1>2

\* doorbell_audio_turn_off.
LEMMA AudioOffPlain ==
  ASSUME NEW c \in Device, NEW o \in AudioTurnOff(c), o.d.faults = 0
  PROVE  /\ c.faults = 0
         /\ o = IF c.audio THEN [d |-> [c EXCEPT !.audio = FALSE, !.voice = FALSE], ok |-> TRUE]
                ELSE [d |-> c, ok |-> FALSE]
<1>1. CASE ~c.audio
  <2>1. o = [d |-> c, ok |-> FALSE]
    BY <1>1 DEF AudioTurnOff, Failed
  <2> QED
    BY <1>1, <2>1
<1>2. CASE c.audio
  <2>1. [c EXCEPT !.audio = FALSE] \in Device /\ [c EXCEPT !.audio = FALSE].faults = c.faults
    BY DEF Device
  <2>2. PICK off : /\ off = [c EXCEPT !.audio = FALSE]
                   /\ off \in Device /\ off.faults = c.faults
    BY ONLY <2>1
  <2>3. o \in Try(off, [off EXCEPT !.voice = FALSE])
    BY <1>2, <2>2 DEF AudioTurnOff
  <2>4. [off EXCEPT !.voice = FALSE].faults = off.faults
    BY <2>2 DEF Device
  <2>5. o = [d |-> [off EXCEPT !.voice = FALSE], ok |-> TRUE] /\ off.faults = 0
    BY <2>2, <2>3, <2>4, TryPlain
  <2> QED
    BY <1>2, <2>2, <2>5
<1> QED
  BY <1>1, <1>2

-----------------------------------------------------------------------------
(* The heartbeat.                                                          *)

\* doorbell_keep_alive_start_timer, a failure at any of its steps included.
LEMMA StartTimerSound ==
  ASSUME NEW b \in Beats, BeatSound(b), b.info, b.stopped < MaxTimers,
         NEW ms \in Intervals, NEW n \in StartTimer(b, ms)
  PROVE  n \in Beats /\ BeatSound(n)
<1>0. ms \in Nat \ {0} /\ MaxTimers \in Nat /\ MaxFaults \in Nat /\ b.interval \in Nat
  <2>1. ms \in Nat \ {0} /\ MaxTimers \in Nat /\ MaxFaults \in Nat
    BY MediaAssumption
  <2>2. b.interval \in Intervals \cup {0} /\ Intervals \subseteq Nat
    BY MediaAssumption DEF Beats
  <2>3. b.interval \in Nat
    <3>1. CASE b.interval = 0
      BY <3>1
    <3>2. CASE b.interval \in Intervals
      BY <2>2, <3>2
    <3> QED
      BY <2>2, <3>1, <3>2
  <2> QED
    BY <2>1, <2>3
<1>1. CASE b.interval = ms
  BY <1>1 DEF StartTimer
<1>2. CASE b.interval # ms
  <2>1. PICK gone : /\ gone = IF b.interval # 0 THEN NoTimer(b) ELSE b
    BY ONLY TRUE
  <2>2. /\ gone \in Beats /\ gone.info /\ gone.timer = "none" /\ gone.faults = b.faults
        /\ gone.stopped = b.stopped /\ gone.interval = b.interval
        /\ gone.faults = 0 => gone.running = 0
    <3>1. CASE b.interval = 0
      BY <2>1, <3>1 DEF BeatSound
    <3>2. CASE b.interval # 0
      <4>1. PICK left : left = IF b.timer = "run" THEN b.running - 1 ELSE b.running
        BY ONLY TRUE
      <4>2. left \in Nat /\ (b.faults = 0 => left = 0)
        BY <3>2, <4>1 DEF Beats, BeatSound
      <4>3. gone = [b EXCEPT !.running = left, !.timer = "none"]
        BY <2>1, <3>2, <4>1 DEF NoTimer
      <4> QED
        BY <4>2, <4>3 DEF Beats
    <3> QED
      BY <3>1, <3>2
  <2>3. PICK ready : ready = [gone EXCEPT !.timer = "init", !.interval = ms]
    BY ONLY TRUE
  <2>4. /\ ready \in Beats /\ ready.info /\ ready.timer = "init" /\ ready.interval = ms
        /\ ready.faults = b.faults /\ ready.stopped = b.stopped
        /\ ready.running = gone.running
    BY <2>2, <2>3 DEF Beats
  <2>5. \/ n = [ready EXCEPT !.timer = "run", !.running = @ + 1]
        \/ b.faults < MaxFaults /\ n \in {Faulted(b), Faulted(gone), Faulted(ready)}
    BY <1>2, <2>1, <2>3 DEF StartTimer
  <2>6. CASE n = [ready EXCEPT !.timer = "run", !.running = @ + 1]
    <3>1. n \in Beats
      <4>1. PICK r \in Nat : r = ready.running + 1
        BY <2>4 DEF Beats
      <4>2. n = [ready EXCEPT !.timer = "run", !.running = r]
        BY <2>6, <4>1
      <4> QED
        BY <2>4, <4>2 DEF Beats
    <3>2. /\ n.info = ready.info /\ n.timer = "run" /\ n.running = ready.running + 1
          /\ n.stopped = ready.stopped /\ n.interval = ready.interval
          /\ n.faults = ready.faults
      BY <2>4, <2>6 DEF Beats
    <3>3. ready.running \in Nat
      BY <2>4 DEF Beats
    <3>4. n.running >= 1 /\ n.stopped <= MaxTimers /\ n.interval # 0
      BY <1>0, <2>4, <3>2, <3>3 DEF Beats
    <3>5. n.faults = 0 => n.running = 1
      BY <2>2, <2>4, <3>2
    <3> QED
      BY <2>4, <3>1, <3>2, <3>4, <3>5 DEF BeatSound
  <2>7. ASSUME b.faults < MaxFaults, NEW m \in Beats, m.faults = b.faults, n = Faulted(m),
               m.info, m.stopped < MaxTimers, m.interval = 0 => m.timer = "none",
               m.timer = "run" => m.running >= 1
        PROVE  n \in Beats /\ BeatSound(n)
    <3>1. n \in Beats
      BY <1>0, <2>7 DEF Beats, Faulted
    <3>2. /\ n.info = m.info /\ n.timer = m.timer /\ n.running = m.running
          /\ n.stopped = m.stopped /\ n.interval = m.interval
          /\ n.faults = m.faults + 1
      BY <2>7 DEF Beats, Faulted
    <3>3. m.faults \in Nat /\ m.stopped \in Nat
      BY <2>7 DEF Beats
    <3> QED
      BY <1>0, <2>7, <3>1, <3>2, <3>3 DEF BeatSound
  <2>8. CASE b.faults < MaxFaults /\ n \in {Faulted(b), Faulted(gone), Faulted(ready)}
    <3>1. CASE n = Faulted(b)
      BY <2>7, <2>8, <3>1 DEF BeatSound
    <3>2. CASE n = Faulted(gone)
      BY <2>2, <2>7, <2>8, <3>2
    <3>3. CASE n = Faulted(ready)
      BY <1>0, <2>4, <2>7, <2>8, <3>3
    <3> QED
      BY <2>8, <3>1, <3>2, <3>3
  <2> QED
    BY <2>5, <2>6, <2>8
<1> QED
  BY <1>1, <1>2

\* doorbell_keep_alive_stop_timer, a timer that does not stop included.
LEMMA StopTimerSound ==
  ASSUME NEW b \in Beats, BeatSound(b), NEW n \in StopTimer(b)
  PROVE  n \in Beats /\ BeatSound(n)
<1>0. MaxTimers \in Nat /\ MaxFaults \in Nat
  BY MediaAssumption
<1>1. PICK off : off = [b EXCEPT !.info = FALSE, !.interval = 0, !.timer = "none",
                          !.stopped = IF b.timer = "none" THEN @ ELSE @ + 1]
  BY ONLY TRUE
<1>2. /\ off \in Beats /\ ~off.info /\ off.interval = 0 /\ off.timer = "none"
      /\ off.running = b.running /\ off.faults = b.faults
  <2>1. PICK s : s = IF b.timer = "none" THEN b.stopped ELSE b.stopped + 1
    BY ONLY TRUE
  <2>2. s \in 0..MaxTimers + 1
    BY <1>0, <2>1 DEF Beats, BeatSound
  <2>3. off = [b EXCEPT !.info = FALSE, !.interval = 0, !.timer = "none", !.stopped = s]
    BY <1>1, <2>1
  <2> QED
    BY <2>2, <2>3 DEF Beats
<1>3. \/ n = [off EXCEPT !.running = IF b.timer = "run" THEN @ - 1 ELSE @]
      \/ b.faults < MaxFaults /\ n = Faulted(off)
  BY <1>1 DEF StopTimer
<1>4. CASE n = [off EXCEPT !.running = IF b.timer = "run" THEN @ - 1 ELSE @]
  <2>1. b.running \in Nat
    BY DEF Beats
  <2>2. n \in Beats
    BY <1>2, <1>4, <2>1 DEF Beats, BeatSound
  <2>3. /\ n.info = off.info /\ n.interval = 0 /\ n.timer = "none" /\ n.faults = b.faults
        /\ n.running = IF b.timer = "run" THEN b.running - 1 ELSE b.running
    BY <1>2, <1>4 DEF Beats
  <2>4. b.faults = 0 => n.running = 0
    BY <2>1, <2>3 DEF BeatSound
  <2> QED
    BY <1>2, <2>2, <2>3, <2>4 DEF BeatSound
<1>5. CASE b.faults < MaxFaults /\ n = Faulted(off)
  <2>1. n \in Beats
    BY <1>0, <1>2, <1>5 DEF Beats, Faulted
  <2>2. /\ n.info = off.info /\ n.interval = 0 /\ n.timer = "none"
        /\ n.faults = b.faults + 1
    BY <1>2, <1>5 DEF Beats, Faulted
  <2>3. b.faults \in Nat
    BY DEF Beats
  <2> QED
    BY <1>2, <2>1, <2>2, <2>3 DEF BeatSound
<1> QED
  BY <1>3, <1>4, <1>5

\* Every step keeps the heartbeat sound.
LEMMA BeatStep ==
  ASSUME TypeOK, BeatInv, [Next]_vars
  PROVE  beat' \in Beats /\ BeatInv'
<1>0. beat \in Beats /\ BeatSound(beat)
  BY DEF TypeOK, Beats, BeatInv
<1>1. SUFFICES beat' \in Beats /\ BeatSound(beat')
  BY DEF BeatInv
<1>2. CASE beat' = beat
  BY <1>0, <1>2
<1>3. CASE \E ms \in Intervals : HeartbeatOn(ms)
  <2>1. PICK ms \in Intervals : HeartbeatOn(ms)
    BY <1>3
  <2>2. PICK b : b = [beat EXCEPT !.info = TRUE]
    BY ONLY TRUE
  <2>3. b \in Beats /\ b.info /\ b.stopped = beat.stopped /\ BeatSound(b)
    BY <1>0, <2>2 DEF Beats, BeatSound
  <2>4. CASE beat' \in StartTimer(b, ms)
    BY <2>1, <2>3, <2>4, StartTimerSound DEF HeartbeatOn
  <2>5. CASE ~beat.info /\ beat.faults < MaxFaults /\ beat' = Faulted(beat)
    <3>1. /\ beat' \in Beats /\ beat'.timer = beat.timer /\ beat'.interval = beat.interval
          /\ beat'.info = beat.info /\ beat'.faults = beat.faults + 1
          /\ beat'.running = beat.running /\ beat'.stopped = beat.stopped
      BY <1>0, <2>5, MediaAssumption DEF Beats, Faulted
    <3>2. beat.faults \in Nat
      BY <1>0 DEF Beats
    <3> QED
      BY <1>0, <3>1, <3>2 DEF BeatSound
  <2> QED
    BY <2>1, <2>2, <2>4, <2>5 DEF HeartbeatOn
<1>4. CASE HeartbeatOff
  BY <1>0, <1>4, StopTimerSound DEF HeartbeatOff
<1> QED
  BY <1>2, <1>3, <1>4 DEF Next, vars, CmdCameraOn, TransferAlready, TransferFault,
     TransferCreate, TransferStarted, CmdOnDone, TaskStarts, TaskEnds, StopClear,
     StopFree, StopUnregister, CmdTransferOff, CmdCameraOff, CmdAudioOn, CmdAudioOff, CmdLcdOn, CmdLcdOff, CmdDevice,
     CoreDisconnected, CoreAudioOff

-----------------------------------------------------------------------------
(* The steps of the system.                                                *)

(* Where the threads may be.                                               *)
CmdAt == [at : Stopping \cup {"idle", "transfer_on", "start_wait", "camera_off"},
          ok : BOOLEAN]
CoreAt == [at : Stopping \cup {"idle", "audio_off"}, image : BOOLEAN]

(* The steps of the transfer that call nothing of the devices.             *)
TransferMoves ==
  \/ TransferAlready \/ TransferCreate \/ TransferStarted \/ TaskStarts \/ TaskEnds
  \/ \E t \in Threads : StopClear(t) \/ StopFree(t) \/ StopUnregister(t)
  \/ CmdTransferOff
  \/ \E image \in BOOLEAN : CoreDisconnected(image)

\* They leave the devices.
LEMMA MovesLeave ==
  ASSUME TransferMoves
  PROVE  d' = d
  BY DEF TransferMoves, TransferAlready, TransferCreate, TransferStarted, TaskStarts,
     TaskEnds, StopClear, StopFree, StopUnregister, CmdTransferOff, CoreDisconnected

\* The transfer keeps its type.
LEMMA TransUpdates ==
  ASSUME NEW x \in Transfer, NEW b \in BOOLEAN
  PROVE  /\ [x EXCEPT !.sender = b] \in Transfer /\ [x EXCEPT !.token = b] \in Transfer
         /\ [x EXCEPT !.enable = b] \in Transfer
         /\ [x EXCEPT !.task = "none", !.token = TRUE] \in Transfer
         /\ [x EXCEPT !.task = "run", !.enable = TRUE, !.token = TRUE] \in Transfer
         /\ [NoTransfer EXCEPT !.sender = b] \in Transfer
         /\ [NoTransfer EXCEPT !.cfg = b, !.sender = TRUE] \in Transfer
         /\ [NoTransfer EXCEPT !.cfg = TRUE, !.task = "new", !.sender = TRUE] \in Transfer
  BY DEF Transfer, NoTransfer

\* The steps of the transfer keep the types.
LEMMA MovesType ==
  ASSUME TransferMoves, trans \in Transfer, votes \subseteq {"camera", "audio", "lcd"},
         cmd \in CmdAt, core \in CoreAt
  PROVE  /\ trans' \in Transfer /\ votes' \subseteq {"camera", "audio", "lcd"}
         /\ cmd' \in CmdAt /\ core' \in CoreAt
<1>1. CASE TransferAlready
  BY <1>1, TransUpdates DEF TransferAlready, CmdOnDone, VoteIf, Vote, CmdAt
<1>2. CASE TransferCreate
  BY <1>2, TransUpdates DEF TransferCreate, CmdAt
<1>3. CASE TransferStarted
  BY <1>3, TransUpdates DEF TransferStarted, CmdOnDone, VoteIf, Vote, CmdAt
<1>4. CASE TaskStarts
  BY <1>4, TransUpdates DEF TaskStarts
<1>5. CASE TaskEnds
  BY <1>5, TransUpdates DEF TaskEnds
<1>6. CASE \E t \in Threads : StopClear(t)
  <2>1. trans' \in Transfer /\ votes' = votes
    BY <1>6, TransUpdates DEF StopClear
  <2>2. cmd' \in CmdAt
    BY <1>6 DEF StopClear, Goto, CmdAt, Stopping
  <2>3. core' \in CoreAt
    BY <1>6 DEF StopClear, Goto, CoreAt, Stopping
  <2> QED
    BY <2>1, <2>2, <2>3
<1>7. CASE \E t \in Threads : StopFree(t)
  <2>1. trans.sender \in BOOLEAN
    BY DEF Transfer
  <2>2. trans' \in Transfer /\ votes' = votes
    BY <1>7, <2>1, TransUpdates DEF StopFree
  <2>3. cmd' \in CmdAt
    BY <1>7 DEF StopFree, Strand, CmdAt, Stopping
  <2>4. core' \in CoreAt
    BY <1>7 DEF StopFree, Strand, CoreAt, Stopping
  <2> QED
    BY <2>2, <2>3, <2>4
<1>8. CASE \E t \in Threads : StopUnregister(t)
  BY <1>8, TransUpdates DEF StopUnregister, Goto, AfterStop, Threads, CmdAt, CoreAt
<1>9. CASE CmdTransferOff
  BY <1>9 DEF CmdTransferOff, StopChecked, AfterStop, CmdAt, Stopping
<1>10. CASE \E image \in BOOLEAN : CoreDisconnected(image)
  BY <1>10 DEF CoreDisconnected, StopChecked, AfterStop, CoreAt, Stopping
<1> QED
  BY <1>1, <1>2, <1>3, <1>4, <1>5, <1>6, <1>7, <1>8, <1>9, <1>10 DEF TransferMoves

\* Every step keeps the types.
LEMMA TypeStep ==
  ASSUME TypeOK, BeatInv, [Next]_vars
  PROVE  TypeOK'
<1>0. /\ d \in Device /\ trans \in Transfer /\ votes \subseteq {"camera", "audio", "lcd"}
      /\ cmd \in CmdAt /\ core \in CoreAt
  BY DEF TypeOK, CmdAt, CoreAt
<1>1. SUFFICES /\ d' \in Device /\ trans' \in Transfer
               /\ votes' \subseteq {"camera", "audio", "lcd"}
               /\ cmd' \in CmdAt /\ core' \in CoreAt
  BY BeatStep DEF TypeOK, Beats, CmdAt, CoreAt
<1> USE <1>0
<1>2. CASE \E cam \in Cameras, h264 \in BOOLEAN : CmdCameraOn(cam, h264)
  BY <1>2, CameraTurnOnType, MediaAssumption DEF CmdCameraOn, Outcome, CmdAt
<1>3. CASE TransferFault
  <2>1. [d EXCEPT !.faults = @ + 1] \in Device
    <3>1. d.faults + 1 \in 0..MaxFaults
      BY <1>3, MediaAssumption DEF TransferFault, Device
    <3> QED
      BY <3>1 DEF Device
  <2> QED
    BY <1>3, <2>1, TransUpdates DEF TransferFault, CmdOnDone, VoteIf, Vote, CmdAt
<1>4. CASE TransferMoves
  BY <1>4, MovesLeave, MovesType
<1>5. CASE CmdCameraOff
  BY <1>5, CameraTurnOffType DEF CmdCameraOff, Outcome, VoteIf, Vote, CmdAt
<1>6. CASE CmdAudioOn
  BY <1>6, AudioType DEF CmdAudioOn, CmdDevice, Outcome, VoteIf, Vote
<1>7. CASE CmdAudioOff
  BY <1>7, AudioType DEF CmdAudioOff, CmdDevice, Outcome, VoteIf, Vote
<1>8. CASE CmdLcdOn
  BY <1>8, DisplayType DEF CmdLcdOn, CmdDevice, Outcome, VoteIf, Vote
<1>9. CASE CmdLcdOff
  BY <1>9, DisplayType DEF CmdLcdOff, CmdDevice, Outcome, VoteIf, Vote
<1>10. CASE CoreAudioOff
  BY <1>10, AudioType DEF CoreAudioOff, Outcome, CoreAt
<1>11. CASE (\E ms \in Intervals : HeartbeatOn(ms)) \/ HeartbeatOff \/ UNCHANGED vars
  BY <1>11 DEF HeartbeatOn, HeartbeatOff, vars
<1> QED
  BY <1>2, <1>3, <1>4, <1>5, <1>6, <1>7, <1>8, <1>9, <1>10, <1>11 DEF Next, TransferMoves

\* The camera that is opened finds what it needs, and the display its decoder.
LEMMA OpenedSound ==
  ASSUME NEW c \in Device, NEW cam \in {"uvc", "dvp"}, ~c.handle, Consistent(c),
         c.type \in {"none", cam}
  PROVE  Consistent(Opened(c, cam)) /\ Opened(c, cam).handle
<1>1. CASE cam = "uvc"
  <2>1. PICK t \in BOOLEAN : t = (c.changed \/ c.type \notin {"none", cam})
    BY DEF Device
  <2>2. PICK e : e = [c EXCEPT !.type = "uvc", !.changed = t, !.handle = TRUE,
                               !.decoder = TRUE, !.pipe = TRUE, !.h264e = TRUE]
    OBVIOUS
  <2>3. e = Encoding([Typed(c, cam) EXCEPT !.handle = TRUE], cam)
    BY <1>1, <2>1, <2>2 DEF Encoding, Typed, Device
  <2>4. /\ e.type = "uvc" /\ e.handle /\ e.decoder /\ e.pipe /\ e.h264e
        /\ e.disp = c.disp /\ e.lcd = c.lcd /\ e.ldo = c.ldo
        /\ e.rotate = c.rotate /\ e.yuv = c.yuv
    BY ONLY <2>2, c \in Device DEF Device
  <2>5. ~c.yuv
    BY <1>1 DEF Consistent
  <2>6. Consistent(e)
    BY <2>4, <2>5 DEF Consistent
  <2>7. CASE e.disp
    <3>1. Opened(c, cam) = [e EXCEPT !.decoder = TRUE, !.pipe = TRUE, !.rotate = TRUE]
      BY ONLY <2>3, <2>4, <2>7 DEF Opened, Decoding
    <3>2. PICK f : f = [e EXCEPT !.decoder = TRUE, !.pipe = TRUE, !.rotate = TRUE]
      OBVIOUS
    <3>3. /\ f.type = "uvc" /\ f.handle /\ f.decoder /\ f.pipe /\ f.h264e
          /\ f.disp = e.disp /\ f.lcd = e.lcd /\ f.ldo = e.ldo
          /\ f.rotate /\ f.yuv = e.yuv
      <4>1. e \in Device
        BY <2>2 DEF Device
      <4> QED
        BY ONLY <2>4, <3>2, <4>1 DEF Device
    <3>4. Consistent(f)
      BY ONLY <2>4, <2>5, <2>6, <2>7, <3>3 DEF Consistent
    <3> QED
      BY ONLY <3>1, <3>2, <3>3, <3>4
  <2>8. CASE ~e.disp
    BY ONLY <2>3, <2>4, <2>6, <2>8 DEF Opened
  <2> QED
    BY <2>7, <2>8
<1>2. CASE cam = "dvp"
  BY <1>2 DEF Consistent, Opened, Encoding, Typed, Decoding, Device
<1> QED
  BY <1>1, <1>2

\* Opening a camera of another type is what makes the devices changed.
LEMMA OpenedType ==
  ASSUME NEW c \in Device, NEW cam \in {"uvc", "dvp"}
  PROVE  /\ Opened(c, cam) \in Device
         /\ Opened(c, cam).changed = (c.changed \/ c.type \notin {"none", cam})
<1>1. PICK e : /\ e = [Typed(c, cam) EXCEPT !.handle = TRUE] /\ e \in Device
               /\ e.changed = (c.changed \/ c.type \notin {"none", cam})
  <2>1. (c.changed \/ c.type \notin {"none", cam}) \in BOOLEAN
    BY DEF Device
  <2>2. PICK z \in BOOLEAN : z = (c.changed \/ c.type \notin {"none", cam})
    BY ONLY <2>1
  <2>3. Typed(c, cam) = [c EXCEPT !.type = cam, !.changed = z]
    BY <2>2 DEF Typed
  <2>4. /\ [Typed(c, cam) EXCEPT !.handle = TRUE] \in Device
        /\ [Typed(c, cam) EXCEPT !.handle = TRUE].changed = z
    <3>1. PICK t \in Device : t = Typed(c, cam) /\ t.changed = z
      <4>1. [c EXCEPT !.type = cam, !.changed = z] \in Device
        BY ONLY c \in Device, cam \in {"uvc", "dvp"}, z \in BOOLEAN DEF Device
      <4>2. [c EXCEPT !.type = cam, !.changed = z].changed = z
        BY ONLY c \in Device DEF Device
      <4> QED
        BY ONLY <2>3, <4>1, <4>2
    <3>2. [t EXCEPT !.handle = TRUE] \in Device
      BY Updates
    <3>3. [t EXCEPT !.handle = TRUE].changed = z
      BY <3>1 DEF Device
    <3> QED
      BY ONLY <3>1, <3>2, <3>3
  <2>5. [Typed(c, cam) EXCEPT !.handle = TRUE].changed
          = (c.changed \/ c.type \notin {"none", cam})
    BY ONLY <2>2, <2>4
  <2> QED
    BY ONLY <2>4, <2>5
<1>2. PICK f : f = Encoding(e, cam) /\ f \in Device /\ f.changed = e.changed
  <2>1. Encoding(e, cam) \in Device /\ Encoding(e, cam).changed = e.changed
    BY <1>1 DEF Encoding, Device
  <2> QED
    BY ONLY <2>1
<1>3. Decoding(f) \in Device /\ Decoding(f).changed = f.changed
  <2>1. CASE f.type = "dvp"
    BY ONLY <1>2, <2>1 DEF Decoding, Device
  <2>2. CASE f.type = "uvc"
    <3>1. [f EXCEPT !.decoder = TRUE, !.pipe = TRUE, !.rotate = TRUE] \in Device
      <4>1. PICK g \in Device : g = [f EXCEPT !.decoder = TRUE]
        BY <1>2, RegisterType DEF Register
      <4>2. PICK h \in Device : h = [g EXCEPT !.pipe = TRUE]
        BY Updates
      <4>3. [h EXCEPT !.rotate = TRUE] \in Device
        BY Updates
      <4> QED
        BY ONLY <4>1, <4>2, <4>3
    <3>2. [f EXCEPT !.decoder = TRUE, !.pipe = TRUE, !.rotate = TRUE].changed = f.changed
      BY ONLY <1>2 DEF Device
    <3>3. Decoding(f) = [f EXCEPT !.decoder = TRUE, !.pipe = TRUE, !.rotate = TRUE]
      BY ONLY <2>2 DEF Decoding
    <3> QED
      BY ONLY <3>1, <3>2, <3>3
  <2>3. CASE f.type = "none"
    BY ONLY <1>2, <2>3 DEF Decoding
  <2> QED
    BY <1>2, <2>1, <2>2, <2>3 DEF Device
<1>4. Opened(c, cam) = IF f.disp THEN Decoding(f) ELSE f
  BY <1>1, <1>2 DEF Opened
<1>5. PICK z : z = Opened(c, cam) /\ z \in Device /\ z.changed = f.changed
  <2>1. PICK g : g = Decoding(f) /\ g \in Device /\ g.changed = f.changed
    BY ONLY <1>3
  <2> QED
    BY <1>2, <1>4, <2>1
<1> QED
  BY <1>1, <1>2, <1>5

\* Closing the camera takes its users and leaves the display's.
LEMMA ClosedSound ==
  ASSUME NEW c \in Device, Consistent(c)
  PROVE  Consistent(Closed(c))
  BY DEF Consistent, Closed, Device

\* Turning the display on leaves the camera and the transfer.
LEMMA ShowingSound ==
  ASSUME NEW c \in Device, Consistent(c)
  PROVE  Consistent(Showing(c)) /\ Showing(c).handle = c.handle
  BY DEF Consistent, Showing, Decoding, Device

\* Turning the display off takes its users and leaves the camera's.
LEMMA NotShowingSound ==
  ASSUME NEW c \in Device, Consistent(c)
  PROVE  Consistent(NotShowing(c)) /\ NotShowing(c).handle = c.handle
  BY DEF Consistent, NotShowing, NotDecoding, Device

\* Every step keeps the devices consistent.
LEMMA DeviceStep ==
  ASSUME MediaInv, [Next]_vars
  PROVE  DeviceInv'
<1>0. d \in Device /\ d' \in Device
  <2>1. TypeOK /\ TypeOK'
    BY TypeStep DEF MediaInv
  <2> QED
    BY <2>1 DEF TypeOK
<1>1. SUFFICES ASSUME d'.faults = 0, ~d'.changed
               PROVE  Consistent(d')
  BY DEF DeviceInv, Plain
<1>2. ASSUME d.faults = 0, ~d.changed
      PROVE  Consistent(d)
  BY <1>2 DEF MediaInv, DeviceInv, Plain
<1> USE <1>0, <1>1
<1>3. CASE \E cam \in Cameras, h264 \in BOOLEAN : CmdCameraOn(cam, h264)
  <2>1. PICK cam \in Cameras, h264 \in BOOLEAN : CmdCameraOn(cam, h264)
    BY <1>3
  <2>2. cam \in {"uvc", "dvp"}
    BY MediaAssumption
  <2>3. PICK o \in CameraTurnOn(d, cam, h264) : d' = o.d /\ cmd' = [at |-> "transfer_on", ok |-> o.ok]
    BY <2>1 DEF CmdCameraOn
  <2>4. /\ d.faults = 0
        /\ \/ d' = d
           \/ ~d.handle /\ d' = [Opened(d, cam) EXCEPT !.notify = TRUE]
    <3>1. /\ d.faults = 0
          /\ IF d.handle THEN o = [d |-> d, ok |-> TRUE]
             ELSE IF ~h264 THEN o = [d |-> d, ok |-> FALSE]
             ELSE o = [d |-> [Opened(d, cam) EXCEPT !.notify = TRUE], ok |-> TRUE]
      BY <2>2, <2>3, CameraOnPlain
    <3>2. PICK e : e = [Opened(d, cam) EXCEPT !.notify = TRUE]
      BY ONLY TRUE
    <3>3. CASE d.handle
      BY <2>3, <3>1, <3>3
    <3>4. CASE ~d.handle /\ ~h264
      BY <2>3, <3>1, <3>4
    <3>5. CASE ~d.handle /\ h264
      <4>1. o = [d |-> e, ok |-> TRUE]
        BY <3>1, <3>2, <3>5
      <4> QED
        BY <2>3, <3>1, <3>2, <3>5, <4>1
    <3> QED
      BY <3>3, <3>4, <3>5
  <2>6. CASE d' = d
    BY <1>2, <2>4, <2>6
  <2>7. CASE ~d.handle /\ d' = [Opened(d, cam) EXCEPT !.notify = TRUE]
    <3>1. d.type \in {"none", cam} /\ ~d.changed
      <4>1. d'.changed = Opened(d, cam).changed
        BY <2>2, <2>7, OpenedType DEF Device
      <4> QED
        BY <2>2, <4>1, OpenedType, Zenon
    <3>2. Consistent(Opened(d, cam)) /\ Opened(d, cam).handle
      BY <1>2, <2>2, <2>4, <2>7, <3>1, OpenedSound
    <3>3. PICK e : e = Opened(d, cam)
      BY ONLY TRUE
    <3>4. e \in Device
      BY <2>2, <3>3, OpenedType
    <3> QED
      BY <2>7, <3>2, <3>3, <3>4 DEF Consistent, Device
  <2> QED
    BY <2>4, <2>6, <2>7
<1>4. CASE TransferFault
  BY <1>4 DEF TransferFault, Device
<1>5. CASE TransferMoves
  BY <1>2, <1>5, MovesLeave
<1>7. CASE CmdCameraOff
  <2>1. d.faults = 0 /\ d' = IF d.handle THEN Closed(d) ELSE d
    BY <1>7, CameraOffPlain DEF CmdCameraOff
  <2>2. ~d.changed
    BY <2>1 DEF Closed, Device
  <2> QED
    BY <1>2, <2>1, <2>2, ClosedSound
<1>8. ASSUME \/ d' = [d EXCEPT !.audio = TRUE, !.voice = TRUE]
             \/ d' = [d EXCEPT !.audio = FALSE, !.voice = FALSE]
             \/ d' = d
      PROVE  Consistent(d')
  <2>1. CASE d' = d
    BY <1>2, <2>1
  <2>2. CASE d' = [d EXCEPT !.audio = TRUE, !.voice = TRUE]
    BY <1>2, <2>2 DEF Consistent, Device
  <2>3. CASE d' = [d EXCEPT !.audio = FALSE, !.voice = FALSE]
    BY <1>2, <2>3 DEF Consistent, Device
  <2> QED
    BY <1>8, <2>1, <2>2, <2>3
<1>9. CASE CmdAudioOn
  <2>1. PICK o \in AudioTurnOn(d) : d' = o.d
    BY <1>9 DEF CmdAudioOn, CmdDevice
  <2>2. d' = d \/ d' = [d EXCEPT !.audio = TRUE, !.voice = TRUE]
    <3>1. PICK e : e = [d EXCEPT !.audio = TRUE, !.voice = TRUE]
      BY ONLY TRUE
    <3>2. o = IF d.audio THEN [d |-> d, ok |-> FALSE] ELSE [d |-> e, ok |-> TRUE]
      BY <2>1, <3>1, AudioOnPlain
    <3> QED
      BY <2>1, <3>1, <3>2
  <2> QED
    BY <1>8, <1>9, <2>2 DEF CmdAudioOn, CmdDevice
<1>10. CASE CmdAudioOff
  <2>1. PICK o \in AudioTurnOff(d) : d' = o.d
    BY <1>10 DEF CmdAudioOff, CmdDevice
  <2>2. d' = d \/ d' = [d EXCEPT !.audio = FALSE, !.voice = FALSE]
    <3>1. PICK e : e = [d EXCEPT !.audio = FALSE, !.voice = FALSE]
      BY ONLY TRUE
    <3>2. o = IF d.audio THEN [d |-> e, ok |-> TRUE] ELSE [d |-> d, ok |-> FALSE]
      BY <2>1, <3>1, AudioOffPlain
    <3> QED
      BY <2>1, <3>1, <3>2
  <2> QED
    BY <1>8, <1>10, <2>2 DEF CmdAudioOff, CmdDevice
<1>11. CASE CoreAudioOff
  <2>1. PICK o \in AudioTurnOff(d) : d' = o.d
    BY <1>11 DEF CoreAudioOff
  <2>2. d' = d \/ d' = [d EXCEPT !.audio = FALSE, !.voice = FALSE]
    <3>1. PICK e : e = [d EXCEPT !.audio = FALSE, !.voice = FALSE]
      BY ONLY TRUE
    <3>2. o = IF d.audio THEN [d |-> e, ok |-> TRUE] ELSE [d |-> d, ok |-> FALSE]
      BY <2>1, <3>1, AudioOffPlain
    <3> QED
      BY <2>1, <3>1, <3>2
  <2> QED
    BY <1>8, <1>11, <2>2 DEF CoreAudioOff
<1>12. CASE CmdLcdOn
  <2>1. d.faults = 0 /\ d' = IF d.lcd THEN d ELSE Showing(d)
    BY <1>12, DisplayOnPlain DEF CmdLcdOn, CmdDevice
  <2>2. ~d.changed
    BY <2>1 DEF Showing, Decoding, Device
  <2> QED
    BY <1>2, <2>1, <2>2, ShowingSound
<1>13. CASE CmdLcdOff
  <2>1. d.faults = 0 /\ d' = IF d.lcd THEN NotShowing(d) ELSE d
    BY <1>13, DisplayOffPlain DEF CmdLcdOff, CmdDevice
  <2>2. ~d.changed
    BY <2>1 DEF NotShowing, NotDecoding, Device
  <2> QED
    BY <1>2, <2>1, <2>2, NotShowingSound
<1>14. CASE (\E ms \in Intervals : HeartbeatOn(ms)) \/ HeartbeatOff \/ UNCHANGED vars
  BY <1>8, <1>14 DEF HeartbeatOn, HeartbeatOff, vars
<1> QED
  BY <1>3, <1>4, <1>5, <1>7, <1>9, <1>10, <1>11, <1>12, <1>13, <1>14
     DEF Next, TransferMoves

\* Every step keeps the votes.
LEMMA VoteStep ==
  ASSUME MediaInv, [Next]_vars
  PROVE  VoteInv'
<1>a. (cmd.at \in {"clear", "wait"} => ~cmd.ok)'
  <2>1. cmd \in CmdAt /\ (cmd.at \in {"clear", "wait"} => ~cmd.ok)
    BY DEF MediaInv, VoteInv, TypeOK, CmdAt
  <2>2. CASE \E t \in Threads : StopClear(t)
    BY <2>1, <2>2 DEF StopClear, Goto, At, Threads, CmdAt
  <2>3. CASE \E t \in Threads : StopFree(t)
    BY <2>1, <2>3 DEF StopFree, Strand, At, Threads, CmdAt
  <2>4. CASE \E t \in Threads : StopUnregister(t)
    BY <2>1, <2>4 DEF StopUnregister, AfterStop, Goto, At, Threads, CmdAt
  <2>5. CASE TransferCreate
    BY <2>1, <2>5 DEF TransferCreate, CmdAt
  <2>6. CASE CmdTransferOff
    <3>1. ~cmd'.ok
      BY <2>6 DEF CmdTransferOff
    <3> QED
      BY <3>1
  <2>7. CASE TransferAlready \/ TransferFault \/ TransferStarted \/ CmdCameraOff
    <3>1. cmd' = [at |-> "idle", ok |-> FALSE]
      BY <2>7, Zenon
         DEF TransferAlready, TransferFault, TransferStarted, CmdOnDone, CmdCameraOff
    <3> QED
      BY <3>1
  <2>8. CASE \E cam \in Cameras, h264 \in BOOLEAN : CmdCameraOn(cam, h264)
    <3>1. cmd'.at = "transfer_on"
      BY <2>8 DEF CmdCameraOn
    <3> QED
      BY <3>1
  <2>9. CASE cmd' = cmd
    BY <2>1, <2>9
  <2> QED
    BY <2>2, <2>3, <2>4, <2>5, <2>6, <2>7, <2>8, <2>9 DEF Next, vars, TaskStarts, TaskEnds, CmdAudioOn,
       CmdAudioOff, CmdLcdOn, CmdLcdOff, CmdDevice, CoreDisconnected, CoreAudioOff,
       HeartbeatOn, HeartbeatOff
<1>0. /\ d \in Device /\ d' \in Device
      /\ cmd \in CmdAt
  <2>1. TypeOK /\ TypeOK'
    BY TypeStep DEF MediaInv
  <2> QED
    BY <2>1 DEF TypeOK, CmdAt
<1>1. SUFFICES ASSUME d'.faults = 0
               PROVE  /\ "lcd" \in votes' <=> d'.lcd
                      /\ d'.audio => "audio" \in votes'
                      /\ IF Opening(cmd') THEN d'.handle ELSE "camera" \in votes' <=> d'.handle
  BY <1>a DEF VoteInv, Opening
<1>2. ASSUME d.faults = 0
      PROVE  /\ "lcd" \in votes <=> d.lcd
             /\ d.audio => "audio" \in votes
             /\ IF Opening(cmd) THEN d.handle ELSE "camera" \in votes <=> d.handle
  BY <1>2 DEF MediaInv, VoteInv
<1> USE <1>0, <1>1
<1>3. CASE \E cam \in Cameras, h264 \in BOOLEAN : CmdCameraOn(cam, h264)
  <2>1. PICK cam \in Cameras, h264 \in BOOLEAN : CmdCameraOn(cam, h264)
    BY <1>3
  <2>2. cam \in {"uvc", "dvp"}
    BY MediaAssumption
  <2>3. PICK o \in CameraTurnOn(d, cam, h264) :
          d' = o.d /\ cmd' = [at |-> "transfer_on", ok |-> o.ok]
    BY <2>1 DEF CmdCameraOn
  <2>4. /\ d.faults = 0
        /\ IF d.handle THEN o = [d |-> d, ok |-> TRUE]
           ELSE IF ~h264 THEN o = [d |-> d, ok |-> FALSE]
           ELSE o = [d |-> [Opened(d, cam) EXCEPT !.notify = TRUE], ok |-> TRUE]
    BY <2>2, <2>3, CameraOnPlain
  <2>5. cmd.at = "idle" /\ votes' = votes
    BY <2>1 DEF CmdCameraOn
  <2>6. CASE d.handle
    BY <1>2, <2>3, <2>4, <2>5, <2>6 DEF Opening
  <2>7. CASE ~d.handle /\ ~h264
    BY <1>2, <2>3, <2>4, <2>5, <2>7 DEF Opening
  <2>8. CASE ~d.handle /\ h264
    <3>1. Opened(d, cam).handle /\ Opened(d, cam).lcd = d.lcd /\ Opened(d, cam).audio = d.audio
      <4>1. CASE cam = "uvc"
        BY <4>1 DEF Opened, Encoding, Typed, Decoding, Device
      <4>2. CASE cam = "dvp"
        BY <4>2 DEF Opened, Encoding, Typed, Decoding, Device
      <4> QED
        BY <2>2, <4>1, <4>2
    <3>2. PICK e : e = Opened(d, cam) /\ e \in Device /\ e.handle /\ e.lcd = d.lcd /\ e.audio = d.audio
      BY ONLY <1>0, <2>2, <3>1, OpenedType
    <3>3. d' = [e EXCEPT !.notify = TRUE] /\ o.ok
      <4>1. PICK z : z = [e EXCEPT !.notify = TRUE]
        BY ONLY TRUE
      <4>2. o = [d |-> z, ok |-> TRUE]
        BY <2>4, <2>8, <3>2, <4>1
      <4> QED
        BY <2>3, <4>1, <4>2
    <3>4. d'.handle /\ d'.lcd = d.lcd /\ d'.audio = d.audio
      BY <3>2, <3>3 DEF Device
    <3> QED
      BY <1>2, <2>3, <2>4, <2>5, <3>3, <3>4 DEF Opening
  <2> QED
    BY <2>6, <2>7, <2>8
<1>4. CASE TransferFault
  BY <1>4 DEF TransferFault, Device
<1>5. CASE TransferAlready \/ TransferStarted
  <2>1. /\ d' = d /\ cmd'.at = "idle" /\ cmd.at \in {"transfer_on", "start_wait"}
        /\ votes' = IF cmd.ok THEN votes \cup {"camera"} ELSE votes
    BY <1>5 DEF TransferAlready, TransferStarted, CmdOnDone, VoteIf, Vote
  <2> QED
    BY <1>2, <2>1 DEF Opening
<1>6. CASE \/ TransferCreate \/ TaskStarts \/ TaskEnds \/ CmdTransferOff
           \/ \E t \in Threads : StopClear(t) \/ StopFree(t) \/ StopUnregister(t)
           \/ \E image \in BOOLEAN : CoreDisconnected(image)
  <2>1. d' = d /\ votes' = votes
    BY <1>6 DEF TransferCreate, TaskStarts, TaskEnds, StopClear, StopFree,
       StopUnregister, CmdTransferOff, CoreDisconnected
  <2>2. Opening(cmd') = Opening(cmd)
    <3>0. cmd.at \in {"clear", "wait"} => ~cmd.ok
      BY DEF MediaInv, VoteInv
    <3>1. CASE TransferCreate
      BY <3>1 DEF TransferCreate, Opening, CmdAt
    <3>2. CASE \/ TaskStarts \/ TaskEnds
               \/ \E image \in BOOLEAN : CoreDisconnected(image)
      BY <3>2 DEF TaskStarts, TaskEnds, CoreDisconnected
    <3>3. CASE CmdTransferOff
      BY <3>3 DEF CmdTransferOff, Opening
    <3>4. CASE \E t \in Threads : StopClear(t)
      BY <3>0, <3>4 DEF StopClear, Goto, At, Threads, Opening, CmdAt
    <3>5. CASE \E t \in Threads : StopFree(t)
      BY <3>0, <3>5 DEF StopFree, Strand, At, Threads, Opening, CmdAt
    <3>6. CASE \E t \in Threads : StopUnregister(t)
      BY <3>6 DEF StopUnregister, AfterStop, Goto, At, Threads, Opening, CmdAt
    <3> QED
      BY <1>6, <3>1, <3>2, <3>3, <3>4, <3>5, <3>6
  <2> QED
    BY <1>2, <2>1, <2>2
<1>7. CASE CmdCameraOff
  <2>1. PICK o \in CameraTurnOff(d) : d' = o.d /\ VoteIf(o.ok, "camera", FALSE)
    BY <1>7 DEF CmdCameraOff
  <2>2. /\ d.faults = 0
        /\ o = [d |-> IF d.handle THEN Closed(d) ELSE d, ok |-> TRUE]
    BY <2>1, CameraOffPlain
  <2>3. d' = IF d.handle THEN Closed(d) ELSE d
    BY <2>1, <2>2
  <2>4. ~d'.handle /\ d'.lcd = d.lcd /\ d'.audio = d.audio
    BY <2>3 DEF Closed, Device
  <2>5. o.ok
    BY <2>2
  <2>6. votes' = votes \ {"camera"} /\ cmd'.at = "idle"
    BY <1>7, <2>1, <2>5 DEF CmdCameraOff, VoteIf, Vote
  <2> QED
    <3>1. cmd.at = "camera_off"
      BY <1>7 DEF CmdCameraOff
    <3> QED
      BY <1>2, <2>2, <2>4, <2>6, <3>1 DEF Opening
<1>8. CASE CmdAudioOn
  <2>1. PICK o \in AudioTurnOn(d) : d' = o.d /\ VoteIf(o.ok, "audio", TRUE)
    BY <1>8 DEF CmdAudioOn, CmdDevice
  <2>2. PICK e : e = [d EXCEPT !.audio = TRUE, !.voice = TRUE]
    BY ONLY TRUE
  <2>3. /\ d.faults = 0
        /\ o = IF d.audio THEN [d |-> d, ok |-> FALSE] ELSE [d |-> e, ok |-> TRUE]
    BY <2>1, <2>2, AudioOnPlain
  <2>4. /\ ~d.audio => o.ok /\ d' = e
        /\ d.audio => ~o.ok /\ d' = d
    BY <2>1, <2>3
  <2>5. e.handle = d.handle /\ e.lcd = d.lcd
    BY <2>2 DEF Device
  <2>6. cmd' = cmd /\ votes' = IF o.ok THEN votes \cup {"audio"} ELSE votes
    BY <1>8, <2>1 DEF CmdAudioOn, CmdDevice, VoteIf, Vote
  <2> QED
    BY <1>2, <2>3, <2>4, <2>5, <2>6
<1>9. ASSUME NEW o \in AudioTurnOff(d), d' = o.d
      PROVE  /\ d.faults = 0 /\ d'.handle = d.handle /\ d'.lcd = d.lcd /\ ~d'.audio
  <2>1. PICK e : e = [d EXCEPT !.audio = FALSE, !.voice = FALSE]
    BY ONLY TRUE
  <2>2. /\ d.faults = 0
        /\ o = IF d.audio THEN [d |-> e, ok |-> TRUE] ELSE [d |-> d, ok |-> FALSE]
    BY <1>9, <2>1, AudioOffPlain
  <2>3. e.handle = d.handle /\ e.lcd = d.lcd /\ ~e.audio
    BY <2>1 DEF Device
  <2> QED
    BY <1>9, <2>2, <2>3
<1>10. CASE CmdAudioOff
  <2>1. PICK o \in AudioTurnOff(d) : d' = o.d /\ VoteIf(o.ok, "audio", FALSE)
    BY <1>10 DEF CmdAudioOff, CmdDevice
  <2>2. cmd' = cmd /\ (votes' = votes \/ votes' = votes \ {"audio"})
    BY <1>10, <2>1 DEF CmdAudioOff, CmdDevice, VoteIf, Vote
  <2> QED
    BY <1>2, <1>9, <2>1, <2>2
<1>11. CASE CoreAudioOff
  BY <1>2, <1>9, <1>11 DEF CoreAudioOff
<1>12. CASE CmdLcdOn
  <2>1. PICK o \in DisplayTurnOn(d) : d' = o.d /\ VoteIf(o.ok, "lcd", TRUE)
    BY <1>12 DEF CmdLcdOn, CmdDevice
  <2>2. /\ d.faults = 0
        /\ o = IF d.lcd THEN [d |-> d, ok |-> FALSE] ELSE [d |-> Showing(d), ok |-> TRUE]
    BY <2>1, DisplayOnPlain
  <2>3. Showing(d).handle = d.handle /\ Showing(d).lcd /\ Showing(d).audio = d.audio
    BY DEF Showing, Decoding, Device
  <2>4. /\ ~d.lcd => o.ok /\ d' = Showing(d)
        /\ d.lcd => ~o.ok /\ d' = d
    BY <2>1, <2>2
  <2>5. cmd' = cmd /\ votes' = IF o.ok THEN votes \cup {"lcd"} ELSE votes
    BY <1>12, <2>1 DEF CmdLcdOn, CmdDevice, VoteIf, Vote
  <2> QED
    BY <1>2, <2>2, <2>3, <2>4, <2>5
<1>13. CASE CmdLcdOff
  <2>1. PICK o \in DisplayTurnOff(d) : d' = o.d /\ VoteIf(o.ok, "lcd", FALSE)
    BY <1>13 DEF CmdLcdOff, CmdDevice
  <2>2. /\ d.faults = 0
        /\ o = IF d.lcd THEN [d |-> NotShowing(d), ok |-> TRUE] ELSE [d |-> d, ok |-> FALSE]
    BY <2>1, DisplayOffPlain
  <2>3. /\ NotShowing(d).handle = d.handle /\ ~NotShowing(d).lcd
        /\ NotShowing(d).audio = d.audio
    BY DEF NotShowing, NotDecoding, Device
  <2>4. /\ d.lcd => o.ok /\ d' = NotShowing(d)
        /\ ~d.lcd => ~o.ok /\ d' = d
    BY <2>1, <2>2
  <2>5. cmd' = cmd /\ votes' = IF o.ok THEN votes \ {"lcd"} ELSE votes
    BY <1>13, <2>1 DEF CmdLcdOff, CmdDevice, VoteIf, Vote
  <2> QED
    BY <1>2, <2>2, <2>3, <2>4, <2>5
<1>14. CASE (\E ms \in Intervals : HeartbeatOn(ms)) \/ HeartbeatOff \/ UNCHANGED vars
  BY <1>2, <1>14 DEF HeartbeatOn, HeartbeatOff, vars
<1> QED
  BY <1>3, <1>4, <1>5, <1>6, <1>7, <1>8, <1>10, <1>11, <1>12, <1>13, <1>14 DEF Next

\* Every step keeps the transfer.
LEMMA TransferStep ==
  ASSUME MediaInv, [Next]_vars
  PROVE  TransferInv'
<1>0. /\ d \in Device /\ d' \in Device /\ trans \in Transfer
      /\ cmd \in CmdAt /\ core \in CoreAt
  <2>1. TypeOK /\ TypeOK'
    BY TypeStep DEF MediaInv
  <2> QED
    BY <2>1 DEF TypeOK, CmdAt, CoreAt
<1> DEFINE Inv(h, x, c, k) ==
             /\ ~h \/ c = "camera_off" => ~x.sender
             /\ ~h \/ c \in {"unreg", "camera_off"} => (x.cfg => k = "wait" /\ ~x.enable)
             /\ x.cfg /\ ~x.enable => k = "wait" \/ c = "wait" \/ x.task = "new"
             /\ x.task = "new" => c = "start_wait" /\ h /\ ~x.token
<1>1. SUFFICES ASSUME d'.faults = 0
               PROVE  Inv(d'.handle, trans', cmd'.at, core'.at)
  BY DEF TransferInv, Stopped
<1>2. ASSUME d.faults = 0
      PROVE  Inv(d.handle, trans, cmd.at, core.at)
  BY <1>2 DEF MediaInv, TransferInv, Stopped
<1> USE <1>0, <1>1
<1>3. CASE \E cam \in Cameras, h264 \in BOOLEAN : CmdCameraOn(cam, h264)
  <2>1. PICK cam \in Cameras, h264 \in BOOLEAN : CmdCameraOn(cam, h264)
    BY <1>3
  <2>2. cam \in {"uvc", "dvp"}
    BY MediaAssumption
  <2>3. PICK o \in CameraTurnOn(d, cam, h264) : d' = o.d
    BY <2>1 DEF CmdCameraOn
  <2>4. d.faults = 0 /\ (d.handle => o = [d |-> d, ok |-> TRUE])
    BY <2>2, <2>3, CameraOnPlain
  <2>5. d.handle => d'.handle
    BY <2>3, <2>4
  <2>6. /\ cmd.at = "idle" /\ cmd'.at = "transfer_on"
        /\ trans' = trans /\ core' = core
    BY <2>1 DEF CmdCameraOn
  <2> QED
    BY <1>2, <2>4, <2>5, <2>6
<1>4. CASE TransferFault
  BY <1>4 DEF TransferFault, Device
<1>5. ASSUME TransferMoves
      PROVE  d' = d /\ Inv(d.handle, trans, cmd.at, core.at)
  BY <1>2, <1>5, MovesLeave
<1>6. CASE TransferAlready
  BY <1>5, <1>6 DEF TransferMoves, TransferAlready, CmdOnDone, Transfer
<1>7. CASE TransferCreate
  BY <1>5, <1>7 DEF TransferMoves, TransferCreate, NoTransfer, CmdAt
<1>8. CASE TransferStarted
  BY <1>5, <1>8 DEF TransferMoves, TransferStarted, CmdOnDone, Transfer
<1>9. CASE TaskStarts
  BY <1>5, <1>9 DEF TransferMoves, TaskStarts, Transfer
<1>10. CASE TaskEnds
  BY <1>5, <1>10 DEF TransferMoves, TaskEnds, Transfer
<1>11. CASE \E t \in Threads : StopClear(t)
  BY <1>5, <1>11 DEF TransferMoves, StopClear, Goto, At, Threads, Transfer, CmdAt, CoreAt
<1>12. CASE \E t \in Threads : StopFree(t)
  BY <1>5, <1>12 DEF TransferMoves, StopFree, Strand, At, Threads, NoTransfer, Transfer,
     CmdAt, CoreAt
<1>13. CASE \E t \in Threads : StopUnregister(t)
  BY <1>5, <1>13 DEF TransferMoves, StopUnregister, AfterStop, Goto, At, Threads, Transfer,
     CmdAt, CoreAt
<1>14. CASE CmdTransferOff
  BY <1>5, <1>14 DEF TransferMoves, CmdTransferOff, StopChecked, AfterStop
<1>15. CASE \E image \in BOOLEAN : CoreDisconnected(image)
  BY <1>5, <1>15 DEF TransferMoves, CoreDisconnected, StopChecked, AfterStop
<1>16. CASE CmdCameraOff
  <2>1. d.faults = 0
    BY <1>16, CameraOffPlain DEF CmdCameraOff
  <2> QED
    BY <1>2, <1>16, <2>1 DEF CmdCameraOff
<1>17. ASSUME d.faults = 0, d'.handle = d.handle, trans' = trans, cmd' = cmd,
              core'.at = core.at \/ core.at = "audio_off"
       PROVE  Inv(d'.handle, trans', cmd'.at, core'.at)
  BY <1>2, <1>17
<1>18. CASE CmdAudioOn
  <2>1. PICK o \in AudioTurnOn(d) : d' = o.d
    BY <1>18 DEF CmdAudioOn, CmdDevice
  <2>2. PICK e : e = [d EXCEPT !.audio = TRUE, !.voice = TRUE]
    BY ONLY TRUE
  <2>3. /\ d.faults = 0
        /\ o = IF d.audio THEN [d |-> d, ok |-> FALSE] ELSE [d |-> e, ok |-> TRUE]
    BY <2>1, <2>2, AudioOnPlain
  <2>4. e.handle = d.handle
    BY <2>2 DEF Device
  <2>5. d'.handle = d.handle
    BY <2>1, <2>3, <2>4
  <2> QED
    BY <1>17, <1>18, <2>3, <2>5 DEF CmdAudioOn, CmdDevice
<1>19. ASSUME NEW o \in AudioTurnOff(d), d' = o.d
       PROVE  d.faults = 0 /\ d'.handle = d.handle
  <2>1. PICK e : e = [d EXCEPT !.audio = FALSE, !.voice = FALSE]
    BY ONLY TRUE
  <2>2. /\ d.faults = 0
        /\ o = IF d.audio THEN [d |-> e, ok |-> TRUE] ELSE [d |-> d, ok |-> FALSE]
    BY <1>19, <2>1, AudioOffPlain
  <2>3. e.handle = d.handle
    BY <2>1 DEF Device
  <2> QED
    BY <1>19, <2>2, <2>3
<1>20. CASE CmdAudioOff \/ CoreAudioOff
  BY <1>17, <1>19, <1>20 DEF CmdAudioOff, CmdDevice, CoreAudioOff
<1>21. CASE CmdLcdOn
  <2>1. d.faults = 0 /\ d' = IF d.lcd THEN d ELSE Showing(d)
    BY <1>21, DisplayOnPlain DEF CmdLcdOn, CmdDevice
  <2>2. d'.handle = d.handle
    BY <2>1 DEF Showing, Decoding, Device
  <2> QED
    BY <1>17, <1>21, <2>1, <2>2 DEF CmdLcdOn, CmdDevice
<1>22. CASE CmdLcdOff
  <2>1. d.faults = 0 /\ d' = IF d.lcd THEN NotShowing(d) ELSE d
    BY <1>22, DisplayOffPlain DEF CmdLcdOff, CmdDevice
  <2>2. d'.handle = d.handle
    BY <2>1 DEF NotShowing, NotDecoding, Device
  <2> QED
    BY <1>17, <1>22, <2>1, <2>2 DEF CmdLcdOff, CmdDevice
<1>23. CASE (\E ms \in Intervals : HeartbeatOn(ms)) \/ HeartbeatOff \/ UNCHANGED vars
  BY <1>17, <1>23 DEF HeartbeatOn, HeartbeatOff, vars
<1> QED
  BY <1>3, <1>4, <1>6, <1>7, <1>8, <1>9, <1>10, <1>11, <1>12, <1>13, <1>14, <1>15, <1>16,
     <1>18, <1>20, <1>21, <1>22, <1>23 DEF Next

-----------------------------------------------------------------------------
(* The theorems.                                                           *)

\* The inductive invariant holds.
THEOREM MediaInvariance == Spec => []MediaInv
<1>1. Init => MediaInv
  <2> SUFFICES ASSUME Init PROVE MediaInv
    OBVIOUS
  <2>1. TypeOK
    BY MediaAssumption DEF Init, TypeOK, Device, Transfer, NoTransfer, Stopping
  <2>2. BeatInv
    BY MediaAssumption DEF Init, BeatInv, BeatSound
  <2>3. VoteInv /\ DeviceInv /\ TransferInv
    BY DEF Init, VoteInv, Opening, DeviceInv, Consistent, TransferInv, Stopped, NoTransfer
  <2> QED
    BY <2>1, <2>2, <2>3 DEF MediaInv
<1>2. MediaInv /\ [Next]_vars => MediaInv'
  BY TypeStep, BeatStep, VoteStep, DeviceStep, TransferStep DEF MediaInv
<1> QED
  BY <1>1, <1>2, PTL DEF Spec

\* The encoder and the decoder of an open camera keep their consumer of the
\* MJPEG queue, whatever doorbell_display_turn_off unregisters.
THEOREM EncoderIsFed == Spec => []EncoderFed
<1>1. MediaInv => EncoderFed
  BY DEF MediaInv, DeviceInv, Consistent, EncoderFed
<1> QED
  BY <1>1, MediaInvariance, PTL

\* Neither the rotating pipeline nor the YUV display task outlives the display
\* they flush to.
THEOREM UsersStopWithDisplay == Spec => []DisplayUsersStopped
<1>1. MediaInv => DisplayUsersStopped
  BY DEF MediaInv, DeviceInv, Consistent, DisplayUsersStopped
<1> QED
  BY <1>1, MediaInvariance, PTL

\* In whichever order camera, transfer and display are turned on and off, and
\* wherever a lost connection strikes between the steps of their stops: nothing
\* is left when camera and display are off, but the configuration that the core
\* thread is waiting to free, disabled and without its consumer.
THEOREM AllIsReleased == Spec => []AllReleased
<1>1. MediaInv => AllReleased
  <2> SUFFICES ASSUME MediaInv, Plain, ~d.handle, ~d.lcd
               PROVE  /\ ~d.decoder /\ ~d.h264e /\ ~d.rotate /\ ~d.yuv /\ ~d.ldo
                      /\ ~trans.sender
                      /\ trans.cfg => core.at = "wait" /\ ~trans.enable
    BY DEF AllReleased
  <2>1. ~d.decoder /\ ~d.h264e /\ ~d.rotate /\ ~d.yuv /\ ~d.ldo
    BY DEF MediaInv, DeviceInv, Consistent
  <2>2. ~trans.sender /\ (trans.cfg => core.at = "wait" /\ ~trans.enable)
    BY DEF MediaInv, TransferInv, Stopped, Plain
  <2> QED
    BY <2>1, <2>2
<1> QED
  BY <1>1, MediaInvariance, PTL

\* doorbell_keep_alive_start_timer never leaves two timers running, and none
\* runs once db_cmd_info is gone.
THEOREM HeartbeatIsOne == Spec => []OneHeartbeat
<1>1. MediaInv => OneHeartbeat
  <2> SUFFICES ASSUME MediaInv, beat.faults = 0
               PROVE  beat.running <= (IF beat.info THEN 1 ELSE 0)
    BY DEF OneHeartbeat
  <2> QED
    BY DEF MediaInv, BeatInv, BeatSound
<1> QED
  BY <1>1, MediaInvariance, PTL

\* mm_service_status has the bits of what is in use: the AP is not powered
\* down under an open camera, display or voice.
THEOREM VotesAreExact == Spec => []VotesMatch
<1>1. MediaInv => VotesMatch
  BY DEF MediaInv, VoteInv, Opening, VotesMatch
<1> QED
  BY <1>1, MediaInvariance, PTL

=============================================================================
