-------------------------------- MODULE Uvc --------------------------------
(***************************************************************************)
(* Turning the USB camera on and off: power, the wait for the hub to       *)
(* report the device, the choice of a mode the camera offers, and the      *)
(* controller.  The hub, which the device may leave and join at any time,  *)
(* and the camera controller are external.                                 *)
(***************************************************************************)
EXTENDS Naturals, Functions

CONSTANTS
  Sizes, Rates,   \* resolutions and frame rates of camera and phone
  Rate,           \* the rate of BK_UVC_864X480_30FPS_MJPEG_CONFIG
  MaxModes,       \* bound: modes the camera lists
  MaxRates,       \* bound: rates listed for a mode
  MaxPlugs,       \* bound: times the device joins the hub
  MaxFaults       \* bound: calls that fail

ASSUME UvcAssumption ==
  /\ Rates \subseteq Nat \ {0} /\ Rate \in Rates
  /\ {MaxModes, MaxRates, MaxPlugs, MaxFaults} \subseteq Nat

Unknown == 0             \* fps[0] of a mode that lists no rate
Mode == [size : Sizes, fps : UNION {[1..n -> Rates] : n \in 0..MaxRates}]
Camera == UNION {[1..n -> Mode] : n \in 0..MaxModes}

VARIABLES
  camera,   \* the modes of the attached camera (usb_device_param)
  at,       \* the calling thread: where it is in uvc_camera_turn_on
  size,     \* parameters->width, height
  fps,      \* user_config->fps
  scan,     \* uvc_check_mjpeg_config: index, resolution_flag, fps_flag
  power,    \* the port is powered
  plugged,  \* the hub has the device
  sem,      \* uvc_connect_sem: whether it exists, and its tokens
  cb,       \* uvc_connect_successful_callback is registered
  handle,   \* the controller: "none", "open", "closed" (not yet deleted)
  used      \* the bounds used up

hub == <<power, plugged, cb>>
vars == <<camera, at, size, fps, scan, hub, sem, handle, used>>

NoSem == [made |-> FALSE, count |-> 0]
NoScan == [index |-> 1, found |-> FALSE, rate |-> FALSE]

Init ==
  /\ camera \in Camera /\ size \in Sizes /\ fps = Rate
  /\ at = "idle" /\ scan = NoScan
  /\ power = FALSE /\ plugged = FALSE /\ sem = NoSem /\ cb = FALSE
  /\ handle = "none" /\ used = [plugs |-> 0, faults |-> 0]

Fault == used.faults < MaxFaults /\ used' = [used EXCEPT !.faults = @ + 1]

-----------------------------------------------------------------------------
(* uvc_camera_power_on.                                                    *)
TurnOn(s) ==
  /\ at = "idle" /\ handle = "none"
  /\ size' = s /\ fps' = Rate
  /\ \/ at' = "check" /\ sem' = [made |-> TRUE, count |-> 0] /\ cb' = TRUE /\ power' = TRUE
        /\ UNCHANGED <<plugged, used>>
     \/ Fault /\ at' = "exit" /\ UNCHANGED <<sem, hub>>      \* no semaphore
  /\ UNCHANGED <<camera, scan, handle>>

PortCheck ==
  /\ at = "check"
  /\ IF plugged THEN at' = "config" /\ sem' = NoSem
     ELSE at' = "wait" /\ UNCHANGED sem
  /\ UNCHANGED <<camera, size, fps, scan, hub, handle, used>>

WaitConnected ==
  /\ at = "wait" /\ sem.count > 0 /\ at' = "config" /\ sem' = NoSem
  /\ UNCHANGED <<camera, size, fps, scan, hub, handle, used>>

WaitTimeout ==
  /\ at = "wait" /\ sem.count = 0 /\ at' = "exit" /\ sem' = NoSem
  /\ UNCHANGED <<camera, size, fps, scan, hub, handle, used>>

(* uvc_checkout_port_info, for the MJPEG format that turn_on asks for.     *)
Checkout ==
  /\ at = "config"
  /\ IF plugged THEN at' = "scan" /\ scan' = NoScan ELSE at' = "exit" /\ UNCHANGED scan
  /\ UNCHANGED <<camera, size, fps, hub, sem, handle, used>>

FirstRate(mode) == IF 1 \in DOMAIN mode.fps THEN mode.fps[1] ELSE Unknown

\* Mutant: the rate is adapted to the first one of every mode.
ScanModeFirst ==
  /\ at = "scan" /\ ~scan.found /\ scan.index \in DOMAIN camera
  /\ LET found == camera[scan.index].size = size IN
       scan' = [index |-> scan.index + 1, found |-> found, rate |-> found]
  /\ fps' = FirstRate(camera[scan.index])
  /\ UNCHANGED <<camera, at, size, hub, sem, handle, used>>
(* uvc_check_mjpeg_config: an iteration of its loop over the modes of the  *)
(* camera, which ends at the first mode of the wanted size.                *)
ScanMode ==
  /\ at = "scan" /\ ~scan.found /\ scan.index \in DOMAIN camera
  /\ LET mode == camera[scan.index]
         found == mode.size = size
         rate == found /\ \E i \in DOMAIN mode.fps : mode.fps[i] = fps
     IN /\ scan' = [index |-> scan.index + 1, found |-> found, rate |-> found]
        /\ fps' = IF found /\ ~rate THEN FirstRate(mode) ELSE fps
  /\ UNCHANGED <<camera, at, size, hub, sem, handle, used>>

ScanEnd ==
  /\ at = "scan" /\ (scan.found \/ scan.index \notin DOMAIN camera)
  /\ at' = IF scan.found /\ scan.rate THEN "new" ELSE "exit"
  /\ UNCHANGED <<camera, size, fps, scan, hub, sem, handle, used>>

(* bk_camera_uvc_ctlr_new and bk_camera_open.                              *)
New ==
  /\ at = "new"
  /\ \/ at' = "idle" /\ handle' = "open" /\ UNCHANGED used
     \/ Fault /\ at' = "exit" /\ UNCHANGED handle
  /\ UNCHANGED <<camera, size, fps, scan, hub, sem>>

(* uvc_camera_power_off.                                                   *)
PowerOff == power' = FALSE /\ plugged' = FALSE /\ cb' = FALSE

\* Mutant: a failure leaves without power_off.
ExitPowered ==
  /\ at = "exit" /\ at' = "idle"
  /\ UNCHANGED <<camera, size, fps, scan, hub, sem, handle, used>>
Exit ==
  /\ at = "exit" /\ PowerOff /\ at' = "idle"
  /\ UNCHANGED <<camera, size, fps, scan, sem, handle, used>>

(* uvc_camera_turn_off: a failing close or delete keeps handle and power.  *)
TurnOff ==
  /\ at = "idle" /\ handle # "none"
  /\ \/ handle' = "none" /\ PowerOff /\ UNCHANGED used
     \/ Fault /\ handle' \in {handle, "closed"} /\ UNCHANGED hub
  /\ UNCHANGED <<camera, at, size, fps, scan, sem>>

-----------------------------------------------------------------------------
(* The device joins the hub: uvc_connect_successful_callback.  After       *)
(* power_on has returned, the semaphore it signals no longer exists.       *)
Connect ==
  /\ power /\ ~plugged /\ used.plugs < MaxPlugs
  /\ plugged' = TRUE /\ used' = [used EXCEPT !.plugs = @ + 1]
  /\ sem' = IF cb /\ sem.made THEN [sem EXCEPT !.count = 1] ELSE sem
  /\ UNCHANGED <<camera, at, size, fps, scan, power, cb, handle>>

(* It leaves: uvc_event_callback only resets the decoder.                  *)
Disconnect ==
  /\ plugged /\ plugged' = FALSE
  /\ UNCHANGED <<camera, at, size, fps, scan, power, cb, sem, handle, used>>

Thread ==
  \/ PortCheck \/ WaitConnected \/ WaitTimeout
  \/ Checkout \/ ScanMode \/ ScanEnd \/ New \/ Exit
Next == (\E s \in Sizes : TurnOn(s)) \/ Thread \/ TurnOff \/ Connect \/ Disconnect

Spec == Init /\ [][Next]_vars

-----------------------------------------------------------------------------
(* Every variable has its type. *)
TypeOK ==
  /\ camera \in Camera /\ size \in Sizes /\ fps \in Rates \cup {Unknown}
  /\ at \in {"idle", "check", "wait", "config", "scan", "new", "exit"}
  /\ scan \in [index : 1..MaxModes + 1, found : BOOLEAN, rate : BOOLEAN]
  /\ {power, plugged, cb} \subseteq BOOLEAN /\ sem \in [made : BOOLEAN, count : {0, 1}]
  /\ handle \in {"none", "open", "closed"}
  /\ used \in [plugs : 0..MaxPlugs, faults : 0..MaxFaults]

(* Whatever fails and whenever the device comes and goes, the port is      *)
(* powered exactly while the caller has a camera to turn off again.        *)
PowerMatchesHandle == at = "idle" => (power <=> handle # "none")

(* The camera is opened only with a size it lists, at a rate listed for    *)
(* that size (if any is), and at the wanted rate when the first mode of    *)
(* that size has it.                                                       *)
Fitting == {i \in DOMAIN camera : camera[i].size = size}
ModeOffered ==
  at = "new" \/ handle # "none" =>
    \E i \in Fitting :
      /\ \A j \in Fitting : i <= j
      /\ camera[i].fps # <<>> => fps \in Range(camera[i].fps)
      /\ Rate \in Range(camera[i].fps) => fps = Rate

=============================================================================
