----------------------------- MODULE UvcProofs -----------------------------
(***************************************************************************)
(* Proofs about turning the USB camera on and off, for every camera, every *)
(* number of faults and every way the device joins and leaves the hub.     *)
(***************************************************************************)
EXTENDS Uvc, SequenceTheorems, TLAPS

-----------------------------------------------------------------------------
(* The inductive invariant.                                                *)

(* The port is powered while a camera is being turned on, which is when no *)
(* other one is there.                                                     *)
PowerInv ==
  /\ at # "idle" => handle = "none"
  /\ at \in {"check", "wait", "config", "scan", "new"} => power
  /\ PowerMatchesHandle

(* Mode i is the first one of the wanted size, and fps fits it.            *)
Chosen(i) ==
  /\ i \in DOMAIN camera /\ camera[i].size = size
  /\ \A j \in DOMAIN camera : camera[j].size = size => i <= j
  /\ 1 \in DOMAIN camera[i].fps => fps \in Range(camera[i].fps)
  /\ Rate \in Range(camera[i].fps) => fps = Rate

(* The loop has passed no mode of the wanted size until it finds one, and  *)
(* has left the rate alone.                                                *)
ScanInv ==
  /\ at \in {"check", "wait", "config"} => fps = Rate
  /\ at = "scan" =>
       IF scan.found THEN \E i \in DOMAIN camera : Chosen(i)
       ELSE /\ fps = Rate
            /\ \A j \in DOMAIN camera : j < scan.index => camera[j].size # size
  /\ at = "new" \/ handle # "none" => \E i \in DOMAIN camera : Chosen(i)

UvcInv == TypeOK /\ PowerInv /\ ScanInv

-----------------------------------------------------------------------------
(* The modes of a camera.                                                  *)

\* A camera is a list of modes.
LEMMA CameraType ==
  ASSUME NEW c \in Camera
  PROVE  \E n \in 0..MaxModes : c \in [1..n -> Mode]
  BY DEF Camera

\* So are the rates of a mode.
LEMMA ModeType ==
  ASSUME NEW m \in Mode
  PROVE  \E n \in 0..MaxRates : m.fps \in [1..n -> Rates]
  BY DEF Mode

\* fps[0] of a mode is one of its rates when it lists any.
LEMMA FirstRateListed ==
  ASSUME NEW m \in Mode
  PROVE  /\ 1 \in DOMAIN m.fps => FirstRate(m) \in Range(m.fps)
         /\ FirstRate(m) \in Rates \cup {Unknown}
<1>1. PICK n \in 0..MaxRates : m.fps \in [1..n -> Rates]
  BY ModeType
<1> QED
  BY <1>1 DEF FirstRate, Range

\* A mode without a first rate lists none.
LEMMA NoRate ==
  ASSUME NEW m \in Mode, m.fps # <<>>
  PROVE  1 \in DOMAIN m.fps
<1>1. PICK n \in 0..MaxRates : m.fps \in [1..n -> Rates]
  BY ModeType
<1>2. n \in Nat
  BY <1>1, UvcAssumption
<1>3. m.fps \in Seq(Rates)
  BY <1>1, <1>2
<1>4. Len(m.fps) \in Nat \ {0}
  BY <1>3, EmptySeq
<1> QED
  BY <1>3, <1>4
-----------------------------------------------------------------------------
(* The steps of the system.                                                *)

\* Every step keeps the types.
LEMMA TypeStep ==
  ASSUME TypeOK, [Next]_vars
  PROVE  TypeOK'
<1>0. {MaxModes, MaxRates, MaxPlugs, MaxFaults} \subseteq Nat /\ Rate \in Rates
  BY UvcAssumption
<1>1. CASE \E s \in Sizes : TurnOn(s)
  <2>1. PICK s \in Sizes : TurnOn(s)
    BY <1>1
  <2>2. used' \in [plugs : 0..MaxPlugs, faults : 0..MaxFaults]
    BY <1>0, <2>1 DEF TurnOn, Fault, TypeOK
  <2>3. {power, plugged, cb}' \subseteq BOOLEAN
    BY <2>1 DEF TurnOn, TypeOK, hub
  <2>4. sem' \in [made : BOOLEAN, count : {0, 1}]
    <3>1. [made |-> TRUE, count |-> 0] \in [made : BOOLEAN, count : {0, 1}]
      OBVIOUS
    <3>2. sem' = [made |-> TRUE, count |-> 0] \/ sem' = sem
      BY <2>1 DEF TurnOn
    <3> QED
      BY <3>1, <3>2 DEF TypeOK
  <2> QED
    BY <1>0, <2>1, <2>2, <2>3, <2>4 DEF TurnOn, TypeOK
<1>2. CASE PortCheck \/ WaitConnected \/ WaitTimeout
  <2>1. sem' \in [made : BOOLEAN, count : {0, 1}]
    <3>1. NoSem \in [made : BOOLEAN, count : {0, 1}]
      BY DEF NoSem
    <3>2. sem' = NoSem \/ sem' = sem
      BY <1>2 DEF PortCheck, WaitConnected, WaitTimeout
    <3> QED
      BY <3>1, <3>2 DEF TypeOK
  <2>2. at' \in {"config", "wait", "exit"}
    BY <1>2 DEF PortCheck, WaitConnected, WaitTimeout
  <2>3. UNCHANGED <<camera, size, fps, scan, power, plugged, cb, handle, used>>
    BY <1>2 DEF PortCheck, WaitConnected, WaitTimeout, hub
  <2> QED
    BY <2>1, <2>2, <2>3 DEF TypeOK
<1>3. CASE Checkout
  <2>1. scan' \in [index : 1..MaxModes + 1, found : BOOLEAN, rate : BOOLEAN]
    <3>1. NoScan \in [index : 1..MaxModes + 1, found : BOOLEAN, rate : BOOLEAN]
      BY <1>0 DEF NoScan
    <3>2. scan' = NoScan \/ scan' = scan
      BY <1>3 DEF Checkout
    <3> QED
      BY <3>1, <3>2 DEF TypeOK
  <2> QED
    BY <1>3, <2>1 DEF Checkout, TypeOK, hub
<1>4. CASE ScanMode
  <2>1. PICK n \in 0..MaxModes : camera \in [1..n -> Mode]
    BY CameraType DEF TypeOK
  <2>2. camera[scan.index] \in Mode
    BY <1>4, <2>1 DEF ScanMode
  <2>3. fps' \in Rates \cup {Unknown}
    BY <1>4, <2>2, FirstRateListed DEF ScanMode, TypeOK
  <2>4. scan' \in [index : 1..MaxModes + 1, found : BOOLEAN, rate : BOOLEAN]
    <3>1. scan.index + 1 \in 1..MaxModes + 1
      BY <1>0, <1>4, <2>1 DEF ScanMode, TypeOK
    <3>2. PICK b \in BOOLEAN : b = (camera[scan.index].size = size)
      OBVIOUS
    <3>3. scan' = [index |-> scan.index + 1, found |-> b, rate |-> b]
      BY <1>4, <3>2 DEF ScanMode
    <3> QED
      BY <3>1, <3>3
  <2> QED
    BY <1>4, <2>3, <2>4 DEF ScanMode, TypeOK, hub
<1>5. CASE ScanEnd
  BY <1>5 DEF ScanEnd, TypeOK, hub
<1>6. CASE New
  <2>1. used' \in [plugs : 0..MaxPlugs, faults : 0..MaxFaults]
    BY <1>0, <1>6 DEF New, Fault, TypeOK
  <2> QED
    BY <1>6, <2>1 DEF New, TypeOK, hub
<1>7. CASE Exit
  BY <1>7 DEF Exit, PowerOff, TypeOK
<1>8. CASE TurnOff
  <2>1. used' \in [plugs : 0..MaxPlugs, faults : 0..MaxFaults]
    BY <1>0, <1>8 DEF TurnOff, Fault, TypeOK
  <2>2. {power, plugged, cb}' \subseteq BOOLEAN
    BY <1>8 DEF TurnOff, PowerOff, TypeOK, hub
  <2>3. handle' \in {"none", "open", "closed"}
    BY <1>8 DEF TurnOff, TypeOK
  <2> QED
    BY <1>8, <2>1, <2>2, <2>3 DEF TurnOff, TypeOK
<1>9. CASE Connect
  <2>1. used' \in [plugs : 0..MaxPlugs, faults : 0..MaxFaults]
    BY <1>0, <1>9 DEF Connect, TypeOK
  <2>2. sem' \in [made : BOOLEAN, count : {0, 1}]
    BY <1>9 DEF Connect, TypeOK
  <2> QED
    BY <1>9, <2>1, <2>2 DEF Connect, TypeOK
<1>10. CASE Disconnect
  BY <1>10 DEF Disconnect, TypeOK
<1>11. CASE UNCHANGED vars
  BY <1>11 DEF vars, hub, TypeOK
<1> QED
  BY <1>1, <1>2, <1>3, <1>4, <1>5, <1>6, <1>7, <1>8, <1>9, <1>10, <1>11
  DEF Next, Thread

\* Every step keeps power and handle together.
LEMMA PowerStep ==
  ASSUME TypeOK, PowerInv, [Next]_vars
  PROVE  PowerInv'
<1> USE DEF PowerInv, PowerMatchesHandle
<1>1. CASE \E s \in Sizes : TurnOn(s)
  BY <1>1 DEF TurnOn, hub
<1>2. CASE PortCheck
  BY <1>2 DEF PortCheck, hub
<1>3. CASE WaitConnected
  BY <1>3 DEF WaitConnected, hub
<1>4. CASE WaitTimeout
  BY <1>4 DEF WaitTimeout, hub
<1>5. CASE Checkout
  BY <1>5 DEF Checkout, hub
<1>6. CASE ScanMode
  BY <1>6 DEF ScanMode, hub
<1>7. CASE ScanEnd
  BY <1>7 DEF ScanEnd, hub
<1>8. CASE New
  BY <1>8 DEF New, hub
<1>9. CASE Exit
  BY <1>9 DEF Exit, hub, PowerOff
<1>10. CASE TurnOff
  BY <1>10 DEF TurnOff, hub, PowerOff
<1>11. CASE Connect
  BY <1>11 DEF Connect, hub
<1>12. CASE Disconnect
  BY <1>12 DEF Disconnect, hub
<1>13. CASE UNCHANGED vars
  BY <1>13 DEF vars, hub
<1> QED
  BY <1>1, <1>2, <1>3, <1>4, <1>5, <1>6, <1>7, <1>8, <1>9, <1>10, <1>11, <1>12, <1>13
  DEF Next, Thread

\* Every step keeps what the loop knows of the modes.
LEMMA ScanStep ==
  ASSUME TypeOK, PowerInv, ScanInv, [Next]_vars
  PROVE  ScanInv'
<1>0. /\ camera' = camera
      /\ UNCHANGED <<size, fps>> => \A i : Chosen(i)' <=> Chosen(i)
  <2>1. camera' = camera
    BY
    DEF Next, Thread, vars, TurnOn, PortCheck, WaitConnected, WaitTimeout, Checkout,
           ScanMode, ScanEnd, New, Exit, TurnOff, Connect, Disconnect
  <2> QED
    BY <2>1 DEF Chosen
<1>1. CASE \E s \in Sizes : TurnOn(s)
  BY <1>1 DEF TurnOn, ScanInv
<1>2. CASE PortCheck \/ WaitConnected \/ WaitTimeout
  <2>1. /\ UNCHANGED <<size, fps, handle>> /\ at \in {"check", "wait"}
        /\ at' \in {"config", "wait", "exit"}
    BY <1>2 DEF PortCheck, WaitConnected, WaitTimeout
  <2> QED
    BY <1>0, <2>1 DEF ScanInv
<1>3. CASE Checkout
  <2>1. PICK n \in 0..MaxModes : camera \in [1..n -> Mode]
    BY CameraType DEF TypeOK
  <2>2. \A j \in DOMAIN camera : ~(j < 1)
    BY <2>1
  <2>3. /\ UNCHANGED <<size, fps, handle>> /\ at = "config"
        /\ at' = "exit" \/ (at' = "scan" /\ scan' = NoScan)
    BY <1>3 DEF Checkout
  <2> QED
    BY <1>0, <2>2, <2>3 DEF ScanInv, NoScan
<1>4. CASE ScanMode
  <2>1. PICK n \in 0..MaxModes : camera \in [1..n -> Mode]
    BY CameraType DEF TypeOK
  <2>2. PICK k \in DOMAIN camera : k = scan.index /\ camera[k] \in Mode
    BY <1>4, <2>1 DEF ScanMode
  <2>3. /\ at = "scan" /\ at' = "scan" /\ ~scan.found /\ fps = Rate
        /\ \A j \in DOMAIN camera : j < k => camera[j].size # size
        /\ UNCHANGED <<size, handle>> /\ handle = "none"
        /\ scan'.index = k + 1 /\ scan'.found = (camera[k].size = size)
    BY <1>4, <2>2 DEF ScanMode, ScanInv, PowerInv
  <2>4. \A j \in DOMAIN camera : j < k + 1 => j < k \/ j = k
    BY <2>1
  <2>5. CASE camera[k].size # size
    <3>1. fps' = fps
      BY <1>4, <2>2, <2>5 DEF ScanMode
    <3> QED
      BY <1>0, <2>3, <2>4, <2>5, <3>1 DEF ScanInv
  <2>6. CASE camera[k].size = size
    <3>1. \A j \in DOMAIN camera : camera[j].size = size => k <= j
      BY <2>1, <2>3
    <3>2. CASE \E i \in DOMAIN camera[k].fps : camera[k].fps[i] = fps
      <4>1. fps' = fps
        BY <1>4, <2>2, <2>6, <3>2 DEF ScanMode
      <4>2. fps' \in Range(camera[k].fps) /\ fps' = Rate
        BY <2>3, <3>2, <4>1 DEF Range
      <4>3. Chosen(k)'
        BY <1>0, <2>2, <2>3, <2>6, <3>1, <4>2 DEF Chosen
      <4> QED
        BY <1>0, <2>3, <2>6, <4>3 DEF ScanInv
    <3>3. CASE ~\E i \in DOMAIN camera[k].fps : camera[k].fps[i] = fps
      <4>1. fps' = FirstRate(camera[k])
        BY <1>4, <2>2, <2>6, <3>3 DEF ScanMode
      <4>2. Rate \notin Range(camera[k].fps)
        BY <2>3, <3>3 DEF Range
      <4>3. 1 \in DOMAIN camera[k].fps => fps' \in Range(camera[k].fps)
        BY <2>2, <4>1, FirstRateListed
      <4>4. Chosen(k)'
        BY <1>0, <2>2, <2>3, <2>6, <3>1, <4>2, <4>3 DEF Chosen
      <4> QED
        BY <1>0, <2>3, <2>6, <4>4 DEF ScanInv
    <3> QED
      BY <3>2, <3>3
  <2> QED
    BY <2>5, <2>6
<1>5. CASE ScanEnd
  BY <1>0, <1>5 DEF ScanEnd, ScanInv, PowerInv
<1>6. CASE New
  BY <1>0, <1>6 DEF New, ScanInv
<1>7. CASE Exit
  BY <1>0, <1>7 DEF Exit, ScanInv, PowerInv
<1>8. CASE TurnOff
  BY <1>0, <1>8 DEF TurnOff, ScanInv
<1>9. CASE Connect \/ Disconnect
  BY <1>0, <1>9 DEF Connect, Disconnect, ScanInv
<1>10. CASE UNCHANGED vars
  BY <1>0, <1>10 DEF vars, ScanInv
<1> QED
  BY <1>1, <1>2, <1>3, <1>4, <1>5, <1>6, <1>7, <1>8, <1>9, <1>10 DEF Next, Thread

-----------------------------------------------------------------------------
(* The theorems.                                                           *)

\* The inductive invariant holds.
THEOREM UvcInvariance == Spec => []UvcInv
<1>1. Init => UvcInv
  <2> SUFFICES ASSUME Init PROVE UvcInv
    OBVIOUS
  <2>1. TypeOK
    <3>1. /\ scan \in [index : 1..MaxModes + 1, found : BOOLEAN, rate : BOOLEAN]
          /\ used \in [plugs : 0..MaxPlugs, faults : 0..MaxFaults]
          /\ fps \in Rates
      BY UvcAssumption DEF Init, NoScan
    <3>2. sem \in [made : BOOLEAN, count : {0, 1}] /\ {power, plugged, cb} \subseteq BOOLEAN
      BY DEF Init, NoSem
    <3> QED
      BY <3>1, <3>2 DEF Init, TypeOK
  <2>2. PowerInv /\ ScanInv
    BY DEF Init, PowerInv, PowerMatchesHandle, ScanInv
  <2> QED
    BY <2>1, <2>2 DEF UvcInv
<1>2. UvcInv /\ [Next]_vars => UvcInv'
  BY TypeStep, PowerStep, ScanStep DEF UvcInv
<1> QED
  BY <1>1, <1>2, PTL DEF Spec

\* Whatever fails in uvc_camera_turn_on and whenever the device comes and goes,
\* the port stays powered only for a camera that can be turned off again.
THEOREM PowerFollowsHandle == Spec => []PowerMatchesHandle
<1>1. UvcInv => PowerMatchesHandle
  BY DEF UvcInv, PowerInv
<1> QED
  BY <1>1, UvcInvariance, PTL

\* uvc_check_mjpeg_config chooses, for every list of modes, the first mode of
\* the wanted size and a rate the camera has for it.
THEOREM ModeIsOffered == Spec => []ModeOffered
<1>1. UvcInv => ModeOffered
  <2> SUFFICES ASSUME UvcInv, at = "new" \/ handle # "none"
               PROVE  \E i \in Fitting :
                        /\ \A j \in Fitting : i <= j
                        /\ camera[i].fps # <<>> => fps \in Range(camera[i].fps)
                        /\ Rate \in Range(camera[i].fps) => fps = Rate
    BY DEF ModeOffered
  <2>1. PICK i \in DOMAIN camera : Chosen(i)
    BY DEF UvcInv, ScanInv
  <2>2. PICK n \in 0..MaxModes : camera \in [1..n -> Mode]
    BY CameraType DEF UvcInv, TypeOK
  <2>3. camera[i] \in Mode
    BY <2>2
  <2>4. camera[i].fps # <<>> => fps \in Range(camera[i].fps)
    BY <2>1, <2>3, NoRate DEF Chosen
  <2> QED
    BY <2>1, <2>4 DEF Chosen, Fitting
<1> QED
  BY <1>1, UvcInvariance, PTL
=============================================================================
