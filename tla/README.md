# Verification of the Beken doorbell solution

This directory holds TLA+ models of the doorbell firmware of this repository,
the TLC configurations that check them on small instances, and proofs that
TLAPS checks for every instance.

## 1. The system

The firmware runs on a BK7258: an application processor (AP, two cores,
FreeRTOS SMP) with camera, display, audio and the network services, and a
co-processor (CP) with Wi-Fi and, in `doorbell_lp`, the low-power keepalive
that runs while the AP is switched off.

| Component | State it keeps | Operations | Talks to |
|---|---|---|---|
| Frame queue V2 (`components/smart_lock/src/frame/frame_que_v2.c`) | per format: free and ready lists of nodes, each with a buffer, reference count, consumer and accessed masks; active consumers; a semaphore | init, deinit, clear_all, register, unregister, malloc, complete, cancel, get_frame, release_frame | called by camera interrupts, encoder, decoder, transfer task, display task and the core thread |
| Device control (`doorbell_devices.c`, `camera/`) | handles of camera, pipeline, display; transfer task | camera, transfer, display on and off | core thread; frame queue |
| UVC and DVP drivers (`camera/uvc.c`, `dvp.c`) | port connection state, semaphores | connect and disconnect callbacks, turn on and off | USB host stack; frame queue |
| MJPEG decoder, YUV display (`decoder/`, `yuv_display/`) | decoder and display tasks, rotation buffer | open, close, one frame | frame queue |
| Core event loop (`doorbell_core.c`) | a queue of 10 events | post, handle | everything on the AP |
| Network transfer (`doorbell_network_transfer.c`) | service running, connected channels | start, connect, disconnect, stop | core, command server |
| Command server (`doorbell_cmd.c`) | keepalive timer, multimedia votes | dispatch of commands | devices, audio |
| Audio (`doorbell_audio_device.c`) | handles of mic, speaker, codec | turn on, off, data | core |
| Keepalive, CP (`projects/doorbell_lp/cp/keepalive`) | session record, TX and RX threads, RTC alarm | init, start, stop, deinit, heartbeat, receive | server, AP by IPC, power control |
| Keepalive, AP (`projects/doorbell_lp/ap/keepalive`) | timer, pending flags | status check, wake-up handling | CP by IPC, core |
| Packet framing (`cp/db_pack`) | receive buffer, sequence number | pack, unpack | keepalive |
| Boarding (`doorbell_boarding.c`) | Wi-Fi data, four CS2 credentials | one handler per operation | phone by BLE, core queue |
| Wi-Fi and flash (`doorbell_network.c`) | saved service and server | join, save, read | core |
| CP doorbell service (not built), LCD drivers, board code | | | |

`PROJECT.json` lists every component with what is modelled of it, and the
hazards: what can go wrong in this code that a test hardly reaches.

What is hard here: the frame queue is entered from interrupts and from tasks
on two cores, and some of its work happens between or after the critical
sections; its consumers come and go while frames are ready, half read or held;
a semaphore with a limit is shared by all consumers; memory can run out at any
allocation; and the keepalive has two threads, a timer and a remote processor
that can each end the session. The AP adds a core thread fed by a queue that
drops, device functions called by two threads with an error path at every step,
a transfer task that both of them stop, flags that three channel threads change
without a lock,
and a hand-over of the connection between two processors of which one is
switched off.

## 2. Modules

### FrameQueue

One queue of one image format. The three queues of the code share nothing but
the spinlock, so one is enough.

* One action per critical section (`fb_enter_critical` to `fb_exit_critical`),
  and one for what a function does outside: `malloc` is `MallocClaim` (choose
  and mark a node) and then `MallocNew`, `MallocReuse` or `MallocFail` (give it
  a buffer); `complete` is `Complete` and one `Signal` for every
  `rtos_set_semaphore`; `cancel` is `Cancel` and `CancelFree`; `get_frame` is
  `GetStart`, then `GetFrame` or `GetNothing`, `GetWoken` or `GetTimeout`;
  `release_frame` is `Release`, and for the last reference `ReleaseFree` and
  `ReleaseNode`; `clear_all` is `ClearReady` and `ClearFree`.
* The doubly linked lists are `list` (where a node is) and the relation
  `before` (the order inside a list). A walk from the head that stops at the
  first node with a property is `First` of the set of nodes that have it. A
  node that the last release has unlinked and not yet put back is in `limbo`.
* `heap` is the set of allocated buffer addresses, so an address may be given
  out again after a free, as a real allocator does: `complete`, `cancel` and
  `release_frame` find their node by address.
* `content` and `lastSeen` are history: the number of the frame last completed
  in a buffer, and of the last frame a consumer got.
* `consumers[].enabled` is always the consumer's bit of `active_consumers`, so
  one variable stands for both. The statistics and the timestamps are left out.
* Callers keep a discipline that the queue relies on, and the model has it:
  `clear_all` is called only with the camera closed (`doorbell_camera_turn_off`
  after `doorbell_camera_close`, `doorbell_display_turn_off` without a camera
  and after the decoder is closed); the close of a driver returns when its
  callbacks have returned, and abandons a frame being filled (the comment in
  `clear_all` speaks of nodes "malloc'd but not complete'd"); only the queue's
  own tests call `deinit`, with nothing in use; a consumer releases each frame
  it got once.
* `QueueInit(S)` with few nodes or none stands for failed allocations; none is
  also what a failed semaphore leaves behind.

Bounds: `MaxSeq` frames are completed in a behaviour, a consumer holds at most
`MaxHold` frames.

### FrameQueueLive

The same queue while the camera streams, with fairness, for what must happen.
Fairness is weak fairness of each thread's own steps: the producers and the
consumers that are not in `Slow` loop for ever at a priority that the
scheduler serves. `TimedSpec` lets a wait end by its timeout, as all consumers
of the firmware do; `UntimedSpec` is the queue with `BEKEN_WAIT_FOREVER`. A slow
consumer may hold as many frames as there are nodes (`MaxHold` = number of
nodes), since `get_frame` has no limit: `Exhausted` is the state in which it does,
and the one excuse of `FastConsumerServed`.

### The proof modules

`FrameQueueProofs`, `YuvDisplayProofs`, `KeepaliveProofs`,
`ServiceControlProofs`, `MediaControlProofs`, `BoardingProofs`, `UvcProofs` and
`DbPackProofs` hold the inductive invariants, lemmas and theorems about the
module they are named after (section 4); they add nothing to the models.
`FrameQueueProofs` also has those of `FrameList`; the two models share no name, so
that the module extends both (hence `ListInit`, `ListNext`, `ListNodes`).

### KeepaliveCP

The low-power keepalive of `doorbell_lp` on the CP: `db_keepalive.c`,
`powerctrl.c` and the two keepalive commands of `db_ipc_msg.c`. Eight actors
interleave: the IPC handler, the TX thread, the RX thread, the RTC alarm (an
interrupt), the software timer, the server, the host, and the power control
that two of them call.

* `tx`, `rx`, `ipc` and `dpc` are program counters. An action is a statement or
  a group of statements between which no other actor can tell: clearing
  `keepalive_ongoing` and posting the semaphore are two actions, because the
  alarm and the threads read the one and wait on the other; `pl_wakeup_host`
  and `pl_power_down_host` are two actions each (reason, power);
  `db_keepalive_cp_deinit` is six, and both the TX thread and the IPC handler
  can be in it.
* The session record keeps its fields: the flag, `sock` (-1, open, or the 0
  that `memset` leaves), the semaphore (absent, 0, 1), the buffers as one flag,
  `lp_state`, the timer, `tx_thread`.
* Packets are `response`, `wake` and `other`; how the byte stream is cut into
  packets is the module DbPack's business. Five connection attempts are
  `MaxRetry`; the 21 receive timeouts are one action, `RxGiveUp`.
* The host is modelled by what it does to the CP: it sends start when its
  service has stopped, and after a boot or a disconnection event it reads the
  shared wake-up reason (`db_keepalive_handle_wakeup_reason`) and starts its
  service, after a wake-up command with a stop to the CP first. Its own
  failures (flash, Bluetooth, full queue) are in ServiceControl. `ap = "idle"` is
  a host that booted with no reason to start anything.

Two timing assumptions replace clocks. `Quiet`: the host's next start comes a
status check interval (5 s by default) after its service is up again, and the
threads of the last session, whose socket is closed, have ended by then.
`RxGiveUp`: 63 s without data are longer than the few statements between the
start of the RX thread and the TX thread's loop.

Bounds: `MaxRetry` attempts, `MaxSessions` sessions. Two sessions are enough to
see what one leaves for the next.

Fairness: weak fairness of each thread (the scheduler runs a thread that is
ready: TX and RX have the same priority and block between steps), of the alarm
(a registered RTC alarm fires) and of the host's boot. Nothing is assumed of the
server, of the software timer, or of the host starting a session.

### FrameBroadcast and FrameQueueRefinement

`FrameBroadcast` is what the users of the queue rely on, without nodes, lists,
masks or counts: frames are numbered as they are completed, a consumer reads
frames newer than the last one it got, possibly with gaps, and what it holds
stays what it was until it returns it. `FrameQueueRefinement` maps the queue to
it (a held buffer stands for the number in `content`); every step of the queue
must be a step of the broadcast or invisible to it. A buffer refilled while it is
held, or a frame handed out half filled, is a step the broadcast does not have.

### FrameList and NodeLists

The lists of the queue with their pointers: `next` and `prev` of the nodes,
`head`, `tail` and `count` of the lists, one step per list function, as each
runs inside one critical section. The loops of `clear_all`, register and
unregister, which move nodes while they walk, are one step per node
(`SweepStart`, `SweepMove`, `SweepSkip`); `node` is the loop's cursor. `NodeLists`
is the abstract view, sequences, found by following `next` from `head` (`Chain`).
This justifies `list` and `before` in `FrameQueue`.

### DbPack and PacketChannel

The framing of the keepalive stream. A byte is known by its packet and its
position, so bytes are never put together; one iteration of the loop of
`db_pack_unpack` is one action (`FromData` with an empty cache, `FromCache`
otherwise), with its early exits. `SendGarbage` puts foreign bytes on the
connection, `NewSession` ends one session and begins another. `PacketChannel` is
the first-in first-out channel the framing promises: packets are handed over
whole, once and in order of their numbers; its `Safety` is the part without
fairness. The end of a session loses those on their way
(`EndSession`); after foreign bytes (`Soil`) packets may be skipped (`Lose`), never
repeated or torn; while the connection is `clean`, every packet is handed over
(its fairness).

The length in a packet's header is the server's: `Lengths` reaches past
`max_rx_size`, with which `unpack` never compares it. A copy that would leave the
cache (`Capacity`, as `db_pack_init` allocates it) sets `overrun`, and the device
side of the model stops there, because what it does with overwritten memory is
not known.

Assumed: bytes that do not start a packet do not read as the magic code; a session
ends between two calls of `unpack` (otherwise: `ThreadsBeforeResources`, section 5). Fairness: the
connection delivers what was sent, and the receive thread runs.

### ServiceControl

Who owns the connection to the server in `doorbell_lp`: the AP through the
network service, or the CP after a hand-over. The core thread's queue and its
cases for services, connections and Bluetooth (`doorbell_core.c`), the channel
reports (`doorbell_network_transfer.c`) and the AP's keepalive
(`ap/keepalive/db_keepalive.c`).

* `queue` holds events; every poster pushes without waiting and a full queue
  drops. `core.at` is where the core thread is in a handler: stopping a service
  is one `ChanStop` per channel, `ServiceDeinit` and `SendKeepalive`, because
  channel reports arrive in between.
* A channel's report is made in its own thread: `ChanConnected` and
  `ChanDisconnected` read `chan_connected_mask` (`Load`), `ReportStore` writes back
  what was read with the bit changed, `ReportTest` tests the mask and posts.
  `rep` is where each report is. The three interleave with each other, with the
  resets and with the core thread, so that an update can be lost; `torn` is
  history: a store has overwritten a change since the control channel last
  started or stopped.
* `Tick` and `TickMark` are the two halves of the timer handler around the
  post; `BootWake` and `BootMark` those of the boot handler.
* `PowerDown` loses all memory and keeps flash; `PowerUp` boots with a reason.

Assumed of the network library: client mode (set in `doorbell_lp` only); a
channel reports in its own thread, and its stop carries ENOTCONN only if it is
not connected; starting a running channel does nothing. Writing flash succeeds;
the phone acts after the boot handler has ended. `DBEVT_EXIT` is never sent; the
CLI command that changes the check interval is left out.

Bounds: requests and commands of the phone, losses of a channel, sessions handed
to the CP and failing calls; commands, losses and failing calls together are
`MaxIncidents`. The queue holds 4 events (10 in the code), so that it overflows
with the requests and reports of one session, and is still long enough for the
events of a boot. Fairness: the core thread, the timer's and the boot handler's
halves, the channels' connection and the CP's answer run on; nothing is assumed
of the phone. `ReconnectsAfterFailure` excuses a failed call and a full queue, which
no poster of the code looks at.

### MediaControl

The devices behind the phone's commands: camera, encoder, transfer, display,
audio, heartbeat timer, and the votes. What a function does is an operator from
the record `d` of devices to the set of its outcomes (`Done`, `Failed`, `Try` for
an external call that may fail, `AndThen`, `OnFail` for the error path), so an
error path reads as in the code. Commands run in the control channel's thread and
`CoreDisconnected`, `CoreAudioOff` in the core thread; they interleave between
these functions, not inside them.

The video transfer (`trans`) is finer, because both threads stop it and it has a
task. Its stop is the tests (`StopChecked`), `enable = 0` (`StopClear`), the wait
with all that follows it (`StopFree`) and the removal of the consumer
(`StopUnregister`), by either thread; its start is `TransferCreate`, and
`TransferStarted` after the task's token. `TaskStarts` and `TaskEnds` post the one
semaphore of limit 1, so a token may be lost, and may be taken by the thread it
was not meant for. A thread that waits on a semaphore another one deletes, or that
goes on with a configuration another one has freed, is `"stranded"`. The
task's two last statements (`transfer_thread = NULL`, the post) are one step.

Assumed: opening what is open and closing what is closed returns BK_OK in the
video pipeline; a missing service name counts as a fault. The properties about
registrations hold as long as no external call has failed and one kind of camera
is used (`Plain`; `d.changed` is history): after a change of camera with the display
on, `cam_type` is the new camera's and the decoder's close goes by it, so that
what the first camera had opened stays.

### YuvDisplay

The display task with its message queue, open and close with their one
semaphore, the rotator's interrupt and the display's free callbacks. `held` are
the frames of this consumer, `shown` those the display has, `task.frame` the
frame of the task, `rott` the rotator. 180 degrees is a direct display, as in
the code. Assumed: the rotator finishes what it starts, and the display lets
frames go in the end. Fairness: those two, the task and the callers.

### Uvc

Turning the USB camera on and off while the device joins and leaves the hub:
power, port check, the wait with its timeout, the scan of the camera's modes
(`ScanMode` is one iteration of the loop of `uvc_check_mjpeg_config`, `scan` its
index and two flags), the controller, and every error exit. `uvc_on_off` takes
every list of at most two modes with at most two rates, in `Init`. `uvc_camera_turn_on` asks for MJPEG only, so the
other formats are not reached.

### Boarding

Provisioning over BLE in the HOST_ONLY build of the AP: Wi-Fi data and the four
CS2 credentials, their answers, the start of CS2, UDP or TCP, and the core
thread's cases for them. A credential is the sequence of the pieces it is made
of, because a repeated start would append the key again. The Wi-Fi data is read
by the core thread where the BLE service keeps it, as in the code, so that a write
changes what a request in the queue asks for. `lost` is history: the messages
that found the queue full. The copy in flash is left out: nothing reads it.

Assumed of the phone: it starts CS2 when all four credentials were answered; it
may repeat and change every write at any time. Keys of 32 and 33 characters are the two sides of the limit the code
tests.

## 3. Runs

| Run | Instance | Checks |
|---|---|---|
| `fq_mjpeg` | 2 nodes, 2 consumers, 1 producer, 2 buffers, 3 frames, frames may be dropped | `TypeOK`, `HeldIntact`, `RefCountExact`, `NothingStranded`, `ProducerOwns`, `HeapExact`, `InOrder`, and the refinement `ImplementsBroadcast` |
| `fq_live_mjpeg` | 2 nodes, 2 consumers of which one may stop for good, with any number of frames held | `Delivered`, `FastConsumerServed` |
| `frame_list` | 4 nodes, every sequence of operations | `Linked`, `SweepComplete`, and the refinement `ImplementsLists` |
| `ka_session` | 2 sessions, 2 connection attempts | `TypeOK`, `NothingLeft`, `WaitsOnSemaphore`, and the liveness properties `SessionEnds`, `SilentServerWakesHost`, `FailureReported` |
| `ka_wake` | 1 session | `WakeCommandServed` fails: a finding |
| `ka_off` | 1 session | `KeepaliveWhileOff` fails: a finding |
| `service` | queue of 4, 2 requests, a hand-over, and a command, a channel loss or a failing call | `MaskSound`, `HandoverQuiet`, and the liveness properties `ReconnectsAfterFailure`, `StopAnswered` |
| `media` | UVC and DVP camera, 2 heartbeat intervals, a failing device call and a failing timer call | `EncoderFed`, `DisplayUsersStopped`, `AllReleased`, `VotesMatch`, `OneHeartbeat` |
| `yuv` | 3 frames, queue of 1, 2 failing calls, 1 failing flush | `TaskHasObject`, `ReadersHold`, `ClosedIsEmpty`, `ReleasedOnce`, and the liveness properties `CallsReturn`, `FrameMoves` |
| `uvc_on_off` | every camera of 2 modes, 2 sizes and 2 rates, 2 plugs, 2 failing calls | `PowerMatchesHandle`, `ModeOffered` |
| `pack` | header of 3, `max_rx_size` of 4, payloads of 0 to 7 bytes, 3 packets, foreign bytes, 1 end of session | `CacheFits`, and the refinement `ImplementsChannel`, liveness included |
| `board` | queue of 3, 7 operations of the phone, keys of 32 and 33 characters | `CredentialsComposed`, `CredentialAnswered` |

What each says is in the comment above its definition. Twelve more configurations
show counterexamples and are run by hand; section 5 says what they show:
`FrameQueueLive_slow.cfg`, `FrameQueueLive_h264.cfg`, `FrameQueueLive_forever.cfg`,
`MCFrameQueue_slow.cfg`, `KeepaliveCP_awake.cfg`, `KeepaliveCP_threads.cfg`,
`ServiceControl_mask.cfg`, `ServiceControl_pending.cfg`, `ServiceControl_wake.cfg`,
`MediaControl_freed.cfg`, `MediaControl_stranded.cfg` and `Boarding_join.cfg`.

Deadlock is not an error where the configuration says so: the bounds on frames,
sessions, requests and packets end a behaviour.

Two consumers are enough for every pair of masks (needed and read, needed and
not read, not needed), two nodes for an order and for a full queue, two
buffer addresses for one that is freed and given out again while the other is in
use, three frames for one node to be reused while an older frame is still held.
Payloads of `max_rx_size` and one more are the two sides of the cache's limit.

## 4. Proofs

TLAPS proves, for every value of the constants that the named assumptions
(`...Assumption` in each module: bounds are natural numbers, sets are finite
where they are counted) allow, that each specification implies its inductive
invariant and from it the properties below. TLC checked every inductive invariant on the
instance of the module's run before it was proved. A proof has one lemma per action or per
group of actions with the same effect, and a last step that combines them.

| Module | Inductive invariant | Theorems (property) |
|---|---|---|
| `FrameQueueProofs` | `QueueInv` | `TypeCorrect` (`TypeOK`), `HeldFramesIntact` (`HeldIntact`), `ReferenceCounting` (`RefCountExact`), `NoLeakNoDoubleFree` (`HeapExact`), `ProducersOwnTheirBuffers` (`ProducerOwns`), `NoStrandedFrames` (`NothingStranded`), `FramesInOrder` (`InOrder`), `QueueImplementsBroadcast` (`ImplementsBroadcast`) |
| `FrameQueueProofs` | `ListInv` | `ListsAreLinked` (`Linked`), `ListsAreSequences` (`ImplementsLists`) |
| `YuvDisplayProofs` | `YuvInv` | `TaskKeepsObject` (`TaskHasObject`), `ReadFramesHeld` (`ReadersHold`), `CloseReleases` (`ClosedIsEmpty`), `NoDoubleRelease` (`ReleasedOnce`) |
| `KeepaliveProofs` | `KeepaliveInv` | `TypeCorrect` (`TypeOK`), `SessionFreed` (`NothingLeft`), `SemaphoreAlive` (`WaitsOnSemaphore`), `FreedByOne` |
| `ServiceControlProofs` | `ServiceInv` | `MaskIsSound` (`MaskSound`), `HandoverIsQuiet` (`HandoverQuiet`) |
| `MediaControlProofs` | `MediaInv` | `EncoderIsFed` (`EncoderFed`), `UsersStopWithDisplay` (`DisplayUsersStopped`), `AllIsReleased` (`AllReleased`), `HeartbeatIsOne` (`OneHeartbeat`), `VotesAreExact` (`VotesMatch`) |
| `BoardingProofs` | `BoardingInv` | `CredentialsAreComposed` (`CredentialsComposed`), `CredentialsAreAnswered` (`CredentialAnswered`) |
| `UvcProofs` | `UvcInv` | `PowerFollowsHandle` (`PowerMatchesHandle`), `ModeIsOffered` (`ModeOffered`) |
| `DbPackProofs` | `PackInv` | `TypeCorrect`, `CacheIsBounded` (`CacheFits`), `DeliveredInOrder`, `NoPacketLost`, `FramingIsChannel` (the safety part of `ImplementsChannel`) |

### The frame queue

`HeldIntact` and `RefCountExact` need each other (a reference count of 0 must
mean that nobody holds the frame before `malloc` or `clear_all` may take it) and
both need `HeapExact` (two nodes never have the same buffer, so an address names
one node); `HeapExact` needs `ProdInv` (a producer owns the node it claimed
alone, and a cancelled buffer belongs to no node) and `NodeInv` (which nodes are
marked, in which list). `NothingStranded` needs in addition that a consumer that
has read a frame is among those it was completed for (`AccessedNeeded`), and
`InOrder` that `ready_list` is in the order of completion and what a consumer
has still to get is newer than what it got (`OrderInv`). `clear_all`, register
and unregister share `RecycleStep`, the fact that recycling unheld ready nodes
keeps the invariant.

The refinement of `FrameBroadcast` is proved step by step. It needs
`DistinctInv` (no two ready buffers carry the same frame number), so that giving
back a buffer is giving back one frame; every action but the completion, the
successful get and the release leaves the broadcast as it is, because the
buffers consumers hold are neither refilled nor freed.

### The lists of the queue

`Linked` says what is right at each node, and that is not inductive: nodes that
form a ring beside the list satisfy it, until `pop_head` takes the last node of
the list proper. `ListInv` says instead that there is an order of the nodes of
each list from which all links, the head, the tail and the count follow
(`Threaded`), and that the node a loop is at is still in `ready_list`. The lemmas
`Appended`, `Prepended` and `Deleted` show which order the pointers written by
add_tail, add_head and remove thread, wherever the node was; `pop_head` is the
removal of the head, and a step of a loop is a removal and an addition. Links of
the other list are not touched, because neighbours are in the same list.

For the refinement, `WalkIs` shows that the recursive walk `Chain` finds exactly
that order. It is an induction over the list, made with the least place at
which the walk could differ (`Least`, from the well-foundedness of the natural numbers).
Each function is then the operation on sequences that `NodeLists` describes.

### The display task

Open, close and task share one semaphore, so the argument is about which token
is in it: `StageInv` says where the task is at each stage of a call. `RotateInv`
says that the rotator is busy, or its interrupt's message waits in the queue
once, for the frame the task keeps; `HeldInv` that a frame is held for the
display or for the task and not for both.

### The keepalive

`db_keepalive_cp_deinit` is run by the TX thread and by the IPC handler, without
a lock. `OwnerInv`: while `env.tx_thread` is set only the TX thread cleans up.
`OrphanInv`: after a failed `db_keepalive_init_rx` it has cleaned up and does so
once more on an empty record. `StartInv`: until a session has its connection the
host asks for nothing. `IdleInv`: without a TX thread the record is empty.
`FreedByOne` follows: the two never free at once.

### Services and hand-over

`chan_connected_mask` keeps bits of stopped channels. `MaskInv` says when this is
harmless: once the control channel has started, which clears the mask, a bit
stands for a connection, or for one whose loss its channel is about to report.
This holds while no two updates have overlapped (`~torn`), and needs `RepInv`: a
report under way belongs to a channel in the state it reports. After an overlap the mask may have
any bits, as the code has no protection against it. `StopInv` says that channels the core thread has
stopped stay off until it is idle, since only its own handler starts one: the
hand-over finds them off. The queue's length, content and losses play no part.

### Devices

`DeviceInv` says of the record of devices what every function may assume and
must leave (`Consistent`): display, supply and handle go together; every user of
the pipeline has what it uses, and the decoder has a user. The lemmas follow the
operators of the model, one per device function, for every outcome: a failing
call ends `Plain`, and the invariant with it. `TransferInv` is about the two threads
that stop the transfer. The command's stop may be refused, and the camera is
closed all the same; then what is left is the core thread's to free, because a
transfer that is not enabled is one whose task has not begun (and then the
command thread is still waiting for it) or one that somebody else has disabled
and waits for. `VoteInv` holds between the two
halves of a camera command too, and `BeatSound` over the branches of the
heartbeat's start. The attempt found two `CASE` expressions of the model whose
arms overlapped, so that their value was not determined: they are now `IF`s, in
the order in which the code tests.

### Boarding

`CredentialInv`: before the start a credential is empty or as it was written,
and written if its answer is under way; from the start on all are composed.
`AnswerInv`: a kept credential is answered, or its answer is in the queue, or the
queue dropped it; since a repeat finds it kept, its answer is posted only once.

### The USB camera

The loop over the modes is one action per iteration, so that its invariant can be
stated: until it finds a mode of the wanted size it has passed none and left the
rate alone (`ScanInv`). `PowerInv`: a camera is turned on only when none is
there, under power.

### The packet framing

All is said of the bytes that are not handed over yet, in cache, data and wire
together. `Stream`: behind each of them come the rest of its packet and then
whole packets in their order. `CacheInv`: the cache has less than a packet.
`UnpackEffect` shows that an iteration, whichever branch it takes, keeps all
bytes, drops the data, or takes one whole packet off the front and hands over
its payload; the division between cache and data makes no difference. From this
follow the bound of the cache, which no `os_memcpy` checks, for packets that fit
(a write leaves the cache only after a packet has announced more); that what is handed over was
sent, once and in order (`InOrder`, also after foreign bytes and ended sessions);
and that without these nothing is lost (`CleanInv`, which says that the first
byte of every packet not handed over is still there).

`FramingIsChannel` puts these together as a refinement: every step is a step of
`PacketChannel` or leaves it as it is. It needs two facts more. `Covered`: from the
first packet on the way to the last one sent none is missing, so that the packet
an iteration completes is the first of the channel. `Started`: on a clean
connection what is on the way begins with the beginning of a packet, so that a
call that drops its data has nothing of a packet in it.

### Only model-checked

* Liveness (`Delivered`, `FastConsumerServed`, `SessionEnds`,
  `SilentServerWakesHost`, `FailureReported`, `ReconnectsAfterFailure`,
  `StopAnswered`, `CallsReturn`, `FrameMoves`, `SweepComplete`): it needs fairness and ENABLED,
  which the prover does not handle.
* The liveness part of `ImplementsChannel`, for the same reason.

`fq_mjpeg` has one producer and a queue that drops; two producers, and a queue
that never drops, are covered by the proofs.

## 5. Findings

Where the code does not do what a comment, a test or a document says, or what its
own callers rely on. The first two have runs that must fail; the others a
configuration to run by hand, or they appear as the exception a property makes.

* `ka_wake`: the RX thread starts before the host is switched off, and a
  wake-up command handled in that window is undone by the power-down.
* `ka_off`: a connection that the server closes ends the session without waking
  the host: device off, nobody listening. A silent server, by contrast, wakes it
  (`SilentServerWakesHost`).
* `KeepaliveCP_awake.cfg`: the timer can re-enter low-voltage sleep after deinit
  has left it.
* `KeepaliveCP_threads.cfg`: deinit frees buffers the RX thread is working in.
* `FrameQueueLive_h264.cfg`: a slow consumer of an H264 queue, whose ready frames
  are never dropped, blocks the fast one, against "no blocking of fast
  consumers". The firmware registers one H264 consumer only.
* `FrameQueueLive_forever.cfg`: "ensuring all consumers can wake up" does not
  hold: the signals of one semaphore are not bound to consumers. Every consumer
  of the firmware waits with a timeout and polls again.
* `MCFrameQueue_slow.cfg`: `frame_que_v2_test.c` asserts that a consumer that does
  not release is limited to two frames; `get_frame` has no limit.
* `ServiceControl_pending.cfg`: the AP's flag "stop message already sent" can be
  set with no stop posted (full queue, no LAN service in flash) or after it was
  handled; then no tick hands over to the CP any more.
* `ServiceControl_wake.cfg`: the command to deliver after a wake-up is stored
  after the service was asked to start; a quick connection misses it.
* `VotesMatch` excepts audio: a lost connection turns audio off and leaves its
  vote, which the client cannot remove any more, so that the AP is never powered
  down.
* `ReleasedOnce` excepts a failing flush: the frame is then released by the
  callback and by the task.
* `Boarding_join.cfg`: the network joined is not always the one asked for
  (`JoinsAsked`). A request in the queue points to data that a later write changes,
  and Wi-Fi passwords of 33 to 64 characters are refused, because the SSID's limit
  is tested on the key.
* `CredentialAnswered`: an answer the full queue drops is never repeated, because a
  repeated credential is refused without one; the boarding stops there.
* `FrameQueueLive_slow.cfg`: a consumer that holds every node blocks the others on
  a queue that drops, too (`FastNeverBlocked`), against the same claim.
* `ServiceControl_mask.cfg`: the connection of one channel that overlaps the loss of
  another brings back the lost one's bit (`MaskAlwaysSound`): "device connected" is
  then announced with a channel missing.
* `MediaControl_freed.cfg`: while the core thread waits for the transfer task, the
  command's stop is refused and the command closes the camera: the configuration
  is still there (`TransferFreed`), and a camera turned on before it is freed gets
  no transfer, because the start finds one.
* `MediaControl_stranded.cfg`: a connection lost while the transfer starts makes the
  core thread take the token of the task's start; it deletes the semaphore under the
  command thread, which then handles no command any more (`NobodyStranded`). The
  other way round, the token of the task's end is lost and the core thread waits
  for ever.
* `CacheFits` excepts a packet that announces more than `max_rx_size` bytes: cut in
  two by the stream, it is copied behind the end of the cache.

Seen while modelling, and below the grain of these modules:
`doorbell_audio_turn_off` can be entered by the command thread and the core thread
at once; `db_pack_pack` builds every packet in one buffer with one sequence number,
for two threads.

## 6. Plan

To model:

1. **KeepaliveSystem**: `ServiceControl` in the place of the host of
   `KeepaliveCP`, so that a hand-over and its return are checked end to end.
2. The voice handles at statement level with two callers, as the transfer is.
3. `dvp.c` and the doorviewer's variant of the camera.

To prove: for `ServiceControl` that the pending flag excuses exactly the cases of section 5;
for `KeepaliveCP` what the host can rely on when it is woken.

## 7. Not modelled

The CP's doorbell service and its message wrappers are in the tree, but no
configuration builds them (`CONFIG_BTDM_CONTROLLER_ONLY` is set in all of them).
Soft AP mode, the queries of the command server, codec and echo parameters of
the voice library and BLE advertising keep no state that a property is about.
LCD drivers and board files are register tables and thin calls. The Wi-Fi, BLE,
USB, LwIP and CIF stacks are outside this repository and appear only as what their callers rely on. Statistics, logging
and timestamps are left out of every module.
