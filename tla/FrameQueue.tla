---------------------------- MODULE FrameQueue ----------------------------
(***************************************************************************)
(* The multi-consumer frame queue of the doorbell (frame_que_v2.c): one    *)
(* queue of one image format.  Camera and encoder threads malloc a node,   *)
(* fill its buffer and complete or cancel it; consumers get the completed  *)
(* frames, share them by reference counting and release them; the core     *)
(* thread registers consumers and clears the queue when the camera is off. *)
(*                                                                         *)
(* Every critical section of the code (fb_enter_critical ..                *)
(* fb_exit_critical) is one action; what the code does after leaving it is *)
(* a separate action, so every interleaving of two cores is a behaviour.   *)
(*                                                                         *)
(* A doubly-linked list is the set of the nodes that are in it (`list')    *)
(* and the order of its nodes (`before', which relates only nodes of the   *)
(* same list).                                                             *)
(***************************************************************************)
EXTENDS Naturals, FiniteSets

CONSTANTS
  N,           \* number of preallocated nodes (4 MJPEG, 6 H264, 3 YUV)
  Consumers,   \* consumer ids (CONSUMER_TRANSMISSION, CONSUMER_DECODER, ...)
  Producers,   \* threads or interrupts that fill frames of this format
  Bufs,        \* addresses the frame buffer heap can return
  Reuse,       \* TRUE for MJPEG and YUV, FALSE for H264
  SemMax,      \* maximum count of the frame_ready semaphore (8)
  MaxHold,     \* bound: frames a consumer holds at the same time
  MaxSeq,      \* bound: frames completed in a behaviour
  NULL

ASSUME FrameQueueAssumption ==
  /\ N \in Nat \ {0}
  /\ IsFiniteSet(Consumers)
  /\ IsFiniteSet(Bufs)
  /\ NULL \notin Bufs
  /\ Reuse \in BOOLEAN
  /\ SemMax \in Nat \ {0}
  /\ MaxHold \in Nat \ {0}
  /\ MaxSeq \in Nat

Nodes == 1..N

VARIABLES
  inited,    \* frame_queue_v2[index].count > 0
  list,      \* the list a node is in; "limbo": taken out of ready_list by a
             \* final release that has not yet put it back; "none": no node
  before,    \* order of the nodes of free_list and of ready_list
  frame,     \* node->frame
  inUse,     \* node->in_use
  refCount,  \* node->ref_count
  mask,      \* node->consumer_mask
  accessed,  \* node->accessed_mask
  active,    \* active_consumers (the same set as consumers[].enabled)
  sem,       \* count of the frame_ready semaphore
  heap,      \* frame buffers that are allocated
  content,   \* number of the frame last completed in a buffer (0: none)
  seqNo,     \* number of the last completed frame
  pst,       \* where a producer is: idle, claimed, filling, signal, cancel
  pnode,     \* the node a producer claimed
  pbuf,      \* the frame buffer malloc returned to a producer
  psig,      \* rtos_set_semaphore calls complete has still to make
  getter,    \* where a consumer is in get_frame: idle, search, wait
  held,      \* frame buffers a consumer got and has not released
  lastSeen,  \* history: number of the last frame a consumer got
  camera     \* on, off, or clear (between the two sections of clear_all)

nodeVars == <<list, before, frame, inUse, refCount, mask, accessed>>
queueVars == <<inited, nodeVars, active, sem>>
bufVars == <<heap, content, seqNo>>
prodVars == <<pst, pnode, pbuf, psig>>
consVars == <<getter, held, lastSeen>>
vars == <<queueVars, bufVars, prodVars, consVars, camera>>

-----------------------------------------------------------------------------
(* Lists.                                                                  *)

In(l) == {n \in Nodes : list[n] = l}

\* The first node of S in list order: what a walk from the head that stops
\* at the first node of S finds.
First(S) == {n \in S : \A m \in S \ {n} : <<n, m>> \in before}

\* The pairs of `before' when the nodes of S have left their list.
Removed(S) == {e \in before : e[1] \notin S /\ e[2] \notin S}

\* Mutant: frame_list_add_tail_nolock links the node at the head.
MovedToFront(S, l) ==
  {e \in before : (e[1] \in S) = (e[2] \in S)} \cup (S \X In(l))

\* The order after the nodes of S, keeping theirs, move to the tail of l.
MovedToTail(S, l) ==
  {e \in before : (e[1] \in S) = (e[2] \in S)} \cup (In(l) \X S)

\* The order after node n moves to the head of l.
MovedToHead(n, l) == Removed({n}) \cup ({n} \X In(l))

Upd(f, S, v) == [n \in Nodes |-> IF n \in S THEN v ELSE f[n]]

\* Take the nodes of S out of ready_list, reset them and put them at the
\* tail of free_list; they keep their frame buffers.
Recycle(S) ==
  /\ list' = Upd(list, S, "free")
  /\ before' = MovedToTail(S, "free")
  /\ inUse' = Upd(inUse, S, FALSE)
  /\ refCount' = Upd(refCount, S, 0)
  /\ accessed' = Upd(accessed, S, {})

-----------------------------------------------------------------------------
(* Life cycle: frame_queue_v2_init, _deinit, _clear_all and the camera.    *)

Init ==
  /\ inited = FALSE
  /\ list = [n \in Nodes |-> "none"]
  /\ before = {}
  /\ frame = [n \in Nodes |-> NULL]
  /\ inUse = [n \in Nodes |-> FALSE]
  /\ refCount = [n \in Nodes |-> 0]
  /\ mask = [n \in Nodes |-> {}]
  /\ accessed = [n \in Nodes |-> {}]
  /\ active = {}
  /\ sem = 0
  /\ heap = {}
  /\ content = [b \in Bufs |-> 0]
  /\ seqNo = 0
  /\ pst = [p \in Producers |-> "idle"]
  /\ pnode = [p \in Producers |-> NULL]
  /\ pbuf = [p \in Producers |-> NULL]
  /\ psig = [p \in Producers |-> 0]
  /\ getter = [c \in Consumers |-> "idle"]
  /\ held = [c \in Consumers |-> {}]
  /\ lastSeen = [c \in Consumers |-> 0]
  /\ camera = "off"

\* frame_queue_v2_init: the nodes os_malloc gave (S) go to free_list in the
\* order they are created; a node that could not be allocated is left out.
QueueInit(S) ==
  /\ ~inited
  /\ inited' = TRUE
  /\ list' = Upd(list, S, "free")
  /\ before' = {e \in S \X S : e[1] < e[2]}
  /\ UNCHANGED <<frame, inUse, refCount, mask, accessed, active, sem,
                 bufVars, prodVars, consVars, camera>>

\* doorbell_camera_turn_on: the camera starts only on an initialised queue.
CameraOn ==
  /\ inited
  /\ camera = "off"
  /\ camera' = "on"
  /\ UNCHANGED <<queueVars, bufVars, prodVars, consVars>>

\* No call of a producer into the queue is under way: the driver's close
\* returns only after its callbacks have.
ProducersBetweenCalls == \A p \in Producers : pst[p] \in {"idle", "filling"}

\* doorbell_camera_turn_off: the camera is closed before the queue is
\* cleared.  A frame that was being filled is abandoned: its node stays
\* in_use in free_list.
CameraOff ==
  /\ camera = "on"
  /\ ProducersBetweenCalls
  /\ camera' = "off"
  /\ pst' = [p \in Producers |-> "idle"]
  /\ pnode' = [p \in Producers |-> NULL]
  /\ pbuf' = [p \in Producers |-> NULL]
  /\ UNCHANGED <<queueVars, bufVars, psig, consVars>>

\* Mutant: the core thread clears the queue while the camera runs.
MayClearAlways == inited

\* The callers of clear_all have closed the camera: camera_turn_off calls it
\* after doorbell_camera_close, display_turn_off only without a camera.
MayClear == inited /\ camera = "off"

\* The ready nodes clear_all moves: the ones no consumer holds.
Clearable == {n \in In("ready") : refCount[n] = 0}

\* frame_queue_v2_clear_all, first critical section.
ClearReady ==
  /\ MayClear
  /\ Recycle(Clearable)
  /\ mask' = Upd(mask, Clearable, {})
  /\ camera' = "clear"
  /\ UNCHANGED <<inited, frame, active, sem, bufVars, prodVars, consVars>>

\* frame_queue_v2_clear_all, second critical section: every buffer of
\* free_list is freed, also one of a node that was malloc'd and abandoned.
ClearFree ==
  /\ camera = "clear"
  /\ inUse' = Upd(inUse, In("free"), FALSE)
  /\ heap' = heap \ {frame[n] : n \in In("free")}
  /\ frame' = Upd(frame, In("free"), NULL)
  /\ camera' = "off"
  /\ UNCHANGED <<inited, list, before, refCount, mask, accessed, active, sem,
                 content, seqNo, prodVars, consVars>>

\* frame_queue_v2_deinit: only the queue's test calls it, with the camera
\* off and every frame released, so that its one-node critical sections are
\* one step: every node and its buffer is destroyed, the structure zeroed.
QueueDeinit ==
  /\ inited
  /\ camera = "off"
  /\ In("limbo") = {}
  /\ \A c \in Consumers : held[c] = {} /\ getter[c] = "idle"
  /\ inited' = FALSE
  /\ heap' = heap \ {frame[n] : n \in Nodes}
  /\ list' = [n \in Nodes |-> "none"]
  /\ before' = {}
  /\ frame' = [n \in Nodes |-> NULL]
  /\ inUse' = [n \in Nodes |-> FALSE]
  /\ mask' = [n \in Nodes |-> {}]
  /\ accessed' = [n \in Nodes |-> {}]
  /\ refCount' = [n \in Nodes |-> 0]
  /\ active' = {}
  /\ sem' = 0
  /\ UNCHANGED <<content, seqNo, prodVars, consVars, camera>>

-----------------------------------------------------------------------------
(* Consumers come and go: frame_queue_v2_register_consumer and             *)
(* _unregister_consumer, one critical section each.                        *)

\* Frames completed while no consumer was registered: nobody will get them.
Orphaned == {n \in In("ready") : mask[n] = {} /\ refCount[n] = 0}

Register(c) ==
  /\ inited
  /\ active' = active \cup {c}
  /\ Recycle(Orphaned)
  /\ mask' = Upd(mask, Orphaned, {})
  /\ UNCHANGED <<inited, frame, sem, bufVars, prodVars, consVars, camera>>

\* The ready frames consumer c has still to get.
Owed(c) == {n \in In("ready") : c \in mask[n] /\ c \notin accessed[n]}

\* Mutant: unregister looks only for an empty consumer_mask.
LastOwedToNobody(c) == {n \in Owed(c) : refCount[n] = 0 /\ mask[n] = {c}}

\* The frames nobody needs once c no longer does: recycled by unregister.
LastOwedTo(c) ==
  {n \in Owed(c) : refCount[n] = 0 /\ mask[n] \ {c} \subseteq accessed[n]}

Unregister(c) ==
  /\ inited
  /\ active' = active \ {c}
  /\ Recycle(LastOwedTo(c))
  /\ mask' = [n \in Nodes |-> IF n \in LastOwedTo(c) THEN {}
                              ELSE IF n \in Owed(c) THEN mask[n] \ {c}
                              ELSE mask[n]]
  /\ UNCHANGED <<inited, frame, sem, bufVars, prodVars, consVars, camera>>

-----------------------------------------------------------------------------
(* Producers: frame_queue_v2_malloc, _complete and _cancel.                *)

Available == {n \in In("free") : ~inUse[n]}

\* Mutants: malloc drops any ready frame; only frames that all have had.
DroppableAny == In("ready")
DroppableRead == {n \in In("ready") : refCount[n] = 0 /\ mask[n] \subseteq accessed[n]}

\* The frames malloc may drop for a producer: the ones nobody holds.
Droppable == {n \in In("ready") : refCount[n] = 0}

\* frame_queue_v2_malloc, critical section: the first unoccupied free node,
\* or else (MJPEG and YUV) the oldest ready frame nobody holds.  With
\* neither, malloc returns NULL and nothing changes.
MallocClaim(p) ==
  /\ camera = "on"
  /\ pst[p] = "idle"
  /\ seqNo < MaxSeq
  /\ \/ \E n \in First(Available) :
          /\ pnode' = [pnode EXCEPT ![p] = n]
          /\ inUse' = [inUse EXCEPT ![n] = TRUE]
          /\ UNCHANGED <<list, before>>
     \/ /\ Available = {}
        /\ Reuse
        /\ \E n \in First(Droppable) :
             /\ pnode' = [pnode EXCEPT ![p] = n]
             /\ inUse' = [inUse EXCEPT ![n] = TRUE]
             /\ list' = [list EXCEPT ![n] = "free"]
             /\ before' = MovedToHead(n, "free")
  /\ pst' = [pst EXCEPT ![p] = "claimed"]
  /\ UNCHANGED <<inited, frame, refCount, mask, accessed, active, sem,
                 bufVars, pbuf, psig, consVars, camera>>

\* What malloc does outside the critical section with the buffer b.
Returned(p, b) ==
  /\ refCount' = [refCount EXCEPT ![pnode[p]] = 0]
  /\ accessed' = [accessed EXCEPT ![pnode[p]] = {}]
  /\ pbuf' = [pbuf EXCEPT ![p] = b]
  /\ pst' = [pst EXCEPT ![p] = "filling"]
  /\ UNCHANGED <<inited, list, before, inUse, mask, active, sem, content,
                 seqNo, pnode, psig, consVars, camera>>

MallocNew(p) ==
  /\ pst[p] = "claimed"
  /\ frame[pnode[p]] = NULL
  /\ \E b \in Bufs \ heap :
       /\ heap' = heap \cup {b}
       /\ frame' = [frame EXCEPT ![pnode[p]] = b]
       /\ Returned(p, b)

MallocReuse(p) ==
  /\ pst[p] = "claimed"
  /\ frame[pnode[p]] # NULL
  /\ Returned(p, frame[pnode[p]])
  /\ UNCHANGED <<heap, frame>>

\* The buffer allocator has no memory: the node is unoccupied again.
MallocFail(p) ==
  /\ pst[p] = "claimed"
  /\ frame[pnode[p]] = NULL
  /\ inUse' = [inUse EXCEPT ![pnode[p]] = FALSE]
  /\ pst' = [pst EXCEPT ![p] = "idle"]
  /\ pnode' = [pnode EXCEPT ![p] = NULL]
  /\ UNCHANGED <<inited, list, before, frame, refCount, mask, accessed,
                 active, sem, bufVars, pbuf, psig, consVars, camera>>

\* The node complete and cancel look for: occupied, with this buffer.
Filled(b) == First({n \in In("free") : inUse[n] /\ frame[n] = b})

SignalCount == IF active = {} THEN 1 ELSE Cardinality(active)

\* frame_queue_v2_complete, critical section.  BK_FAIL when no node is found.
Complete(p) ==
  LET found == Filled(pbuf[p]) IN
  /\ pst[p] = "filling"
  /\ seqNo < MaxSeq
  /\ list' = Upd(list, found, "ready")
  /\ before' = MovedToTail(found, "ready")
  /\ inUse' = Upd(inUse, found, FALSE)
  /\ accessed' = Upd(accessed, found, {})
  /\ mask' = Upd(mask, found, active)
  /\ seqNo' = seqNo + 1
  /\ content' = [content EXCEPT ![pbuf[p]] = seqNo + 1]
  /\ pst' = [pst EXCEPT ![p] = IF found = {} THEN "idle" ELSE "signal"]
  /\ psig' = [psig EXCEPT ![p] = IF found = {} THEN 0 ELSE SignalCount]
  /\ pnode' = [pnode EXCEPT ![p] = NULL]
  /\ pbuf' = [pbuf EXCEPT ![p] = NULL]
  /\ UNCHANGED <<inited, frame, refCount, active, sem, heap, consVars, camera>>

\* Mutant: a frame_ready semaphore created without its limit.
SignalUnlimited(p) ==
  /\ pst[p] = "signal"
  /\ sem' = sem + 1
  /\ psig' = [psig EXCEPT ![p] = @ - 1]
  /\ pst' = [pst EXCEPT ![p] = IF psig[p] = 1 THEN "idle" ELSE "signal"]
  /\ UNCHANGED <<inited, nodeVars, active, bufVars, pnode, pbuf, consVars,
                 camera>>

\* One rtos_set_semaphore of complete; a full semaphore stays full.
Signal(p) ==
  /\ pst[p] = "signal"
  /\ sem' = IF sem < SemMax THEN sem + 1 ELSE sem
  /\ psig' = [psig EXCEPT ![p] = @ - 1]
  /\ pst' = [pst EXCEPT ![p] = IF psig[p] = 1 THEN "idle" ELSE "signal"]
  /\ UNCHANGED <<inited, nodeVars, active, bufVars, pnode, pbuf, consVars,
                 camera>>

\* Mutant: cancel frees the buffer and leaves it in the node.
CancelKeepsFrame(p) ==
  LET found == Filled(pbuf[p]) IN
  /\ pst[p] = "filling"
  /\ inUse' = Upd(inUse, found, FALSE)
  /\ pst' = [pst EXCEPT ![p] = IF found = {} THEN "idle" ELSE "cancel"]
  /\ pnode' = [pnode EXCEPT ![p] = NULL]
  /\ UNCHANGED <<inited, list, before, frame, refCount, mask, accessed, active,
                 sem, bufVars, pbuf, psig, consVars, camera>>

\* frame_queue_v2_cancel, critical section.
Cancel(p) ==
  LET found == Filled(pbuf[p]) IN
  /\ pst[p] = "filling"
  /\ frame' = Upd(frame, found, NULL)
  /\ inUse' = Upd(inUse, found, FALSE)
  /\ pst' = [pst EXCEPT ![p] = IF found = {} THEN "idle" ELSE "cancel"]
  /\ pnode' = [pnode EXCEPT ![p] = NULL]
  /\ UNCHANGED <<inited, list, before, refCount, mask, accessed, active, sem,
                 bufVars, pbuf, psig, consVars, camera>>

\* Cancel frees the buffer outside the critical section.
CancelFree(p) ==
  /\ pst[p] = "cancel"
  /\ heap' = heap \ {pbuf[p]}
  /\ pst' = [pst EXCEPT ![p] = "idle"]
  /\ pbuf' = [pbuf EXCEPT ![p] = NULL]
  /\ UNCHANGED <<queueVars, content, seqNo, pnode, psig, consVars, camera>>

-----------------------------------------------------------------------------
(* Consumers: frame_queue_v2_get_frame and _release_frame.                 *)

\* Mutant: get_frame waits on the semaphore before its first search.
GetStartWaiting(c) ==
  /\ inited
  /\ c \in active
  /\ getter[c] = "idle"
  /\ Cardinality(held[c]) < MaxHold
  /\ getter' = [getter EXCEPT ![c] = "wait"]
  /\ UNCHANGED <<queueVars, bufVars, prodVars, held, lastSeen, camera>>

\* get_frame is entered by a consumer that is enabled.
GetStart(c) ==
  /\ inited
  /\ c \in active
  /\ getter[c] = "idle"
  /\ Cardinality(held[c]) < MaxHold
  /\ getter' = [getter EXCEPT ![c] = "search"]
  /\ UNCHANGED <<queueVars, bufVars, prodVars, held, lastSeen, camera>>

\* Step 1 of get_frame finds a frame and takes a reference.
GetFrame(c) ==
  /\ getter[c] = "search"
  /\ \E n \in First(Owed(c)) :
       /\ refCount' = [refCount EXCEPT ![n] = @ + 1]
       /\ accessed' = [accessed EXCEPT ![n] = @ \cup {c}]
       /\ held' = [held EXCEPT ![c] = @ \cup {frame[n]}]
       /\ lastSeen' = [lastSeen EXCEPT ![c] = content[frame[n]]]
  /\ getter' = [getter EXCEPT ![c] = "idle"]
  /\ UNCHANGED <<inited, list, before, frame, inUse, mask, active, sem,
                 bufVars, prodVars, camera>>

\* Step 1 finds nothing: on to the semaphore.
GetNothing(c) ==
  /\ getter[c] = "search"
  /\ Owed(c) = {}
  /\ getter' = [getter EXCEPT ![c] = "wait"]
  /\ UNCHANGED <<queueVars, bufVars, prodVars, held, lastSeen, camera>>

\* Step 3: the semaphore is taken; the search starts again.
GetWoken(c) ==
  /\ getter[c] = "wait"
  /\ sem > 0
  /\ sem' = sem - 1
  /\ getter' = [getter EXCEPT ![c] = "search"]
  /\ UNCHANGED <<inited, nodeVars, active, bufVars, prodVars, held, lastSeen,
                 camera>>

\* The timeout of get_frame passes: it returns NULL.
GetTimeout(c) ==
  /\ getter[c] = "wait"
  /\ getter' = [getter EXCEPT ![c] = "idle"]
  /\ UNCHANGED <<queueVars, bufVars, prodVars, held, lastSeen, camera>>

\* Mutant: release takes the head of ready_list for the frame's node.
HoldingHead(b) == First(In("ready"))

\* The node release looks for: ready, with this buffer.
Holding(b) == First({n \in In("ready") : frame[n] = b})

\* The nodes that release of b returns to free_list: the last reference goes
\* and every consumer that needs the frame has had it.
LastReference(b) ==
  {n \in Holding(b) : refCount[n] <= 1 /\ mask[n] \subseteq accessed[n]}

\* frame_queue_v2_release_frame, critical section.
Release(c, b) ==
  /\ b \in held[c]
  /\ held' = [held EXCEPT ![c] = @ \ {b}]
  /\ refCount' = [n \in Nodes |-> IF n \in Holding(b) /\ refCount[n] > 0
                                  THEN refCount[n] - 1 ELSE refCount[n]]
  /\ list' = Upd(list, LastReference(b), "limbo")
  /\ before' = Removed(LastReference(b))
  /\ UNCHANGED <<inited, frame, inUse, mask, accessed, active, sem, bufVars,
                 prodVars, getter, lastSeen, camera>>

\* Outside the critical section the last release frees the buffer, resets
\* the node ...
ReleaseFree(n) ==
  /\ list[n] = "limbo"
  /\ frame[n] # NULL
  /\ heap' = heap \ {frame[n]}
  /\ frame' = [frame EXCEPT ![n] = NULL]
  /\ mask' = [mask EXCEPT ![n] = {}]
  /\ accessed' = [accessed EXCEPT ![n] = {}]
  /\ UNCHANGED <<inited, list, before, inUse, refCount, active, sem, content,
                 seqNo, prodVars, consVars, camera>>

\* ... and puts it at the tail of free_list, in a second critical section.
ReleaseNode(n) ==
  /\ list[n] = "limbo"
  /\ frame[n] = NULL
  /\ list' = [list EXCEPT ![n] = "free"]
  /\ before' = MovedToTail({n}, "free")
  /\ UNCHANGED <<inited, frame, inUse, refCount, mask, accessed, active, sem,
                 bufVars, prodVars, consVars, camera>>

-----------------------------------------------------------------------------
\* Calls of a producer, of a consumer and of a release under way.
ProducerNext(p) ==
  \/ MallocClaim(p) \/ MallocNew(p) \/ MallocReuse(p)
  \/ Complete(p) \/ Signal(p) \/ CancelFree(p)

ConsumerNext(c) ==
  \/ GetStart(c) \/ GetFrame(c) \/ GetNothing(c) \/ GetWoken(c)
  \/ \E b \in Bufs : Release(c, b)

ReleaseNext(n) == ReleaseFree(n) \/ ReleaseNode(n)

\* Streaming: nothing fails, nobody leaves and get_frame waits for ever.
Streaming ==
  \/ QueueInit(Nodes)
  \/ CameraOn
  \/ \E c \in Consumers : Register(c) \/ ConsumerNext(c)
  \/ \E p \in Producers : ProducerNext(p)
  \/ \E n \in Nodes : ReleaseNext(n)

Timeouts == \E c \in Consumers : GetTimeout(c)

\* What may happen besides: no memory, errors, the camera and consumers stop.
Disturbance ==
  \/ \E S \in SUBSET Nodes : QueueInit(S)
  \/ CameraOff \/ ClearReady \/ ClearFree \/ QueueDeinit
  \/ \E c \in Consumers : Unregister(c)
  \/ \E p \in Producers : MallocFail(p) \/ Cancel(p)

Next == Streaming \/ Timeouts \/ Disturbance

Spec == Init /\ [][Next]_vars

-----------------------------------------------------------------------------
(* Properties.                                                             *)

\* The types of the queue's fields and of the threads' local state.
TypeOK ==
  /\ inited \in BOOLEAN
  /\ list \in [Nodes -> {"free", "ready", "limbo", "none"}]
  /\ before \subseteq Nodes \X Nodes
  /\ frame \in [Nodes -> Bufs \cup {NULL}]
  /\ inUse \in [Nodes -> BOOLEAN]
  /\ refCount \in [Nodes -> Nat]
  /\ mask \in [Nodes -> SUBSET Consumers]
  /\ accessed \in [Nodes -> SUBSET Consumers]
  /\ active \subseteq Consumers
  /\ sem \in 0..SemMax
  /\ heap \subseteq Bufs
  /\ content \in [Bufs -> Nat]
  /\ seqNo \in Nat
  /\ pst \in [Producers -> {"idle", "claimed", "filling", "signal", "cancel"}]
  /\ pnode \in [Producers -> Nodes \cup {NULL}]
  /\ pbuf \in [Producers -> Bufs \cup {NULL}]
  /\ psig \in [Producers -> Nat]
  /\ getter \in [Consumers -> {"idle", "search", "wait"}]
  /\ held \in [Consumers -> SUBSET Bufs]
  /\ lastSeen \in [Consumers -> Nat]
  /\ camera \in {"on", "off", "clear"}

Holders(b) == {c \in Consumers : b \in held[c]}

\* A buffer that get_frame returned stays allocated, and its node stays in
\* ready_list, until every consumer that got it has released it: no malloc,
\* clear_all, unregister or release by another consumer takes it away.
HeldIntact ==
  \A c \in Consumers : \A b \in held[c] :
    /\ b \in heap
    /\ \E n \in In("ready") : frame[n] = b /\ c \in accessed[n]

\* ref_count of a ready node is the number of consumers that hold its frame,
\* whatever the order of gets, releases and unregistrations.
RefCountExact ==
  \A n \in In("ready") : refCount[n] = Cardinality(Holders(frame[n]))

\* The buffer a producer fills is allocated, is not readable by a consumer
\* and is not given to another producer, also when malloc took the node from
\* ready_list and when the camera is stopped and the queue cleared.
ProducerOwns ==
  \A p \in Producers : pst[p] = "filling" =>
    /\ pbuf[p] \in heap
    /\ \A n \in In("ready") : frame[n] # pbuf[p]
    /\ \A q \in Producers \ {p} : pst[q] = "filling" => pbuf[q] # pbuf[p]

\* No leak and no double free: the allocated buffers are exactly the ones
\* some node has and the ones a cancel is about to free, each once.
HeapExact ==
  /\ heap = ({frame[n] : n \in Nodes} \ {NULL})
              \cup {pbuf[p] : p \in {q \in Producers : pst[q] = "cancel"}}
  /\ \A m, n \in Nodes : m # n /\ frame[m] # NULL => frame[m] # frame[n]
  /\ \A p \in Producers : pst[p] = "cancel" =>
       \A n \in Nodes : frame[n] # pbuf[p]

\* A ready frame that nobody holds is still needed by a registered consumer,
\* or was completed without any and none has come: register, unregister and
\* release never leave a node in ready_list that nothing will take out.
NothingStranded ==
  \A n \in In("ready") :
    /\ mask[n] \ accessed[n] \subseteq active
    /\ refCount[n] = 0 /\ mask[n] \subseteq accessed[n] =>
         mask[n] = {} /\ active = {}

\* Every get_frame of a consumer returns a frame completed after the one the
\* consumer got before: each frame at most once, in order, also when frames
\* are dropped and their nodes reused.
InOrder ==
  [][\A c \in Consumers :
       getter[c] = "search" /\ getter'[c] = "idle" =>
         lastSeen'[c] > lastSeen[c]]_vars

-----------------------------------------------------------------------------
(* The inductive invariant behind the properties above.                    *)

\* in_use marks only nodes of free_list; ready nodes have a buffer; without
\* an initialised queue there are no nodes.
NodeInv ==
  /\ camera # "off" => inited
  /\ \A n \in Nodes :
       /\ inUse[n] => list[n] = "free"
       /\ list[n] = "ready" => frame[n] # NULL
       /\ list[n] = "none" => frame[n] = NULL
       /\ ~inited => list[n] = "none"

Owns(p) == pst[p] \in {"claimed", "filling"}

\* A producer between malloc and complete owns an occupied node alone, and
\* knows the buffer of that node; a cancelled buffer belongs to no node.
ProdInv ==
  \A p \in Producers :
    /\ camera # "on" => pst[p] = "idle"
    /\ Owns(p) => /\ pnode[p] \in Nodes
                  /\ inUse[pnode[p]]
                  /\ \A q \in Producers \ {p} : Owns(q) => pnode[q] # pnode[p]
    /\ pst[p] = "filling" => /\ pbuf[p] \in Bufs
                             /\ frame[pnode[p]] = pbuf[p]
                             /\ refCount[pnode[p]] = 0
    /\ pst[p] = "signal" => psig[p] > 0
    /\ pst[p] = "cancel" => /\ pbuf[p] \in Bufs
                            /\ \A q \in Producers \ {p} :
                                 pst[q] = "cancel" => pbuf[q] # pbuf[p]

QueueInv ==
  /\ TypeOK /\ NodeInv /\ ProdInv /\ HeapExact /\ HeldIntact /\ RefCountExact

\* Who has had a frame is among those it was completed for.
AccessedNeeded == \A n \in In("ready") : accessed[n] \subseteq mask[n]

StrandedInv == NothingStranded /\ AccessedNeeded

\* ready_list is in the order of completion, and a frame a consumer has
\* still to get is newer than the last one it got.
OrderInv ==
  /\ \A n \in Nodes : <<n, n>> \notin before
  /\ \A c \in Consumers : lastSeen[c] <= seqNo
  /\ \A n \in In("ready") : content[frame[n]] <= seqNo
  /\ \A m, n \in In("ready") :
       <<m, n>> \in before => content[frame[m]] < content[frame[n]]
  /\ \A c \in Consumers : \A n \in Owed(c) : lastSeen[c] < content[frame[n]]

\* A consumer that does not release holds at most two frames at a time ("slow
\* consumer should be limited to 2 frames"): get_frame has no such limit.
SlowConsumerLimited == \A c \in Consumers : Cardinality(held[c]) <= 2
=============================================================================
