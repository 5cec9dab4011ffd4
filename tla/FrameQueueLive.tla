--------------------------- MODULE FrameQueueLive ---------------------------
(***************************************************************************)
(* What the frame queue promises while the camera streams: frames reach    *)
(* the consumers and a slow consumer does not stop the others.             *)
(***************************************************************************)
EXTENDS FrameQueue

CONSTANT Slow    \* consumers that may stop getting and releasing frames

ASSUME SlowAssumption == Slow \subseteq Consumers

\* The threads of producers and of the other consumers keep running: the
\* camera interrupt, the encoder, vid_trans, the decoder and the display
\* task loop for ever.  Each step is fair by itself: the scheduler runs every
\* ready thread, and a step once possible stays possible until it is taken.
Fairness ==
  /\ WF_vars(QueueInit(Nodes)) /\ WF_vars(CameraOn)
  /\ \A p \in Producers : WF_vars(ProducerNext(p))
  /\ \A n \in Nodes : WF_vars(ReleaseNext(n))
  /\ \A c \in Consumers \ Slow :
       /\ WF_vars(GetStart(c)) /\ WF_vars(GetFrame(c))
       /\ WF_vars(GetNothing(c))
       /\ WF_vars(\E b \in Bufs : Release(c, b))

\* The consumers of the firmware pass a timeout (50 ms, 10 ms): a wait ends.
TimedSpec ==
  /\ Init /\ [][Streaming \/ Timeouts]_vars
  /\ Fairness
  /\ \A c \in Consumers \ Slow : WF_vars(GetWoken(c) \/ GetTimeout(c))

\* Consumers that pass BEKEN_WAIT_FOREVER: only the semaphore ends a wait.
UntimedSpec ==
  /\ Init /\ [][Streaming]_vars
  /\ Fairness
  /\ \A c \in Consumers \ Slow : WF_vars(GetWoken(c))

\* A frame that complete puts into ready_list for a running consumer is got
\* by it or dropped by malloc: no lost semaphore keeps it there for ever.
Delivered ==
  \A c \in Consumers \ Slow : \A n \in Nodes : (n \in Owed(c)) ~> (n \notin Owed(c))

\* The slow consumers hold the frame of every node: malloc has nothing to give.
Exhausted ==
  \A n \in Nodes : list[n] = "ready" /\ \E c \in Slow : frame[n] \in held[c]

\* A consumer that keeps up gets frames to the last one the camera makes,
\* whatever a slow consumer that is registered as well does, short of holding
\* every node.  frame_que_v2.c:21 claims it without exception ("Slow consumer
\* protection (automatic frame dropping, no blocking of fast consumers)"); but
\* get_frame has no limit on what a consumer holds, and held frames stay.
FastConsumerServed ==
  \A c \in Consumers \ Slow :
    (c \in active /\ seqNo < MaxSeq) ~> (lastSeen[c] = MaxSeq \/ Exhausted)

\* The claim as it is written.
FastNeverBlocked ==
  \A c \in Consumers \ Slow :
    (c \in active /\ seqNo < MaxSeq) ~> (lastSeen[c] = MaxSeq)

\* A consumer that waits on the semaphore while a frame is ready for it is
\* woken ("complete will send semaphore multiple times, ensuring all
\* consumers can wake up").
WaiterWoken ==
  \A c \in Consumers \ Slow :
    (getter[c] = "wait" /\ Owed(c) # {}) ~> (getter[c] # "wait")
=============================================================================
