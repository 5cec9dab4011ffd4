------------------------ MODULE FrameQueueRefinement ------------------------
(***************************************************************************)
(* The frame queue implements FrameBroadcast: a frame is known by its      *)
(* number, and a consumer holds the frames whose numbers are the contents  *)
(* of the buffers it holds.                                                *)
(***************************************************************************)
EXTENDS FrameQueue

Broadcast == INSTANCE FrameBroadcast WITH
  published <- seqNo,
  lastRead <- lastSeen,
  holding <- [c \in Consumers |-> {content[b] : b \in held[c]}]

\* Every step of the queue is a step of the broadcast or invisible: whatever
\* malloc drops, clear_all frees and release recycles, a frame that get_frame
\* returned is neither overwritten nor replaced while it is held, and no
\* consumer gets a frame twice, out of order or before it is complete.
ImplementsBroadcast == Broadcast!Spec

\* Ready frames have different numbers, so that a consumer that returns a
\* buffer returns one frame.
DistinctInv ==
  \A m, n \in In("ready") : m # n => content[frame[m]] # content[frame[n]]
=============================================================================
