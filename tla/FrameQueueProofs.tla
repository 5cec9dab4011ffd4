-------------------------- MODULE FrameQueueProofs --------------------------
(***************************************************************************)
(* Proofs about the frame queue, for every number of nodes, consumers,     *)
(* producers and buffers, and about the lists it is made of.               *)
(***************************************************************************)
EXTENDS FrameQueueRefinement, FrameList, FiniteSetTheorems, SequenceTheorems,
        WellFoundedInduction, TLAPS

-----------------------------------------------------------------------------
(* What the searches of the code find.                                     *)

\* complete and cancel find the node their producer claimed.
LEMMA FilledIsNode ==
  ASSUME QueueInv, NEW p \in Producers, pst[p] = "filling"
  PROVE  /\ Filled(pbuf[p]) = {pnode[p]}
         /\ pnode[p] \in Nodes /\ pbuf[p] \in Bufs
         /\ list[pnode[p]] = "free" /\ frame[pnode[p]] = pbuf[p]
<1> DEFINE n == pnode[p]
           F == {m \in In("free") : inUse[m] /\ frame[m] = pbuf[p]}
<1>1. n \in Nodes /\ inUse[n] /\ frame[n] = pbuf[p] /\ pbuf[p] \in Bufs
  BY DEF QueueInv, ProdInv, Owns
<1>2. list[n] = "free"
  BY <1>1 DEF QueueInv, NodeInv
<1>3. F = {n}
  BY <1>1, <1>2, FrameQueueAssumption DEF QueueInv, HeapExact, In
<1>4. First(F) = {n}
  BY <1>3 DEF First
<1> QED
  BY <1>1, <1>2, <1>4 DEF Filled

\* The consumers that hold a buffer are finitely many.
LEMMA HoldersFinite ==
  ASSUME NEW b
  PROVE  IsFiniteSet(Holders(b)) /\ Cardinality(Holders(b)) \in Nat
<1>1. Holders(b) \subseteq Consumers
  BY DEF Holders
<1> QED
  BY <1>1, FS_Subset, FS_CardinalityType, FrameQueueAssumption

\* release_frame finds the one ready node of a buffer the caller holds, and
\* that node is referenced.
LEMMA HoldingIsNode ==
  ASSUME QueueInv, NEW c \in Consumers, NEW b \in held[c]
  PROVE  \E n \in Nodes : /\ Holding(b) = {n}
                          /\ list[n] = "ready" /\ frame[n] = b
                          /\ c \in accessed[n] /\ refCount[n] > 0
<1>1. PICK n \in In("ready") : frame[n] = b /\ c \in accessed[n]
  BY DEF QueueInv, HeldIntact
<1>2. n \in Nodes /\ list[n] = "ready"
  BY DEF In
<1>3. b \in Bufs /\ b # NULL
  BY FrameQueueAssumption DEF QueueInv, TypeOK
<1>4. {m \in In("ready") : frame[m] = b} = {n}
  BY <1>1, <1>2, <1>3 DEF QueueInv, HeapExact, In
<1>5. Holding(b) = {n}
  BY <1>4 DEF Holding, First
<1>6. c \in Holders(b) /\ refCount[n] = Cardinality(Holders(b))
  BY <1>1 DEF QueueInv, RefCountExact, Holders
<1>7. refCount[n] > 0
  BY <1>6, HoldersFinite, FS_EmptySet DEF QueueInv, TypeOK
<1> QED
  BY <1>1, <1>2, <1>5, <1>7

\* A frame whose reference count is 0 is held by nobody.
LEMMA Unheld ==
  ASSUME QueueInv, NEW n \in In("ready"), refCount[n] = 0
  PROVE  Holders(frame[n]) = {}
  BY HoldersFinite, FS_EmptySet DEF QueueInv, RefCountExact

-----------------------------------------------------------------------------
(* Every action keeps the inductive invariant.                             *)

\* Moving ready nodes that nobody holds to free_list, as clear_all, register
\* and unregister do.
LEMMA RecycleStep ==
  ASSUME QueueInv, NEW S \in SUBSET In("ready"),
         \A n \in S : refCount[n] = 0,
         Recycle(S),
         mask' \in [Nodes -> SUBSET Consumers], active' \subseteq Consumers,
         UNCHANGED <<inited, frame, sem, heap, content, seqNo, pst, pnode,
                     pbuf, psig, getter, held, lastSeen>>,
         \/ UNCHANGED camera
         \/ camera = "off" /\ inited /\ camera' = "clear"
  PROVE  QueueInv'
<1>0. S \subseteq Nodes /\ \A n \in S : list[n] = "ready"
  BY DEF In
<1>1. TypeOK'
  BY <1>0 DEF QueueInv, TypeOK, Recycle, Upd, MovedToTail, In
<1>2. NodeInv'
  BY <1>0 DEF QueueInv, TypeOK, NodeInv, Recycle, Upd
<1>3. ProdInv'
  <2>1. ASSUME NEW p \in Producers, Owns(p) PROVE pnode[p] \notin S
    BY <2>1, <1>0 DEF QueueInv, ProdInv, NodeInv
  <2> QED
    BY <2>1, <1>0 DEF QueueInv, TypeOK, ProdInv, Owns, Recycle, Upd
<1>4. HeapExact'
  BY DEF QueueInv, HeapExact
<1>5. \A c \in Consumers : \A b \in held[c] : \A n \in Nodes :
        list[n] = "ready" /\ frame[n] = b => n \notin S
  BY Unheld DEF In, Holders
<1>6. HeldIntact'
  BY <1>0, <1>5 DEF QueueInv, TypeOK, HeldIntact, Recycle, Upd, In
<1>7. RefCountExact'
  <2>1. \A b : Holders(b)' = Holders(b)
    BY DEF Holders
  <2>2. \A n \in Nodes : list'[n] = "ready" => list[n] = "ready" /\ refCount'[n] = refCount[n]
    BY <1>0 DEF Recycle, Upd, QueueInv, TypeOK
  <2> QED
    BY <2>1, <2>2 DEF QueueInv, RefCountExact, In
<1> QED
  BY <1>1, <1>2, <1>3, <1>4, <1>6, <1>7 DEF QueueInv

\* clear_all recycles only ready frames nobody holds.
LEMMA ClearReadyStep == QueueInv /\ ClearReady => QueueInv'
<1> SUFFICES ASSUME QueueInv, ClearReady PROVE QueueInv'
  OBVIOUS
<1>1. mask' \in [Nodes -> SUBSET Consumers]
  BY DEF ClearReady, Upd, QueueInv, TypeOK
<1> QED
  BY <1>1, RecycleStep DEF ClearReady, MayClear, Clearable, bufVars, prodVars, consVars,
     QueueInv, TypeOK

\* register recycles only frames completed for nobody.
LEMMA RegisterStep ==
  ASSUME QueueInv, NEW c \in Consumers, Register(c) PROVE QueueInv'
<1>1. mask' \in [Nodes -> SUBSET Consumers]
  BY DEF Register, Upd, QueueInv, TypeOK
<1> QED
  BY <1>1, RecycleStep DEF Register, Orphaned, bufVars, prodVars, consVars,
     QueueInv, TypeOK

\* unregister recycles only frames that nobody holds or still needs.
LEMMA UnregisterStep ==
  ASSUME QueueInv, NEW c \in Consumers, Unregister(c) PROVE QueueInv'
<1>1. mask' \in [Nodes -> SUBSET Consumers]
  BY DEF Unregister, QueueInv, TypeOK
<1> QED
  BY <1>1, RecycleStep DEF Unregister, LastOwedTo, Owed, bufVars, prodVars,
     consVars, QueueInv, TypeOK

\* init builds the nodes of a queue that had none.
LEMMA QueueInitStep ==
  ASSUME QueueInv, NEW S \in SUBSET Nodes, QueueInit(S) PROVE QueueInv'
<1> USE DEF QueueInit, Upd, bufVars, prodVars, consVars
<1>1. TypeOK' /\ NodeInv' /\ ProdInv'
  BY DEF QueueInv, TypeOK, NodeInv, ProdInv, Owns
<1>2. In("ready") = {} /\ In("ready")' = {}
  BY DEF QueueInv, TypeOK, NodeInv, In
<1>3. HeapExact' /\ HeldIntact' /\ RefCountExact'
  BY <1>2 DEF QueueInv, HeapExact, HeldIntact, RefCountExact
<1> QED
  BY <1>1, <1>3 DEF QueueInv

\* clear_all frees the buffers of free_list, which no producer is filling.
LEMMA ClearFreeStep == QueueInv /\ ClearFree => QueueInv'
<1> SUFFICES ASSUME QueueInv, ClearFree PROVE QueueInv'
  OBVIOUS
<1> USE FrameQueueAssumption DEF ClearFree, Upd, prodVars, consVars
<1>1. TypeOK' /\ NodeInv' /\ In("ready")' = In("ready")
  BY DEF QueueInv, TypeOK, NodeInv, In
<1>2. \A p \in Producers : pst[p] = "idle"
  BY DEF QueueInv, ProdInv
<1>3. ProdInv'
  BY <1>2 DEF ProdInv, Owns
<1>4. HeapExact'
  <2>1. heap = {frame[n] : n \in Nodes} \ {NULL}
    BY <1>2 DEF QueueInv, HeapExact
  <2>2. \A m, n \in Nodes : m # n /\ frame[m] # NULL => frame[m] # frame[n]
    BY DEF QueueInv, HeapExact
  <2>3. heap' = {frame'[n] : n \in Nodes} \ {NULL}
    BY <2>1, <2>2 DEF QueueInv, TypeOK, In
  <2>4. \A m, n \in Nodes : m # n /\ frame'[m] # NULL => frame'[m] # frame'[n]
    BY <2>2 DEF QueueInv, TypeOK
  <2> QED
    BY <1>2, <2>3, <2>4 DEF HeapExact
<1>5. \A n \in In("ready") : frame'[n] = frame[n] /\ (frame[n] \in heap => frame[n] \in heap')
  BY DEF QueueInv, TypeOK, HeapExact, NodeInv, In
<1>6. HeldIntact'
  BY <1>5 DEF QueueInv, HeldIntact, In
<1>7. RefCountExact'
  <2>1. \A b : Holders(b)' = Holders(b)
    BY DEF Holders
  <2> QED
    BY <1>1, <1>5, <2>1 DEF QueueInv, RefCountExact
<1> QED
  BY <1>1, <1>3, <1>4, <1>6, <1>7 DEF QueueInv

\* deinit destroys the nodes when nobody is using them.
LEMMA QueueDeinitStep == QueueInv /\ QueueDeinit => QueueInv'
<1> SUFFICES ASSUME QueueInv, QueueDeinit PROVE QueueInv'
  OBVIOUS
<1> USE FrameQueueAssumption DEF QueueDeinit, prodVars, consVars
<1>1. \A p \in Producers : pst[p] = "idle"
  BY DEF QueueInv, ProdInv
<1>2. TypeOK' /\ NodeInv' /\ ProdInv'
  <2>1. TypeOK'
    <3>1. /\ list' \in [Nodes -> {"free", "ready", "limbo", "none"}]
          /\ frame' \in [Nodes -> Bufs \cup {NULL}]
          /\ inUse' \in [Nodes -> BOOLEAN]
          /\ refCount' \in [Nodes -> Nat]
      OBVIOUS
    <3>2. /\ mask' \in [Nodes -> SUBSET Consumers]
          /\ accessed' \in [Nodes -> SUBSET Consumers]
          /\ active' \subseteq Consumers /\ before' \subseteq Nodes \X Nodes
      OBVIOUS
    <3>3. inited' \in BOOLEAN
      BY Zenon
    <3>4. sem' \in 0..SemMax
      <4>1. sem' = 0
        BY Zenon
      <4> HIDE DEF QueueDeinit
      <4> QED
        BY <4>1
    <3>5. heap' \subseteq Bufs
      BY DEF QueueInv, TypeOK
    <3>6. UNCHANGED <<content, seqNo, pst, pnode, pbuf, psig, getter, held,
                      lastSeen, camera>>
      OBVIOUS
    <3> HIDE DEF QueueDeinit
    <3> QED
      BY <3>1, <3>2, <3>3, <3>4, <3>5, <3>6 DEF QueueInv, TypeOK
  <2>2. NodeInv'
    BY DEF NodeInv
  <2>3. ProdInv'
    BY <1>1 DEF ProdInv, Owns
  <2> QED
    BY <2>1, <2>2, <2>3
<1>3. heap' = {}
  BY <1>1 DEF QueueInv, HeapExact
<1>4. HeapExact' /\ HeldIntact' /\ RefCountExact'
  BY <1>1, <1>3 DEF HeapExact, HeldIntact, RefCountExact, In
<1> QED
  BY <1>2, <1>4 DEF QueueInv

\* Starting and stopping the camera; stopping abandons a frame being filled.
LEMMA CameraStep == QueueInv /\ (CameraOn \/ CameraOff) => QueueInv'
<1> SUFFICES ASSUME QueueInv, CameraOn \/ CameraOff PROVE QueueInv'
  OBVIOUS
<1> USE DEF CameraOn, CameraOff, ProducersBetweenCalls, queueVars, nodeVars,
            bufVars, prodVars, consVars
<1>1. TypeOK' /\ NodeInv' /\ ProdInv'
  BY DEF QueueInv, TypeOK, NodeInv, ProdInv, Owns
<1>2. HeapExact'
  BY DEF QueueInv, TypeOK, HeapExact
<1>3. HeldIntact' /\ RefCountExact'
  BY DEF QueueInv, HeldIntact, RefCountExact, Holders, In
<1> QED
  BY <1>1, <1>2, <1>3 DEF QueueInv

\* malloc's critical section: the node is unoccupied, or ready and unheld.
LEMMA MallocClaimStep ==
  ASSUME QueueInv, NEW p \in Producers, MallocClaim(p) PROVE QueueInv'
<1> USE DEF MallocClaim, bufVars, consVars
<1>1. PICK n \in Nodes :
        /\ pnode' = [pnode EXCEPT ![p] = n]
        /\ inUse' = [inUse EXCEPT ![n] = TRUE]
        /\ list' = [list EXCEPT ![n] = "free"]
        /\ before' \subseteq Nodes \X Nodes
        /\ ~inUse[n]
        /\ \/ list[n] = "free"
           \/ list[n] = "ready" /\ refCount[n] = 0
  <2>1. CASE \E n \in First(Available) :
               /\ pnode' = [pnode EXCEPT ![p] = n]
               /\ inUse' = [inUse EXCEPT ![n] = TRUE]
               /\ UNCHANGED <<list, before>>
    BY <2>1 DEF First, Available, In, QueueInv, TypeOK
  <2>2. CASE \E n \in First(Droppable) :
               /\ pnode' = [pnode EXCEPT ![p] = n]
               /\ inUse' = [inUse EXCEPT ![n] = TRUE]
               /\ list' = [list EXCEPT ![n] = "free"]
               /\ before' = MovedToHead(n, "free")
    <3>1. PICK n \in First(Droppable) :
            /\ pnode' = [pnode EXCEPT ![p] = n]
            /\ inUse' = [inUse EXCEPT ![n] = TRUE]
            /\ list' = [list EXCEPT ![n] = "free"]
            /\ before' = MovedToHead(n, "free")
      BY <2>2
    <3>2. n \in Nodes /\ list[n] = "ready" /\ refCount[n] = 0
      BY ONLY n \in First(Droppable) DEF First, Droppable, In
    <3>3. ~inUse[n]
      BY <3>2 DEF QueueInv, NodeInv
    <3>4. before \subseteq Nodes \X Nodes
      BY DEF QueueInv, TypeOK
    <3>5. MovedToHead(n, "free") \subseteq Nodes \X Nodes
      BY ONLY <3>2, <3>4 DEF MovedToHead, Removed, In
    <3> QED
      BY ONLY <3>1, <3>2, <3>3, <3>5
  <2> QED
    BY <2>1, <2>2
<1> HIDE DEF MallocClaim
<1>2. /\ camera = "on" /\ pst[p] = "idle"
      /\ pst' = [pst EXCEPT ![p] = "claimed"]
      /\ UNCHANGED <<inited, frame, refCount, mask, accessed, active, sem, heap,
                     content, seqNo, pbuf, psig, getter, held, lastSeen, camera>>
  BY DEF MallocClaim
<1>3. TypeOK'
  BY <1>1, <1>2 DEF QueueInv, TypeOK
<1>4. NodeInv'
  BY <1>1, <1>2 DEF QueueInv, TypeOK, NodeInv
<1>5. ProdInv'
  BY <1>1, <1>2 DEF QueueInv, TypeOK, ProdInv, Owns
<1>6. HeapExact'
  <2>1. \A q \in Producers : (pst'[q] = "cancel") = (pst[q] = "cancel")
    BY <1>2 DEF QueueInv, TypeOK
  <2> QED
    BY <1>2, <2>1 DEF QueueInv, HeapExact
<1>7. HeldIntact'
  <2>1. \A c \in Consumers : \A b \in held[c] : ~(list[n] = "ready" /\ frame[n] = b)
    BY <1>1, Unheld DEF In, Holders, QueueInv, NodeInv
  <2> QED
    BY <1>1, <1>2, <2>1 DEF QueueInv, TypeOK, HeldIntact, In
<1>8. RefCountExact'
  BY <1>1, <1>2 DEF QueueInv, TypeOK, RefCountExact, In, Holders
<1> QED
  BY <1>3, <1>4, <1>5, <1>6, <1>7, <1>8 DEF QueueInv

\* malloc outside the critical section, with a new or with a reused buffer.
LEMMA MallocBufferStep ==
  ASSUME QueueInv, NEW p \in Producers, MallocNew(p) \/ MallocReuse(p)
  PROVE  QueueInv'
<1> USE FrameQueueAssumption DEF Returned, consVars
<1> DEFINE n == pnode[p]
<1>1. PICK b \in Bufs :
        /\ pst[p] = "claimed" /\ Returned(p, b)
        /\ \/ /\ frame[n] = NULL /\ b \notin heap
              /\ heap' = heap \cup {b}
              /\ frame' = [frame EXCEPT ![n] = b]
           \/ frame[n] = b /\ UNCHANGED <<heap, frame>>
  BY DEF MallocNew, MallocReuse, QueueInv, TypeOK, ProdInv, Owns
<1>2. n \in Nodes /\ inUse[n] /\ list[n] = "free"
  BY <1>1 DEF QueueInv, ProdInv, Owns, NodeInv
<1>3. frame' = [frame EXCEPT ![n] = b]
  BY <1>1, <1>2 DEF QueueInv, TypeOK
<1>4. heap' = heap \cup {b}
  BY <1>1, <1>2 DEF QueueInv, HeapExact
<1>5. TypeOK'
  BY <1>1, <1>2, <1>3, <1>4 DEF QueueInv, TypeOK
<1>6. NodeInv'
  BY <1>1, <1>2, <1>3 DEF QueueInv, TypeOK, NodeInv
<1>7. ProdInv'
  BY <1>1, <1>2, <1>3 DEF QueueInv, TypeOK, ProdInv, Owns
<1>8. \A m \in Nodes \ {n} : frame[m] # b
  BY <1>1, <1>2 DEF QueueInv, HeapExact
<1>9. \A q \in Producers : /\ (pst'[q] = "cancel") = (pst[q] = "cancel")
                           /\ pst[q] = "cancel" => pbuf'[q] = pbuf[q] /\ pbuf[q] # b
  BY <1>1, <1>2 DEF QueueInv, TypeOK, HeapExact
<1>10. HeapExact'
  <2>1. heap' = ({frame'[m] : m \in Nodes} \ {NULL})
                  \cup {pbuf'[q] : q \in {r \in Producers : pst'[r] = "cancel"}}
    <3>1. {pbuf'[q] : q \in {r \in Producers : pst'[r] = "cancel"}}
            = {pbuf[q] : q \in {r \in Producers : pst[r] = "cancel"}}
      BY <1>9
    <3>2. {frame'[m] : m \in Nodes} \ {NULL} = ({frame[m] : m \in Nodes} \ {NULL}) \cup {b}
      BY <1>1, <1>2, <1>3 DEF QueueInv, TypeOK
    <3> QED
      BY <3>1, <3>2, <1>4 DEF QueueInv, HeapExact
  <2>2. \A m, k \in Nodes : m # k /\ frame'[m] # NULL => frame'[m] # frame'[k]
    BY <1>2, <1>3, <1>8 DEF QueueInv, TypeOK, HeapExact
  <2>3. \A q \in Producers : pst'[q] = "cancel" => \A m \in Nodes : frame'[m] # pbuf'[q]
    BY <1>2, <1>3, <1>9 DEF QueueInv, TypeOK, HeapExact
  <2> QED
    BY <2>1, <2>2, <2>3 DEF HeapExact
<1>11. \A m \in Nodes : list[m] = "ready" =>
         /\ frame'[m] = frame[m] /\ refCount'[m] = refCount[m]
         /\ accessed'[m] = accessed[m]
  BY <1>1, <1>2, <1>3 DEF QueueInv, TypeOK
<1>12. HeldIntact' /\ RefCountExact'
  BY <1>1, <1>4, <1>11 DEF QueueInv, HeldIntact, RefCountExact, In, Holders
<1> QED
  BY <1>5, <1>6, <1>7, <1>10, <1>12 DEF QueueInv

\* Without memory for a buffer the claimed node is given back.
LEMMA MallocFailStep ==
  ASSUME QueueInv, NEW p \in Producers, MallocFail(p) PROVE QueueInv'
<1> USE DEF MallocFail, bufVars, consVars
<1>1. pnode[p] \in Nodes /\ inUse[pnode[p]]
  BY DEF QueueInv, ProdInv, Owns
<1>2. TypeOK' /\ NodeInv'
  BY <1>1 DEF QueueInv, TypeOK, NodeInv
<1>3. ProdInv'
  BY <1>1 DEF QueueInv, TypeOK, ProdInv, Owns
<1>4. HeapExact'
  <2>1. \A q \in Producers : (pst'[q] = "cancel") = (pst[q] = "cancel")
    BY DEF QueueInv, TypeOK
  <2> QED
    BY <2>1 DEF QueueInv, HeapExact
<1>5. HeldIntact' /\ RefCountExact'
  BY DEF QueueInv, HeldIntact, RefCountExact, In, Holders
<1> QED
  BY <1>2, <1>3, <1>4, <1>5 DEF QueueInv

\* complete raises the semaphore at least once.
LEMMA SignalCountPos ==
  ASSUME TypeOK PROVE SignalCount \in Nat /\ SignalCount > 0
<1>1. IsFiniteSet(active)
  BY FS_Subset, FrameQueueAssumption DEF TypeOK
<1>2. Cardinality(active) \in Nat /\ (active # {} => Cardinality(active) # 0)
  BY <1>1, FS_CardinalityType, FS_EmptySet
<1> QED
  BY <1>2 DEF SignalCount

\* complete moves the producer's node, which nobody holds, to ready_list.
LEMMA CompleteStep ==
  ASSUME QueueInv, NEW p \in Producers, Complete(p) PROVE QueueInv'
<1> DEFINE n == pnode[p]
<1>1. /\ Filled(pbuf[p]) = {n} /\ n \in Nodes /\ pbuf[p] \in Bufs
      /\ list[n] = "free" /\ frame[n] = pbuf[p] /\ pst[p] = "filling"
  BY FilledIsNode DEF Complete
<1>2. /\ list' = [list EXCEPT ![n] = "ready"]
      /\ inUse' = [inUse EXCEPT ![n] = FALSE]
      /\ accessed' = [accessed EXCEPT ![n] = {}]
      /\ mask' = [mask EXCEPT ![n] = active]
      /\ before' \subseteq Nodes \X Nodes
      /\ seqNo' = seqNo + 1
      /\ content' = [content EXCEPT ![pbuf[p]] = seqNo + 1]
  BY <1>1 DEF Complete, Upd, MovedToTail, In, QueueInv, TypeOK
<1>3. /\ pst' = [pst EXCEPT ![p] = "signal"]
      /\ psig' = [psig EXCEPT ![p] = SignalCount]
      /\ pnode' = [pnode EXCEPT ![p] = NULL]
      /\ pbuf' = [pbuf EXCEPT ![p] = NULL]
      /\ UNCHANGED <<inited, frame, refCount, active, sem, heap, getter, held,
                     lastSeen, camera>>
  BY <1>1 DEF Complete, consVars
<1>4. TypeOK'
  BY <1>1, <1>2, <1>3, SignalCountPos DEF QueueInv, TypeOK
<1>5. NodeInv'
  BY <1>1, <1>2, <1>3, FrameQueueAssumption DEF QueueInv, TypeOK, NodeInv
<1>6. ProdInv'
  BY <1>1, <1>2, <1>3, SignalCountPos DEF QueueInv, TypeOK, ProdInv, NodeInv, Owns
<1>7. HeapExact'
  <2>1. \A q \in Producers : /\ (pst'[q] = "cancel") = (pst[q] = "cancel")
                             /\ pst[q] = "cancel" => pbuf'[q] = pbuf[q]
    BY <1>1, <1>3 DEF QueueInv, TypeOK
  <2> QED
    BY <1>3, <2>1 DEF QueueInv, HeapExact
<1>8. HeldIntact'
  BY <1>1, <1>2, <1>3 DEF QueueInv, TypeOK, HeldIntact, In
<1>9. RefCountExact'
  <2>1. Holders(frame[n]) = {}
    <3>1. ASSUME NEW c \in Consumers, frame[n] \in held[c] PROVE FALSE
      BY <3>1, <1>1, FrameQueueAssumption DEF QueueInv, HeldIntact, HeapExact, In
    <3> QED
      BY <3>1 DEF Holders
  <2>2. refCount[n] = 0 /\ Cardinality(Holders(frame[n])) = 0
    BY <1>1, <2>1, FS_EmptySet DEF QueueInv, ProdInv
  <2>3. \A b : Holders(b)' = Holders(b)
    BY <1>3 DEF Holders
  <2>4. \A m \in Nodes : list'[m] = "ready" => list[m] = "ready" \/ m = n
    BY <1>1, <1>2 DEF QueueInv, TypeOK
  <2> QED
    BY <1>1, <1>3, <2>2, <2>3, <2>4 DEF QueueInv, RefCountExact, In
<1> QED
  BY <1>4, <1>5, <1>6, <1>7, <1>8, <1>9 DEF QueueInv

\* The semaphore is raised as often as complete counted, up to its limit.
LEMMA SignalStep ==
  ASSUME QueueInv, NEW p \in Producers, Signal(p) PROVE QueueInv'
<1> USE DEF Signal, nodeVars, bufVars, consVars
<1>1. psig[p] \in Nat /\ psig[p] > 0
  BY DEF QueueInv, TypeOK, ProdInv
<1>2. TypeOK' /\ NodeInv'
  BY <1>1, FrameQueueAssumption DEF QueueInv, TypeOK, NodeInv
<1>3. ProdInv'
  BY <1>1 DEF QueueInv, TypeOK, ProdInv, Owns
<1>4. HeapExact'
  <2>1. \A q \in Producers : (pst'[q] = "cancel") = (pst[q] = "cancel")
    BY DEF QueueInv, TypeOK
  <2> QED
    BY <2>1 DEF QueueInv, HeapExact
<1>5. HeldIntact' /\ RefCountExact'
  BY DEF QueueInv, HeldIntact, RefCountExact, In, Holders
<1> QED
  BY <1>2, <1>3, <1>4, <1>5 DEF QueueInv

\* cancel takes the buffer from the node; only then may it be freed.
LEMMA CancelStep ==
  ASSUME QueueInv, NEW p \in Producers, Cancel(p) PROVE QueueInv'
<1> DEFINE n == pnode[p]
<1>1. /\ Filled(pbuf[p]) = {n} /\ n \in Nodes /\ pbuf[p] \in Bufs
      /\ list[n] = "free" /\ frame[n] = pbuf[p] /\ pst[p] = "filling"
  BY FilledIsNode DEF Cancel
<1>2. /\ frame' = [frame EXCEPT ![n] = NULL]
      /\ inUse' = [inUse EXCEPT ![n] = FALSE]
      /\ pst' = [pst EXCEPT ![p] = "cancel"]
      /\ pnode' = [pnode EXCEPT ![p] = NULL]
      /\ UNCHANGED <<inited, list, before, refCount, mask, accessed, active,
                     sem, heap, content, seqNo, pbuf, psig, getter, held,
                     lastSeen, camera>>
  BY <1>1 DEF Cancel, Upd, bufVars, consVars, QueueInv, TypeOK
<1> USE FrameQueueAssumption
<1>3. TypeOK' /\ NodeInv'
  BY <1>1, <1>2 DEF QueueInv, TypeOK, NodeInv
<1>4. ProdInv'
  BY <1>1, <1>2 DEF QueueInv, TypeOK, ProdInv, HeapExact, Owns
<1>5. HeapExact'
  <2>1. {frame'[m] : m \in Nodes} \ {NULL} = ({frame[m] : m \in Nodes} \ {NULL}) \ {pbuf[p]}
    BY <1>1, <1>2 DEF QueueInv, TypeOK, HeapExact
  <2>2. {q \in Producers : pst'[q] = "cancel"} = {q \in Producers : pst[q] = "cancel"} \cup {p}
    BY <1>1, <1>2 DEF QueueInv, TypeOK
  <2>3. heap' = ({frame'[m] : m \in Nodes} \ {NULL})
                  \cup {pbuf'[q] : q \in {r \in Producers : pst'[r] = "cancel"}}
    <3>1. pbuf[p] \in {frame[m] : m \in Nodes} \ {NULL}
      BY <1>1
    <3> QED
      BY <1>1, <1>2, <2>1, <2>2, <3>1 DEF QueueInv, HeapExact
  <2>4. \A m, k \in Nodes : m # k /\ frame'[m] # NULL => frame'[m] # frame'[k]
    BY <1>1, <1>2 DEF QueueInv, TypeOK, HeapExact
  <2>5. \A q \in Producers : pst'[q] = "cancel" => \A m \in Nodes : frame'[m] # pbuf'[q]
    BY <1>1, <1>2 DEF QueueInv, TypeOK, HeapExact, ProdInv
  <2> QED
    BY <2>3, <2>4, <2>5 DEF HeapExact
<1>6. \A m \in Nodes : list[m] = "ready" => frame'[m] = frame[m]
  BY <1>1, <1>2 DEF QueueInv, TypeOK
<1>7. HeldIntact' /\ RefCountExact'
  BY <1>2, <1>6 DEF QueueInv, HeldIntact, RefCountExact, In, Holders
<1> QED
  BY <1>3, <1>4, <1>5, <1>7 DEF QueueInv

\* cancel frees a buffer that no node has any more.
LEMMA CancelFreeStep ==
  ASSUME QueueInv, NEW p \in Producers, CancelFree(p) PROVE QueueInv'
<1> USE DEF CancelFree, queueVars, nodeVars, consVars
<1>1. TypeOK' /\ NodeInv' /\ ProdInv'
  BY DEF QueueInv, TypeOK, NodeInv, ProdInv, Owns
<1>2. \A n \in Nodes : frame[n] # pbuf[p]
  BY DEF QueueInv, HeapExact
<1>3. HeapExact'
  <2>1. {q \in Producers : pst'[q] = "cancel"} = {q \in Producers : pst[q] = "cancel"} \ {p}
    BY DEF QueueInv, TypeOK
  <2>2. {pbuf'[q] : q \in {r \in Producers : pst'[r] = "cancel"}}
          = {pbuf[q] : q \in {r \in Producers : pst[r] = "cancel"}} \ {pbuf[p]}
    BY <2>1 DEF QueueInv, TypeOK, ProdInv
  <2>3. heap' = ({frame'[m] : m \in Nodes} \ {NULL})
                  \cup {pbuf'[q] : q \in {r \in Producers : pst'[r] = "cancel"}}
    BY <1>2, <2>2 DEF QueueInv, HeapExact
  <2>4. \A q \in Producers : pst'[q] = "cancel" => \A m \in Nodes : frame'[m] # pbuf'[q]
    BY DEF QueueInv, TypeOK, HeapExact
  <2> QED
    BY <2>3, <2>4 DEF QueueInv, HeapExact
<1>4. HeldIntact' /\ RefCountExact'
  BY <1>2 DEF QueueInv, HeldIntact, RefCountExact, In, Holders
<1> QED
  BY <1>1, <1>3, <1>4 DEF QueueInv

\* The steps of get_frame that take no frame.
LEMMA GetOtherStep ==
  ASSUME QueueInv, NEW c \in Consumers,
         GetStart(c) \/ GetNothing(c) \/ GetWoken(c) \/ GetTimeout(c)
  PROVE  QueueInv'
<1> USE DEF GetStart, GetNothing, GetWoken, GetTimeout, queueVars, nodeVars,
            bufVars, prodVars
<1>1. TypeOK' /\ NodeInv' /\ ProdInv'
  BY FrameQueueAssumption DEF QueueInv, TypeOK, NodeInv, ProdInv, Owns
<1>2. HeapExact'
  BY DEF QueueInv, HeapExact
<1>3. HeldIntact' /\ RefCountExact'
  BY DEF QueueInv, HeldIntact, RefCountExact, In, Holders
<1> QED
  BY <1>1, <1>2, <1>3 DEF QueueInv

\* get_frame takes a reference on a frame its consumer does not hold yet.
LEMMA GetFrameStep ==
  ASSUME QueueInv, NEW c \in Consumers, GetFrame(c) PROVE QueueInv'
<1>1. PICK n \in First(Owed(c)) :
        /\ refCount' = [refCount EXCEPT ![n] = @ + 1]
        /\ accessed' = [accessed EXCEPT ![n] = @ \cup {c}]
        /\ held' = [held EXCEPT ![c] = @ \cup {frame[n]}]
        /\ lastSeen' = [lastSeen EXCEPT ![c] = content[frame[n]]]
  BY DEF GetFrame
<1>2. n \in Nodes /\ list[n] = "ready" /\ c \notin accessed[n]
  BY DEF First, Owed, In
<1>3. frame[n] \in Bufs /\ frame[n] \in heap
  BY <1>2 DEF QueueInv, TypeOK, NodeInv, HeapExact
<1>4. /\ getter' = [getter EXCEPT ![c] = "idle"]
      /\ UNCHANGED <<inited, list, before, frame, inUse, mask, active, sem,
                     heap, content, seqNo, pst, pnode, pbuf, psig, camera>>
  BY DEF GetFrame, bufVars, prodVars
<1>5. TypeOK'
  BY <1>1, <1>2, <1>3, <1>4 DEF QueueInv, TypeOK
<1>6. NodeInv'
  BY <1>4 DEF QueueInv, NodeInv
<1>7. ProdInv'
  <2>1. \A p \in Producers : Owns(p) => pnode[p] # n
    BY <1>2 DEF QueueInv, ProdInv, NodeInv
  <2> QED
    BY <1>1, <1>2, <1>4, <2>1 DEF QueueInv, TypeOK, ProdInv, Owns
<1>8. HeapExact'
  BY <1>4 DEF QueueInv, HeapExact
<1>9. HeldIntact'
  <2> SUFFICES ASSUME NEW d \in Consumers, NEW b \in held'[d]
               PROVE  /\ b \in heap
                      /\ \E m \in Nodes : /\ list[m] = "ready" /\ frame[m] = b
                                          /\ d \in accessed'[m]
    BY <1>4 DEF HeldIntact, In
  <2>1. CASE b \in held[d]
    BY <2>1, <1>1, <1>2 DEF QueueInv, TypeOK, HeldIntact, In
  <2>2. CASE b \notin held[d]
    BY <2>2, <1>1, <1>2, <1>3 DEF QueueInv, TypeOK
  <2> QED
    BY <2>1, <2>2
<1>10. RefCountExact'
  <2>1. c \notin Holders(frame[n])
    BY <1>2, <1>3, FrameQueueAssumption DEF QueueInv, HeldIntact, HeapExact, In, Holders
  <2>2. Holders(frame[n])' = Holders(frame[n]) \cup {c}
    BY <1>1, <1>2, <1>4 DEF QueueInv, TypeOK, Holders
  <2>3. Cardinality(Holders(frame[n]) \cup {c}) = Cardinality(Holders(frame[n])) + 1
    BY <2>1, HoldersFinite, FS_AddElement
  <2>4. \A m \in Nodes \ {n} : list[m] = "ready" => Holders(frame[m])' = Holders(frame[m])
    <3> SUFFICES ASSUME NEW m \in Nodes \ {n}, list[m] = "ready"
                 PROVE  Holders(frame[m])' = Holders(frame[m])
      OBVIOUS
    <3>1. frame[m] # frame[n]
      BY <1>2, <1>3, FrameQueueAssumption DEF QueueInv, HeapExact
    <3> QED
      BY <3>1, <1>1, <1>4 DEF QueueInv, TypeOK, Holders
  <2>5. ASSUME NEW m \in Nodes, list[m] = "ready"
        PROVE  refCount'[m] = Cardinality(Holders(frame[m])')
    <3>1. refCount[m] = Cardinality(Holders(frame[m]))
      BY <2>5 DEF QueueInv, RefCountExact, In
    <3>2. CASE m = n
      BY <3>1, <3>2, <1>1, <1>2, <2>2, <2>3 DEF QueueInv, TypeOK
    <3>3. CASE m # n
      BY <3>1, <3>3, <2>4, <2>5, <1>1, <1>2 DEF QueueInv, TypeOK
    <3> QED
      BY <3>2, <3>3
  <2> QED
    BY <2>5, <1>4 DEF RefCountExact, In
<1> QED
  BY <1>5, <1>6, <1>7, <1>8, <1>9, <1>10 DEF QueueInv

\* release_frame drops one reference; a node leaves ready_list only when it
\* was the last.
LEMMA ReleaseStep ==
  ASSUME QueueInv, NEW c \in Consumers, NEW b \in Bufs, Release(c, b)
  PROVE  QueueInv'
<1>0. b \in held[c]
  BY DEF Release
<1>1. PICK n \in Nodes : /\ Holding(b) = {n}
                         /\ list[n] = "ready" /\ frame[n] = b
                         /\ c \in accessed[n] /\ refCount[n] > 0
  BY <1>0, HoldingIsNode
<1>2. /\ held' = [held EXCEPT ![c] = @ \ {b}]
      /\ refCount' = [refCount EXCEPT ![n] = @ - 1]
      /\ before' \subseteq Nodes \X Nodes
      /\ UNCHANGED <<inited, frame, inUse, mask, accessed, active, sem, heap,
                     content, seqNo, pst, pnode, pbuf, psig, getter, lastSeen,
                     camera>>
  BY <1>1 DEF Release, Removed, bufVars, prodVars, QueueInv, TypeOK
<1>3. /\ list' \in [Nodes -> {"free", "ready", "limbo", "none"}]
      /\ \A m \in Nodes \ {n} : list'[m] = list[m]
      /\ list'[n] = "ready" \/ (list'[n] = "limbo" /\ refCount[n] = 1)
  <2>1. /\ list \in [Nodes -> {"free", "ready", "limbo", "none"}]
        /\ refCount[n] \in Nat
    BY DEF QueueInv, TypeOK
  <2>2. \/ LastReference(b) = {}
        \/ LastReference(b) = {n} /\ refCount[n] = 1
    BY <1>1, <2>1 DEF LastReference
  <2>3. list' = [m \in Nodes |-> IF m \in LastReference(b) THEN "limbo" ELSE list[m]]
    BY DEF Release, Upd
  <2> QED
    BY <1>1, <2>1, <2>2, <2>3
<1>4. TypeOK'
  <2>1. refCount' \in [Nodes -> Nat] /\ held' \in [Consumers -> SUBSET Bufs]
    BY <1>1, <1>2 DEF QueueInv, TypeOK
  <2> QED
    BY <1>2, <1>3, <2>1 DEF QueueInv, TypeOK
<1>5. NodeInv'
  BY <1>1, <1>2, <1>3 DEF QueueInv, TypeOK, NodeInv
<1>6. ProdInv'
  <2>1. \A p \in Producers : Owns(p) => pnode[p] # n
    BY <1>1 DEF QueueInv, ProdInv, NodeInv
  <2> QED
    BY <1>1, <1>2, <2>1 DEF QueueInv, TypeOK, ProdInv, Owns
<1>7. HeapExact'
  BY <1>2 DEF QueueInv, HeapExact
<1>8. Cardinality(Holders(b)') = refCount[n] - 1 /\ Holders(b)' = Holders(b) \ {c}
  <2>1. Holders(b)' = Holders(b) \ {c} /\ c \in Holders(b)
    BY <1>0, <1>2 DEF QueueInv, TypeOK, Holders
  <2>2. Cardinality(Holders(b) \ {c}) = Cardinality(Holders(b)) - 1
    BY <2>1, HoldersFinite, FS_RemoveElement
  <2>3. Cardinality(Holders(b)) = refCount[n]
    BY <1>1 DEF QueueInv, RefCountExact, In
  <2> QED
    BY <2>1, <2>2, <2>3
<1>9. HeldIntact'
  <2> SUFFICES ASSUME NEW d \in Consumers, NEW x \in held'[d]
               PROVE  /\ x \in heap
                      /\ \E m \in Nodes : /\ list'[m] = "ready" /\ frame[m] = x
                                          /\ d \in accessed[m]
    BY <1>2 DEF HeldIntact, In
  <2>1. x \in held[d]
    BY <1>2 DEF QueueInv, TypeOK
  <2>2. PICK m \in Nodes : list[m] = "ready" /\ frame[m] = x /\ d \in accessed[m]
    BY <2>1 DEF QueueInv, HeldIntact, In
  <2>3. x \in heap
    BY <2>1 DEF QueueInv, HeldIntact
  <2>4. CASE m # n
    BY <2>2, <2>3, <2>4, <1>3
  <2>5. CASE m = n
    <3>1. d \in Holders(b)'
      BY <2>2, <2>5, <1>1 DEF Holders
    <3>2. Cardinality(Holders(b)') # 0
      BY <3>1, <1>8, HoldersFinite, FS_EmptySet, FS_Subset
    <3> QED
      BY <2>2, <2>3, <2>5, <3>2, <1>3, <1>8
  <2> QED
    BY <2>4, <2>5
<1>10. RefCountExact'
  <2>1. \A m \in Nodes \ {n} : list[m] = "ready" => Holders(frame[m])' = Holders(frame[m])
    <3> SUFFICES ASSUME NEW m \in Nodes \ {n}, list[m] = "ready"
                 PROVE  Holders(frame[m])' = Holders(frame[m])
      OBVIOUS
    <3>1. frame[m] # b
      BY <1>1, FrameQueueAssumption DEF QueueInv, HeapExact
    <3> QED
      BY <3>1, <1>2 DEF QueueInv, TypeOK, Holders
  <2>2. ASSUME NEW m \in Nodes, list'[m] = "ready"
        PROVE  refCount'[m] = Cardinality(Holders(frame[m])')
    <3>1. CASE m = n
      BY <3>1, <1>1, <1>2, <1>8 DEF QueueInv, TypeOK
    <3>2. CASE m # n
      <4>1. list[m] = "ready" /\ refCount[m] = Cardinality(Holders(frame[m]))
        BY <3>2, <2>2, <1>3 DEF QueueInv, RefCountExact, In
      <4> QED
        BY <3>2, <4>1, <2>1, <1>2 DEF QueueInv, TypeOK
    <3> QED
      BY <3>1, <3>2
  <2> QED
    BY <2>2, <1>2 DEF RefCountExact, In
<1> QED
  BY <1>4, <1>5, <1>6, <1>7, <1>9, <1>10 DEF QueueInv

\* The last release frees a buffer nobody else has.
LEMMA ReleaseFreeStep ==
  ASSUME QueueInv, NEW n \in Nodes, ReleaseFree(n) PROVE QueueInv'
<1> USE FrameQueueAssumption DEF ReleaseFree, prodVars, consVars
<1>1. TypeOK' /\ NodeInv'
  BY DEF QueueInv, TypeOK, NodeInv
<1>2. \A p \in Producers : Owns(p) => pnode[p] # n
  BY DEF QueueInv, ProdInv, NodeInv
<1>3. ProdInv'
  BY <1>2 DEF QueueInv, TypeOK, ProdInv, Owns
<1>4. HeapExact'
  <2>1. {frame'[m] : m \in Nodes} \ {NULL} = ({frame[m] : m \in Nodes} \ {NULL}) \ {frame[n]}
    BY DEF QueueInv, TypeOK, HeapExact
  <2>2. \A q \in Producers : pst[q] = "cancel" => pbuf[q] # frame[n]
    BY DEF QueueInv, HeapExact
  <2>3. heap' = ({frame'[m] : m \in Nodes} \ {NULL})
                  \cup {pbuf[q] : q \in {r \in Producers : pst[r] = "cancel"}}
    BY <2>1, <2>2 DEF QueueInv, HeapExact
  <2>4. /\ \A m, k \in Nodes : m # k /\ frame'[m] # NULL => frame'[m] # frame'[k]
        /\ \A q \in Producers : pst[q] = "cancel" => \A m \in Nodes : frame'[m] # pbuf[q]
    BY DEF QueueInv, TypeOK, HeapExact, ProdInv
  <2> QED
    BY <2>3, <2>4 DEF HeapExact
<1>5. \A m \in Nodes : list[m] = "ready" => /\ frame'[m] = frame[m] /\ frame[m] # frame[n]
                                            /\ accessed'[m] = accessed[m]
  BY DEF QueueInv, TypeOK, HeapExact
<1>6. HeldIntact' /\ RefCountExact'
  BY <1>5 DEF QueueInv, HeldIntact, RefCountExact, In, Holders
<1> QED
  BY <1>1, <1>3, <1>4, <1>6 DEF QueueInv

\* The node of a finished release returns to free_list.
LEMMA ReleaseNodeStep ==
  ASSUME QueueInv, NEW n \in Nodes, ReleaseNode(n) PROVE QueueInv'
<1> USE DEF ReleaseNode, bufVars, prodVars, consVars
<1>1. TypeOK' /\ NodeInv' /\ ProdInv'
  BY DEF QueueInv, TypeOK, NodeInv, ProdInv, Owns, MovedToTail, In
<1>2. HeapExact'
  BY DEF QueueInv, HeapExact
<1>3. \A m \in Nodes : (list'[m] = "ready") = (list[m] = "ready")
  BY DEF QueueInv, TypeOK
<1>4. HeldIntact' /\ RefCountExact'
  BY <1>3 DEF QueueInv, HeldIntact, RefCountExact, In, Holders
<1> QED
  BY <1>1, <1>2, <1>4 DEF QueueInv

-----------------------------------------------------------------------------
(* The theorems.                                                           *)

\* Before init there are no nodes, buffers, consumers or producers.
LEMMA QueueInvInit == Init => QueueInv
<1> SUFFICES ASSUME Init PROVE QueueInv
  OBVIOUS
<1> USE FrameQueueAssumption DEF Init
<1>1. TypeOK
  <2>1. /\ list \in [Nodes -> {"free", "ready", "limbo", "none"}]
        /\ frame \in [Nodes -> Bufs \cup {NULL}]
        /\ inUse \in [Nodes -> BOOLEAN] /\ refCount \in [Nodes -> Nat]
    OBVIOUS
  <2>2. /\ mask \in [Nodes -> SUBSET Consumers]
        /\ accessed \in [Nodes -> SUBSET Consumers]
        /\ active \subseteq Consumers /\ heap \subseteq Bufs
        /\ before \subseteq Nodes \X Nodes
    OBVIOUS
  <2>3. /\ pst \in [Producers -> {"idle", "claimed", "filling", "signal", "cancel"}]
        /\ pnode \in [Producers -> Nodes \cup {NULL}]
        /\ pbuf \in [Producers -> Bufs \cup {NULL}]
        /\ psig \in [Producers -> Nat]
    OBVIOUS
  <2>4. /\ getter \in [Consumers -> {"idle", "search", "wait"}]
        /\ held \in [Consumers -> SUBSET Bufs]
        /\ lastSeen \in [Consumers -> Nat] /\ content \in [Bufs -> Nat]
        /\ seqNo \in Nat /\ camera \in {"on", "off", "clear"}
    OBVIOUS
  <2>5. inited \in BOOLEAN
    BY Zenon
  <2>6. sem \in 0..SemMax
    <3>1. sem = 0
      BY Zenon
    <3> HIDE DEF Init
    <3> QED
      BY <3>1
  <2> HIDE DEF Init
  <2> QED
    BY <2>1, <2>2, <2>3, <2>4, <2>5, <2>6 DEF TypeOK
<1>2. NodeInv /\ ProdInv /\ HeapExact /\ HeldIntact /\ RefCountExact
  BY DEF NodeInv, ProdInv, Owns, HeapExact, HeldIntact, RefCountExact, In
<1> QED
  BY <1>1, <1>2 DEF QueueInv

\* Every step of the queue keeps the inductive invariant.
LEMMA QueueInvStep == QueueInv /\ [Next]_vars => QueueInv'
<1> SUFFICES ASSUME QueueInv, [Next]_vars PROVE QueueInv'
  OBVIOUS
<1>1. CASE UNCHANGED vars
  BY <1>1 DEF vars, queueVars, nodeVars, bufVars, prodVars, consVars, QueueInv,
     TypeOK, NodeInv, ProdInv, Owns, HeapExact, HeldIntact, RefCountExact, In,
     Holders
<1> QED
  BY <1>1, QueueInitStep, CameraStep, ClearReadyStep, ClearFreeStep,
     QueueDeinitStep, RegisterStep, UnregisterStep, MallocClaimStep,
     MallocBufferStep, MallocFailStep, CompleteStep, SignalStep, CancelStep,
     CancelFreeStep, GetOtherStep, GetFrameStep, ReleaseStep, ReleaseFreeStep,
     ReleaseNodeStep
  DEF Next, Streaming, Timeouts, Disturbance, ProducerNext, ConsumerNext,
      ReleaseNext

\* The inductive invariant holds in every state of every behaviour.
THEOREM QueueInvariance == Spec => []QueueInv
  BY QueueInvInit, QueueInvStep, PTL DEF Spec

\* Types: all fields of the queue and of the threads keep their type.
THEOREM TypeCorrect == Spec => []TypeOK
<1>1. QueueInv => TypeOK
  BY DEF QueueInv
<1> QED
  BY <1>1, QueueInvariance, PTL

\* No consumer loses a frame it holds: no free and no reuse under it.
THEOREM HeldFramesIntact == Spec => []HeldIntact
<1>1. QueueInv => HeldIntact
  BY DEF QueueInv
<1> QED
  BY <1>1, QueueInvariance, PTL

\* The reference count is the number of consumers that hold the frame.
THEOREM ReferenceCounting == Spec => []RefCountExact
<1>1. QueueInv => RefCountExact
  BY DEF QueueInv
<1> QED
  BY <1>1, QueueInvariance, PTL

\* No frame buffer leaks and none is freed twice.
THEOREM NoLeakNoDoubleFree == Spec => []HeapExact
<1>1. QueueInv => HeapExact
  BY DEF QueueInv
<1> QED
  BY <1>1, QueueInvariance, PTL

\* A producer fills a buffer that is its own.
THEOREM ProducersOwnTheirBuffers == Spec => []ProducerOwns
<1>1. QueueInv => ProducerOwns
  <2> SUFFICES ASSUME QueueInv, NEW p \in Producers, pst[p] = "filling"
               PROVE  /\ pbuf[p] \in heap
                      /\ \A n \in In("ready") : frame[n] # pbuf[p]
                      /\ \A q \in Producers \ {p} : pst[q] = "filling" => pbuf[q] # pbuf[p]
    BY DEF ProducerOwns
  <2> USE FrameQueueAssumption
  <2>1. /\ pnode[p] \in Nodes /\ frame[pnode[p]] = pbuf[p]
        /\ pbuf[p] \in Bufs /\ list[pnode[p]] = "free"
    BY FilledIsNode
  <2>2. pbuf[p] \in heap
    BY <2>1 DEF QueueInv, HeapExact
  <2>3. \A n \in In("ready") : frame[n] # pbuf[p]
    BY <2>1 DEF QueueInv, HeapExact, In
  <2>4. \A q \in Producers \ {p} : pst[q] = "filling" => pbuf[q] # pbuf[p]
    BY <2>1, FilledIsNode DEF QueueInv, HeapExact, ProdInv, Owns
  <2> QED
    BY <2>2, <2>3, <2>4
<1> QED
  BY <1>1, QueueInvariance, PTL

-----------------------------------------------------------------------------
(* No node is stranded in ready_list.                                      *)

\* A step after which no node is newly ready, no reference of a ready node
\* went and the masks did not change keeps StrandedInv.
LEMMA StrandedKept ==
  ASSUME StrandedInv, UNCHANGED active,
         \A n \in Nodes : list'[n] = "ready" =>
           /\ list[n] = "ready" /\ refCount'[n] = refCount[n]
           /\ mask'[n] = mask[n] /\ accessed'[n] = accessed[n]
  PROVE  StrandedInv'
  BY DEF StrandedInv, NothingStranded, AccessedNeeded, In

\* Every step keeps every unheld ready frame needed by somebody.
LEMMA StrandedStep == QueueInv /\ StrandedInv /\ [Next]_vars => StrandedInv'
<1> SUFFICES ASSUME QueueInv, StrandedInv, [Next]_vars PROVE StrandedInv'
  OBVIOUS
<1>0. TypeOK /\ NodeInv /\ ProdInv
  BY DEF QueueInv
<1>1. ASSUME NEW S \in SUBSET Nodes, QueueInit(S) PROVE StrandedInv'
  BY <1>0, <1>1, StrandedKept DEF QueueInit, Upd, NodeInv, TypeOK
<1>2. CASE CameraOn \/ CameraOff
  BY <1>2, StrandedKept DEF CameraOn, CameraOff, queueVars, nodeVars
<1>3. CASE ClearReady
  BY <1>0, <1>3, StrandedKept DEF ClearReady, Recycle, Upd, TypeOK
<1>4. CASE ClearFree
  BY <1>4, StrandedKept DEF ClearFree
<1>5. CASE QueueDeinit
  BY <1>5 DEF QueueDeinit, StrandedInv, NothingStranded, AccessedNeeded, In
<1>6. ASSUME NEW c \in Consumers, Register(c) PROVE StrandedInv'
  <2>1. \A n \in Nodes : list'[n] = "ready" =>
          /\ list[n] = "ready" /\ refCount'[n] = refCount[n]
          /\ mask'[n] = mask[n] /\ accessed'[n] = accessed[n]
          /\ ~(mask[n] = {} /\ refCount[n] = 0)
    BY <1>0, <1>6 DEF Register, Recycle, Orphaned, Upd, TypeOK, In
  <2>2. active' = active \cup {c}
    BY <1>6 DEF Register
  <2> QED
    BY <2>1, <2>2 DEF StrandedInv, NothingStranded, AccessedNeeded, In
<1>7. ASSUME NEW c \in Consumers, Unregister(c) PROVE StrandedInv'
  <2>1. \A n \in Nodes : list'[n] = "ready" =>
          /\ list[n] = "ready" /\ refCount'[n] = refCount[n]
          /\ accessed'[n] = accessed[n] /\ n \notin LastOwedTo(c)
          /\ mask'[n] = IF n \in Owed(c) THEN mask[n] \ {c} ELSE mask[n]
    BY <1>0, <1>7 DEF Unregister, Recycle, Upd, TypeOK
  <2>2. active' = active \ {c}
    BY <1>7 DEF Unregister
  <2>3. ASSUME NEW n \in Nodes, list'[n] = "ready", n \in Owed(c)
        PROVE  /\ mask'[n] \ accessed'[n] \subseteq active'
               /\ ~(refCount'[n] = 0 /\ mask'[n] \subseteq accessed'[n])
               /\ accessed'[n] \subseteq mask'[n]
    BY <2>1, <2>2, <2>3 DEF StrandedInv, NothingStranded, AccessedNeeded, LastOwedTo, Owed, In
  <2>4. ASSUME NEW n \in Nodes, list'[n] = "ready", n \notin Owed(c)
        PROVE  /\ mask'[n] \ accessed'[n] \subseteq active'
               /\ refCount'[n] = 0 /\ mask'[n] \subseteq accessed'[n] =>
                    mask'[n] = {} /\ active' = {}
               /\ accessed'[n] \subseteq mask'[n]
    BY <2>1, <2>2, <2>4 DEF StrandedInv, NothingStranded, AccessedNeeded, Owed, In
  <2> QED
    BY <2>3, <2>4 DEF StrandedInv, NothingStranded, AccessedNeeded, In
<1>8. ASSUME NEW p \in Producers, MallocClaim(p) PROVE StrandedInv'
  BY <1>0, <1>8, StrandedKept DEF MallocClaim, First, Droppable, In, TypeOK
<1>9. ASSUME NEW p \in Producers, MallocNew(p) \/ MallocReuse(p) PROVE StrandedInv'
  <2>1. pnode[p] \in Nodes /\ list[pnode[p]] = "free"
    BY <1>0, <1>9 DEF MallocNew, MallocReuse, ProdInv, NodeInv, Owns
  <2> QED
    BY <1>0, <1>9, <2>1, StrandedKept DEF MallocNew, MallocReuse, Returned, TypeOK
<1>10. ASSUME NEW p \in Producers, MallocFail(p) \/ Signal(p) \/ Cancel(p) \/ CancelFree(p)
       PROVE  StrandedInv'
  BY <1>10, StrandedKept DEF MallocFail, Signal, Cancel, CancelFree, queueVars, nodeVars
<1>11. ASSUME NEW p \in Producers, Complete(p) PROVE StrandedInv'
  <2>1. /\ Filled(pbuf[p]) = {pnode[p]} /\ pnode[p] \in Nodes
    BY <1>11, FilledIsNode DEF Complete
  <2>2. \A n \in Nodes : list'[n] = "ready" =>
          \/ /\ n = pnode[p] /\ mask'[n] = active /\ accessed'[n] = {}
          \/ /\ list[n] = "ready" /\ refCount'[n] = refCount[n]
             /\ mask'[n] = mask[n] /\ accessed'[n] = accessed[n]
    BY <1>0, <1>11, <2>1 DEF Complete, Upd, TypeOK
  <2>3. active' = active
    BY <1>11 DEF Complete
  <2> QED
    BY <2>2, <2>3 DEF StrandedInv, NothingStranded, AccessedNeeded, In
<1>12. ASSUME NEW c \in Consumers, GetStart(c) \/ GetNothing(c) \/ GetWoken(c) \/ GetTimeout(c)
       PROVE  StrandedInv'
  BY <1>12, StrandedKept DEF GetStart, GetNothing, GetWoken, GetTimeout, queueVars, nodeVars
<1>13. ASSUME NEW c \in Consumers, GetFrame(c) PROVE StrandedInv'
  <2>1. PICK n \in First(Owed(c)) :
          /\ refCount' = [refCount EXCEPT ![n] = @ + 1]
          /\ accessed' = [accessed EXCEPT ![n] = @ \cup {c}]
    BY <1>13 DEF GetFrame
  <2>2. n \in Nodes /\ c \in mask[n]
    BY DEF First, Owed, In
  <2>3. UNCHANGED <<list, mask, active>>
    BY <1>13 DEF GetFrame
  <2>4. refCount'[n] # 0 /\ accessed'[n] = accessed[n] \cup {c}
    BY <1>0, <2>1, <2>2 DEF TypeOK
  <2>5. \A m \in Nodes \ {n} : refCount'[m] = refCount[m] /\ accessed'[m] = accessed[m]
    BY <1>0, <2>1 DEF TypeOK
  <2> QED
    BY <2>2, <2>3, <2>4, <2>5 DEF StrandedInv, NothingStranded, AccessedNeeded, In
<1>14. ASSUME NEW c \in Consumers, NEW b \in Bufs, Release(c, b) PROVE StrandedInv'
  <2>1. PICK n \in Nodes : Holding(b) = {n} /\ refCount[n] > 0
    BY <1>14, HoldingIsNode DEF Release
  <2>2. UNCHANGED <<mask, accessed, active>>
    BY <1>14 DEF Release
  <2>3. /\ refCount'[n] = refCount[n] - 1
        /\ \A m \in Nodes \ {n} : refCount'[m] = refCount[m]
    BY <1>0, <1>14, <2>1 DEF Release, TypeOK
  <2>4. \A m \in Nodes : list'[m] = "ready" => list[m] = "ready" /\ m \notin LastReference(b)
    BY <1>0, <1>14 DEF Release, Upd, TypeOK
  <2>5. list'[n] = "ready" => refCount'[n] # 0 \/ ~(mask[n] \subseteq accessed[n])
    BY <1>0, <2>1, <2>3, <2>4 DEF LastReference, TypeOK
  <2> QED
    BY <2>2, <2>3, <2>4, <2>5 DEF StrandedInv, NothingStranded, AccessedNeeded, In
<1>15. ASSUME NEW n \in Nodes, ReleaseFree(n) \/ ReleaseNode(n) PROVE StrandedInv'
  BY <1>0, <1>15, StrandedKept DEF ReleaseFree, ReleaseNode, TypeOK
<1>16. CASE UNCHANGED vars
  BY <1>16, StrandedKept DEF vars, queueVars, nodeVars
<1> QED
  BY <1>1, <1>2, <1>3, <1>4, <1>5, <1>6, <1>7, <1>8, <1>9, <1>10, <1>11, <1>12,
     <1>13, <1>14, <1>15, <1>16
  DEF Next, Streaming, Timeouts, Disturbance, ProducerNext, ConsumerNext, ReleaseNext

\* Every ready frame nobody holds is still needed by a registered consumer,
\* or there is no consumer at all.
THEOREM NoStrandedFrames == Spec => []NothingStranded
<1>1. Init => StrandedInv
  BY DEF Init, StrandedInv, NothingStranded, AccessedNeeded, In
<1>2. StrandedInv => NothingStranded
  BY DEF StrandedInv
<1> QED
  BY <1>1, <1>2, StrandedStep, QueueInvariance, PTL DEF Spec

-----------------------------------------------------------------------------
(* Every consumer gets the frames in the order of their completion.        *)

\* A step that makes no node ready, adds no order between ready nodes, owes
\* nobody a frame it did not owe, and changes neither the contents of ready
\* buffers nor what the consumers saw, keeps OrderInv.
LEMMA OrderKept ==
  ASSUME OrderInv, UNCHANGED <<lastSeen, content, seqNo>>,
         \A n \in Nodes : list'[n] = "ready" =>
           /\ list[n] = "ready" /\ frame'[n] = frame[n]
           /\ mask'[n] \subseteq mask[n] /\ accessed[n] \subseteq accessed'[n],
         \A m, n \in Nodes : list'[m] = "ready" /\ list'[n] = "ready" =>
           (<<m, n>> \in before' => <<m, n>> \in before),
         \A n \in Nodes : <<n, n>> \notin before'
  PROVE  OrderInv'
  BY DEF OrderInv, Owed, In

\* Moving nodes to free_list, to its tail or to its head, adds no order
\* between nodes that are ready afterwards, and no node comes before itself.
LEMMA MoveToFree ==
  ASSUME TypeOK, OrderInv, NEW S \in SUBSET Nodes, S \cap In("free") = {}
  PROVE  /\ \A n \in Nodes : <<n, n>> \notin MovedToTail(S, "free")
         /\ \A m, n \in Nodes : n \notin S /\ <<m, n>> \in MovedToTail(S, "free") =>
              <<m, n>> \in before
         /\ \A k \in S : \A n \in Nodes : <<n, n>> \notin MovedToHead(k, "free")
         /\ \A k \in S : \A m, n \in Nodes :
              m # k /\ <<m, n>> \in MovedToHead(k, "free") => <<m, n>> \in before
  BY DEF TypeOK, OrderInv, MovedToTail, MovedToHead, Removed, In

\* Every step keeps ready_list in the order of completion.
LEMMA OrderStep == QueueInv /\ OrderInv /\ [Next]_vars => OrderInv'
<1> SUFFICES ASSUME QueueInv, OrderInv, [Next]_vars PROVE OrderInv'
  OBVIOUS
<1>0. TypeOK /\ NodeInv /\ ProdInv /\ HeapExact
  BY DEF QueueInv
<1>1. ASSUME NEW S \in SUBSET Nodes, QueueInit(S) PROVE OrderInv'
  <2>1. \A n \in Nodes : list'[n] # "ready"
    BY <1>0, <1>1 DEF QueueInit, Upd, NodeInv, TypeOK
  <2>2. \A n \in Nodes : <<n, n>> \notin before'
    BY <1>1 DEF QueueInit, Nodes
  <2> QED
    BY <1>1, <2>1, <2>2, OrderKept DEF QueueInit, bufVars, consVars
<1>2. CASE CameraOn \/ CameraOff
  BY <1>2, OrderKept DEF CameraOn, CameraOff, queueVars, nodeVars, bufVars, consVars, OrderInv
<1>3. ASSUME NEW S \in SUBSET In("ready"), Recycle(S),
             \A n \in Nodes \ S : mask'[n] \subseteq mask[n],
             UNCHANGED <<frame, lastSeen, content, seqNo>>
      PROVE  OrderInv'
  <2>1. S \in SUBSET Nodes /\ S \cap In("free") = {}
    BY DEF In
  <2>2. \A n \in Nodes : list'[n] = "ready" =>
          n \notin S /\ list[n] = "ready" /\ accessed'[n] = accessed[n]
    BY <1>0, <1>3 DEF Recycle, Upd, TypeOK
  <2>3. before' = MovedToTail(S, "free")
    BY <1>3 DEF Recycle
  <2> QED
    BY <1>0, <1>3, <2>1, <2>2, <2>3, MoveToFree, OrderKept
<1>4. CASE ClearReady
  BY <1>0, <1>3, <1>4 DEF ClearReady, Clearable, Upd, bufVars, consVars, TypeOK
<1>5. CASE ClearFree
  BY <1>0, <1>5, OrderKept DEF ClearFree, Upd, consVars, TypeOK, In, OrderInv
<1>6. CASE QueueDeinit
  BY <1>6, OrderKept DEF QueueDeinit, consVars
<1>7. ASSUME NEW c \in Consumers, Register(c) PROVE OrderInv'
  BY <1>0, <1>3, <1>7 DEF Register, Orphaned, Upd, bufVars, consVars, TypeOK
<1>8. ASSUME NEW c \in Consumers, Unregister(c) PROVE OrderInv'
  BY <1>0, <1>3, <1>8 DEF Unregister, LastOwedTo, Owed, bufVars, consVars, TypeOK
<1>9. ASSUME NEW p \in Producers, MallocClaim(p) PROVE OrderInv'
  <2>1. \A n \in Nodes : list'[n] = "ready" => list[n] = "ready"
    BY <1>0, <1>9 DEF MallocClaim, First, Droppable, In, TypeOK
  <2>2. UNCHANGED <<frame, mask, accessed, lastSeen, content, seqNo>>
    BY <1>9 DEF MallocClaim, bufVars, consVars
  <2>3. CASE UNCHANGED before
    BY <2>1, <2>2, <2>3, OrderKept DEF OrderInv
  <2>4. CASE \E k \in First(Droppable) : /\ list' = [list EXCEPT ![k] = "free"]
                                        /\ before' = MovedToHead(k, "free")
    <3>1. PICK k \in First(Droppable) : /\ list' = [list EXCEPT ![k] = "free"]
                                        /\ before' = MovedToHead(k, "free")
      BY <2>4
    <3>2. k \in Nodes /\ list[k] = "ready"
      BY DEF First, Droppable, In
    <3>3. \A m \in Nodes : list'[m] = "ready" => m # k
      BY <1>0, <3>1, <3>2 DEF TypeOK
    <3>4. {k} \in SUBSET Nodes /\ {k} \cap In("free") = {}
      BY <3>2 DEF In
    <3> QED
      BY <1>0, <2>1, <2>2, <3>1, <3>3, <3>4, MoveToFree, OrderKept
  <2> QED
    BY <1>9, <2>3, <2>4 DEF MallocClaim
<1>10. ASSUME NEW p \in Producers, MallocNew(p) \/ MallocReuse(p) PROVE OrderInv'
  <2>1. pnode[p] \in Nodes /\ list[pnode[p]] = "free"
    BY <1>0, <1>10 DEF MallocNew, MallocReuse, ProdInv, NodeInv, Owns
  <2> QED
    BY <1>0, <1>10, <2>1, OrderKept DEF MallocNew, MallocReuse, Returned, consVars, TypeOK, OrderInv
<1>11. ASSUME NEW p \in Producers, MallocFail(p) \/ Signal(p) \/ CancelFree(p) PROVE OrderInv'
  BY <1>11, OrderKept DEF MallocFail, Signal, CancelFree, queueVars, nodeVars,
     bufVars, consVars, OrderInv
<1>12. ASSUME NEW p \in Producers, Cancel(p) PROVE OrderInv'
  <2>1. Filled(pbuf[p]) = {pnode[p]} /\ pnode[p] \in Nodes /\ list[pnode[p]] = "free"
    BY <1>12, FilledIsNode DEF Cancel
  <2> QED
    BY <1>0, <1>12, <2>1, OrderKept DEF Cancel, Upd, bufVars, consVars, TypeOK, OrderInv
<1>13. ASSUME NEW p \in Producers, Complete(p) PROVE OrderInv'
  <2> DEFINE n == pnode[p]
  <2>1. /\ Filled(pbuf[p]) = {n} /\ n \in Nodes /\ list[n] = "free"
        /\ frame[n] = pbuf[p] /\ pbuf[p] \in Bufs
    BY <1>13, FilledIsNode DEF Complete
  <2>2. \A m \in Nodes : list'[m] = "ready" => m = n \/ list[m] = "ready"
    BY <1>0, <1>13, <2>1 DEF Complete, Upd, TypeOK
  <2>3. /\ seqNo' = seqNo + 1 /\ UNCHANGED <<frame, lastSeen>>
        /\ content' = [content EXCEPT ![pbuf[p]] = seqNo + 1]
    BY <1>13 DEF Complete, consVars
  <2>4. /\ content'[frame[n]] = seqNo + 1
        /\ \A m \in Nodes : list[m] = "ready" =>
             content'[frame[m]] = content[frame[m]] /\ content[frame[m]] \in Nat
    BY <1>0, <2>1, <2>3, FrameQueueAssumption DEF HeapExact, NodeInv, TypeOK
  <2>5. \A m \in Nodes : list[m] = "ready" => mask'[m] = mask[m] /\ accessed'[m] = accessed[m]
    BY <1>0, <1>13, <2>1 DEF Complete, Upd, TypeOK
  <2>6. before' = {e \in before : (e[1] \in {n}) = (e[2] \in {n})} \cup (In("ready") \X {n})
    BY <1>13, <2>1 DEF Complete, MovedToTail
  <2>7. /\ \A m \in Nodes : <<m, m>> \notin before'
        /\ \A m, k \in Nodes : <<m, k>> \in before' =>
             (<<m, k>> \in before /\ m # n /\ k # n) \/ (list[m] = "ready" /\ k = n)
    BY <2>1, <2>6 DEF OrderInv, In
  <2>8. seqNo \in Nat /\ \A c \in Consumers : lastSeen[c] \in Nat /\ lastSeen[c] <= seqNo
    BY <1>0 DEF TypeOK, OrderInv
  <2>9. \A m \in Nodes : list[m] = "ready" => content[frame[m]] <= seqNo
    BY DEF OrderInv, In
  <2>10. \A m, k \in Nodes : list'[m] = "ready" /\ list'[k] = "ready" /\ <<m, k>> \in before' =>
           content'[frame[m]] < content'[frame[k]]
    BY <2>1, <2>2, <2>4, <2>7, <2>8, <2>9 DEF OrderInv, In
  <2>11. \A c \in Consumers, m \in Nodes :
           list'[m] = "ready" /\ c \in mask'[m] /\ c \notin accessed'[m] =>
             lastSeen[c] < content'[frame[m]]
    BY <2>1, <2>2, <2>4, <2>5, <2>8 DEF OrderInv, Owed, In
  <2>12. \A m \in Nodes : list'[m] = "ready" => content'[frame[m]] <= seqNo + 1
    BY <2>2, <2>4, <2>8, <2>9
  <2> QED
    BY <2>3, <2>7, <2>8, <2>10, <2>11, <2>12 DEF OrderInv, Owed, In
<1>14. ASSUME NEW c \in Consumers, GetStart(c) \/ GetNothing(c) \/ GetWoken(c) \/ GetTimeout(c)
       PROVE  OrderInv'
  BY <1>14, OrderKept DEF GetStart, GetNothing, GetWoken, GetTimeout, queueVars,
     nodeVars, bufVars, OrderInv
<1>15. ASSUME NEW c \in Consumers, GetFrame(c) PROVE OrderInv'
  <2>1. PICK n \in First(Owed(c)) :
          /\ accessed' = [accessed EXCEPT ![n] = @ \cup {c}]
          /\ lastSeen' = [lastSeen EXCEPT ![c] = content[frame[n]]]
    BY <1>15 DEF GetFrame
  <2>2. UNCHANGED <<list, before, frame, mask, content, seqNo>>
    BY <1>15 DEF GetFrame, bufVars
  <2>3. n \in Nodes /\ list[n] = "ready" /\ n \in Owed(c)
    BY DEF First, Owed, In
  <2>4. \A m \in Owed(c) \ {n} : content[frame[n]] < content[frame[m]]
    BY <2>3 DEF First, OrderInv, Owed
  <2>5. content[frame[n]] <= seqNo
    BY <2>3 DEF OrderInv, In
  <2>6. /\ lastSeen'[c] = content[frame[n]]
        /\ \A d \in Consumers \ {c} : lastSeen'[d] = lastSeen[d]
    BY <1>0, <2>1 DEF TypeOK
  <2>7. \A d \in Consumers : Owed(d)' = IF d = c THEN Owed(d) \ {n} ELSE Owed(d)
    BY <1>0, <2>1, <2>2, <2>3 DEF Owed, In, TypeOK
  <2> QED
    BY <2>2, <2>4, <2>5, <2>6, <2>7 DEF OrderInv, In
<1>16. ASSUME NEW c \in Consumers, NEW b \in Bufs, Release(c, b) PROVE OrderInv'
  BY <1>0, <1>16, OrderKept DEF Release, Removed, Upd, bufVars, TypeOK, OrderInv
<1>17. ASSUME NEW n \in Nodes, ReleaseFree(n) PROVE OrderInv'
  BY <1>0, <1>17, OrderKept DEF ReleaseFree, consVars, TypeOK, OrderInv
<1>18. ASSUME NEW k \in Nodes, ReleaseNode(k) PROVE OrderInv'
  <2>1. \A n \in Nodes : list'[n] = "ready" => list[n] = "ready" /\ n # k
    BY <1>0, <1>18 DEF ReleaseNode, TypeOK
  <2>2. {k} \in SUBSET Nodes /\ {k} \cap In("free") = {}
    BY <1>18 DEF ReleaseNode, In
  <2> QED
    BY <1>0, <1>18, <2>1, <2>2, MoveToFree, OrderKept DEF ReleaseNode, bufVars, consVars
<1>19. CASE UNCHANGED vars
  BY <1>19, OrderKept DEF vars, queueVars, nodeVars, bufVars, consVars, OrderInv
<1> QED
  BY <1>1, <1>2, <1>4, <1>5, <1>6, <1>7, <1>8, <1>9, <1>10, <1>11, <1>12, <1>13,
     <1>14, <1>15, <1>16, <1>17, <1>18, <1>19
  DEF Next, Streaming, Timeouts, Disturbance, ProducerNext, ConsumerNext, ReleaseNext

\* A get_frame step that returns a frame gives one newer than the last.
LEMMA GetStep ==
  ASSUME QueueInv, OrderInv, [Next]_vars,
         NEW c \in Consumers, getter[c] = "search", getter'[c] = "idle"
  PROVE  lastSeen'[c] > lastSeen[c]
<1>0. TypeOK
  BY DEF QueueInv
<1>1. GetFrame(c)
  <2>1. CASE \E p \in Producers : ProducerNext(p) \/ MallocFail(p) \/ Cancel(p)
    BY <2>1 DEF ProducerNext, MallocClaim, MallocNew, MallocReuse, Returned, MallocFail,
                Complete, Signal, Cancel, CancelFree, consVars
  <2>2. CASE \E d \in Consumers : Register(d) \/ Unregister(d)
    BY <2>2 DEF Register, Unregister, consVars
  <2>3. CASE \E d \in Consumers : ConsumerNext(d) \/ GetTimeout(d)
    <3>1. PICK d \in Consumers : ConsumerNext(d) \/ GetTimeout(d)
      BY <2>3
    <3>2. ASSUME GetStart(d) \/ GetNothing(d) \/ GetWoken(d) \/ GetTimeout(d)
          PROVE  FALSE
      BY <1>0, <3>2 DEF GetStart, GetNothing, GetWoken, GetTimeout, TypeOK
    <3>3. ASSUME NEW b \in Bufs, Release(d, b)
          PROVE  FALSE
      BY <1>0, <3>3 DEF Release, TypeOK
    <3>4. CASE GetFrame(d)
      BY <1>0, <3>4 DEF GetFrame, TypeOK
    <3> QED
      BY <3>1, <3>2, <3>3, <3>4 DEF ConsumerNext
  <2>4. CASE \E n \in Nodes : ReleaseNext(n)
    BY <2>4 DEF ReleaseNext, ReleaseFree, ReleaseNode, consVars
  <2>5. CASE \/ \E S \in SUBSET Nodes : QueueInit(S)
             \/ CameraOn \/ CameraOff \/ ClearReady \/ ClearFree \/ QueueDeinit
    BY <2>5 DEF QueueInit, CameraOn, CameraOff, ClearReady, ClearFree, QueueDeinit, consVars
  <2>6. CASE UNCHANGED vars
    BY <2>6 DEF vars, consVars
  <2> QED
    BY <2>1, <2>2, <2>3, <2>4, <2>5, <2>6 DEF Next, Streaming, Timeouts, Disturbance
<1>2. PICK n \in First(Owed(c)) : lastSeen' = [lastSeen EXCEPT ![c] = content[frame[n]]]
  BY <1>1 DEF GetFrame
<1>3. n \in Owed(c) /\ n \in Nodes /\ list[n] = "ready"
  BY DEF First, Owed, In
<1>4. lastSeen[c] < content[frame[n]]
  BY <1>3 DEF OrderInv
<1>5. lastSeen'[c] = content[frame[n]] /\ lastSeen[c] \in Nat
  BY <1>0, <1>2 DEF TypeOK
<1>6. frame[n] \in Bufs /\ content[frame[n]] \in Nat
  BY <1>0, <1>3 DEF QueueInv, NodeInv, TypeOK
<1> QED
  BY <1>4, <1>5, <1>6

\* Each get_frame of a consumer returns a frame completed after the one it
\* got before, for any number of nodes, buffers, producers and consumers.
THEOREM FramesInOrder == Spec => InOrder
<1>1. Init => OrderInv
  BY DEF Init, OrderInv, Owed, In
<1>2. QueueInv /\ OrderInv /\ [Next]_vars => OrderInv'
  BY OrderStep
<1>3. QueueInv /\ OrderInv /\ [Next]_vars =>
        [\A c \in Consumers : getter[c] = "search" /\ getter'[c] = "idle" =>
            lastSeen'[c] > lastSeen[c]]_vars
  BY GetStep
<1> QED
  BY <1>1, <1>2, <1>3, QueueInvariance, PTL DEF Spec, InOrder
-----------------------------------------------------------------------------
(* The queue implements FrameBroadcast.                                    *)

\* Only complete numbers a buffer or makes a node ready, and only get_frame
\* and release_frame change what a consumer holds and has seen.
LEMMA OtherStep ==
  ASSUME QueueInv, [Next]_vars, \A p \in Producers : ~Complete(p)
  PROVE  /\ UNCHANGED <<content, seqNo>>
         /\ \A n \in Nodes : list'[n] = "ready" =>
              list[n] = "ready" /\ frame'[n] = frame[n]
         /\ \/ UNCHANGED <<held, lastSeen>>
            \/ \E c \in Consumers : GetFrame(c) \/ \E b \in Bufs : Release(c, b)
<1> DEFINE Goal == /\ UNCHANGED <<content, seqNo>>
                   /\ \A n \in Nodes : list'[n] = "ready" =>
                        list[n] = "ready" /\ frame'[n] = frame[n]
                   /\ \/ UNCHANGED <<held, lastSeen>>
                      \/ \E c \in Consumers : GetFrame(c) \/ \E b \in Bufs : Release(c, b)
<1>0. TypeOK /\ NodeInv /\ ProdInv
  BY DEF QueueInv
<1>1. ASSUME NEW S \in SUBSET Nodes, QueueInit(S) PROVE Goal
  BY <1>0, <1>1 DEF QueueInit, Upd, NodeInv, TypeOK, bufVars, consVars
<1>2. CASE CameraOn \/ CameraOff
  BY <1>2 DEF CameraOn, CameraOff, queueVars, nodeVars, bufVars, consVars
<1>3. CASE ClearReady \/ ClearFree \/ QueueDeinit
  <2>1. CASE ClearReady
    BY <1>0, <2>1 DEF ClearReady, Recycle, Upd, In, Clearable, TypeOK, bufVars, consVars
  <2>2. CASE ClearFree
    BY <1>0, <2>2 DEF ClearFree, Upd, In, Clearable, TypeOK, bufVars, consVars
  <2>3. CASE QueueDeinit
    BY <1>0, <2>3 DEF QueueDeinit, Upd, In, TypeOK, bufVars, consVars
  <2> QED
    BY <1>3, <2>1, <2>2, <2>3
<1>4. ASSUME NEW c \in Consumers, Register(c) \/ Unregister(c) PROVE Goal
  <2>1. UNCHANGED <<frame, content, seqNo, held, lastSeen>>
    BY <1>4 DEF Register, Unregister, bufVars, consVars
  <2>2. PICK S : list' = Upd(list, S, "free")
    BY <1>4 DEF Register, Unregister, Recycle
  <2>3. \A n \in Nodes : list'[n] = "ready" => list[n] = "ready"
    BY ONLY <2>2 DEF Upd
  <2> QED
    BY <2>1, <2>3
<1>5. ASSUME NEW p \in Producers, MallocClaim(p) PROVE Goal
  BY <1>0, <1>5 DEF MallocClaim, First, Droppable, In, TypeOK, bufVars, consVars
<1>6. ASSUME NEW p \in Producers, MallocNew(p) \/ MallocReuse(p) PROVE Goal
  <2>1. pnode[p] \in Nodes /\ list[pnode[p]] = "free"
    BY <1>0, <1>6 DEF MallocNew, MallocReuse, ProdInv, NodeInv, Owns
  <2> QED
    BY <1>0, <1>6, <2>1 DEF MallocNew, MallocReuse, Returned, consVars, TypeOK
<1>7. ASSUME NEW p \in Producers, MallocFail(p) \/ Signal(p) \/ CancelFree(p) PROVE Goal
  BY <1>7 DEF MallocFail, Signal, CancelFree, queueVars, nodeVars, bufVars, consVars
<1>8. ASSUME NEW p \in Producers, Cancel(p) PROVE Goal
  <2>1. Filled(pbuf[p]) = {pnode[p]} /\ list[pnode[p]] = "free"
    BY <1>8, FilledIsNode DEF Cancel
  <2> QED
    BY <1>0, <1>8, <2>1 DEF Cancel, Upd, bufVars, consVars, TypeOK
<1>9. ASSUME NEW c \in Consumers, ConsumerNext(c) \/ GetTimeout(c) PROVE Goal
  BY <1>0, <1>9 DEF ConsumerNext, GetStart, GetFrame, GetNothing, GetWoken, GetTimeout,
     Release, Upd, queueVars, nodeVars, bufVars, TypeOK
<1>10. ASSUME NEW n \in Nodes, ReleaseNext(n) PROVE Goal
  BY <1>0, <1>10 DEF ReleaseNext, ReleaseFree, ReleaseNode, bufVars, consVars, TypeOK
<1>11. CASE UNCHANGED vars
  BY <1>11 DEF vars, queueVars, nodeVars, bufVars, consVars
<1> QED
  BY <1>1, <1>2, <1>3, <1>4, <1>5, <1>6, <1>7, <1>8, <1>9, <1>10, <1>11
  DEF Next, Streaming, Timeouts, Disturbance, ProducerNext

\* complete numbers a buffer that no ready node has and nobody holds.
LEMMA CompleteNumbers ==
  ASSUME QueueInv, NEW p \in Producers, Complete(p)
  PROVE  /\ seqNo' = seqNo + 1 /\ UNCHANGED <<frame, held, lastSeen>>
         /\ pnode[p] \in Nodes /\ frame[pnode[p]] = pbuf[p]
         /\ content'[pbuf[p]] = seqNo + 1
         /\ \A n \in Nodes : list'[n] = "ready" => n = pnode[p] \/ list[n] = "ready"
         /\ \A n \in In("ready") : n # pnode[p] /\ content'[frame[n]] = content[frame[n]]
         /\ \A c \in Consumers : \A b \in held[c] : content'[b] = content[b]
<1>0. TypeOK /\ NodeInv /\ HeapExact /\ HeldIntact
  BY DEF QueueInv
<1>1. /\ Filled(pbuf[p]) = {pnode[p]} /\ pnode[p] \in Nodes /\ list[pnode[p]] = "free"
      /\ frame[pnode[p]] = pbuf[p] /\ pbuf[p] \in Bufs
  BY FilledIsNode DEF Complete
<1>2. content' = [content EXCEPT ![pbuf[p]] = seqNo + 1]
  BY DEF Complete
<1>3. \A n \in In("ready") : n # pnode[p] /\ frame[n] # pbuf[p] /\ frame[n] \in Bufs
  BY <1>0, <1>1, FrameQueueAssumption DEF HeapExact, NodeInv, TypeOK, In
<1>4. \A n \in In("ready") : content'[frame[n]] = content[frame[n]]
  BY <1>0, <1>2, <1>3 DEF TypeOK
<1>5. \A n \in Nodes : list'[n] = "ready" => n = pnode[p] \/ list[n] = "ready"
  BY <1>0, <1>1 DEF Complete, Upd, TypeOK
<1>6. \A c \in Consumers : \A b \in held[c] : content'[b] = content[b]
  BY <1>0, <1>4 DEF HeldIntact
<1> QED
  BY <1>0, <1>1, <1>2, <1>3, <1>4, <1>5, <1>6 DEF Complete, consVars, TypeOK

\* Every step keeps the numbers of ready frames different.
LEMMA DistinctStep ==
  QueueInv /\ OrderInv /\ DistinctInv /\ [Next]_vars => DistinctInv'
<1> SUFFICES ASSUME QueueInv, OrderInv, DistinctInv, [Next]_vars PROVE DistinctInv'
  OBVIOUS
<1>1. ASSUME NEW p \in Producers, Complete(p) PROVE DistinctInv'
  <2>1. \A n \in In("ready") : content[frame[n]] <= seqNo /\ content[frame[n]] \in Nat
    BY DEF OrderInv, QueueInv, NodeInv, TypeOK, In
  <2>2. seqNo \in Nat
    BY DEF QueueInv, TypeOK
  <2> QED
    BY <1>1, <2>1, <2>2, CompleteNumbers DEF DistinctInv, In
<1>2. CASE \A p \in Producers : ~Complete(p)
  BY <1>2, OtherStep DEF DistinctInv, In
<1> QED
  BY <1>1, <1>2

\* The buffers a consumer holds have different numbers.
LEMMA HeldDistinct ==
  ASSUME QueueInv, DistinctInv, NEW c \in Consumers, NEW a \in held[c], NEW b \in held[c],
         content[a] = content[b]
  PROVE  a = b
  BY DEF QueueInv, HeldIntact, DistinctInv

\* Every step of the queue is a step of the broadcast or leaves it alone.
LEMMA BroadcastStep ==
  ASSUME QueueInv, OrderInv, DistinctInv, [Next]_vars
  PROVE  [Broadcast!Next]_<<seqNo, lastSeen, [c \in Consumers |-> {content[b] : b \in held[c]}]>>
<1> DEFINE hold == [c \in Consumers |-> {content[b] : b \in held[c]}]
<1>0. TypeOK
  BY DEF QueueInv
<1>1. ASSUME NEW p \in Producers, Complete(p) PROVE Broadcast!Publish
  <2>1. hold' = hold
    BY <1>1, CompleteNumbers
  <2> QED
    BY <1>1, <2>1, CompleteNumbers DEF Broadcast!Publish
<1>2. ASSUME NEW c \in Consumers, GetFrame(c), UNCHANGED <<content, seqNo>>
      PROVE  Broadcast!Read(c)
  <2>1. PICK n \in First(Owed(c)) :
          /\ held' = [held EXCEPT ![c] = @ \cup {frame[n]}]
          /\ lastSeen' = [lastSeen EXCEPT ![c] = content[frame[n]]]
    BY <1>2 DEF GetFrame
  <2>2. n \in Owed(c) /\ n \in In("ready") /\ n \in Nodes
    BY DEF First, Owed, In
  <2>3. lastSeen[c] < content[frame[n]] /\ content[frame[n]] <= seqNo
    BY <2>2 DEF OrderInv
  <2>4. content[frame[n]] \in (lastSeen[c] + 1)..seqNo
    BY <1>0, <2>2, <2>3 DEF QueueInv, NodeInv, TypeOK, In
  <2>5. hold' = [hold EXCEPT ![c] = @ \cup {content[frame[n]]}]
    <3>1. \A d \in Consumers : d # c => held'[d] = held[d]
      BY <1>0, <2>1 DEF TypeOK
    <3>2. held'[c] = held[c] \cup {frame[n]}
      BY <1>0, <2>1 DEF TypeOK
    <3>3. {content[a] : a \in held'[c]} = {content[a] : a \in held[c]} \cup {content[frame[n]]}
      BY <3>2
    <3>4. content' = content
      BY <1>2
    <3>5. \A d \in Consumers : d # c =>
            {content'[a] : a \in held'[d]} = {content[a] : a \in held[d]}
      BY ONLY <3>1, <3>4
    <3>6. {content'[a] : a \in held'[c]} = {content[a] : a \in held[c]} \cup {content[frame[n]]}
      BY ONLY <3>3, <3>4
    <3>7. hold' = [d \in Consumers |-> {content'[a] : a \in held'[d]}]
      OBVIOUS
    <3> QED
      BY ONLY <3>5, <3>6, <3>7, c \in Consumers
  <2> QED
    BY <1>2, <2>1, <2>4, <2>5 DEF Broadcast!Read
<1>3. ASSUME NEW c \in Consumers, NEW b \in Bufs, Release(c, b), UNCHANGED <<content, seqNo>>
      PROVE  Broadcast!Return(c)
  <2>1. b \in held[c] /\ held' = [held EXCEPT ![c] = @ \ {b}] /\ lastSeen' = lastSeen
    BY <1>3 DEF Release
  <2>2. \A a \in held[c] : content[a] = content[b] => a = b
    BY <2>1, HeldDistinct
  <2>3. {content[a] : a \in held[c] \ {b}} = {content[a] : a \in held[c]} \ {content[b]}
    BY <2>2
  <2>4. hold' = [hold EXCEPT ![c] = @ \ {content[b]}]
    <3>1. \A d \in Consumers : d # c => held'[d] = held[d]
      BY <1>0, <2>1 DEF TypeOK
    <3>2. held'[c] = held[c] \ {b}
      BY <1>0, <2>1 DEF TypeOK
    <3> QED
      BY <1>3, <2>3, <3>1, <3>2
  <2>5. content[b] \in hold[c]
    BY <2>1
  <2> QED
    BY <1>3, <2>1, <2>4, <2>5 DEF Broadcast!Return
<1>4. CASE UNCHANGED <<content, seqNo, held, lastSeen>>
  BY <1>4
<1> QED
  BY <1>1, <1>2, <1>3, <1>4, OtherStep DEF Broadcast!Next

\* The frame queue implements the abstract broadcast, for any number of nodes,
\* buffers, producers and consumers: what get_frame returned stays what it was
\* until it is released, and every consumer reads forward.
THEOREM QueueImplementsBroadcast == Spec => ImplementsBroadcast
<1>1. Init => OrderInv /\ DistinctInv
  BY DEF Init, OrderInv, DistinctInv, Owed, In
<1>2. Init => Broadcast!Init
  BY DEF Init, Broadcast!Init
<1>3. QueueInv /\ OrderInv /\ DistinctInv /\ [Next]_vars =>
        /\ OrderInv' /\ DistinctInv'
        /\ [Broadcast!Next]_<<seqNo, lastSeen, [c \in Consumers |-> {content[b] : b \in held[c]}]>>
  BY OrderStep, DistinctStep, BroadcastStep
<1> QED
  BY <1>1, <1>2, <1>3, QueueInvariance, PTL DEF Spec, ImplementsBroadcast, Broadcast!Spec

-----------------------------------------------------------------------------
(* The lists under the queue: theorems about FrameList, for any number of  *)
(* nodes.                                                                  *)

\* Each of q[1] to q[c] is one node of M, and next and previous node, head
\* and tail are what this order makes them.
Threaded(q, c, M, nx, pv, h, t) ==
  /\ q \in [1..c -> M]
  /\ \A n \in M : \E i \in 1..c : q[i] = n
  /\ \A i, j \in 1..c : q[i] = q[j] => i = j
  /\ h = IF c = 0 THEN Nil ELSE q[1]
  /\ t = IF c = 0 THEN Nil ELSE q[c]
  /\ \A i \in 1..c : /\ nx[q[i]] = IF i = c THEN Nil ELSE q[i + 1]
                     /\ pv[q[i]] = IF i = 1 THEN Nil ELSE q[i - 1]

\* q is list l from its head to its tail, before and after a step.
ListOf(l, q) == Threaded(q, count[l], Members(l), next, prev, head[l], tail[l])
Becomes(l, q) ==
  Threaded(q, count'[l], Members(l)', next', prev', head'[l], tail'[l])

\* The inductive invariant: some order of its nodes threads each list, and the
\* node a loop is at is in ready_list.
ListInv ==
  /\ ListTypeOK
  /\ \A l \in Lists : \E q \in [1..count[l] -> Members(l)] : ListOf(l, q)
  /\ node # Nil => where[node] = "ready"

Ptrs == [ListNodes -> ListNodes \cup {Nil}]

\* A list with n behind it, with n before it, and without its k-th node.
Longer(q, c, n) == [i \in 1..(c + 1) |-> IF i = c + 1 THEN n ELSE q[i]]
Fronted(q, c, n) == [i \in 1..(c + 1) |-> IF i = 1 THEN n ELSE q[i - 1]]
Shorter(q, c, k) == [i \in 1..(c - 1) |-> IF i < k THEN q[i] ELSE q[i + 1]]

\* What writing one pointer does.
LEMMA SetIs ==
  ASSUME NEW f \in Ptrs, NEW p \in ListNodes \cup {Nil}, NEW v \in ListNodes \cup {Nil}
  PROVE  /\ Set(f, p, v) \in Ptrs
         /\ \A n \in ListNodes : Set(f, p, v)[n] = IF n = p THEN v ELSE f[n]
  BY DEF Set, Ptrs

\* A list depends on the links of its own nodes only.
LEMMA Kept ==
  ASSUME NEW q, NEW c \in Nat, NEW M, NEW nx, NEW pv, NEW h, NEW t,
         NEW nx2, NEW pv2,
         \A n \in M : nx2[n] = nx[n] /\ pv2[n] = pv[n],
         Threaded(q, c, M, nx, pv, h, t)
  PROVE  Threaded(q, c, M, nx2, pv2, h, t)
  BY DEF Threaded

\* Head and tail are nodes of the list, or both null.
LEMMA EndsAreNodes ==
  ASSUME NEW q, NEW c \in Nat, NEW M \in SUBSET ListNodes, NEW nx, NEW pv, NEW h, NEW t,
         Threaded(q, c, M, nx, pv, h, t)
  PROVE  /\ h \in M \cup {Nil} /\ t \in M \cup {Nil}
         /\ h = Nil <=> c = 0
         /\ t = Nil <=> c = 0
         /\ \A i \in 1..c : q[i] \in M /\ q[i] \in ListNodes /\ q[i] # Nil
<1>1. \A i \in 1..c : q[i] \in M /\ q[i] \in ListNodes /\ q[i] # Nil
  <2>1. q \in [1..c -> M]
    BY DEF Threaded
  <2> QED
    BY ONLY <2>1, M \in SUBSET ListNodes, FrameListAssumption
<1>2. c # 0 => 1 \in 1..c /\ c \in 1..c
  OBVIOUS
<1> QED
  BY <1>1, <1>2 DEF Threaded

\* The pointers frame_list_add_tail_nolock writes thread the longer list.
LEMMA Appended ==
  ASSUME NEW q, NEW c \in Nat, NEW M \in SUBSET ListNodes, NEW nx \in Ptrs, NEW pv \in Ptrs,
         NEW h, NEW t, Threaded(q, c, M, nx, pv, h, t), NEW n \in ListNodes \ M
  PROVE  Threaded(Longer(q, c, n), c + 1, M \cup {n},
                  Set(Set(nx, n, Nil), t, n), Set(pv, n, t),
                  IF h = Nil THEN n ELSE h, n)
<1> DEFINE r == Longer(q, c, n)
           nx1 == Set(nx, n, Nil)
           nx2 == Set(nx1, t, n)
           pv2 == Set(pv, n, t)
<1>0. /\ t \in M \cup {Nil} /\ t \in ListNodes \cup {Nil}
      /\ (h = Nil <=> c = 0) /\ (t = Nil <=> c = 0)
      /\ \A i \in 1..c : q[i] \in M /\ q[i] \in ListNodes /\ q[i] # Nil /\ q[i] # n
  BY EndsAreNodes
<1>1. \A m \in ListNodes : /\ nx2[m] = IF m = t THEN n ELSE IF m = n THEN Nil ELSE nx[m]
                       /\ pv2[m] = IF m = n THEN t ELSE pv[m]
  <2>1. nx1 \in Ptrs /\ \A m \in ListNodes : nx1[m] = IF m = n THEN Nil ELSE nx[m]
    BY SetIs
  <2>2. \A m \in ListNodes : nx2[m] = IF m = t THEN n ELSE nx1[m]
    BY <2>1, <1>0 DEF Set, Ptrs
  <2>3. \A m \in ListNodes : pv2[m] = IF m = n THEN t ELSE pv[m]
    BY <1>0, SetIs
  <2> QED
    BY <2>1, <2>2, <2>3
<1>2. r[c + 1] = n /\ \A i \in 1..c : r[i] = q[i]
  BY DEF Longer
<1>3. r \in [1..(c + 1) -> M \cup {n}]
  BY <1>0 DEF Longer
<1>4. \A m \in M \cup {n} : \E i \in 1..(c + 1) : r[i] = m
  BY <1>2 DEF Threaded
<1>9. \A i \in 1..(c + 1) : i = c + 1 \/ i \in 1..c
  OBVIOUS
<1>5. \A i, j \in 1..(c + 1) : r[i] = r[j] => i = j
  <2>1. \A i, j \in 1..c : q[i] = q[j] => i = j
    BY DEF Threaded
  <2> HIDE DEF r
  <2> QED
    BY <2>1, <1>0, <1>2, <1>9
<1>6. (IF h = Nil THEN n ELSE h) = r[1]
  BY <1>0, <1>2 DEF Threaded
<1> HIDE DEF r, nx2, pv2
<1>7. ASSUME NEW i \in 1..(c + 1)
      PROVE  nx2[r[i]] = IF i = c + 1 THEN Nil ELSE r[i + 1]
  <2>1. CASE i = c + 1
    BY <2>1, <1>0, <1>1, <1>2
  <2>2. CASE i = c
    BY <2>2, <1>0, <1>1, <1>2 DEF Threaded
  <2>3. CASE i \in 1..(c - 1)
    <3>1. q[i] # q[c] /\ t = q[c]
      BY <2>3 DEF Threaded
    <3>2. nx[q[i]] = q[i + 1]
      BY <2>3 DEF Threaded
    <3> QED
      BY <2>3, <3>1, <3>2, <1>0, <1>1, <1>2
  <2> QED
    BY <2>1, <2>2, <2>3
<1>8. ASSUME NEW i \in 1..(c + 1)
      PROVE  pv2[r[i]] = IF i = 1 THEN Nil ELSE r[i - 1]
  <2>1. CASE i = c + 1
    BY <2>1, <1>0, <1>1, <1>2 DEF Threaded
  <2>2. CASE i \in 1..c
    <3>1. pv[q[i]] = IF i = 1 THEN Nil ELSE q[i - 1]
      BY <2>2 DEF Threaded
    <3> QED
      BY <2>2, <3>1, <1>0, <1>1, <1>2
  <2> QED
    BY <2>1, <2>2
<1> DEFINE h2 == IF h = Nil THEN n ELSE h
<1>10. h2 = r[1]
  BY <1>6
<1> HIDE DEF h2
<1>11. Threaded(r, c + 1, M \cup {n}, nx2, pv2, h2, n)
  <2>1. c + 1 # 0 /\ n = r[c + 1]
    BY <1>2
  <2> QED
    BY <2>1, <1>3, <1>4, <1>5, <1>10, <1>7, <1>8 DEF Threaded
<1> QED
  BY <1>11 DEF nx2, pv2, r, h2

\* So do those of frame_list_add_head_nolock.
LEMMA Prepended ==
  ASSUME NEW q, NEW c \in Nat, NEW M \in SUBSET ListNodes, NEW nx \in Ptrs, NEW pv \in Ptrs,
         NEW h, NEW t, Threaded(q, c, M, nx, pv, h, t), NEW n \in ListNodes \ M
  PROVE  Threaded(Fronted(q, c, n), c + 1, M \cup {n},
                  Set(nx, n, h), Set(Set(pv, n, Nil), h, n),
                  n, IF t = Nil THEN n ELSE t)
<1> DEFINE r == Fronted(q, c, n)
           pv1 == Set(pv, n, Nil)
           pv2 == Set(pv1, h, n)
           nx2 == Set(nx, n, h)
<1>0. /\ h \in M \cup {Nil} /\ h \in ListNodes \cup {Nil}
      /\ (h = Nil <=> c = 0) /\ (t = Nil <=> c = 0)
      /\ \A i \in 1..c : q[i] \in M /\ q[i] \in ListNodes /\ q[i] # Nil /\ q[i] # n
  BY EndsAreNodes
<1>1. \A m \in ListNodes : /\ pv2[m] = IF m = h THEN n ELSE IF m = n THEN Nil ELSE pv[m]
                       /\ nx2[m] = IF m = n THEN h ELSE nx[m]
  <2>1. pv1 \in Ptrs /\ \A m \in ListNodes : pv1[m] = IF m = n THEN Nil ELSE pv[m]
    BY SetIs
  <2>2. \A m \in ListNodes : pv2[m] = IF m = h THEN n ELSE pv1[m]
    BY <2>1, <1>0 DEF Set, Ptrs
  <2>3. \A m \in ListNodes : nx2[m] = IF m = n THEN h ELSE nx[m]
    BY <1>0, SetIs
  <2> QED
    BY <2>1, <2>2, <2>3
<1>2. r[1] = n /\ \A i \in 1..c : r[i + 1] = q[i]
  BY DEF Fronted
<1>3. r \in [1..(c + 1) -> M \cup {n}]
  BY <1>0 DEF Fronted
<1> HIDE DEF r, nx2, pv2
<1>9. \A i \in 1..(c + 1) : i = 1 \/ \E j \in 1..c : i = j + 1
  OBVIOUS
<1>4. ASSUME NEW m \in M \cup {n}
      PROVE  \E i \in 1..(c + 1) : r[i] = m
  <2>1. CASE m = n
    BY <2>1, <1>2
  <2>2. CASE m \in M
    <3>1. PICK i \in 1..c : q[i] = m
      BY <2>2 DEF Threaded
    <3>2. i + 1 \in 1..(c + 1) /\ r[i + 1] = m
      BY <3>1, <1>2
    <3> QED
      BY <3>2
  <2> QED
    BY <2>1, <2>2
<1>5. \A i, j \in 1..(c + 1) : r[i] = r[j] => i = j
  <2>1. \A i, j \in 1..c : q[i] = q[j] => i = j
    BY DEF Threaded
  <2> QED
    BY <2>1, <1>0, <1>2, <1>9
<1>6. (IF t = Nil THEN n ELSE t) = r[c + 1]
  BY <1>0, <1>2 DEF Threaded
<1>7. ASSUME NEW i \in 1..(c + 1)
      PROVE  nx2[r[i]] = IF i = c + 1 THEN Nil ELSE r[i + 1]
  <2>1. CASE i = 1
    BY <2>1, <1>0, <1>1, <1>2 DEF Threaded
  <2>2. ASSUME NEW j \in 1..c, i = j + 1
        PROVE  nx2[r[i]] = IF i = c + 1 THEN Nil ELSE r[i + 1]
    <3>1. nx[q[j]] = IF j = c THEN Nil ELSE q[j + 1]
      BY <2>2 DEF Threaded
    <3>2. nx2[r[i]] = nx[q[j]]
      BY <2>2, <1>0, <1>1, <1>2
    <3>3. j # c => r[i + 1] = q[j + 1]
      BY <2>2, <1>2
    <3> QED
      BY <2>2, <3>1, <3>2, <3>3
  <2> QED
    BY <2>1, <2>2, <1>9
<1>8. ASSUME NEW i \in 1..(c + 1)
      PROVE  pv2[r[i]] = IF i = 1 THEN Nil ELSE r[i - 1]
  <2>1. CASE i = 1
    BY <2>1, <1>0, <1>1, <1>2
  <2>2. CASE i = 2
    BY <2>2, <1>0, <1>1, <1>2 DEF Threaded
  <2>3. ASSUME NEW j \in 2..c, i = j + 1
        PROVE  pv2[r[i]] = r[i - 1]
    <3>1. q[j] # q[1] /\ h = q[1] /\ pv[q[j]] = q[j - 1]
      BY <2>3 DEF Threaded
    <3> QED
      BY <2>3, <3>1, <1>0, <1>1, <1>2
  <2> QED
    BY <2>1, <2>2, <2>3
<1> DEFINE t2 == IF t = Nil THEN n ELSE t
<1>10. c + 1 # 0 /\ n = r[1] /\ t2 = r[c + 1]
  BY <1>2, <1>6
<1> HIDE DEF t2
<1>11. Threaded(r, c + 1, M \cup {n}, nx2, pv2, n, t2)
  BY <1>3, <1>4, <1>5, <1>10, <1>7, <1>8 DEF Threaded
<1> QED
  BY <1>11 DEF nx2, pv2, r, t2

\* And those of frame_list_remove_nolock, wherever the node was.
LEMMA Deleted ==
  ASSUME NEW q, NEW c \in Nat, NEW M \in SUBSET ListNodes, NEW nx \in Ptrs, NEW pv \in Ptrs,
         NEW h, NEW t, Threaded(q, c, M, nx, pv, h, t), NEW k \in 1..c, NEW n, n = q[k]
  PROVE  Threaded(Shorter(q, c, k), c - 1, M \ {n},
                  Set(Set(nx, pv[n], nx[n]), n, Nil),
                  Set(Set(pv, nx[n], pv[n]), n, Nil),
                  IF pv[n] = Nil THEN nx[n] ELSE h, IF nx[n] = Nil THEN pv[n] ELSE t)
<1> DEFINE r == Shorter(q, c, k)
           nx1 == Set(nx, pv[n], nx[n])
           nx2 == Set(nx1, n, Nil)
           pv1 == Set(pv, nx[n], pv[n])
           pv2 == Set(pv1, n, Nil)
           h2 == IF pv[n] = Nil THEN nx[n] ELSE h
           t2 == IF nx[n] = Nil THEN pv[n] ELSE t
<1>1. \A i \in 1..c : q[i] \in M /\ q[i] \in ListNodes /\ q[i] # Nil
  BY EndsAreNodes
<1>2. \A i, j \in 1..c : q[i] = q[j] => i = j
  BY DEF Threaded
<1>3. \A i \in 1..c : /\ nx[q[i]] = IF i = c THEN Nil ELSE q[i + 1]
                      /\ pv[q[i]] = IF i = 1 THEN Nil ELSE q[i - 1]
  BY DEF Threaded
<1>4. n \in ListNodes /\ nx[n] \in ListNodes \cup {Nil} /\ pv[n] \in ListNodes \cup {Nil}
  BY <1>1 DEF Ptrs
<1>5. \A m \in ListNodes : /\ nx2[m] = IF m = n THEN Nil ELSE IF m = pv[n] THEN nx[n] ELSE nx[m]
                       /\ pv2[m] = IF m = n THEN Nil ELSE IF m = nx[n] THEN pv[n] ELSE pv[m]
  <2>1. PICK a, b \in ListNodes \cup {Nil} : a = nx[n] /\ b = pv[n]
    BY <1>4
  <2>2. /\ Set(nx, b, a) \in Ptrs /\ Set(pv, a, b) \in Ptrs
        /\ \A m \in ListNodes : Set(nx, b, a)[m] = IF m = b THEN a ELSE nx[m]
        /\ \A m \in ListNodes : Set(pv, a, b)[m] = IF m = a THEN b ELSE pv[m]
    BY SetIs
  <2>3. \A f \in Ptrs : \A m \in ListNodes : Set(f, n, Nil)[m] = IF m = n THEN Nil ELSE f[m]
    BY <1>4 DEF Set, Ptrs
  <2>4. \A m \in ListNodes :
          /\ nx2[m] = IF m = n THEN Nil ELSE IF m = b THEN a ELSE nx[m]
          /\ pv2[m] = IF m = n THEN Nil ELSE IF m = a THEN b ELSE pv[m]
    BY <2>1, <2>2, <2>3
  <2> QED
    BY <2>1, <2>4
<1>6. /\ \A i \in 1..(k - 1) : r[i] = q[i]
      /\ \A i \in k..(c - 1) : r[i] = q[i + 1]
  BY DEF Shorter
<1>7. r \in [1..(c - 1) -> M \ {n}]
  <2>1. ASSUME NEW i \in 1..(c - 1)
        PROVE  (IF i < k THEN q[i] ELSE q[i + 1]) \in M \ {n}
    BY <1>1, <1>2
  <2> QED
    BY <2>1 DEF Shorter
<1> HIDE DEF r, nx2, pv2
<1>8. \A i \in 1..(c - 1) : i \in 1..(k - 1) \/ i \in k..(c - 1)
  OBVIOUS
<1>9. ASSUME NEW m \in M \ {n}
      PROVE  \E i \in 1..(c - 1) : r[i] = m
  <2>1. PICK i \in 1..c : q[i] = m
    BY DEF Threaded
  <2>2. CASE i < k
    BY <2>1, <2>2, <1>6
  <2>3. CASE i > k
    <3>1. i - 1 \in k..(c - 1) /\ i - 1 \in 1..(c - 1) /\ (i - 1) + 1 = i
      BY <2>3
    <3> QED
      BY <2>1, <3>1, <1>6
  <2> QED
    BY <2>1, <2>2, <2>3
<1>10. \A i, j \in 1..(c - 1) : r[i] = r[j] => i = j
  BY <1>2, <1>6, <1>8
<1>11. h2 = IF c - 1 = 0 THEN Nil ELSE r[1]
  <2>1. CASE k = 1
    BY <2>1, <1>1, <1>3, <1>6
  <2>2. CASE k > 1
    BY <2>2, <1>1, <1>3, <1>6 DEF Threaded
  <2> QED
    BY <2>1, <2>2
<1>12. t2 = IF c - 1 = 0 THEN Nil ELSE r[c - 1]
  <2>1. CASE k = c
    BY <2>1, <1>1, <1>3, <1>6
  <2>2. CASE k < c
    BY <2>2, <1>1, <1>3, <1>6 DEF Threaded
  <2> QED
    BY <2>1, <2>2
<1>13. ASSUME NEW i \in 1..(c - 1)
       PROVE  nx2[r[i]] = IF i = c - 1 THEN Nil ELSE r[i + 1]
  <2>1. CASE i = k - 1
    <3>1. r[i] = pv[n] /\ r[i] # n /\ r[i] \in ListNodes
      BY <2>1, <1>1, <1>2, <1>3, <1>6
    <3>2. nx2[r[i]] = nx[n]
      BY <3>1, <1>5
    <3> QED
      BY <2>1, <3>2, <1>3, <1>6
  <2>2. CASE i < k - 1
    <3>1. q[i] # n /\ q[i] # pv[n] /\ r[i] = q[i] /\ r[i + 1] = q[i + 1]
      BY <2>2, <1>1, <1>2, <1>3, <1>6
    <3> QED
      BY <2>2, <3>1, <1>1, <1>3, <1>5
  <2>3. CASE i >= k
    <3>1. q[i + 1] # n /\ q[i + 1] # pv[n] /\ r[i] = q[i + 1]
      BY <2>3, <1>1, <1>2, <1>3, <1>6
    <3>2. nx2[r[i]] = nx[q[i + 1]]
      BY <2>3, <3>1, <1>1, <1>5
    <3>3. i # c - 1 => r[i + 1] = q[(i + 1) + 1]
      BY <2>3, <1>6
    <3> QED
      BY <2>3, <3>2, <3>3, <1>3
  <2> QED
    BY <2>1, <2>2, <2>3
<1>14. ASSUME NEW i \in 1..(c - 1)
       PROVE  pv2[r[i]] = IF i = 1 THEN Nil ELSE r[i - 1]
  <2>1. CASE i = k
    <3>1. r[i] = nx[n] /\ r[i] # n /\ r[i] \in ListNodes
      BY <2>1, <1>1, <1>2, <1>3, <1>6
    <3>2. pv2[r[i]] = pv[n]
      BY <3>1, <1>5
    <3> QED
      BY <2>1, <3>2, <1>3, <1>6
  <2>2. CASE i < k
    <3>1. q[i] # n /\ q[i] # nx[n] /\ r[i] = q[i] /\ (i # 1 => r[i - 1] = q[i - 1])
      BY <2>2, <1>1, <1>2, <1>3, <1>6
    <3> QED
      BY <2>2, <3>1, <1>1, <1>3, <1>5
  <2>3. CASE i > k
    <3>1. q[i + 1] # n /\ q[i + 1] # nx[n] /\ r[i] = q[i + 1] /\ r[i - 1] = q[i]
      <4>1. i - 1 \in k..(c - 1) /\ (i - 1) + 1 = i
        BY <2>3
      <4> QED
        BY <2>3, <4>1, <1>1, <1>2, <1>3, <1>6
    <3>2. pv2[r[i]] = pv[q[i + 1]]
      BY <2>3, <3>1, <1>1, <1>5
    <3>3. pv[q[i + 1]] = q[i]
      BY <2>3, <1>3
    <3> QED
      BY <2>3, <3>1, <3>2, <3>3
  <2> QED
    BY <2>1, <2>2, <2>3
<1> HIDE DEF h2, t2
<1>15. Threaded(r, c - 1, M \ {n}, nx2, pv2, h2, t2)
  BY <1>7, <1>9, <1>10, <1>11, <1>12, <1>13, <1>14 DEF Threaded
<1> QED
  BY <1>15 DEF nx2, pv2, r, h2, t2

\* A threaded list has as many nodes as its count.
LEMMA CountIsSize ==
  ASSUME NEW q, NEW c \in Nat, NEW M, NEW nx, NEW pv, NEW h, NEW t,
         Threaded(q, c, M, nx, pv, h, t)
  PROVE  Cardinality(M) = c
<1>1. q \in Injection(1..c, M)
  BY DEF Injection, IsInjective, Threaded
<1>2. q \in Surjection(1..c, M)
  BY DEF Surjection, Threaded
<1>3. ExistsBijection(1..c, M)
  BY <1>1, <1>2 DEF ExistsBijection, Bijection
<1> QED
  BY <1>3, FS_CountingElements

\* The invariant gives the property.
LEMMA ListLinked ==
  ASSUME ListInv PROVE Linked
<1> SUFFICES ASSUME NEW l \in Lists
             PROVE
    /\ count[l] = Cardinality(Members(l))
    /\ head[l] = Nil <=> Members(l) = {}
    /\ tail[l] = Nil <=> Members(l) = {}
    /\ head[l] # Nil => head[l] \in Members(l)
    /\ tail[l] # Nil => tail[l] \in Members(l)
    /\ \A n \in Members(l) :
         /\ IF next[n] = Nil THEN tail[l] = n
            ELSE next[n] \in Members(l) /\ prev[next[n]] = n
         /\ IF prev[n] = Nil THEN head[l] = n
            ELSE prev[n] \in Members(l) /\ next[prev[n]] = n
  BY DEF Linked
<1> DEFINE M == Members(l)
           c == count[l]
<1>1. PICK q \in [1..c -> M] : ListOf(l, q)
  BY DEF ListInv
<1>2. c \in Nat /\ Nil \notin M
  BY FrameListAssumption DEF ListInv, ListTypeOK, Members
<1>4. Cardinality(M) = c
  BY <1>1, <1>2, CountIsSize DEF ListOf
<1>5. /\ head[l] = Nil <=> M = {}
      /\ tail[l] = Nil <=> M = {}
      /\ head[l] # Nil => head[l] \in M
      /\ tail[l] # Nil => tail[l] \in M
  BY <1>1, <1>2 DEF ListOf, Threaded
<1>6. ASSUME NEW n \in M
      PROVE  /\ IF next[n] = Nil THEN tail[l] = n
                ELSE next[n] \in M /\ prev[next[n]] = n
             /\ IF prev[n] = Nil THEN head[l] = n
                ELSE prev[n] \in M /\ next[prev[n]] = n
  <2>1. PICK i \in 1..c : q[i] = n
    BY <1>1 DEF ListOf, Threaded
  <2>2. \A k \in 1..c : q[k] # Nil
    BY <1>1, <1>2
  <2>3. /\ next[n] = Nil => tail[l] = n
        /\ next[n] # Nil => i + 1 \in 1..c /\ next[n] = q[i + 1]
    BY <1>1, <1>2, <2>1, <2>2 DEF ListOf, Threaded
  <2>4. /\ prev[n] = Nil => head[l] = n
        /\ prev[n] # Nil => i - 1 \in 1..c /\ prev[n] = q[i - 1]
    BY <1>1, <1>2, <2>1, <2>2 DEF ListOf, Threaded
  <2>5. next[n] # Nil => next[n] \in M /\ prev[next[n]] = n
    BY <1>1, <1>2, <2>1, <2>3 DEF ListOf, Threaded
  <2>6. prev[n] # Nil => prev[n] \in M /\ next[prev[n]] = n
    BY <1>1, <1>2, <2>1, <2>4 DEF ListOf, Threaded
  <2> QED
    BY <2>3, <2>4, <2>5, <2>6
<1> QED
  BY <1>4, <1>5, <1>6

\* Two empty lists satisfy it.
LEMMA ListInvInit == ListInit => ListInv
<1> SUFFICES ASSUME ListInit PROVE ListInv
  OBVIOUS
<1>1. ListTypeOK
  BY DEF ListInit, ListTypeOK, Pointers, Lists
<1>2. ASSUME NEW l \in Lists
      PROVE  \E q \in [1..count[l] -> Members(l)] : ListOf(l, q)
  <2>1. count[l] = 0 /\ Members(l) = {} /\ head[l] = Nil /\ tail[l] = Nil
    BY DEF ListInit, Members, Lists
  <2>2. ListOf(l, [i \in 1..count[l] |-> Nil])
    BY <2>1 DEF ListOf, Threaded
  <2>3. [i \in 1..count[l] |-> Nil] \in [1..count[l] -> Members(l)]
    BY <2>1
  <2> QED
    BY <2>2, <2>3
<1> QED
  BY <1>1, <1>2 DEF ListInv, ListInit

\* What the invariant says of the types and of the two sets of nodes.
LEMMA TypeFacts ==
  ASSUME ListInv
  PROVE  /\ next \in Ptrs /\ prev \in Ptrs
         /\ \A l \in Lists : /\ count[l] \in Nat
                                  /\ Members(l) \in SUBSET ListNodes
                                  /\ head[l] \in Members(l) \cup {Nil}
                                  /\ tail[l] \in Members(l) \cup {Nil}
                                  /\ head[l] \in ListNodes \cup {Nil}
                                  /\ tail[l] \in ListNodes \cup {Nil}
         /\ \A k, l \in Lists : \A n \in ListNodes : k # l =>
              ~(n \in Members(k) /\ n \in Members(l))
         /\ head \in [Lists -> ListNodes \cup {Nil}]
         /\ tail \in [Lists -> ListNodes \cup {Nil}]
         /\ count \in [Lists -> Nat]
         /\ where \in [ListNodes -> Lists \cup {"none"}]
<1>1. next \in Ptrs /\ prev \in Ptrs
  BY DEF ListInv, ListTypeOK, Pointers, Ptrs
<1>2. ASSUME NEW l \in Lists
      PROVE  /\ count[l] \in Nat
             /\ Members(l) \in SUBSET ListNodes
             /\ head[l] \in Members(l) \cup {Nil}
             /\ tail[l] \in Members(l) \cup {Nil}
  <2>1. count[l] \in Nat
    BY DEF ListInv, ListTypeOK
  <2>2. Members(l) \in SUBSET ListNodes
    BY DEF Members
  <2>3. PICK q : ListOf(l, q)
    BY DEF ListInv
  <2>4. /\ head[l] \in Members(l) \cup {Nil}
        /\ tail[l] \in Members(l) \cup {Nil}
    BY <2>1, <2>2, <2>3, EndsAreNodes DEF ListOf
  <2> QED
    BY <2>1, <2>2, <2>4
<1>3. \A k, l \in Lists : \A n \in ListNodes : k # l =>
              ~(n \in Members(k) /\ n \in Members(l))
  BY DEF Members
<1> QED
  BY <1>1, <1>2, <1>3 DEF ListInv, ListTypeOK, Pointers

\* The neighbours of a node are in its list.
LEMMA Neighbours ==
  ASSUME ListInv, NEW l \in Lists, NEW n \in Members(l)
  PROVE  /\ next[n] \in Members(l) \cup {Nil}
         /\ prev[n] \in Members(l) \cup {Nil}
         /\ next[n] # n /\ prev[n] # n
         /\ count[l] - 1 \in Nat
         /\ n = head[l] => prev[n] = Nil
<1>1. PICK q : ListOf(l, q)
  BY DEF ListInv
<1>2. PICK i \in 1..count[l] : q[i] = n
  BY <1>1 DEF ListOf, Threaded
<1>3. count[l] \in Nat /\ \A j \in 1..count[l] : q[j] \in Members(l) /\ q[j] # Nil
  BY <1>1, TypeFacts, EndsAreNodes DEF ListOf
<1>0. count[l] # 0
  BY <1>3
<1>4. /\ next[n] = IF i = count[l] THEN Nil ELSE q[i + 1]
      /\ prev[n] = IF i = 1 THEN Nil ELSE q[i - 1]
      /\ head[l] = q[1]
      /\ \A j, k \in 1..count[l] : q[j] = q[k] => j = k
  BY <1>0, <1>1, <1>2 DEF ListOf, Threaded
<1>5. i # count[l] => i + 1 \in 1..count[l] /\ i + 1 # i
  BY <1>3
<1>6. i # 1 => i - 1 \in 1..count[l] /\ i - 1 # i
  BY <1>3
<1>7. next[n] \in Members(l) \cup {Nil} /\ next[n] # n
  BY <1>2, <1>3, <1>4, <1>5
<1>8. prev[n] \in Members(l) \cup {Nil} /\ prev[n] # n
  BY <1>2, <1>3, <1>4, <1>6
<1>9. count[l] - 1 \in Nat
  BY <1>3
<1>10. n = head[l] => prev[n] = Nil
  BY <1>2, <1>3, <1>4
<1> QED
  BY <1>7, <1>8, <1>9, <1>10

\* A list whose nodes, ends and links a step leaves alone stays what it is.
LEMMA OtherKept ==
  ASSUME ListInv, NEW k \in Lists, NEW q, ListOf(k, q),
         count'[k] = count[k], head'[k] = head[k], tail'[k] = tail[k],
         Members(k)' = Members(k),
         \A m \in Members(k) : next'[m] = next[m] /\ prev'[m] = prev[m]
  PROVE  Becomes(k, q)
<1>1. Threaded(q, count[k], Members(k), next', prev', head[k], tail[k])
  BY TypeFacts, Kept DEF ListOf
<1> QED
  BY <1>1 DEF Becomes

\* add_tail appends the node to its list and leaves the other alone.
LEMMA AddTailStep ==
  ASSUME ListInv, NEW l \in Lists, NEW n \in ListNodes, AddTail(l, n)
  PROVE  /\ \A k \in Lists : n \notin Members(k)
         /\ \A q : ListOf(l, q) => Becomes(l, Longer(q, count[l], n))
         /\ \A k \in Lists \ {l} : \A q : ListOf(k, q) => Becomes(k, q)
<1>1. \A k \in Lists : n \notin Members(k)
  BY DEF AddTail, Members, Lists
<1>2. ASSUME NEW q, ListOf(l, q)
      PROVE  Becomes(l, Longer(q, count[l], n))
  <2>1. Threaded(Longer(q, count[l], n), count[l] + 1, Members(l) \cup {n},
                 Set(Set(next, n, Nil), tail[l], n),
                 Set(prev, n, tail[l]),
                 IF head[l] = Nil THEN n ELSE head[l], n)
    BY <1>1, <1>2, TypeFacts, Appended DEF ListOf
  <2>2. Members(l)' = Members(l) \cup {n}
    BY TypeFacts DEF AddTail, Members, Lists
  <2>3. /\ next' = Set(Set(next, n, Nil), tail[l], n)
        /\ prev' = Set(prev, n, tail[l])
        /\ count'[l] = count[l] + 1
        /\ head'[l] = IF head[l] = Nil THEN n ELSE head[l]
        /\ tail'[l] = n
    BY TypeFacts DEF AddTail
  <2> QED
    BY <2>1, <2>2, <2>3 DEF Becomes
<1>3. ASSUME NEW k \in Lists \ {l}, NEW q, ListOf(k, q)
      PROVE  Becomes(k, q)
  <2>1. count'[k] = count[k] /\ head'[k] = head[k] /\ tail'[k] = tail[k]
    BY TypeFacts DEF AddTail
  <2>2. Members(k)' = Members(k)
    BY TypeFacts DEF AddTail, Members, Lists
  <2>3. ASSUME NEW m \in Members(k)
        PROVE  next'[m] = next[m] /\ prev'[m] = prev[m]
    <3>1. m \in ListNodes /\ m # n /\ m # tail[l]
      BY <1>1, TypeFacts, FrameListAssumption
    <3> QED
      BY <3>1, TypeFacts DEF AddTail, Set, Ptrs
  <2> QED
    BY <1>3, <2>1, <2>2, <2>3, OtherKept
<1> QED
  BY <1>1, <1>2, <1>3

\* add_head puts it before the others.
LEMMA AddHeadStep ==
  ASSUME ListInv, NEW l \in Lists, NEW n \in ListNodes, AddHead(l, n)
  PROVE  /\ \A k \in Lists : n \notin Members(k)
         /\ \A q : ListOf(l, q) => Becomes(l, Fronted(q, count[l], n))
         /\ \A k \in Lists \ {l} : \A q : ListOf(k, q) => Becomes(k, q)
<1>1. \A k \in Lists : n \notin Members(k)
  BY DEF AddHead, Members, Lists
<1>2. ASSUME NEW q, ListOf(l, q)
      PROVE  Becomes(l, Fronted(q, count[l], n))
  <2>1. Threaded(Fronted(q, count[l], n), count[l] + 1, Members(l) \cup {n},
                 Set(next, n, head[l]),
                 Set(Set(prev, n, Nil), head[l], n),
                 n, IF tail[l] = Nil THEN n ELSE tail[l])
    BY <1>1, <1>2, TypeFacts, Prepended DEF ListOf
  <2>2. Members(l)' = Members(l) \cup {n}
    BY TypeFacts DEF AddHead, Members, Lists
  <2>3. /\ next' = Set(next, n, head[l])
        /\ prev' = Set(Set(prev, n, Nil), head[l], n)
        /\ count'[l] = count[l] + 1
        /\ head'[l] = n
        /\ tail'[l] = IF tail[l] = Nil THEN n ELSE tail[l]
    BY TypeFacts DEF AddHead
  <2> QED
    BY <2>1, <2>2, <2>3 DEF Becomes
<1>3. ASSUME NEW k \in Lists \ {l}, NEW q, ListOf(k, q)
      PROVE  Becomes(k, q)
  <2>1. count'[k] = count[k] /\ head'[k] = head[k] /\ tail'[k] = tail[k]
    BY TypeFacts DEF AddHead
  <2>2. Members(k)' = Members(k)
    BY TypeFacts DEF AddHead, Members, Lists
  <2>3. ASSUME NEW m \in Members(k)
        PROVE  next'[m] = next[m] /\ prev'[m] = prev[m]
    <3>1. m \in ListNodes /\ m # n /\ m # head[l]
      BY <1>1, TypeFacts, FrameListAssumption
    <3> QED
      BY <3>1, TypeFacts DEF AddHead, Set, Ptrs
  <2> QED
    BY <1>3, <2>1, <2>2, <2>3, OtherKept
<1> QED
  BY <1>1, <1>2, <1>3

\* The fields of what remove computes.
LEMMA UnlinkIs ==
  ASSUME NEW l, NEW n, NEW u, u = Unlink(l, n)
  PROVE  /\ u.next = Set(Set(next, prev[n], next[n]), n, Nil)
         /\ u.prev = Set(Set(prev, next[n], prev[n]), n, Nil)
         /\ u.head = IF prev[n] = Nil THEN [head EXCEPT ![l] = next[n]] ELSE head
         /\ u.tail = IF next[n] = Nil THEN [tail EXCEPT ![l] = prev[n]] ELSE tail
         /\ u.count = [count EXCEPT ![l] = @ - 1]
  BY DEF Unlink

\* What remove makes of the pointers threads the rest of the list.
LEMMA Cut ==
  ASSUME ListInv, NEW l \in Lists, NEW n \in Members(l),
         NEW u, u = Unlink(l, n), NEW q, ListOf(l, q)
  PROVE  \E i \in 1..count[l] :
           /\ q[i] = n
           /\ Threaded(Shorter(q, count[l], i), count[l] - 1, Members(l) \ {n},
                       u.next, u.prev, u.head[l], u.tail[l])
<1>1. PICK i \in 1..count[l] : q[i] = n
  BY DEF ListOf, Threaded
<1>2. /\ count[l] \in Nat /\ Members(l) \in SUBSET ListNodes
      /\ next \in Ptrs /\ prev \in Ptrs
  BY TypeFacts
<1>3. Threaded(q, count[l], Members(l), next, prev, head[l], tail[l])
  BY DEF ListOf
<1>4. Threaded(Shorter(q, count[l], i), count[l] - 1, Members(l) \ {q[i]},
               Set(Set(next, prev[q[i]], next[q[i]]), q[i], Nil),
               Set(Set(prev, next[q[i]], prev[q[i]]), q[i], Nil),
               IF prev[q[i]] = Nil THEN next[q[i]] ELSE head[l],
               IF next[q[i]] = Nil THEN prev[q[i]] ELSE tail[l])
  BY ONLY <1>2, <1>3, i \in 1..count[l], Deleted, ZenonT(60)
<1>5. /\ u.next = Set(Set(next, prev[n], next[n]), n, Nil)
      /\ u.prev = Set(Set(prev, next[n], prev[n]), n, Nil)
      /\ u.head = IF prev[n] = Nil THEN [head EXCEPT ![l] = next[n]] ELSE head
      /\ u.tail = IF next[n] = Nil THEN [tail EXCEPT ![l] = prev[n]] ELSE tail
      /\ u.count = [count EXCEPT ![l] = @ - 1]
  BY UnlinkIs
<1>6. /\ u.head[l] = IF prev[n] = Nil THEN next[n] ELSE head[l]
      /\ u.tail[l] = IF next[n] = Nil THEN prev[n] ELSE tail[l]
  BY <1>5, TypeFacts
<1> QED
  BY <1>1, <1>4, <1>5, <1>6

\* It leaves the links of the other list alone.
LEMMA UnlinkElsewhere ==
  ASSUME ListInv, NEW l \in Lists, NEW n \in Members(l),
         NEW u, u = Unlink(l, n), NEW k \in Lists, k # l
  PROVE  /\ u.next \in Ptrs /\ u.prev \in Ptrs
         /\ u.count[k] = count[k] /\ u.head[k] = head[k] /\ u.tail[k] = tail[k]
         /\ \A m \in Members(k) : u.next[m] = next[m] /\ u.prev[m] = prev[m]
<1>0. /\ u.next = Set(Set(next, prev[n], next[n]), n, Nil)
      /\ u.prev = Set(Set(prev, next[n], prev[n]), n, Nil)
      /\ u.head = IF prev[n] = Nil THEN [head EXCEPT ![l] = next[n]] ELSE head
      /\ u.tail = IF next[n] = Nil THEN [tail EXCEPT ![l] = prev[n]] ELSE tail
      /\ u.count = [count EXCEPT ![l] = @ - 1]
  BY UnlinkIs
<1>1. u.count[k] = count[k] /\ u.head[k] = head[k] /\ u.tail[k] = tail[k]
  BY <1>0, TypeFacts
<1>2. /\ n \in ListNodes /\ next[n] \in ListNodes \cup {Nil} /\ prev[n] \in ListNodes \cup {Nil}
      /\ next \in Ptrs /\ prev \in Ptrs
  BY TypeFacts DEF Ptrs
<1>3. u.next \in Ptrs /\ u.prev \in Ptrs
  <2>1. \A f \in Ptrs : \A p, v \in ListNodes \cup {Nil} : Set(f, p, v) \in Ptrs
    BY SetIs
  <2>2. /\ Set(next, prev[n], next[n]) \in Ptrs
        /\ Set(prev, next[n], prev[n]) \in Ptrs
    BY <1>2, <2>1
  <2>3. n \in ListNodes \cup {Nil} /\ Nil \in ListNodes \cup {Nil}
    BY <1>2
  <2> QED
    BY <1>0, <2>1, <2>2, <2>3
<1>4. ASSUME NEW m \in Members(k)
      PROVE  u.next[m] = next[m] /\ u.prev[m] = prev[m]
  <2>1. /\ next[n] \in Members(l) \cup {Nil}
        /\ prev[n] \in Members(l) \cup {Nil}
    BY Neighbours
  <2>2. m \in ListNodes /\ m # Nil /\ m \notin Members(l)
    BY TypeFacts, FrameListAssumption
  <2>3. m # n /\ m # next[n] /\ m # prev[n]
    BY <2>1, <2>2
  <2> QED
    BY <1>0, <1>2, <2>2, <2>3 DEF Set, Ptrs
<1> QED
  BY <1>1, <1>3, <1>4

\* remove takes its node out of the order.
LEMMA RemoveStep ==
  ASSUME ListInv, NEW l \in Lists, NEW n \in ListNodes, Remove(l, n)
  PROVE  /\ \A q : ListOf(l, q) => \E i \in 1..count[l] :
              q[i] = n /\ Becomes(l, Shorter(q, count[l], i))
         /\ \A k \in Lists \ {l} : \A q : ListOf(k, q) => Becomes(k, q)
<1>1. n \in Members(l)
  BY DEF Remove, Members
<1>2. PICK u : u = Unlink(l, n)
  OBVIOUS
<1>3. next' = u.next /\ prev' = u.prev /\ head' = u.head /\ tail' = u.tail /\ count' = u.count
  BY <1>2 DEF Remove
<1>4. ASSUME NEW q, ListOf(l, q)
      PROVE  \E i \in 1..count[l] : q[i] = n /\ Becomes(l, Shorter(q, count[l], i))
  <2>1. count'[l] = count[l] - 1
    BY TypeFacts DEF Remove, Unlink
  <2>2. Members(l)' = Members(l) \ {n}
    BY TypeFacts DEF Remove, Members, Lists
  <2>3. PICK i \in 1..count[l] :
          /\ q[i] = n
          /\ Threaded(Shorter(q, count[l], i), count[l] - 1, Members(l) \ {n},
                      u.next, u.prev, u.head[l], u.tail[l])
    BY <1>1, <1>2, <1>4, Cut
  <2> QED
    BY <1>3, <2>1, <2>2, <2>3 DEF Becomes
<1>5. ASSUME NEW k \in Lists \ {l}, NEW q, ListOf(k, q)
      PROVE  Becomes(k, q)
  <2>1. Members(k)' = Members(k)
    BY TypeFacts DEF Remove, Members, Lists
  <2>2. /\ u.count[k] = count[k] /\ u.head[k] = head[k] /\ u.tail[k] = tail[k]
        /\ \A m \in Members(k) : u.next[m] = next[m] /\ u.prev[m] = prev[m]
    BY <1>1, <1>2, UnlinkElsewhere
  <2> QED
    BY <1>3, <1>5, <2>1, <2>2, OtherKept
<1> QED
  BY <1>4, <1>5

\* pop_head removes the head.
LEMMA PopIsRemove ==
  ASSUME ListInv, NEW l \in Lists, PopHead(l)
  PROVE  head[l] \in ListNodes /\ Remove(l, head[l])
<1> DEFINE n == head[l]
<1>1. n # Nil /\ n \in Members(l) /\ n \in ListNodes
  BY TypeFacts DEF PopHead
<1>2. where[n] = l
  BY <1>1 DEF Members
<1>3. prev[n] = Nil
  BY <1>1, Neighbours
<1>4. Set(next, Nil, next[n]) = next
  BY TypeFacts, FrameListAssumption DEF Set, Ptrs
<1>5. /\ Unlink(l, n).next = Set(next, n, Nil)
      /\ Unlink(l, n).prev = Set(Set(prev, next[n], Nil), n, Nil)
      /\ Unlink(l, n).head = [head EXCEPT ![l] = next[n]]
      /\ Unlink(l, n).tail = IF next[n] = Nil THEN [tail EXCEPT ![l] = Nil] ELSE tail
      /\ Unlink(l, n).count = [count EXCEPT ![l] = @ - 1]
  BY <1>3, <1>4 DEF Unlink
<1> QED
  BY <1>1, <1>2, <1>5 DEF PopHead, Remove

\* A loop takes its node out of ready_list and appends it to free_list.
LEMMA SweepMoveStep ==
  ASSUME ListInv, node # Nil, SweepMove
  PROVE  /\ \A q : ListOf("free", q) => Becomes("free", Longer(q, count["free"], node))
         /\ \A q : ListOf("ready", q) => \E i \in 1..count["ready"] :
              q[i] = node /\ Becomes("ready", Shorter(q, count["ready"], i))
<1>0. /\ node \in Members("ready") /\ node \in ListNodes
      /\ node \notin Members("free")
      /\ "ready" \in Lists /\ "free" \in Lists
  BY DEF ListInv, ListTypeOK, Pointers, Members, Lists
<1>1. PICK u : u = Unlink("ready", node)
  OBVIOUS
<1>2. /\ u.next \in Ptrs /\ u.prev \in Ptrs
      /\ u.count["free"] = count["free"] /\ u.head["free"] = head["free"]
      /\ u.tail["free"] = tail["free"]
      /\ \A m \in Members("free") : u.next[m] = next[m] /\ u.prev[m] = prev[m]
  BY <1>0, <1>1, UnlinkElsewhere
<1>3. /\ next' = Set(Set(u.next, node, Nil), tail["free"], node)
      /\ prev' = Set(u.prev, node, tail["free"])
      /\ tail' = [u.tail EXCEPT !["free"] = node]
      /\ head' = IF head["free"] = Nil THEN [u.head EXCEPT !["free"] = node] ELSE u.head
      /\ count' = [u.count EXCEPT !["free"] = @ + 1]
      /\ where' = [where EXCEPT ![node] = "free"]
  BY <1>1, <1>2 DEF SweepMove
<1>4. /\ u.tail \in [Lists -> ListNodes \cup {Nil}]
      /\ u.head \in [Lists -> ListNodes \cup {Nil}]
      /\ u.count = [count EXCEPT !["ready"] = @ - 1]
  <2>1. next[node] \in ListNodes \cup {Nil} /\ prev[node] \in ListNodes \cup {Nil}
    BY <1>0, TypeFacts DEF Ptrs
  <2> QED
    BY <1>0, <1>1, <2>1, TypeFacts DEF Unlink
<1>5. ASSUME NEW q, ListOf("free", q)
      PROVE  Becomes("free", Longer(q, count["free"], node))
  <2>1. Threaded(q, count["free"], Members("free"), u.next, u.prev, head["free"], tail["free"])
    BY <1>0, <1>2, <1>5, TypeFacts, Kept DEF ListOf
  <2>2. Threaded(Longer(q, count["free"], node), count["free"] + 1, Members("free") \cup {node},
                 Set(Set(u.next, node, Nil), tail["free"], node),
                 Set(u.prev, node, tail["free"]),
                 IF head["free"] = Nil THEN node ELSE head["free"], node)
    BY <1>0, <1>2, <2>1, TypeFacts, Appended
  <2>3. Members("free")' = Members("free") \cup {node}
    BY <1>0, <1>3, TypeFacts DEF Members, Lists
  <2>4. /\ count'["free"] = count["free"] + 1
        /\ head'["free"] = IF head["free"] = Nil THEN node ELSE head["free"]
        /\ tail'["free"] = node
    BY <1>0, <1>2, <1>3, <1>4, TypeFacts
  <2> QED
    BY <1>3, <2>2, <2>3, <2>4 DEF Becomes
<1>6. ASSUME NEW q, ListOf("ready", q)
      PROVE  \E i \in 1..count["ready"] :
               q[i] = node /\ Becomes("ready", Shorter(q, count["ready"], i))
  <2>1. PICK i \in 1..count["ready"] :
          /\ q[i] = node
          /\ Threaded(Shorter(q, count["ready"], i), count["ready"] - 1,
                      Members("ready") \ {node},
                      u.next, u.prev, u.head["ready"], u.tail["ready"])
    BY <1>0, <1>1, <1>6, Cut
  <2>2. ASSUME NEW m \in Members("ready") \ {node}
        PROVE  next'[m] = u.next[m] /\ prev'[m] = u.prev[m]
    <3>1. m \in ListNodes /\ m # node /\ m # tail["free"]
      BY <1>0, TypeFacts, FrameListAssumption
    <3> QED
      BY <1>2, <1>3, <3>1 DEF Set, Ptrs
  <2>3. count["ready"] - 1 \in Nat
    BY <1>0, Neighbours
  <2>4. Threaded(Shorter(q, count["ready"], i), count["ready"] - 1,
                 Members("ready") \ {node}, next', prev', u.head["ready"], u.tail["ready"])
    BY <2>1, <2>2, <2>3, Kept
  <2>5. Members("ready")' = Members("ready") \ {node}
    BY <1>0, <1>3, TypeFacts DEF Members, Lists
  <2>6. /\ count'["ready"] = count["ready"] - 1
        /\ head'["ready"] = u.head["ready"]
        /\ tail'["ready"] = u.tail["ready"]
    BY <1>0, <1>2, <1>3, <1>4, TypeFacts
  <2> QED
    BY <2>1, <2>4, <2>5, <2>6 DEF Becomes
<1> QED
  BY <1>5, <1>6

\* The types that the list functions could disturb.
ListTypes ==
  /\ next \in Ptrs /\ prev \in Ptrs
  /\ head \in [Lists -> ListNodes \cup {Nil}]
  /\ tail \in [Lists -> ListNodes \cup {Nil}]
  /\ count \in [Lists -> Nat]
  /\ where \in [ListNodes -> Lists \cup {"none"}]

\* The invariant has these types.
LEMMA TypesAre ==
  ListInv => ListTypes
  BY DEF ListInv, ListTypeOK, ListTypes, Pointers, Ptrs

\* Writing a pointer keeps the type.
LEMMA SetType ==
  \A f \in Ptrs : \A p, v \in ListNodes \cup {Nil} : Set(f, p, v) \in Ptrs
  BY SetIs

\* add_tail keeps the types.
LEMMA AddTailType ==
  ASSUME ListInv, NEW l \in Lists, NEW n \in ListNodes, AddTail(l, n)
  PROVE  ListTypes'
<1>0. /\ ListTypes /\ tail[l] \in ListNodes \cup {Nil}
      /\ n \in ListNodes \cup {Nil} /\ Nil \in ListNodes \cup {Nil}
  BY TypesAre, TypeFacts
<1>1. Set(next, n, Nil) \in Ptrs
  BY <1>0, SetType DEF ListTypes
<1>2. next' \in Ptrs /\ prev' \in Ptrs
  BY <1>0, <1>1, SetType DEF ListTypes, AddTail
<1> QED
  BY <1>0, <1>2 DEF ListTypes, AddTail

\* add_head keeps the types.
LEMMA AddHeadType ==
  ASSUME ListInv, NEW l \in Lists, NEW n \in ListNodes, AddHead(l, n)
  PROVE  ListTypes'
<1>0. /\ ListTypes /\ head[l] \in ListNodes \cup {Nil}
      /\ n \in ListNodes \cup {Nil} /\ Nil \in ListNodes \cup {Nil}
  BY TypesAre, TypeFacts
<1>1. Set(prev, n, Nil) \in Ptrs
  BY <1>0, SetType DEF ListTypes
<1>2. next' \in Ptrs /\ prev' \in Ptrs
  BY <1>0, <1>1, SetType DEF ListTypes, AddHead
<1> QED
  BY <1>0, <1>2 DEF ListTypes, AddHead

\* What remove computes has the types of the pointers it replaces; in
\* particular count does not fall below 0.
LEMMA UnlinkType ==
  ASSUME ListInv, NEW l \in Lists, NEW n \in Members(l),
         NEW u, u = Unlink(l, n)
  PROVE  /\ u.next \in Ptrs /\ u.prev \in Ptrs
         /\ u.head \in [Lists -> ListNodes \cup {Nil}]
         /\ u.tail \in [Lists -> ListNodes \cup {Nil}]
         /\ u.count \in [Lists -> Nat]
<1>1. /\ n \in ListNodes /\ next[n] \in ListNodes \cup {Nil} /\ prev[n] \in ListNodes \cup {Nil}
      /\ count[l] - 1 \in Nat
  BY TypeFacts, Neighbours DEF Ptrs
<1>2. PICK k \in Lists : k # l
  BY DEF Lists
<1>3. u.next \in Ptrs /\ u.prev \in Ptrs
  BY <1>2, UnlinkElsewhere
<1>4. /\ u.head = IF prev[n] = Nil THEN [head EXCEPT ![l] = next[n]] ELSE head
      /\ u.tail = IF next[n] = Nil THEN [tail EXCEPT ![l] = prev[n]] ELSE tail
      /\ u.count = [count EXCEPT ![l] = @ - 1]
  BY UnlinkIs
<1> QED
  BY <1>1, <1>3, <1>4, TypeFacts

\* remove keeps the types.
LEMMA RemoveType ==
  ASSUME ListInv, NEW l \in Lists, NEW n \in ListNodes, Remove(l, n)
  PROVE  ListTypes'
<1>0. n \in Members(l)
  BY DEF Remove, Members
<1>1. PICK u : u = Unlink(l, n)
  OBVIOUS
<1>2. next' = u.next /\ prev' = u.prev /\ head' = u.head /\ tail' = u.tail /\ count' = u.count
  BY <1>1 DEF Remove
<1>3. where' \in [ListNodes -> Lists \cup {"none"}]
  BY TypeFacts DEF Remove
<1>4. /\ u.next \in Ptrs /\ u.prev \in Ptrs
      /\ u.head \in [Lists -> ListNodes \cup {Nil}]
      /\ u.tail \in [Lists -> ListNodes \cup {Nil}]
      /\ u.count \in [Lists -> Nat]
  BY <1>0, <1>1, UnlinkType
<1> QED
  BY <1>2, <1>3, <1>4 DEF ListTypes

\* A step of a loop keeps the types.
LEMMA SweepMoveType ==
  ASSUME ListInv, node # Nil, SweepMove
  PROVE  ListTypes'
<1>0. /\ node \in Members("ready") /\ node \in ListNodes
      /\ "ready" \in Lists /\ "free" \in Lists
  BY DEF ListInv, ListTypeOK, Pointers, Members, Lists
<1>1. PICK u : u = Unlink("ready", node)
  OBVIOUS
<1>2. /\ u.next \in Ptrs /\ u.prev \in Ptrs
      /\ u.head \in [Lists -> ListNodes \cup {Nil}]
      /\ u.tail \in [Lists -> ListNodes \cup {Nil}]
      /\ u.count \in [Lists -> Nat]
  BY <1>0, <1>1, UnlinkType
<1>3. /\ next' = Set(Set(u.next, node, Nil), u.tail["free"], node)
      /\ prev' = Set(u.prev, node, u.tail["free"])
      /\ tail' = [u.tail EXCEPT !["free"] = node]
      /\ head' = IF u.head["free"] = Nil THEN [u.head EXCEPT !["free"] = node] ELSE u.head
      /\ count' = [u.count EXCEPT !["free"] = @ + 1]
      /\ where' = [where EXCEPT ![node] = "free"]
  BY <1>1 DEF SweepMove
<1>4. /\ u.tail["free"] \in ListNodes \cup {Nil}
      /\ node \in ListNodes \cup {Nil} /\ Nil \in ListNodes \cup {Nil}
  BY <1>0, <1>2
<1>5. Set(u.next, node, Nil) \in Ptrs
  BY <1>2, <1>4, SetType
<1>6. next' \in Ptrs /\ prev' \in Ptrs
  BY <1>2, <1>3, <1>4, <1>5, SetType
<1> QED
  BY <1>0, <1>2, <1>3, <1>6, TypeFacts DEF ListTypes

\* Every step leaves each list threaded.
LEMMA ListsStep ==
  ASSUME ListInv, [ListNext]_listVars
  PROVE  \A l \in Lists : \E q : Becomes(l, q)
<1>0. \A l \in Lists : \E q : ListOf(l, q)
  BY DEF ListInv
<1>1. ASSUME NEW n \in ListNodes, NEW l \in Lists, AddTail(l, n)
      PROVE  \A k \in Lists : \E q : Becomes(k, q)
  BY <1>0, <1>1, AddTailStep
<1>2. ASSUME NEW n \in ListNodes, NEW l \in Lists, AddHead(l, n)
      PROVE  \A k \in Lists : \E q : Becomes(k, q)
  BY <1>0, <1>2, AddHeadStep
<1>3. ASSUME NEW n \in ListNodes, NEW l \in Lists, Remove(l, n)
      PROVE  \A k \in Lists : \E q : Becomes(k, q)
  BY <1>0, <1>3, RemoveStep
<1>4. ASSUME NEW l \in Lists, PopHead(l)
      PROVE  \A k \in Lists : \E q : Becomes(k, q)
  BY <1>3, <1>4, PopIsRemove
<1>5. ASSUME UNCHANGED <<next, prev, head, tail, count, where>>
      PROVE  \A k \in Lists : \E q : Becomes(k, q)
  BY <1>0, <1>5 DEF ListOf, Becomes, Members
<1>6. ASSUME node # Nil, SweepMove
      PROVE  \A k \in Lists : \E q : Becomes(k, q)
  BY <1>0, <1>6, SweepMoveStep DEF Lists
<1> QED
  BY <1>1, <1>2, <1>3, <1>4, <1>5, <1>6
     DEF ListNext, Operation, SweepStart, SweepNext, SweepSkip, listVars

\* Every step keeps the invariant.
LEMMA ListInvStep ==
  ASSUME ListInv, [ListNext]_listVars
  PROVE  ListInv'
<1> DEFINE Cursor == node # Nil => where[node] = "ready"
           CursorType == node \in ListNodes \cup {Nil} /\ sweep \subseteq ListNodes
<1>0. ListTypes /\ Cursor /\ CursorType
  BY TypesAre DEF ListInv, ListTypeOK, Pointers
<1>1. ASSUME NEW l \in Lists
      PROVE  (\E q \in [1..count[l] -> Members(l)] : ListOf(l, q))'
  <2>1. PICK q : Becomes(l, q)
    BY ListsStep
  <2>2. q \in [1..count'[l] -> Members(l)']
    BY <2>1 DEF Becomes, Threaded
  <2>3. ListOf(l, q)'
    BY <2>1 DEF Becomes, ListOf
  <2> QED
    BY <2>2, <2>3
<1>2. SUFFICES ListTypes' /\ Cursor' /\ CursorType'
  BY <1>1, <1>2 DEF ListInv, ListTypes, ListTypeOK, Pointers, Ptrs
<1>3. CASE Operation
  <2>1. node = Nil /\ node' = Nil /\ sweep' = {}
    BY <1>3 DEF Operation
  <2>2. ASSUME NEW l \in Lists, PopHead(l)
        PROVE  ListTypes'
    BY <2>2, PopIsRemove, RemoveType
  <2>3. ListTypes'
    BY <1>3, <2>2, AddTailType, AddHeadType, RemoveType DEF Operation
  <2> QED
    BY <2>1, <2>3
<1>4. ASSUME NEW S \in SUBSET ListNodes, SweepStart(S)
      PROVE  ListTypes' /\ Cursor' /\ CursorType'
  <2>1. /\ UNCHANGED <<next, prev, head, tail, count, where>>
        /\ node' = head["ready"] /\ sweep' = S
    BY <1>4 DEF SweepStart
  <2>2. ListTypes'
    BY <1>0, <2>1 DEF ListTypes
  <2>3. "ready" \in Lists
    BY DEF Lists
  <2>4. Cursor' /\ node' \in ListNodes \cup {Nil}
    BY <2>1, <2>3, TypeFacts DEF Members
  <2> QED
    BY <2>1, <2>2, <2>4
<1>5. CASE SweepNext
  <2>1. /\ node # Nil /\ node' = next[node] /\ sweep' = sweep
        /\ SweepMove \/ SweepSkip
    BY <1>5 DEF SweepNext, NextNode
  <2>2. "ready" \in Lists /\ node \in Members("ready") /\ node \in ListNodes
    BY <1>0, <2>1 DEF Lists, Members
  <2>3. next[node] \in Members("ready") \cup {Nil} /\ next[node] # node
    BY <2>2, Neighbours
  <2>4. next[node] # Nil => where[next[node]] = "ready" /\ next[node] \in ListNodes
    BY <2>3 DEF Members
  <2>5. CASE SweepMove
    <3>1. ListTypes'
      BY <2>1, <2>5, SweepMoveType
    <3>2. where' = [where EXCEPT ![node] = "free"]
      BY <2>5 DEF SweepMove
    <3>3. Cursor'
      BY <1>0, <2>1, <2>3, <2>4, <3>2 DEF ListTypes
    <3> QED
      BY <1>0, <2>1, <2>4, <3>1, <3>3
  <2>6. CASE SweepSkip
    <3>1. UNCHANGED <<next, prev, head, tail, count, where>>
      BY <2>6 DEF SweepSkip
    <3>2. ListTypes'
      BY <1>0, <3>1 DEF ListTypes
    <3> QED
      BY <1>0, <2>1, <2>4, <3>1, <3>2
  <2> QED
    BY <2>1, <2>5, <2>6
<1>6. CASE UNCHANGED listVars
  BY <1>0, <1>6 DEF listVars, ListTypes
<1> QED
  BY <1>3, <1>4, <1>5, <1>6 DEF ListNext

\* The invariant holds in every state the list functions can reach.
THEOREM ListInvariance == ListSpec => []ListInv
<1>1. ListInit => ListInv
  BY ListInvInit
<1>2. ListInv /\ [ListNext]_listVars => ListInv'
  BY ListInvStep
<1> QED
  BY <1>1, <1>2, PTL DEF ListSpec

\* After every list function, and between any two steps of a loop that moves
\* the nodes it walks over, both lists are whole: links and their returns
\* agree, head and tail are their ends, count is their number of nodes.
THEOREM ListsAreLinked == ListSpec => []Linked
<1>1. ListInv => Linked
  BY ListLinked
<1> QED
  BY <1>1, ListInvariance, PTL

-----------------------------------------------------------------------------
(* The lists as sequences: what a walk along next from the head sees.       *)

\* The walk of Chain, for any pointers.
Walk(nx, h, c, K) ==
  LET at[i \in 0..K] ==
        IF i = 0 THEN Nil
        ELSE IF i = 1 THEN h
        ELSE IF at[i - 1] = Nil THEN Nil
        ELSE nx[at[i - 1]]
  IN [i \in 1..c |-> at[i]]

\* The sequences the mapping gives to the abstract lists.
Chains == [l \in Lists |-> Chain(l)]

\* Chain is the walk along the pointers, before and after a step.
LEMMA ChainIsWalk ==
  ASSUME NEW l
  PROVE  /\ Chain(l) = Walk(next, head[l], count[l], Cardinality(ListNodes))
         /\ Chain(l)' = Walk(next', head'[l], count'[l], Cardinality(ListNodes))
  BY DEF Chain, Walk

\* A set of numbers that is not empty has a least one.
LEMMA Least ==
  ASSUME NEW T \in SUBSET Nat, T # {}
  PROVE  \E x \in T : \A y \in T : ~(y < x)
<1>1. PICK x \in T : \A y \in T : ~(<<y, x>> \in OpToRel(<, Nat))
  BY WFMin, NatLessThanWellFounded
<1> QED
  BY <1>1 DEF OpToRel

\* The walk along a threaded list finds its nodes in their order.  The
\* recursion has a solution, and the least place where another solution
\* differed from the list would have to be neither its first nor a later one.
LEMMA WalkIs ==
  ASSUME NEW q, NEW c \in Nat, NEW M \in SUBSET ListNodes, NEW nx, NEW pv, NEW h, NEW t,
         Threaded(q, c, M, nx, pv, h, t), NEW K \in Nat, c <= K
  PROVE  Walk(nx, h, c, K) = q
<1> DEFINE G(g) == [i \in 0..K |-> IF i = 0 THEN Nil ELSE IF i = 1 THEN h
                                   ELSE IF g[i - 1] = Nil THEN Nil ELSE nx[g[i - 1]]]
           g0 == [i \in 0..K |-> IF i \in 1..c THEN q[i] ELSE Nil]
           at == CHOOSE g : g = G(g)
<1>0. \A i \in 1..c : q[i] \in M /\ q[i] \in ListNodes /\ q[i] # Nil
  BY EndsAreNodes
<1>1. g0 = G(g0)
  <2>1. ASSUME NEW i \in 0..K
        PROVE  g0[i] = IF i = 0 THEN Nil ELSE IF i = 1 THEN h
                       ELSE IF g0[i - 1] = Nil THEN Nil ELSE nx[g0[i - 1]]
    <3>1. CASE i = 0 \/ i = 1
      BY <3>1, <1>0 DEF Threaded
    <3>2. CASE i > 1 /\ i - 1 \notin 1..c
      BY <3>2
    <3>3. CASE i > 1 /\ i - 1 \in 1..c
      <4>1. g0[i - 1] = q[i - 1] /\ q[i - 1] # Nil
        BY <3>3, <1>0
      <4>2. nx[q[i - 1]] = IF i - 1 = c THEN Nil ELSE q[i]
        BY <3>3 DEF Threaded
      <4> QED
        BY <3>3, <4>1, <4>2
    <3> QED
      BY <3>1, <3>2, <3>3
  <2> QED
    BY <2>1
<1>2. at = G(at)
  BY <1>1, Zenon
<1> HIDE DEF at
<1>3. \A i \in 0..K : at[i] = IF i = 0 THEN Nil ELSE IF i = 1 THEN h
                              ELSE IF at[i - 1] = Nil THEN Nil ELSE nx[at[i - 1]]
  BY <1>2
<1>4. \A i \in 1..c : at[i] = q[i]
  <2> DEFINE T == {i \in 1..c : at[i] # q[i]}
  <2> SUFFICES ASSUME T # {} PROVE FALSE
    OBVIOUS
  <2>1. T \in SUBSET Nat
    OBVIOUS
  <2>2. PICK x \in T : \A y \in T : ~(y < x)
    BY <2>1, Least
  <2>3. x \in 1..c /\ at[x] # q[x]
    OBVIOUS
  <2>4. x # 1
    BY <2>3, <1>3 DEF Threaded
  <2>5. x - 1 \in 1..c /\ at[x - 1] = q[x - 1]
    BY <2>2, <2>3, <2>4
  <2>6. nx[q[x - 1]] = q[x]
    BY <2>3, <2>5 DEF Threaded
  <2> QED
    BY <2>3, <2>4, <2>5, <2>6, <1>0, <1>3
<1>5. Walk(nx, h, c, K) = [i \in 1..c |-> at[i]]
  BY DEF Walk, at
<1>6. q = [i \in 1..c |-> q[i]]
  BY DEF Threaded
<1> QED
  BY <1>4, <1>5, <1>6

\* A threaded list is a sequence of nodes, no longer than there are nodes.
LEMMA ThreadedIsSeq ==
  ASSUME NEW q, NEW c \in Nat, NEW M \in SUBSET ListNodes, NEW nx, NEW pv, NEW h, NEW t,
         Threaded(q, c, M, nx, pv, h, t)
  PROVE  /\ q \in Seq(ListNodes) /\ Len(q) = c
         /\ Cardinality(ListNodes) \in Nat /\ c <= Cardinality(ListNodes)
<1>1. q \in [1..c -> ListNodes]
  BY DEF Threaded
<1>2. q \in Seq(ListNodes) /\ Len(q) = c
  BY <1>1
<1>3. Cardinality(ListNodes) \in Nat /\ Cardinality(M) <= Cardinality(ListNodes)
  BY FrameListAssumption, FS_Subset, FS_CardinalityType
<1> QED
  BY <1>2, <1>3, CountIsSize

\* The chain of a list is its order.
LEMMA ChainIs ==
  ASSUME ListInv, NEW l \in Lists, NEW q, ListOf(l, q)
  PROVE  Chain(l) = q /\ q \in Seq(ListNodes) /\ Len(q) = count[l]
<1>1. count[l] \in Nat /\ Members(l) \in SUBSET ListNodes
  BY TypeFacts
<1>2. /\ q \in Seq(ListNodes) /\ Len(q) = count[l]
      /\ Cardinality(ListNodes) \in Nat /\ count[l] <= Cardinality(ListNodes)
  BY <1>1, ThreadedIsSeq DEF ListOf
<1>3. Walk(next, head[l], count[l], Cardinality(ListNodes)) = q
  BY <1>1, <1>2, WalkIs DEF ListOf
<1> QED
  BY <1>2, <1>3, ChainIsWalk

\* The same of the state after a step.
LEMMA NextChainIs ==
  ASSUME ListInv', NEW l \in Lists, NEW q, Becomes(l, q)
  PROVE  Chain(l)' = q
<1>1. count'[l] \in Nat /\ Members(l)' \in SUBSET ListNodes
  BY DEF ListInv, ListTypeOK, Members
<1>2. Cardinality(ListNodes) \in Nat /\ count'[l] <= Cardinality(ListNodes)
  BY <1>1, ThreadedIsSeq DEF Becomes
<1>3. Walk(next', head'[l], count'[l], Cardinality(ListNodes)) = q
  BY <1>1, <1>2, WalkIs DEF Becomes
<1> QED
  BY <1>3, ChainIsWalk

\* The longer, the fronted and the shorter list in the words of NodeLists.
LEMMA SequenceForms ==
  ASSUME NEW q \in Seq(ListNodes), NEW n \in ListNodes
  PROVE  /\ Longer(q, Len(q), n) = Append(q, n)
         /\ Fronted(q, Len(q), n) = <<n>> \o q
         /\ \A i : Shorter(q, Len(q), i) = Abstract!Without(q, i)
<1>1. Longer(q, Len(q), n) = Append(q, n)
  <2>1. /\ Append(q, n) \in [1..(Len(q) + 1) -> ListNodes]
        /\ \A i \in 1..Len(q) : Append(q, n)[i] = q[i]
        /\ Append(q, n)[Len(q) + 1] = n
    <3>1. /\ Append(q, n) \in Seq(ListNodes) /\ Len(Append(q, n)) = Len(q) + 1
          /\ \A i \in 1..Len(q) : Append(q, n)[i] = q[i]
          /\ Append(q, n)[Len(q) + 1] = n
      BY AppendProperties
    <3>2. Append(q, n) \in [1..Len(Append(q, n)) -> ListNodes]
      BY <3>1, LenProperties
    <3> QED
      BY <3>1, <3>2
  <2>2. \A i \in 1..(Len(q) + 1) : i \in 1..Len(q) \/ i = Len(q) + 1
    BY LenProperties
  <2> QED
    BY <2>1, <2>2 DEF Longer
<1>2. Fronted(q, Len(q), n) = <<n>> \o q
  BY DEF Fronted
<1>3. \A i : Shorter(q, Len(q), i) = Abstract!Without(q, i)
  BY DEF Shorter, Abstract!Without
<1> QED
  BY <1>1, <1>2, <1>3

\* Steps of NodeLists, from what becomes of the chains: a node put behind the
\* others.
LEMMA AbstractAddTail ==
  ASSUME NEW l \in Lists, NEW n \in ListNodes,
         \A k \in Lists : \A i \in 1..Len(Chains[k]) : Chains[k][i] # n,
         Chains' = [Chains EXCEPT ![l] = Append(Chains[l], n)]
  PROVE  Abstract!Next
<1>1. Abstract!Free(n)
  BY DEF Chains, Abstract!Free, Abstract!In
<1>2. Abstract!AddTail(l, n)
  BY <1>1, Zenon DEF Chains, Abstract!AddTail
<1> QED
  BY <1>2, Zenon DEF Abstract!Next

\* A node put before the others.
LEMMA AbstractAddHead ==
  ASSUME NEW l \in Lists, NEW n \in ListNodes,
         \A k \in Lists : \A i \in 1..Len(Chains[k]) : Chains[k][i] # n,
         Chains' = [Chains EXCEPT ![l] = <<n>> \o Chains[l]]
  PROVE  Abstract!Next
<1>1. Abstract!Free(n)
  BY DEF Chains, Abstract!Free, Abstract!In
<1>2. Abstract!AddHead(l, n)
  BY <1>1, Zenon DEF Chains, Abstract!AddHead
<1> QED
  BY <1>2, Zenon DEF Abstract!Next

\* A node taken out.
LEMMA AbstractRemove ==
  ASSUME NEW l \in Lists, NEW n \in ListNodes, NEW i \in 1..Len(Chains[l]),
         Chains[l][i] = n,
         Chains' = [Chains EXCEPT ![l] = Abstract!Without(Chains[l], i)]
  PROVE  Abstract!Next
<1>1. Abstract!Remove(l, n)
  BY Zenon DEF Chains, Abstract!Remove
<1> QED
  BY <1>1, Zenon DEF Abstract!Next

\* A node taken out of one list and put behind the other.
LEMMA AbstractMove ==
  ASSUME NEW k \in Lists, NEW l \in Lists, k # l, NEW n \in ListNodes,
         NEW i \in 1..Len(Chains[k]), Chains[k][i] = n,
         Chains' = [Chains EXCEPT ![k] = Abstract!Without(Chains[k], i),
                                  ![l] = Append(Chains[l], n)]
  PROVE  Abstract!Next
<1>1. Abstract!Move(k, l, n)
  BY Zenon DEF Chains, Abstract!Move
<1> QED
  BY <1>1, Zenon DEF Abstract!Next

\* Empty lists are empty sequences.
LEMMA ListsRefineInit ==
  ASSUME ListInit PROVE Abstract!Init
<1>1. ASSUME NEW l \in Lists
      PROVE  Chain(l) = <<>>
  <2>1. count[l] = 0
    BY DEF ListInit
  <2> QED
    BY <2>1, ChainIsWalk DEF Walk
<1> QED
  BY <1>1 DEF Abstract!Init

\* A step that adds, takes out or moves a node does so with the sequences.
LEMMA ListsRefineStep ==
  ASSUME ListInv, ListInv', [ListNext]_listVars
  PROVE  Abstract!Next \/ Chains' = Chains
<1>0. \A l \in Lists : \E q : ListOf(l, q)
  BY DEF ListInv
<1>1. \A l \in Lists : \A q : ListOf(l, q) =>
        /\ Chains[l] = q /\ q \in Seq(ListNodes) /\ Len(q) = count[l]
        /\ \A i \in 1..count[l] : q[i] \in Members(l)
  BY ChainIs DEF Chains, ListOf, Threaded
<1>2. \A l \in Lists : \A q : Becomes(l, q) => Chain(l)' = q
  BY NextChainIs
<1>3. /\ DOMAIN Chains = Lists
      /\ Chains' = [l \in Lists |-> Chain(l)']
      /\ Chains = [l \in Lists |-> Chains[l]]
  BY DEF Chains
<1>4. ASSUME NEW l \in Lists, NEW r,
             Chain(l)' = r, \A k \in Lists \ {l} : Chain(k)' = Chains[k]
      PROVE  Chains' = [Chains EXCEPT ![l] = r]
  BY <1>3, <1>4
<1>5. ASSUME NEW l \in Lists,
             \A k \in Lists \ {l} : \A q : ListOf(k, q) => Becomes(k, q)
      PROVE  \A k \in Lists \ {l} : Chain(k)' = Chains[k]
  BY <1>0, <1>1, <1>2, <1>5
<1>6. ASSUME NEW n \in ListNodes, \A k \in Lists : n \notin Members(k)
      PROVE  \A k \in Lists : \A i \in 1..Len(Chains[k]) : Chains[k][i] # n
  BY <1>0, <1>1, <1>6
<1>7. ASSUME NEW n \in ListNodes, NEW l \in Lists, AddTail(l, n)
      PROVE  Abstract!Next
  <2>1. PICK q : ListOf(l, q)
    BY <1>0
  <2>2. Chains[l] = q /\ q \in Seq(ListNodes) /\ Len(q) = count[l]
    BY <1>1, <2>1
  <2>3. Chain(l)' = Append(Chains[l], n)
    <3>1. Chain(l)' = Longer(q, Len(q), n)
      BY <1>2, <1>7, <2>1, <2>2, AddTailStep
    <3> QED
      BY <2>2, <3>1, SequenceForms
  <2>4. Chains' = [Chains EXCEPT ![l] = Append(Chains[l], n)]
    BY <1>4, <1>5, <1>7, <2>3, AddTailStep
  <2> QED
    BY <1>6, <1>7, <2>4, AddTailStep, AbstractAddTail
<1>8. ASSUME NEW n \in ListNodes, NEW l \in Lists, AddHead(l, n)
      PROVE  Abstract!Next
  <2>1. PICK q : ListOf(l, q)
    BY <1>0
  <2>2. Chains[l] = q /\ q \in Seq(ListNodes) /\ Len(q) = count[l]
    BY <1>1, <2>1
  <2>3. Chain(l)' = <<n>> \o Chains[l]
    <3>1. Chain(l)' = Fronted(q, Len(q), n)
      BY <1>2, <1>8, <2>1, <2>2, AddHeadStep
    <3> QED
      BY <2>2, <3>1, SequenceForms
  <2>4. Chains' = [Chains EXCEPT ![l] = <<n>> \o Chains[l]]
    BY <1>4, <1>5, <1>8, <2>3, AddHeadStep
  <2> QED
    BY <1>6, <1>8, <2>4, AddHeadStep, AbstractAddHead
<1>9. ASSUME NEW n \in ListNodes, NEW l \in Lists, Remove(l, n)
      PROVE  Abstract!Next
  <2>1. PICK q : ListOf(l, q)
    BY <1>0
  <2>2. Chains[l] = q /\ q \in Seq(ListNodes) /\ Len(q) = count[l]
    BY <1>1, <2>1
  <2>3. PICK i \in 1..count[l] : q[i] = n /\ Becomes(l, Shorter(q, count[l], i))
    BY <1>9, <2>1, RemoveStep
  <2>4. Chain(l)' = Abstract!Without(Chains[l], i)
    <3>1. Chain(l)' = Shorter(q, Len(q), i)
      BY <1>2, <2>2, <2>3
    <3> QED
      BY <2>2, <3>1, SequenceForms
  <2>5. Chains' = [Chains EXCEPT ![l] = Abstract!Without(Chains[l], i)]
    BY <1>4, <1>5, <1>9, <2>4, RemoveStep
  <2>6. i \in 1..Len(Chains[l]) /\ Chains[l][i] = n
    BY <2>2, <2>3
  <2> QED
    BY <2>5, <2>6, AbstractRemove
<1>10. ASSUME NEW l \in Lists, PopHead(l)
       PROVE  Abstract!Next
  BY <1>9, <1>10, PopIsRemove
<1>11. ASSUME UNCHANGED <<next, prev, head, tail, count, where>>
       PROVE  Chains' = Chains
  BY <1>11 DEF Chains, Chain
<1>12. ASSUME node # Nil, SweepMove
       PROVE  Abstract!Next
  <2>0. "ready" \in Lists /\ "free" \in Lists /\ node \in ListNodes
    BY <1>12 DEF Lists, ListInv, ListTypeOK, Pointers
  <2>1. PICK q : ListOf("ready", q)
    BY <1>0, <2>0
  <2>2. PICK r : ListOf("free", r)
    BY <1>0, <2>0
  <2>3. /\ Chains["ready"] = q /\ q \in Seq(ListNodes) /\ Len(q) = count["ready"]
        /\ Chains["free"] = r /\ r \in Seq(ListNodes) /\ Len(r) = count["free"]
    BY <1>1, <2>0, <2>1, <2>2
  <2>4. PICK i \in 1..count["ready"] :
          q[i] = node /\ Becomes("ready", Shorter(q, count["ready"], i))
    BY <1>12, <2>1, SweepMoveStep
  <2>5. Chain("ready")' = Abstract!Without(Chains["ready"], i)
    <3>1. Chain("ready")' = Shorter(q, Len(q), i)
      BY <1>2, <2>0, <2>3, <2>4
    <3> QED
      BY <2>0, <2>3, <3>1, SequenceForms
  <2>6. Chain("free")' = Append(Chains["free"], node)
    <3>1. Chain("free")' = Longer(r, Len(r), node)
      BY <1>2, <1>12, <2>0, <2>2, <2>3, SweepMoveStep
    <3> QED
      BY <2>0, <2>3, <3>1, SequenceForms
  <2>7. Chains' = [Chains EXCEPT !["ready"] = Abstract!Without(Chains["ready"], i),
                                 !["free"] = Append(Chains["free"], node)]
    BY <1>3, <2>0, <2>5, <2>6 DEF Lists
  <2>8. i \in 1..Len(Chains["ready"]) /\ Chains["ready"][i] = node
    BY <2>3, <2>4
  <2> QED
    BY <2>0, <2>7, <2>8, AbstractMove
<1> QED
  BY <1>7, <1>8, <1>9, <1>10, <1>11, <1>12
     DEF ListNext, Operation, SweepStart, SweepNext, SweepSkip, listVars

\* The pointers implement the sequences: what a walk from the head sees is
\* what the list functions did, in their order, whatever a loop moves while it
\* walks.
THEOREM ListsAreSequences == ListSpec => ImplementsLists
<1>1. ListInit => Abstract!Init
  BY ListsRefineInit
<1>2. ListInv /\ ListInv' /\ [ListNext]_listVars
        => [Abstract!Next]_([l \in Lists |-> Chain(l)])
  BY ListsRefineStep DEF Chains
<1> QED
  BY <1>1, <1>2, ListInvariance, PTL DEF ListSpec, ImplementsLists, Abstract!Spec
=============================================================================
