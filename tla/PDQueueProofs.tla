---------------------------- MODULE PDQueueProofs ----------------------------
(***************************************************************************)
(* Proofs about PDQueue for every threshold and every number of packets.   *)
(*                                                                         *)
(* The conjuncts of PDQueue that matter are not inductive.  What carries   *)
(* them is (1) what each thread's saved copy of size is worth when it is   *)
(* stored (Copies), (2) the account of size (SizeCounts) and (3) the shape *)
(* of the list up to the first wild access, whatever was lost (Shape).     *)
(***************************************************************************)
EXTENDS PDQueue, TLAPS

\* The copy of size the producer holds is never below size, the one the
\* consumer holds never above it and above the threshold; from the moment the
\* consumer has seen more than the threshold, size stays above it.
Copies ==
  /\ epc = "store" => esize >= size
  /\ dpc = "store" => QUEUE_SIZE_THR < dsize /\ dsize <= size
  /\ dpc \in {"enter", "test", "unlink", "free", "load"} => size > QUEUE_SIZE_THR

\* Nothing can be lost before the first node was taken off; afterwards the
\* size never falls below the threshold.
Losses ==
  /\ lostDec >= 0 /\ lostInc >= 0
  /\ popped = 0 => lostDec = 0 /\ lostInc = 0
  /\ popped = 0 /\ epc = "store" => esize = size
  /\ popped > 0 => size >= QUEUE_SIZE_THR
  /\ ~wild /\ dpc \in {"free", "load", "store"} => popped > 0

\* The list until the first wild access.
Shape ==
  ~wild =>
    /\ epc # "idle" => allocated > 0
    /\ popped <= Linked
    /\ freed = 1 .. Released
    /\ \/ head = (IF popped < Linked THEN popped + 1 ELSE NULL)
       \/ head = NULL /\ ~WithinSlack
    /\ dpc = "unlink" => oldHead = head
    /\ dpc = "free" => oldHead = popped
    /\ tail = (IF epc \in {"link", "tail"} THEN allocated - 1 ELSE allocated)
    /\ \A n \in Nodes : next[n] = (IF n < Linked THEN n + 1 ELSE NULL)

\* The part of QueueIntact that is inductive with the rest.
NoWildAccess == WithinSlack => ~wild

IInv == TypeOK /\ Copies /\ Losses /\ SizeCounts /\ Shape /\ NoWildAccess
-----------------------------------------------------------------------------
LEMMA InitIInv == Init => IInv
<1> SUFFICES ASSUME Init PROVE IInv
  OBVIOUS
<1> USE QueueConstants DEF Init, Nodes, NULL, Garbled, Linked
<1>1. TypeOK
  <2>1. next \in [Nodes -> 0 .. MaxPackets]
    OBVIOUS
  <2>2. freed \subseteq Nodes /\ allocated \in 0 .. MaxPackets
    OBVIOUS
  <2>3. /\ head \in 0 .. MaxPackets /\ tail \in 0 .. MaxPackets
        /\ oldHead \in 0 .. MaxPackets /\ chunk \in 0 .. MaxPackets
    OBVIOUS
  <2>4. /\ size \in Nat /\ esize \in Nat /\ dsize \in Nat
        /\ popped \in Nat /\ lostDec \in Int /\ lostInc \in Int
    OBVIOUS
  <2>5. locked \in BOOLEAN /\ wild \in BOOLEAN
    OBVIOUS
  <2>6. /\ epc \in {"idle", "link", "tail", "load", "store", "leave"}
        /\ dpc \in {"idle", "size", "enter", "test", "unlink", "free",
                    "load", "store", "leave", "copy"}
    OBVIOUS
  <2>7. QED  BY <2>1, <2>2, <2>3, <2>4, <2>5, <2>6 DEF TypeOK
<1>2. Copies /\ Losses /\ SizeCounts /\ NoWildAccess
  BY DEF Copies, Losses, SizeCounts, NoWildAccess, Stored, Subtracted
<1>3. Shape
  <2>1. 1 .. 0 = {}
    OBVIOUS
  <2>2. QED  BY <2>1 DEF Shape, Released
<1>4. QED  BY <1>1, <1>2, <1>3 DEF IInv

\* One case per step of enqueue.
LEMMA EnqueueIInv == ASSUME IInv, ~wild, Enqueue PROVE IInv'
<1> USE QueueConstants
    DEF IInv, TypeOK, Copies, Losses, SizeCounts, Shape, NoWildAccess, Stored,
        Subtracted, Released, Linked, WithinSlack, Nodes, NULL, Garbled,
        consumer, history
<1>1. CASE EnqueueEnter
  BY <1>1 DEF EnqueueEnter, Dangling
<1>2. CASE EnqueueLink
  <2> USE <1>2 DEF EnqueueLink
  <2>1. popped = 0 => size = allocated - 1
    OBVIOUS
  <2>2. size = 0 => popped = 0 /\ allocated = 1
    BY <2>1
  <2>3. size # 0 /\ WithinSlack => tail \in Nodes \ freed
    <3> SUFFICES ASSUME size # 0, lostDec < QUEUE_SIZE_THR
                 PROVE  tail \in Nodes \ freed
      OBVIOUS
    <3>1. popped < allocated - 1
      OBVIOUS
    <3>2. QED  BY <3>1
  <2>4. TypeOK'
    OBVIOUS
  <2>5. Copies' /\ Losses' /\ SizeCounts'
    OBVIOUS
  <2>6. NoWildAccess'
    BY <2>3
  <2>7. Shape'
    <3>1. CASE size = 0
      BY <3>1, <2>2
    <3>2. CASE size # 0 /\ tail \in Nodes \ freed
      <4>1. tail = allocated - 1 /\ allocated - 1 \in Nodes
        BY <3>2
      <4>2. \/ popped < allocated - 1 /\ head = popped + 1
            \/ head = NULL /\ ~WithinSlack
        <5>1. popped < allocated - 1 \/ popped = allocated - 1
          OBVIOUS
        <5>2. CASE popped = allocated - 1
          <6>1. dpc = "free"
            BY <3>2, <4>1, <5>2
          <6>2. size > QUEUE_SIZE_THR /\ Released = popped - 1
            BY <6>1
          <6>3. QED  BY <5>2, <6>1, <6>2
        <5>3. CASE popped < allocated - 1
          BY <5>3
        <5>4. QED  BY <5>1, <5>2, <5>3
      <4>3. next' = [next EXCEPT ![allocated - 1] = allocated] /\ head' = head
        BY <3>2, <4>1
      <4>4. \A n \in Nodes : next'[n] = (IF n < allocated THEN n + 1 ELSE NULL)
        <5>1. \A n \in Nodes :
                next[n] = (IF n < allocated - 1 THEN n + 1 ELSE NULL)
          OBVIOUS
        <5>2. TAKE n \in Nodes
        <5>3. CASE n = allocated - 1
          BY <5>3, <4>3
        <5>4. CASE n # allocated - 1
          <6>1. next'[n] = next[n]
            BY <5>4, <4>3
          <6>2. QED  BY <5>1, <5>4, <6>1
        <5>5. QED  BY <5>3, <5>4
      <4>5. Linked' = allocated
        OBVIOUS
      <4>6. /\ allocated' = allocated /\ popped' = popped /\ freed' = freed
            /\ tail' = tail /\ epc' = "tail" /\ oldHead' = oldHead /\ dpc' = dpc
        OBVIOUS
      <4>7. QED  BY <4>1, <4>2, <4>3, <4>4, <4>5, <4>6
    <3>3. CASE size # 0 /\ tail \notin Nodes \ freed
      BY <3>3
    <3>4. QED  BY <3>1, <3>2, <3>3
  <2>8. QED  BY <2>4, <2>5, <2>6, <2>7 DEF IInv
<1>3. CASE EnqueueTail
  BY <1>3 DEF EnqueueTail
<1>4. CASE EnqueueLoad
  BY <1>4 DEF EnqueueLoad
<1>5. CASE EnqueueStore
  BY <1>5 DEF EnqueueStore
<1>6. CASE EnqueueLeave
  BY <1>6 DEF EnqueueLeave
<1>7. QED  BY <1>1, <1>2, <1>3, <1>4, <1>5, <1>6 DEF Enqueue

\* One case per step of the consumer.
LEMMA DequeueIInv == ASSUME IInv, ~wild, Dequeue PROVE IInv'
<1> USE QueueConstants
    DEF IInv, TypeOK, Copies, Losses, SizeCounts, Shape, NoWildAccess, Stored,
        Subtracted, Released, Linked, WithinSlack, Nodes, NULL, Garbled,
        producer, history
<1>1. CASE GetSizeLock
  BY <1>1 DEF GetSizeLock
<1>2. CASE GetSizeRead
  BY <1>2 DEF GetSizeRead, Enough
<1>3. CASE DequeueEnter
  BY <1>3 DEF DequeueEnter
<1>4. CASE DequeueTest
  <2> USE <1>4 DEF DequeueTest
  <2>1. ~(size <= 0)
    OBVIOUS
  <2>2. wild' = FALSE /\ locked' = locked /\ oldHead' = head /\ dpc' = "unlink"
    BY <2>1
  <2>3. TypeOK' /\ Copies' /\ Losses'
    BY <2>1, <2>2
  <2>4. SizeCounts' /\ NoWildAccess'
    BY <2>2
  <2>5. Shape'
    BY <2>2
  <2>6. QED  BY <2>3, <2>4, <2>5 DEF IInv
<1>5. CASE DequeueUnlink
  <2> USE <1>5 DEF DequeueUnlink
  <2>1. \/ oldHead = (IF popped < Linked THEN popped + 1 ELSE NULL)
        \/ oldHead = NULL /\ ~WithinSlack
    OBVIOUS
  <2>2. WithinSlack => popped < Linked
    OBVIOUS
  <2>3. CASE oldHead \in Nodes \ freed
    <3>1. popped < Linked /\ oldHead = popped + 1
      BY <2>1, <2>3
    <3>2. /\ popped' = popped + 1 /\ freed' = freed
          /\ head' = next[popped + 1] /\ wild' = wild
      BY <2>3, <3>1
    <3>3. Shape'
      BY <3>1, <3>2
    <3>4. TypeOK'
      BY <2>3, <3>1, <3>2
    <3>5. Copies' /\ Losses' /\ SizeCounts' /\ NoWildAccess'
      BY <2>3, <3>1, <3>2
    <3>6. QED  BY <3>3, <3>4, <3>5 DEF IInv
  <2>4. CASE oldHead \notin Nodes \ freed
    <3>1. ~WithinSlack
      BY <2>1, <2>2, <2>4
    <3>2. QED  BY <2>4, <3>1
  <2>5. QED  BY <2>3, <2>4
<1>6. CASE DequeueFree
  <2> USE <1>6 DEF DequeueFree
  <2>1. oldHead = popped /\ popped \in Nodes /\ freed = 1 .. (popped - 1)
    OBVIOUS
  <2>2. freed' = 1 .. popped
    BY <2>1
  <2>3. TypeOK'
    BY <2>1, <2>2
  <2>4. Copies' /\ Losses' /\ SizeCounts' /\ NoWildAccess'
    BY <2>1
  <2>5. Shape'
    BY <2>1, <2>2
  <2>6. QED  BY <2>3, <2>4, <2>5 DEF IInv
<1>7. CASE DequeueLoad
  <2> USE <1>7 DEF DequeueLoad
  <2>1. size > 0 /\ dpc' = "store" /\ dsize' = size
    OBVIOUS
  <2>2. TypeOK' /\ Copies' /\ Losses'
    BY <2>1
  <2>3. SizeCounts' /\ NoWildAccess'
    BY <2>1
  <2>4. Shape'
    BY <2>1
  <2>5. QED  BY <2>2, <2>3, <2>4 DEF IInv
<1>8. CASE DequeueStore
  BY <1>8 DEF DequeueStore
<1>9. CASE DequeueLeave
  BY <1>9 DEF DequeueLeave
<1>10. CASE CopySamples
  BY <1>10 DEF CopySamples
<1>11. QED
  BY <1>1, <1>2, <1>3, <1>4, <1>5, <1>6, <1>7, <1>8, <1>9, <1>10
  DEF Dequeue

LEMMA StepIInv == IInv /\ [Next]_vars => IInv'
<1> SUFFICES ASSUME IInv, [Next]_vars PROVE IInv'
  OBVIOUS
<1>1. CASE UNCHANGED vars
  BY <1>1 DEF vars, IInv, TypeOK, Copies, Losses, SizeCounts, Shape,
     NoWildAccess, Stored, Subtracted, Released, Linked, WithinSlack
<1>2. CASE Next
  BY <1>2, EnqueueIInv, DequeueIInv DEF Next
<1>3. QED  BY <1>1, <1>2

\* The inductive invariant holds of every behaviour.
THEOREM Inductive == Spec => []IInv
  BY InitIInv, StepIInv, PTL DEF Spec
-----------------------------------------------------------------------------
LEMMA IntactFromIInv == IInv => QueueIntact
<1> SUFFICES ASSUME IInv, WithinSlack PROVE QueueIntact
  BY DEF QueueIntact
<1> USE QueueConstants DEF IInv, TypeOK, WithinSlack, Linked
<1>1. ~wild
  BY DEF NoWildAccess
<1>2. popped > 0 => popped < Linked
  <2>1. dpc \in {"free", "load", "store"} => size > QUEUE_SIZE_THR
    BY DEF Copies
  <2>2. QED  BY <1>1, <2>1 DEF SizeCounts, Losses, Stored, Subtracted
<1>3. \/ Linked = 0 /\ popped = 0 /\ head = NULL
      \/ popped < Linked /\ head = popped + 1
  BY <1>1, <1>2 DEF Shape
<1>4. \A n \in 1 .. Linked : next[n] = (IF n = Linked THEN NULL ELSE n + 1)
  BY <1>1 DEF Shape, Nodes
<1>5. QED  BY <1>1, <1>3, <1>4 DEF QueueIntact, Shape

\* The fields of the queue and of both threads keep their types: no node
\* number outside the packets received is ever stored.
THEOREM TypeCorrect == Spec => []TypeOK
<1>1. IInv => TypeOK
  BY DEF IInv
<1>2. QED  BY <1>1, Inductive, PTL

\* enqueue and dequeue keep the list in shape without excluding each other.
THEOREM ShapeKept == Spec => []QueueIntact
  BY IntactFromIInv, Inductive, PTL

\* size is the length of the list corrected by the updates lost in the race.
THEOREM SizeAccount == Spec => []SizeCounts
<1>1. IInv => SizeCounts
  BY DEF IInv
<1>2. QED  BY <1>1, Inductive, PTL
-----------------------------------------------------------------------------
LEMMA FloorStep ==
  IInv /\ [Next]_vars => [size >= QUEUE_SIZE_THR => size' >= QUEUE_SIZE_THR]_vars
<1> SUFFICES ASSUME IInv, Next, size >= QUEUE_SIZE_THR
             PROVE  size' >= QUEUE_SIZE_THR
  OBVIOUS
<1> USE QueueConstants DEF IInv, TypeOK, Copies
<1>1. CASE EnqueueStore
  BY <1>1 DEF EnqueueStore
<1>2. CASE DequeueStore
  BY <1>2 DEF DequeueStore
<1>3. CASE size' = size
  BY <1>3
<1>4. EnqueueStore \/ DequeueStore \/ size' = size
  BY DEF Next, Enqueue, Dequeue, EnqueueEnter, EnqueueLink, EnqueueTail,
     EnqueueLoad, EnqueueLeave, GetSizeLock, GetSizeRead, DequeueEnter,
     DequeueTest, DequeueUnlink, DequeueFree, DequeueLoad, DequeueLeave,
     CopySamples
<1>5. QED  BY <1>1, <1>2, <1>3, <1>4

\* size never falls through the threshold again, although both threads write
\* back copies of it they read earlier.
THEOREM FloorKept == Spec => SizeFloor
  BY FloorStep, Inductive, PTL DEF Spec, SizeFloor

LEMMA PopStep ==
  IInv /\ [Next]_vars => [\A n \in freed' \ freed : freed = 1 .. (n - 1)]_vars
<1> SUFFICES ASSUME IInv, Next, NEW n \in freed' \ freed
             PROVE  freed = 1 .. (n - 1)
  OBVIOUS
<1>1. DequeueFree /\ ~wild
  BY DEF Next, Enqueue, Dequeue, EnqueueEnter, EnqueueLink, EnqueueTail,
     EnqueueLoad, EnqueueStore, EnqueueLeave, GetSizeLock, GetSizeRead,
     DequeueEnter, DequeueTest, DequeueUnlink, DequeueLoad, DequeueStore,
     DequeueLeave,
     CopySamples
<1>2. n = oldHead
  BY <1>1 DEF DequeueFree
<1>3. oldHead = popped /\ freed = 1 .. (popped - 1)
  BY <1>1 DEF DequeueFree, IInv, Shape, Released
<1>4. QED  BY <1>2, <1>3 DEF IInv, TypeOK

\* Packets leave in the order they came, none skipped and none twice.
THEOREM FirstInFirstOut == Spec => PopsInOrder
  BY PopStep, Inductive, PTL DEF Spec, PopsInOrder
=============================================================================
