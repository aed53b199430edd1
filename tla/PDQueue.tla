------------------------------- MODULE PDQueue -------------------------------
(***************************************************************************)
(* One of the four channel queues between the thread that receives partial *)
(* discharge packets (EnqueuePDData, the producer) and the thread that     *)
(* turns them into files (ProcessPDDataThread, the consumer), both in      *)
(* sdk/src/sensorcomm.c.                                                   *)
(*                                                                         *)
(* enqueue and dequeue call pthread_mutex_trylock and ignore its result,   *)
(* so the two threads may both be inside the queue, and their accesses to  *)
(* the fields interleave: size++ and size-- are a load and a store, the    *)
(* unlinking of a node and its free() are apart.  Accesses are one step    *)
(* only when the other thread cannot tell: it never writes tail, and it    *)
(* writes head only while size = 0.  getSize waits for the mutex.  An      *)
(* unlock frees it whoever holds it (the C library's default mutex).       *)
(*                                                                         *)
(* A node is named by the number of the packet it carries: the i-th malloc *)
(* of enqueue makes node i.  NULL is 0.  The program's behaviour after an  *)
(* access through NULL or to a freed node of the list is not followed:     *)
(* wild becomes TRUE and no thread takes another step.                     *)
(***************************************************************************)
EXTENDS Integers

CONSTANTS QUEUE_SIZE_THR,   \* the consumer dequeues above this size
          MaxPackets        \* bound on the packets received

ASSUME QueueConstants == /\ QUEUE_SIZE_THR \in Nat \ {0}
                         /\ MaxPackets \in Nat

NULL == 0
Garbled == 0    \* samples that free() overwrote with its own bookkeeping

VARIABLES
  head, tail, size,     \* the fields of struct Queue
  locked,               \* its mutex
  next,                 \* the next field of each node
  allocated,            \* number of nodes malloc-ed so far
  freed,                \* the nodes that were freed
  epc, esize,           \* producer: where in enqueue, loaded size
  dpc, dsize, oldHead,  \* consumer: where in its round, loaded size, node
  chunk,                \* packet found at the address dequeue returns
  wild,                 \* an access through NULL or to a freed node
  popped,               \* history: number of nodes unlinked
  lostDec, lostInc      \* history: updates of size that were overwritten

producer == <<epc, esize, allocated>>
consumer == <<dpc, dsize, oldHead>>
history  == <<popped, lostDec, lostInc>>
vars == <<head, tail, size, locked, next, allocated, freed, epc, esize, dpc,
          dsize, oldHead, chunk, wild, popped, lostDec, lostInc>>

Nodes == 1 .. MaxPackets

\* initQueue: what EnqueuePDData starts a session with.
Init ==
  /\ head = NULL /\ tail = NULL /\ size = 0
  /\ locked = FALSE
  /\ next = [n \in Nodes |-> NULL]
  /\ allocated = 0 /\ freed = {}
  /\ epc = "idle" /\ esize = 0
  /\ dpc = "idle" /\ dsize = 0 /\ oldHead = NULL
  /\ chunk = Garbled
  /\ wild = FALSE
  /\ popped = 0 /\ lostDec = 0 /\ lostInc = 0
-----------------------------------------------------------------------------
(* enqueue                                                                 *)

\* The address dequeue returned points into a node already freed and its
\* samples have not been copied yet.
Dangling == dpc \in {"load", "store", "leave", "copy"}

\* trylock, its result ignored; malloc, which may hand out the memory the
\* consumer still reads; node->data = data.
EnqueueEnter ==
  /\ epc = "idle" /\ allocated < MaxPackets
  /\ locked' = TRUE
  /\ allocated' = allocated + 1
  /\ \/ chunk' = chunk
     \/ Dangling /\ chunk' = allocated + 1
  /\ epc' = "link"
  /\ UNCHANGED <<head, tail, size, next, freed, esize, consumer, wild, history>>

\* Mutant: the node is put in front of the list.
LinkInFront ==
  /\ epc = "link" /\ epc' = "tail"
  /\ head' = allocated
  /\ next' = [next EXCEPT ![allocated] = head]
  /\ UNCHANGED <<tail, size, locked, allocated, freed, esize, consumer, chunk,
                 wild, history>>

\* if (size == 0) head = node; else tail->next = node;
EnqueueLink ==
  /\ epc = "link"
  /\ \/ /\ size = 0
        /\ head' = allocated
        /\ UNCHANGED <<next, wild>>
     \/ /\ size # 0 /\ tail \in Nodes \ freed
        /\ next' = [next EXCEPT ![tail] = allocated]
        /\ UNCHANGED <<head, wild>>
     \/ /\ size # 0 /\ tail \notin Nodes \ freed
        /\ wild' = TRUE
        /\ UNCHANGED <<head, next>>
  /\ epc' = "tail"
  /\ UNCHANGED <<tail, size, locked, allocated, freed, esize, consumer, chunk,
                 history>>

\* Mutant: tail moves only when the list was empty.
TailOnce ==
  /\ epc = "tail" /\ epc' = "load"
  /\ tail' = IF size = 0 THEN allocated ELSE tail
  /\ UNCHANGED <<head, size, locked, next, allocated, freed, esize, consumer,
                 chunk, wild, history>>

\* Mutant: tail points behind the node.
TailPastNode ==
  /\ epc = "tail" /\ epc' = "load"
  /\ tail' = allocated + 1
  /\ UNCHANGED <<head, size, locked, next, allocated, freed, esize, consumer,
                 chunk, wild, history>>

EnqueueTail ==
  /\ epc = "tail"
  /\ tail' = allocated
  /\ epc' = "load"
  /\ UNCHANGED <<head, size, locked, next, allocated, freed, esize, consumer,
                 chunk, wild, history>>

EnqueueLoad ==
  /\ epc = "load"
  /\ esize' = size
  /\ epc' = "store"
  /\ UNCHANGED <<head, tail, size, locked, next, allocated, freed, consumer,
                 chunk, wild, history>>

EnqueueStore ==
  /\ epc = "store"
  /\ size' = esize + 1
  /\ lostDec' = lostDec + (esize - size)
  /\ epc' = "leave"
  /\ UNCHANGED <<head, tail, locked, next, allocated, freed, esize, consumer,
                 chunk, wild, popped, lostInc>>

\* Mutant: enqueue returns without the unlock.
LeaveLocked ==
  /\ epc = "leave" /\ epc' = "idle"
  /\ UNCHANGED <<head, tail, size, locked, next, allocated, freed, esize,
                 consumer, chunk, wild, history>>

EnqueueLeave ==
  /\ epc = "leave"
  /\ locked' = FALSE
  /\ epc' = "idle"
  /\ UNCHANGED <<head, tail, size, next, allocated, freed, esize, consumer,
                 chunk, wild, history>>

Enqueue == \/ EnqueueEnter \/ EnqueueLink \/ EnqueueTail
           \/ EnqueueLoad \/ EnqueueStore \/ EnqueueLeave
-----------------------------------------------------------------------------
(* one channel's part of the loop of ProcessPDDataThread                   *)

\* getSize waits for the mutex ...
GetSizeLock ==
  /\ dpc = "idle" /\ ~locked
  /\ locked' = TRUE
  /\ dpc' = "size"
  /\ UNCHANGED <<head, tail, size, next, freed, producer, dsize, oldHead,
                 chunk, wild, history>>

\* Mutant: the queue may be emptied down to the threshold.
EnoughOffByOne == size >= QUEUE_SIZE_THR

\* The size the consumer asks for before it dequeues.
Enough == size > QUEUE_SIZE_THR

\* ... reads the size and unlocks; the consumer compares.
GetSizeRead ==
  /\ dpc = "size"
  /\ locked' = FALSE
  /\ dpc' = IF Enough THEN "enter" ELSE "idle"
  /\ UNCHANGED <<head, tail, size, next, freed, producer, dsize, oldHead,
                 chunk, wild, history>>

DequeueEnter ==
  /\ dpc = "enter"
  /\ locked' = TRUE
  /\ dpc' = "test"
  /\ UNCHANGED <<head, tail, size, next, freed, producer, dsize, oldHead,
                 chunk, wild, history>>

\* size <= 0 unlocks and returns 0, which the caller dereferences; otherwise
\* oldHead is the head of the list.
DequeueTest ==
  /\ dpc = "test"
  /\ wild' = (size <= 0)
  /\ locked' = IF size <= 0 THEN FALSE ELSE locked
  /\ oldHead' = IF size <= 0 THEN oldHead ELSE head
  /\ dpc' = "unlink"
  /\ UNCHANGED <<head, tail, size, next, freed, producer, dsize, chunk, history>>

\* head = oldHead->next
DequeueUnlink ==
  /\ dpc = "unlink"
  /\ \/ /\ oldHead \in Nodes \ freed
        /\ head' = next[oldHead]
        /\ popped' = popped + 1
        /\ wild' = wild
     \/ /\ oldHead \notin Nodes \ freed
        /\ wild' = TRUE
        /\ UNCHANGED <<head, popped>>
  /\ dpc' = "free"
  /\ UNCHANGED <<tail, size, locked, next, freed, producer, dsize, oldHead,
                 chunk, lostDec, lostInc>>

\* free(oldHead).  What stays readable at the freed address is either the
\* packet or what free() wrote there.
DequeueFree ==
  /\ dpc = "free"
  /\ freed' = freed \cup {oldHead}
  /\ chunk' \in {oldHead, Garbled}
  /\ dpc' = "load"
  /\ UNCHANGED <<head, tail, size, locked, next, producer, dsize, oldHead,
                 wild, history>>

\* Mutant: size-- only while the queue stays above the threshold.
LoadAboveThreshold ==
  /\ dpc = "load"
  /\ dsize' = size
  /\ dpc' = IF size > QUEUE_SIZE_THR + 1 THEN "store" ELSE "leave"
  /\ UNCHANGED <<head, tail, size, locked, next, freed, producer, oldHead,
                 chunk, wild, history>>

DequeueLoad ==
  /\ dpc = "load"
  /\ dsize' = size
  /\ dpc' = IF size > 0 THEN "store" ELSE "leave"
  /\ UNCHANGED <<head, tail, size, locked, next, freed, producer, oldHead,
                 chunk, wild, history>>

DequeueStore ==
  /\ dpc = "store"
  /\ size' = dsize - 1
  /\ lostInc' = lostInc + (size - dsize)
  /\ dpc' = "leave"
  /\ UNCHANGED <<head, tail, locked, next, freed, producer, dsize, oldHead,
                 chunk, wild, popped, lostDec>>

DequeueLeave ==
  /\ dpc = "leave"
  /\ locked' = FALSE
  /\ dpc' = "copy"
  /\ UNCHANGED <<head, tail, size, next, freed, producer, dsize, oldHead,
                 chunk, wild, history>>

\* The conversion loop reads the samples through the returned address.
CopySamples ==
  /\ dpc = "copy"
  /\ dpc' = "idle"
  /\ UNCHANGED <<head, tail, size, locked, next, freed, producer, dsize,
                 oldHead, chunk, wild, history>>

Dequeue == \/ GetSizeLock \/ GetSizeRead \/ DequeueEnter \/ DequeueTest
           \/ DequeueUnlink \/ DequeueFree \/ DequeueLoad \/ DequeueStore
           \/ DequeueLeave \/ CopySamples

Next == ~wild /\ (Enqueue \/ Dequeue)

Spec == Init /\ [][Next]_vars

\* Both threads are loops that the scheduler runs.  The producer's next packet
\* is the partner's business, so EnqueueEnter is not fair.
FairSpec == /\ Spec
            /\ WF_vars(~wild /\ (EnqueueLink \/ EnqueueTail \/ EnqueueLoad
                                 \/ EnqueueStore \/ EnqueueLeave))
            /\ WF_vars(~wild /\ Dequeue)
-----------------------------------------------------------------------------
(* What the queue guarantees                                               *)

TypeOK ==
  /\ head \in 0 .. MaxPackets /\ tail \in 0 .. MaxPackets
  /\ size \in Nat
  /\ locked \in BOOLEAN /\ wild \in BOOLEAN
  /\ next \in [Nodes -> 0 .. MaxPackets]
  /\ allocated \in 0 .. MaxPackets
  /\ freed \subseteq Nodes
  /\ epc \in {"idle", "link", "tail", "load", "store", "leave"}
  /\ dpc \in {"idle", "size", "enter", "test", "unlink", "free", "load",
              "store", "leave", "copy"}
  /\ esize \in Nat /\ dsize \in Nat
  /\ oldHead \in 0 .. MaxPackets
  /\ chunk \in 0 .. MaxPackets
  /\ popped \in Nat /\ lostDec \in Int /\ lostInc \in Int

\* Nodes linked into the list so far, and size updates each side has stored.
Linked == IF epc = "link" THEN allocated - 1 ELSE allocated
Stored == IF epc \in {"link", "tail", "load", "store"} THEN allocated - 1
                                                       ELSE allocated
Subtracted == IF dpc \in {"free", "load", "store"} THEN popped - 1 ELSE popped

\* Nodes given back to the allocator.
Released == IF dpc = "free" THEN popped - 1 ELSE popped

\* The overlap of the two threads has not overwritten as many decrements of
\* size as the consumer leaves nodes behind.
WithinSlack == lostDec < QUEUE_SIZE_THR

\* Although neither operation excludes the other, the list keeps its shape as
\* long as the lost decrements stay within the slack: the nodes between head
\* and tail are exactly the packets linked and not yet freed, in order, and no
\* thread has followed NULL or a freed node.  The threshold of
\* ProcessPDDataThread is what keeps head and tail apart, not the mutex.
QueueIntact ==
  WithinSlack =>
    /\ ~wild
    /\ freed = 1 .. Released
    /\ \/ Linked = 0 /\ popped = 0 /\ head = NULL
       \/ popped < Linked /\ head = popped + 1
    /\ tail = (IF epc \in {"link", "tail"} THEN allocated - 1 ELSE allocated)
    /\ \A n \in 1 .. Linked : next[n] = (IF n = Linked THEN NULL ELSE n + 1)

\* size differs from the number of packets in the list by exactly the updates
\* that the other thread overwrote.
SizeCounts ==
  ~wild => size = Stored - Subtracted + lostDec - lostInc

\* Once the queue has held as many packets as the threshold it never again
\* reports fewer, so the size = 0 branch of enqueue, which would drop the
\* whole list, cannot be taken twice.
SizeFloor == [][size >= QUEUE_SIZE_THR => size' >= QUEUE_SIZE_THR]_vars

\* Packets leave the queue in the order they were received, none skipped and
\* none twice, until a wild access.
PopsInOrder == [][\A n \in freed' \ freed : freed = 1 .. (n - 1)]_vars

\* When the stream pauses the consumer works the backlog off: the mutex is
\* never left locked and size comes down to the threshold.
Drained == <>[](wild \/ size <= QUEUE_SIZE_THR)
-----------------------------------------------------------------------------
(* What the comments of the source say of the queue                        *)

\* "This function pops the last data from a Queue instance" (sensorcomm.c,
\* dequeue): the samples the consumer copies are those of the popped packet.
CopyIsPopped == dpc = "copy" => chunk = oldHead
=============================================================================
