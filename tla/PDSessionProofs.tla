--------------------------- MODULE PDSessionProofs ---------------------------
(***************************************************************************)
(* Proofs about PDSession for every set of consumer threads, every number  *)
(* of descriptors and every choice of faults.                              *)
(*                                                                         *)
(* OneConsumer and ConsumerKept hang on what is left of a session while    *)
(* RunPDDAU sleeps and after it woke: the flag and the consumer go         *)
(* together (Resting), and as long as RunPDDAU never woke too early        *)
(* neither outlives the sleep (Alone, FlagDown).                           *)
(***************************************************************************)
EXTENDS PDSession, TLAPS

\* Where RunPDDAU is when no session is open or resting.
Outside == {"socket1", "connect1", "reset", "socket2", "connect2", "start",
            "reply", "malloc", "init", "create", "exited", "killed"}

\* After the end of a session, until the next one.
Resting == {"close", "sleep"}

\* A descriptor in sockfd is one of those counted; where RunPDDAU makes another
\* socket without a failure before, the last one was closed.
Counted ==
  /\ valid => fds > 0
  /\ NothingLeaks
  /\ met \cap Leaking = {} /\ pc \in {"socket1", "socket2", "sleep"} => ~valid

\* The queues are initialised before the consumer that reads them exists.
QueueReady == pc \notin Outside \/ pc = "create" => queue = "ready"

\* While RunPDDAU always woke late enough: one consumer at most, none between
\* the sessions, and while a session rests its consumer has a flag to see.
Alone ==
  ~late => /\ \A t, u \in Running : t = u
           /\ pc \in Outside => Running = {}
           /\ pc \in Resting /\ Running # {} => stopIssued
           /\ \A t \in Threads : consumer[t] = "stopping" => stopIssued

\* If moreover every session had its consumer: a raised flag has a consumer to
\* take it down, and it is down whenever a session can open or is open.
FlagDown ==
  ~late /\ ~unserved =>
    /\ pc \in Resting /\ stopIssued => Running # {}
    /\ pc \notin Resting => ~stopIssued

IInv == TypeOK /\ Counted /\ QueueReady /\ Alone /\ FlagDown
-----------------------------------------------------------------------------
LEMMA InitIInv == Init => IInv
<1> SUFFICES ASSUME Init PROVE IInv
  OBVIOUS
<1> USE SessionConstants DEF Init
<1>1. Running = {}
  BY DEF Running
<1>2. TypeOK
  <2>1. valid \in BOOLEAN /\ stopIssued \in BOOLEAN
    OBVIOUS
  <2>2. late \in BOOLEAN /\ unserved \in BOOLEAN
    OBVIOUS
  <2>3. consumer \in [Threads -> {"off", "loop", "stopping"}]
    OBVIOUS
  <2>4. fds \in 0 .. MaxFds /\ met \subseteq Harmful \cap Faults
    OBVIOUS
  <2>5. QED  BY <2>1, <2>2, <2>3, <2>4 DEF TypeOK
<1>3. Counted /\ QueueReady /\ Alone /\ FlagDown
  BY <1>1 DEF Counted, NothingLeaks, Leaking, QueueReady, Alone, FlagDown, Outside,
              Resting
<1>4. QED  BY <1>2, <1>3 DEF IInv

\* A step that leaves the consumers alone leaves the set of running threads
\* alone.
LEMMA RunningSame == ASSUME UNCHANGED consumer PROVE Running' = Running
  BY DEF Running

\* What a consumer that starts, goes on or ends does to that set.
LEMMA RunningAfter ==
  ASSUME TypeOK, NEW t \in Threads, NEW s \in {"off", "loop", "stopping"},
         consumer' = [consumer EXCEPT ![t] = s]
  PROVE  Running' = IF s = "off" THEN Running \ {t} ELSE Running \cup {t}
  BY DEF TypeOK, Running

\* close(sockfd) gives back the descriptor it counted.
LEMMA CloseCounted ==
  ASSUME TypeOK, Counted, Close, UNCHANGED met
  PROVE  Counted' /\ link' = "down" /\ valid' \in BOOLEAN /\ fds' \in 0 .. MaxFds
<1> USE SessionConstants DEF TypeOK, Counted, Close
<1>1. fds \in Nat /\ fds <= MaxFds /\ MaxFds \in Nat
  OBVIOUS
<1>2. ~valid' /\ link' = "down" /\ valid' \in BOOLEAN
  OBVIOUS
<1>3. fds' \in 0 .. MaxFds
  <2>1. CASE valid
    <3>1. fds' = fds - 1 /\ fds > 0
      BY <2>1
    <3>2. QED  BY <1>1, <3>1
  <2>2. CASE ~valid
    <3>1. fds' = fds
      BY <2>2
    <3>2. QED  BY <1>1, <3>1
  <2>3. QED  BY <2>1, <2>2
<1>4. NothingLeaks'
  BY <1>1 DEF NothingLeaks
<1>5. QED  BY <1>2, <1>3, <1>4

\* The steps of RunPDDAU up to the stream, one case each.
LEMMA ConnectIInv ==
  ASSUME IInv, Socket \/ Connect \/ Reset \/ SendStart \/ ReadReply \/ ReplyFails
  PROVE  IInv'
<1> USE SessionConstants
    DEF IInv, Counted, NothingLeaks, Leaking, QueueReady, Alone, FlagDown,
        Outside, Resting, buffers, session, threads, history,
        ended, socketVars, Well, Meet, Close
<1> DEFINE Others == Counted /\ QueueReady /\ Alone /\ FlagDown
<1>1. UNCHANGED <<session, threads, ended>>
  BY DEF Socket, Connect, Reset, SendStart, ReadReply, ReplyFails
<1>2. Running' = Running
  BY <1>1, RunningSame
<1>3. CASE Socket
  <2>1. TypeOK'
    BY <1>3 DEF Socket, TypeOK
  <2>2. (met' \cap Leaking = {}) => valid' /\ fds' = 1
    <3>1. met' = met
      BY <1>3 DEF Socket
    <3>2. met \cap Leaking = {} => ~valid /\ fds = 0
      BY <1>3 DEF Socket
    <3>3. fds = 0 => fds < MaxFds
      OBVIOUS
    <3>4. fds < MaxFds => valid' /\ fds' = fds + 1
      BY <1>3 DEF Socket
    <3>5. QED  BY <3>1, <3>2, <3>3, <3>4
  <2>3. (valid' => fds' > 0) /\ pc' \in {"connect1", "connect2"}
    BY <1>3 DEF Socket, TypeOK
  <2>4. (QueueReady /\ Alone /\ FlagDown)'
    BY <1>1, <1>2, <1>3 DEF Socket
  <2>5. Counted'
    BY <2>2, <2>3
  <2>6. QED  BY <2>1, <2>4, <2>5
<1>4. CASE Connect
  <2>1. TypeOK'
    <3>1. met' \subseteq Harmful \cap Faults
      BY <1>4 DEF Connect, TypeOK, Harmful, AllFaults
    <3>2. UNCHANGED <<valid, fds, buffers>> /\ link' \in {"up", "down"}
      BY <1>4 DEF Connect
    <3>3. pc' \in {"reset", "start", "socket1"}
      BY <1>4 DEF Connect
    <3>4. QED  BY <1>1, <3>1, <3>2, <3>3 DEF TypeOK
  <2>2. Others'
    BY <1>1, <1>2, <1>4 DEF Connect
  <2>3. QED  BY <2>1, <2>2
<1>5. CASE Reset
  <2>1. UNCHANGED <<buffers, met>> /\ pc = "reset" /\ pc' = "socket2"
    BY <1>5 DEF Reset
  <2>2. Counted' /\ link' = "down" /\ valid' \in BOOLEAN /\ fds' \in 0 .. MaxFds
    BY <1>5, <2>1, CloseCounted DEF Reset
  <2>3. TypeOK'
    BY <1>1, <2>1, <2>2 DEF TypeOK
  <2>4. (QueueReady /\ Alone /\ FlagDown)'
    BY <1>1, <1>2, <2>1
  <2>5. QED  BY <2>2, <2>3, <2>4
<1>6. CASE SendStart
  <2>1. TypeOK'
    <3>1. met' \subseteq Harmful \cap Faults
      BY <1>6 DEF SendStart, TypeOK, Harmful, AllFaults
    <3>2. UNCHANGED <<socketVars, buffers>> /\ pc' \in {"reply", "socket1"}
      BY <1>6 DEF SendStart
    <3>3. QED  BY <1>1, <3>1, <3>2 DEF TypeOK
  <2>2. Others'
    BY <1>1, <1>2, <1>6 DEF SendStart
  <2>3. QED  BY <2>1, <2>2
<1>7. CASE ReadReply
  <2>1. TypeOK'
    BY <1>7 DEF ReadReply, TypeOK, Harmful, AllFaults
  <2>2. Others'
    BY <1>1, <1>2, <1>7 DEF ReadReply
  <2>3. QED  BY <2>1, <2>2
<1>8. CASE ReplyFails
  <2>1. TypeOK'
    BY <1>8 DEF ReplyFails, TypeOK, Harmful, AllFaults
  <2>2. Others'
    BY <1>1, <1>2, <1>8 DEF ReplyFails
  <2>3. QED  BY <2>1, <2>2
<1>9. QED  BY <1>3, <1>4, <1>5, <1>6, <1>7, <1>8

\* The steps of EnqueuePDData, one case each.
LEMMA EnqueuePDDataIInv ==
  ASSUME IInv, \/ NewQueues \/ InitQueues \/ CreateConsumer
               \/ ReadPacket \/ ReadFails \/ Enqueued
  PROVE  IInv'
<1> USE SessionConstants
    DEF IInv, TypeOK, Counted, NothingLeaks, Leaking, QueueReady, Alone, FlagDown,
        Outside, Resting, buffers, session, threads, history,
        ended, socketVars, Well, Meet, Harmful, AllFaults
<1>1. CASE NewQueues
  BY <1>1, RunningSame DEF NewQueues
<1>2. CASE InitQueues
  BY <1>2, RunningSame DEF InitQueues
<1>3. CASE CreateConsumer
  <2>1. CASE UNCHANGED consumer
    BY <1>3, <2>1, RunningSame DEF CreateConsumer
  <2>2. CASE \E t \in Threads \ Running :
               consumer' = [consumer EXCEPT ![t] = "loop"]
    <3>1. PICK t \in Threads \ Running :
                 consumer' = [consumer EXCEPT ![t] = "loop"]
      BY <2>2
    <3>2. Running' = Running \cup {t}
      BY <3>1, RunningAfter
    <3>3. QED  BY <1>3, <3>1, <3>2 DEF CreateConsumer
  <2>3. QED  BY <1>3, <2>1, <2>2 DEF CreateConsumer
<1>4. CASE ReadPacket
  <2>1. UNCHANGED <<valid, fds, reply, session, threads, ended>>
    BY <1>4 DEF ReadPacket
  <2>2. Running' = Running
    BY <2>1, RunningSame
  <2>3. /\ pc = "read" /\ pc' \in {"enqueue", "stop"}
        /\ link' \in {"up", "down"} /\ packet' \in {"data", "other"}
    BY <1>4 DEF ReadPacket
  <2>4. met \subseteq met' /\ met' \subseteq Harmful \cap Faults
    BY <1>4 DEF ReadPacket
  <2>5. TypeOK' /\ Counted'
    BY <2>1, <2>3, <2>4
  <2>6. (QueueReady /\ Alone /\ FlagDown)'
    BY <2>1, <2>2, <2>3, <2>4
  <2>7. QED  BY <2>5, <2>6
<1>5. CASE ReadFails
  BY <1>5, RunningSame DEF ReadFails
<1>6. CASE Enqueued
  BY <1>6, RunningSame DEF Enqueued
<1>7. QED  BY <1>1, <1>2, <1>3, <1>4, <1>5, <1>6

\* The steps of RunPDDAU after the session and the end of the process, one
\* case each.
LEMMA RestIInv ==
  ASSUME IInv, Stop \/ CloseSession \/ Wake \/ Killed
  PROVE  IInv'
<1> USE SessionConstants
    DEF IInv, TypeOK, Counted, NothingLeaks, Leaking, QueueReady, Alone, FlagDown,
        Outside, Resting, buffers, session, threads, history,
        ended, socketVars, Meet, Close, Harmful, AllFaults
<1>1. CASE Stop
  BY <1>1, RunningSame DEF Stop
<1>2. CASE CloseSession
  <2>1. /\ UNCHANGED <<buffers, session, threads, history>>
        /\ pc = "close" /\ pc' = "sleep"
    BY <1>2 DEF CloseSession
  <2>2. Running' = Running
    BY <2>1, RunningSame
  <2>3. Counted' /\ link' = "down" /\ valid' \in BOOLEAN /\ fds' \in 0 .. MaxFds
    BY <1>2, <2>1, CloseCounted DEF CloseSession
  <2>4. TypeOK'
    BY <2>1, <2>3
  <2>5. (QueueReady /\ Alone /\ FlagDown)'
    BY <2>1, <2>2
  <2>6. QED  BY <2>3, <2>4, <2>5
<1>3. CASE Wake
  BY <1>3, RunningSame DEF Wake
<1>4. CASE Killed
  <2>1. Running' = {}
    BY <1>4 DEF Killed, Running
  <2>2. QED  BY <1>4, <2>1 DEF Killed
<1>5. QED  BY <1>1, <1>2, <1>3, <1>4

\* The steps of a consumer, one case each.
LEMMA ConsumerIInv ==
  ASSUME IInv, NEW t \in Threads, Consumer(t)
  PROVE  IInv'
<1> USE SessionConstants
    DEF IInv, TypeOK, Counted, NothingLeaks, Leaking, QueueReady, Alone, FlagDown,
        Outside, Resting, buffers, session, history, ended, socketVars
<1>1. CASE SeeStop(t)
  <2>1. Running' = Running /\ t \in Running
    BY <1>1, RunningAfter DEF SeeStop, Running
  <2>2. QED  BY <1>1, <2>1 DEF SeeStop
<1>2. CASE EndConsumer(t)
  <2>1. Running' = Running \ {t} /\ t \in Running
    BY <1>2, RunningAfter DEF EndConsumer, Running
  <2>2. TypeOK'
    <3>1. consumer' \in [Threads -> {"off", "loop", "stopping"}]
      BY <1>2 DEF EndConsumer
    <3>2. stopIssued' \in BOOLEAN
      BY <1>2 DEF EndConsumer
    <3>3. QED  BY <1>2, <3>1, <3>2 DEF EndConsumer
  <2>3. Counted' /\ QueueReady'
    BY <1>2 DEF EndConsumer
  <2>4. Alone'
    <3>1. CASE late
      BY <1>2, <3>1 DEF EndConsumer
    <3>2. CASE ~late
      <4>1. Running' = {} /\ late' = late
        BY <1>2, <2>1, <3>2 DEF EndConsumer
      <4>2. \A u \in Threads : consumer'[u] = "off"
        BY <4>1 DEF Running
      <4>3. QED  BY <4>1, <4>2
    <3>3. QED  BY <3>1, <3>2
  <2>5. FlagDown'
    <3>1. ~stopIssued'
      BY <1>2 DEF EndConsumer
    <3>2. QED  BY <3>1
  <2>6. QED  BY <2>2, <2>3, <2>4, <2>5
<1>3. QED  BY <1>1, <1>2 DEF Consumer

LEMMA StepIInv == IInv /\ [Next]_vars => IInv'
<1> SUFFICES ASSUME IInv, [Next]_vars PROVE IInv'
  OBVIOUS
<1>1. CASE RunPDDAU \/ Killed
  BY <1>1, ConnectIInv, EnqueuePDDataIInv, RestIInv DEF RunPDDAU
<1>2. CASE \E t \in Threads : Consumer(t)
  BY <1>2, ConsumerIInv
<1>3. CASE UNCHANGED vars
  BY <1>3, RunningSame
  DEF vars, socketVars, buffers, session, threads, history, ended, IInv, TypeOK,
      Counted, NothingLeaks, Leaking, QueueReady, Alone, FlagDown, Outside, Resting
<1>4. QED  BY <1>1, <1>2, <1>3 DEF Next
-----------------------------------------------------------------------------
THEOREM Inductive == Spec => []IInv
  BY InitIInv, StepIInv, PTL DEF Spec

\* The variables keep their types; in particular the descriptors the process
\* holds for the unit never exceed what it may have, nor go below none.
THEOREM TypeCorrect == Spec => []TypeOK
<1>1. IInv => TypeOK
  BY DEF IInv
<1>2. QED  BY <1>1, Inductive, PTL

\* As long as 40 seconds are enough for a consumer to see the flag, the queues
\* have at most one reader, and it never finds them uninitialised.
THEOREM AtMostOneConsumer == Spec => []OneConsumer
<1>1. IInv => OneConsumer
  BY DEF IInv, TypeOK, QueueReady, Alone, OneConsumer, Outside, Resting
<1>2. QED  BY <1>1, Inductive, PTL

\* However many sessions there were, no descriptor is open but the one in sockfd,
\* unless one of the three failures that skip the close happened.
THEOREM OneDescriptor == Spec => []NothingLeaks
<1>1. IInv => NothingLeaks
  BY DEF IInv, Counted
<1>2. QED  BY <1>1, Inductive, PTL

\* As long as 40 seconds are enough and every session had its consumer, the
\* consumer made for a session runs as long as the session reads: no flag
\* raised for an earlier session stops it.
THEOREM SessionKeepsConsumer == Spec => ConsumerKept
<1> DEFINE Kept == InSession /\ InSession' /\ owner \in Running /\ ~late /\ ~unserved
                     => consumer'[owner] = "loop"
<1>1. IInv /\ [Next]_vars => [Kept]_vars
  <2> SUFFICES ASSUME IInv, Next, InSession, InSession', owner \in Running,
                      ~late, ~unserved
               PROVE  consumer'[owner] = "loop"
    OBVIOUS
  <2>1. ~stopIssued /\ owner \in Threads /\ consumer[owner] = "loop"
    BY DEF IInv, TypeOK, Alone, FlagDown, InSession, Resting, Running
  <2>2. UNCHANGED consumer
    <3>1. CASE RunPDDAU \/ Killed
      BY <3>1 DEF RunPDDAU, Socket, Connect, Reset, SendStart, ReadReply,
         ReplyFails, NewQueues, InitQueues, CreateConsumer, ReadPacket,
         ReadFails, Enqueued, Stop, CloseSession, Wake, Killed, InSession, threads
    <3>2. CASE \E t \in Threads : Consumer(t)
      BY <2>1, <3>2 DEF Consumer, SeeStop, EndConsumer, IInv, Alone
    <3>3. QED  BY <3>1, <3>2 DEF Next
  <2>3. QED  BY <2>1, <2>2
<1>2. QED  BY <1>1, Inductive, PTL DEF Spec, ConsumerKept
=============================================================================
