------------------------------ MODULE PDSession ------------------------------
(***************************************************************************)
(* The thread RunPDDAU (sdk/src/sensorcomm.c) and the consumer threads it  *)
(* creates.  RunPDDAU connects to the partial discharge unit, resets it,   *)
(* connects again, asks for the stream and runs one session of             *)
(* EnqueuePDData: new queues, a new ProcessPDDataThread, then packets      *)
(* until a read fails.  The end of the session is told to the consumer by  *)
(* the flag stopIssued, which the consumer itself resets; nobody joins it. *)
(* RunPDDAU only sleeps 40 seconds before it goes on.                      *)
(*                                                                         *)
(* Faults says what the unit, the network and the operating system may do  *)
(* besides answering.  The contents of the queues are module PDQueue.      *)
(***************************************************************************)
EXTENDS Naturals

CONSTANTS Threads,   \* consumer threads the process can have at a time
          Nobody,    \* no thread
          MaxFds,    \* descriptors the process can have open for the unit
          Faults     \* what may go wrong

AllFaults == {"unreachable",   \* connect fails
              "sendFails",     \* writing the start request fails
              "broken",        \* writing to a reset connection: SIGPIPE
              "noReply",       \* reading the reply to it fails
              "refused",       \* the reply is not an acknowledgement
              "eof",           \* the unit closes: read returns 0
              "streamFails",   \* reading a packet fails or times out
              "badPacket",     \* a packet is not a data packet
              "noThread"}      \* pthread_create fails

\* Those after which the stream may never come back: a socket left open, a
\* thread or the whole process ended, an end of file taken for a packet.
Harmful == AllFaults \ {"streamFails", "badPacket", "noThread"}

ASSUME SessionConstants == /\ Nobody \notin Threads
                           /\ MaxFds \in Nat \ {0}
                           /\ Faults \subseteq AllFaults

VARIABLES
  pc,          \* where RunPDDAU or the EnqueuePDData it called is
  valid,       \* sockfd is a descriptor, not -1
  link,        \* the connection behind it: "up" or "down"
  fds,         \* open descriptors, those no variable holds any more included
  reply,       \* header in the buffer for the reply to the start request
  packet,      \* header in the buffer for the packets
  queue,       \* the queues the global pointers lead to: "raw" or "ready"
  stopIssued,
  consumer,    \* state of each consumer thread
  owner,       \* the thread pthread_create made for this session
  late,        \* history: RunPDDAU woke before its consumer had stopped
  unserved,    \* history: a session ended that had no consumer
  met          \* history: the harmful faults met so far

socketVars == <<valid, link, fds>>
buffers    == <<reply, packet>>
session    == <<queue, owner>>
threads    == <<stopIssued, consumer>>
ended == <<late, unserved>>
history    == <<ended, met>>
vars == <<pc, socketVars, buffers, session, threads, history>>

Meet(fault) == /\ fault \in Faults /\ met' = met \cup {fault}
Well        == met' = met

Running == {t \in Threads : consumer[t] # "off"}

Init ==
  /\ pc = "socket1"
  /\ valid = FALSE /\ link = "down" /\ fds = 0
  /\ reply \in {"ack", "other"} /\ packet = "other"
  /\ queue = "raw" /\ owner = Nobody
  /\ stopIssued = FALSE /\ consumer = [t \in Threads |-> "off"]
  /\ late = FALSE /\ unserved = FALSE /\ met = {}
-----------------------------------------------------------------------------
(* RunPDDAU up to the stream                                               *)

\* Mutant: the limit of descriptors is not the process's business.
SocketAlways ==
  /\ pc \in {"socket1", "socket2"}
  /\ valid' = TRUE /\ fds' = fds + 1 /\ link' = "down"
  /\ pc' = IF pc = "socket1" THEN "connect1" ELSE "connect2"
  /\ UNCHANGED <<buffers, session, threads, history>>

\* sockfd = socket(...): whatever sockfd held before is forgotten.
Socket ==
  /\ pc \in {"socket1", "socket2"}
  /\ valid' = (fds < MaxFds)
  /\ fds' = IF fds < MaxFds THEN fds + 1 ELSE fds
  /\ link' = "down"
  /\ pc' = IF pc = "socket1" THEN "connect1" ELSE "connect2"
  /\ UNCHANGED <<buffers, session, threads, history>>

\* connect; on failure sleep(10) and continue, sockfd still open.
Connect ==
  /\ pc \in {"connect1", "connect2"}
  /\ \/ /\ valid /\ Well
        /\ link' = "up"
        /\ pc' = IF pc = "connect1" THEN "reset" ELSE "start"
     \/ /\ (~valid /\ Well) \/ Meet("unreachable")
        /\ link' = "down"
        /\ pc' = "socket1"
  /\ UNCHANGED <<valid, fds, buffers, session, threads, ended>>

\* close(sockfd)
Close == /\ valid' = FALSE /\ link' = "down"
         /\ fds' = IF valid THEN fds - 1 ELSE fds

\* getAmplification, setAmplification and resetPDDAU, their results ignored,
\* then close.
Reset ==
  /\ pc = "reset"
  /\ Close
  /\ pc' = "socket2"
  /\ UNCHANGED <<buffers, session, threads, history>>

\* A write to a connection the unit has reset raises SIGPIPE, which nobody
\* handles.
Killed ==
  /\ pc \in {"reset", "start"} /\ Meet("broken")
  /\ pc' = "killed"
  /\ consumer' = [t \in Threads |-> "off"]
  /\ UNCHANGED <<socketVars, buffers, session, stopIssued, ended>>

SendStart ==
  /\ pc = "start"
  /\ \/ pc' = "reply" /\ Well
     \/ pc' = "socket1" /\ Meet("sendFails")
  /\ UNCHANGED <<socketVars, buffers, session, threads, ended>>

\* The type of the buffer is checked, not the length read: with length 0 the
\* buffer holds the previous reply.
ReadReply ==
  /\ pc = "reply"
  /\ \/ Well /\ reply' = "ack" /\ link' = link
     \/ Meet("refused") /\ reply' = "other" /\ link' = link
     \/ Meet("eof") /\ reply' = reply /\ link' = "down"
  /\ pc' = IF reply' = "ack" THEN "malloc" ELSE "exited"
  /\ UNCHANGED <<valid, fds, packet, session, threads, ended>>

ReplyFails ==
  /\ pc = "reply" /\ Meet("noReply")
  /\ pc' = "socket1"
  /\ UNCHANGED <<socketVars, buffers, session, threads, ended>>
-----------------------------------------------------------------------------
(* EnqueuePDData                                                           *)

\* The global pointers lead to new queues before these are initialised; the
\* packet buffer is new and uninitialised.
NewQueues ==
  /\ pc = "malloc"
  /\ queue' = "raw"
  /\ packet' \in {"data", "other"}
  /\ pc' = "init"
  /\ UNCHANGED <<socketVars, reply, owner, threads, history>>

InitQueues ==
  /\ pc = "init"
  /\ queue' = "ready"
  /\ pc' = "create"
  /\ UNCHANGED <<socketVars, buffers, owner, threads, history>>

\* pthread_create, its result ignored.
CreateConsumer ==
  /\ pc = "create"
  /\ \/ \E t \in Threads \ Running :
          /\ owner' = t
          /\ consumer' = [consumer EXCEPT ![t] = "loop"]
     \/ /\ Running = Threads \/ "noThread" \in Faults
        /\ owner' = Nobody
        /\ consumer' = consumer
  /\ pc' = "read"
  /\ UNCHANGED <<socketVars, buffers, queue, stopIssued, history>>

\* read; only -1 ends the session, so with length 0 the packet already in the
\* buffer passes the check of its type and id again.
ReadPacket ==
  /\ pc = "read"
  /\ \/ link = "up" /\ Well /\ packet' = "data" /\ link' = link
     \/ /\ link = "up" /\ "badPacket" \in Faults /\ Well
        /\ packet' = "other" /\ link' = link
     \/ link = "down" /\ Well /\ UNCHANGED <<packet, link>>
     \/ link = "up" /\ Meet("eof") /\ packet' = packet /\ link' = "down"
  /\ pc' = IF packet' = "data" THEN "enqueue" ELSE "stop"
  /\ UNCHANGED <<valid, fds, reply, session, threads, ended>>

ReadFails ==
  /\ pc = "read" /\ link = "up" /\ "streamFails" \in Faults
  /\ pc' = "stop"
  /\ UNCHANGED <<socketVars, buffers, session, threads, history>>

Enqueued ==
  /\ pc = "enqueue"
  /\ pc' = "read"
  /\ UNCHANGED <<socketVars, buffers, session, threads, history>>
-----------------------------------------------------------------------------
(* RunPDDAU after the session                                              *)

\* Mutant: the consumer is not told.
StopForgotten ==
  /\ pc = "stop"
  /\ unserved' = (unserved \/ owner \notin Running)
  /\ pc' = "close"
  /\ UNCHANGED <<socketVars, buffers, session, threads, late, met>>

\* setStopIssued(1)
Stop ==
  /\ pc = "stop"
  /\ stopIssued' = TRUE
  /\ unserved' = (unserved \/ owner \notin Running)
  /\ pc' = "close"
  /\ UNCHANGED <<socketVars, buffers, session, consumer, late, met>>

\* Mutant: the thread ends with the session.
LeaveLoop ==
  /\ pc = "close"
  /\ Close
  /\ pc' = "exited"
  /\ UNCHANGED <<buffers, session, threads, history>>

\* Mutant: the loop is entered again without close(sockfd).
SessionLeftOpen ==
  /\ pc = "close"
  /\ pc' = "sleep"
  /\ UNCHANGED <<socketVars, buffers, session, threads, history>>

CloseSession ==
  /\ pc = "close"
  /\ Close
  /\ pc' = "sleep"
  /\ UNCHANGED <<buffers, session, threads, history>>

\* sleep(40) is over and the loop starts again.
Wake ==
  /\ pc = "sleep"
  /\ late' = (late \/ (stopIssued /\ Running # {}))
  /\ pc' = "socket1"
  /\ UNCHANGED <<socketVars, buffers, session, threads, unserved, met>>
-----------------------------------------------------------------------------
(* ProcessPDDataThread                                                     *)

\* The end of a pass over the queues: getStopIssued() > 0.
SeeStop(t) ==
  /\ consumer[t] = "loop" /\ stopIssued
  /\ consumer' = [consumer EXCEPT ![t] = "stopping"]
  /\ UNCHANGED <<pc, socketVars, buffers, session, stopIssued, history>>

\* Mutant: the flag stays raised.
EndFlagRaised(t) ==
  /\ consumer[t] = "stopping"
  /\ consumer' = [consumer EXCEPT ![t] = "off"]
  /\ UNCHANGED <<pc, socketVars, buffers, session, stopIssued, history>>

\* setStopIssued(0); break;
EndConsumer(t) ==
  /\ consumer[t] = "stopping"
  /\ stopIssued' = FALSE
  /\ consumer' = [consumer EXCEPT ![t] = "off"]
  /\ UNCHANGED <<pc, socketVars, buffers, session, history>>

RunPDDAU ==
  \/ Socket \/ Connect \/ Reset \/ SendStart \/ ReadReply \/ ReplyFails
  \/ NewQueues \/ InitQueues \/ CreateConsumer
  \/ ReadPacket \/ ReadFails \/ Enqueued
  \/ Stop \/ CloseSession \/ Wake

Consumer(t) == SeeStop(t) \/ EndConsumer(t)

Next == RunPDDAU \/ Killed \/ \E t \in Threads : Consumer(t)

Spec == Init /\ [][Next]_vars

\* Every thread is scheduled; a read has a timeout of 10 seconds and connect
\* gives up, so RunPDDAU is never blocked for good.  The unit accepts a
\* connection again and again.
FairSpec == /\ Spec
            /\ WF_vars(RunPDDAU)
            /\ \A t \in Threads : WF_vars(Consumer(t))
            /\ SF_vars(pc = "connect1" /\ Connect /\ link' = "up")
            /\ SF_vars(pc = "connect2" /\ Connect /\ link' = "up")
-----------------------------------------------------------------------------
TypeOK ==
  /\ pc \in {"socket1", "connect1", "reset", "socket2", "connect2", "start",
             "reply", "malloc", "init", "create", "read", "enqueue", "stop",
             "close", "sleep", "exited", "killed"}
  /\ valid \in BOOLEAN /\ link \in {"up", "down"} /\ fds \in 0 .. MaxFds
  /\ reply \in {"ack", "other"} /\ packet \in {"data", "other"}
  /\ queue \in {"raw", "ready"} /\ owner \in Threads \cup {Nobody}
  /\ stopIssued \in BOOLEAN
  /\ consumer \in [Threads -> {"off", "loop", "stopping"}]
  /\ late \in BOOLEAN /\ unserved \in BOOLEAN
  /\ met \subseteq Harmful \cap Faults

InSession == pc \in {"read", "enqueue"}
Streaming == InSession /\ link = "up"

\* As long as 40 seconds are enough for a consumer to see the flag, there is
\* never more than one consumer, and none while the queues are allocated and
\* not yet initialised: the queues have one reader, which finds them ready.
OneConsumer ==
  late \/ /\ \A t, u \in Running : t = u
          /\ queue = "ready" \/ Running = {}

\* If moreover every session so far had its consumer, a flag raised for one
\* session never stops the consumer of another: the consumer made for a
\* session runs as long as the session reads.
ConsumerKept ==
  [][InSession /\ InSession' /\ owner \in Running /\ ~late /\ ~unserved
       => consumer'[owner] = "loop"]_vars

\* Faults after which sockfd is forgotten with its descriptor still open.
Leaking == {"unreachable", "sendFails", "noReply"}

\* Through any number of sessions the process has no descriptor open but the one
\* in sockfd, unless a connect, a start request or the wait for its reply failed:
\* these go back to socket() without a close.
NothingLeaks ==
  met \cap Leaking = {} => fds = IF valid THEN 1 ELSE 0

\* A raised flag is taken down by the consumer there is.
StopTakenDown ==
  stopIssued /\ Running # {} ~> ~stopIssued \/ pc = "killed"

\* Streams that fail, packets of another type and sessions without a consumer
\* are all recovered from: the stream comes back again and again.
Reconnects == [](met = {}) => []<>Streaming

\* A session that ended leaves no flag behind, and another one follows.
SessionsFollow == StopTakenDown /\ Reconnects

\* "If EnqueuePDData(...) exits then this function recreates another TCP
\* connection and start EnqueuePDData(...) again.  This process will continue
\* for seamless PDDAU connectivity." (sensorcomm.c, RunPDDAU)
SeamlessReconnect == []<>Streaming
=============================================================================
