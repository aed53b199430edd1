------------------------------ MODULE IOUpdate -------------------------------
(***************************************************************************)
(* The firmware update of the input/output board over CAN, in              *)
(* sdk/src/IOManager.c: IOM_IOBdUpdate runs in the console thread and      *)
(* sends one packet at a time; IOM_Parser, in the thread of the board's    *)
(* supervision, stores what the board answers in s8UpdatCheckFlag and      *)
(* u32MultiPacketSeq, which the console polls.                             *)
(*                                                                         *)
(* The waits are counted, not timed: a wait may end with or without the    *)
(* answer.  Frames of a direction stay in order and may be lost.  The      *)
(* board is outside the repository; it is modelled as the code relies on   *)
(* it: it answers a start and a size, stores a data packet and answers     *)
(* with its sequence number, and answers a result request.                 *)
(***************************************************************************)
EXTENDS Integers, Sequences, SequencesExt

CONSTANTS PACKETS,    \* packets of the file
          SEQ_LAST,   \* the last sequence number (255)
          RES_WAIT,   \* waits for the answer to start and size (101)
          SEQ_WAIT,   \* waits for the answer to a packet (100)
          RETRY_TX,   \* transmissions of a packet (10)
          BUS_MAX,    \* bound on the frames on their way in a direction
          Updates     \* bound on the updates the operator starts

ASSUME UpdateConstants ==
  /\ PACKETS \in Nat \ {0} /\ SEQ_LAST \in Nat \ {0, 1} /\ RES_WAIT \in Nat \ {0}
  /\ SEQ_WAIT \in Nat \ {0} /\ RETRY_TX \in Nat \ {0} /\ BUS_MAX \in Nat \ {0}
  /\ Updates \in Nat

\* UR_IO_UPDAT_TYPE
NONE == -1
READY == 0
DOWNLOAD_READY == 1
DOWNLOAD_FIN == 2
RESULT == 3

VARIABLES
  pc,                  \* where the console thread is in IOM_IOBdUpdate
  flag,                \* s8UpdatCheckFlag
  ackSeq,              \* u32MultiPacketSeq
  resWait, seqErr, retry,
  idx, seq,            \* u32TxSeq_Cnt, u8SeqNum
  toBoard, toUnit,     \* frames on their way
  image,               \* history: packets of this update the board has stored
  started,             \* history: updates started
  waited,              \* history: waits since the last transmission
  tries,               \* history: transmissions of this packet
  leftover             \* history: when this update was started, packets of an
                       \* earlier one, or answers to them, were still on their way

console == <<resWait, seqErr, retry, idx, seq, started, waited, tries, leftover>>
shared  == <<flag, ackSeq>>
bus     == <<toBoard, toUnit>>
vars == <<pc, console, shared, bus, image>>

Init ==
  /\ pc = "idle" /\ flag = NONE /\ ackSeq = 0
  /\ resWait = 0 /\ seqErr = 0 /\ retry = 0 /\ idx = 0 /\ seq = 0
  /\ toBoard = <<>> /\ toUnit = <<>> /\ image = {}
  /\ started = 0 /\ waited = 0 /\ tries = 0 /\ leftover = FALSE

\* A frame put on a bus arrives in order or not at all.
Sent(q, q2, frame) == q2 \in {q, IF Len(q) < BUS_MAX THEN Append(q, frame) ELSE q}

Send(frame) == Sent(toBoard, toBoard', frame) /\ UNCHANGED toUnit
Reply(frame) == Sent(toUnit, toUnit', frame)

Packet(frame) == frame.cmd \in {"data", "finish"}
-----------------------------------------------------------------------------
(* IOM_IOBdUpdate                                                          *)

\* The operator starts an update: no update is known, the start is sent.
Start ==
  /\ pc = "idle" /\ started < Updates
  /\ flag' = NONE
  /\ Send([cmd |-> "start"])
  /\ image' = {}
  /\ pc' = "waitReady"
  /\ resWait' = 0 /\ seqErr' = 0 /\ retry' = 0 /\ idx' = 0 /\ seq' = 0
  /\ started' = started + 1 /\ waited' = 0 /\ tries' = 0
  /\ leftover' = \/ \E k \in DOMAIN toBoard : Packet(toBoard[k])
                 \/ \E k \in DOMAIN toUnit : Packet(toUnit[k])
  /\ UNCHANGED ackSeq

Counters == <<seqErr, retry, idx, seq, started, waited, tries, leftover>>

\* WAIT_DIOUPDAT_FLAG and WAIT_DIOUPDAT_FILESIZE: give up without a word to
\* the board and without touching the flag, ...
GiveUp ==
  /\ pc \in {"waitReady", "waitSize"} /\ resWait >= RES_WAIT
  /\ pc' = "idle"
  /\ UNCHANGED <<console, shared, bus, image>>

\* ... wait on, ...
WaitOn ==
  /\ \/ pc = "waitReady" /\ flag < READY
     \/ pc = "waitSize" /\ flag < DOWNLOAD_READY
  /\ resWait < RES_WAIT
  /\ resWait' = resWait + 1
  /\ UNCHANGED <<pc, Counters, shared, bus, image>>

\* ... or go on.
SendSize ==
  /\ pc = "waitReady" /\ resWait < RES_WAIT /\ flag >= READY
  /\ Send([cmd |-> "size", update |-> started])
  /\ resWait' = 0
  /\ pc' = "waitSize"
  /\ UNCHANGED <<Counters, shared, image>>

BeginDownload ==
  /\ pc = "waitSize" /\ resWait < RES_WAIT /\ flag >= DOWNLOAD_READY
  /\ resWait' = 0
  /\ pc' = "transmit"
  /\ UNCHANGED <<Counters, shared, bus, image>>

\* RETRY_TX: the last packet has a command of its own.
Transmit ==
  /\ pc = "transmit"
  /\ Send([cmd |-> IF idx = PACKETS - 1 THEN "finish" ELSE "data",
           update |-> started, seq |-> seq, idx |-> idx])
  /\ waited' = 0 /\ tries' = tries + 1
  /\ pc' = "waitSeq"
  /\ UNCHANGED <<resWait, seqErr, retry, idx, seq, started, leftover, shared, image>>

NextSeqTooFar == IF seq > SEQ_LAST THEN 1 ELSE seq + 1    \* mutant

NextSeq == IF seq >= SEQ_LAST THEN 1 ELSE seq + 1

\* Mutants: the number answered is not compared; the counter of errors is kept
\* from one packet to the next.
AcceptAny ==
  /\ pc = "waitSeq"
  /\ seqErr' = 0 /\ retry' = 0 /\ seq' = NextSeq
  /\ idx' = idx + 1 /\ tries' = 0
  /\ pc' = IF idx + 1 < PACKETS THEN "transmit" ELSE "result"
  /\ UNCHANGED <<resWait, started, waited, leftover, shared, bus, image>>
KeepErrors ==
  /\ pc = "waitSeq" /\ ackSeq = seq
  /\ seqErr' = seqErr /\ retry' = 0 /\ seq' = NextSeq
  /\ idx' = idx + 1 /\ tries' = 0
  /\ pc' = IF idx + 1 < PACKETS THEN "transmit" ELSE "result"
  /\ UNCHANGED <<resWait, started, waited, leftover, shared, bus, image>>

\* WAIT_DIOUPDAT_SEQ: the number last answered is the number of the packet.
Accept ==
  /\ pc = "waitSeq" /\ ackSeq = seq
  /\ seqErr' = 0 /\ retry' = 0 /\ seq' = NextSeq
  /\ idx' = idx + 1 /\ tries' = 0
  /\ pc' = IF idx + 1 < PACKETS THEN "transmit" ELSE "result"
  /\ UNCHANGED <<resWait, started, waited, leftover, shared, bus, image>>

\* Mutant: the wait for the number is not counted.
WaitForever == pc = "waitSeq" /\ ackSeq # seq /\ UNCHANGED vars

\* It is not: wait, transmit again, or stop.  The error counter is not reset
\* for the next transmission.
SeqError ==
  /\ pc = "waitSeq" /\ ackSeq # seq
  /\ seqErr' = seqErr + 1 /\ waited' = waited + 1
  /\ IF seqErr' < SEQ_WAIT
     THEN pc' = pc /\ UNCHANGED <<retry, flag, bus>>
     ELSE /\ retry' = retry + 1
          /\ IF retry' < RETRY_TX
             THEN pc' = "transmit" /\ UNCHANGED <<flag, bus>>
             ELSE pc' = "result" /\ flag' = NONE /\ Send([cmd |-> "stop"])
  /\ UNCHANGED <<resWait, idx, seq, started, tries, leftover, ackSeq, image>>

\* The result is asked for whether or not the download was completed.
AskResult ==
  /\ pc = "result"
  /\ Send([cmd |-> "result"])
  /\ pc' = "idle"
  /\ UNCHANGED <<console, shared, image>>

Console == \/ GiveUp \/ WaitOn \/ SendSize \/ BeginDownload \/ Transmit
           \/ Accept \/ SeqError \/ AskResult
-----------------------------------------------------------------------------
(* IOM_Parser                                                              *)

Stored(frame) ==
  /\ flag' = CASE frame.cmd = "start"  -> READY
               [] frame.cmd = "size"   -> DOWNLOAD_READY
               [] frame.cmd = "finish" -> DOWNLOAD_FIN
               [] frame.cmd = "stop"   -> NONE
               [] frame.cmd = "result" -> RESULT
               [] OTHER                -> flag
  /\ ackSeq' = CASE frame.cmd \in {"data", "finish"} -> frame.seq
                 [] frame.cmd = "result"             -> 0
                 [] OTHER                            -> ackSeq

Parse ==
  /\ toUnit # <<>>
  /\ Stored(Head(toUnit))
  /\ toUnit' = Tail(toUnit)
  /\ UNCHANGED <<pc, console, toBoard, image>>
-----------------------------------------------------------------------------
(* The board: every command is answered with itself.                       *)

Board ==
  /\ toBoard # <<>>
  /\ LET frame == Head(toBoard)
     IN  /\ image' = IF Packet(frame) /\ frame.update = started
                     THEN image \cup {frame.idx} ELSE image
         /\ Reply(frame)
  /\ toBoard' = Tail(toBoard)
  /\ UNCHANGED <<pc, console, shared>>

Next == Start \/ Console \/ Parse \/ Board

Spec == Init /\ [][Next]_vars

\* Both threads and the board go on.
FairSpec == Spec /\ WF_vars(Console) /\ WF_vars(Parse) /\ WF_vars(Board)
-----------------------------------------------------------------------------
Frames ==
  [cmd : {"start", "stop", "result"}] \cup [cmd : {"size"}, update : 1 .. Updates]
    \cup [cmd : {"data", "finish"}, update : 1 .. Updates, seq : 0 .. SEQ_LAST, idx : 0 .. (PACKETS - 1)]

TypeOK ==
  /\ pc \in {"idle", "waitReady", "waitSize", "transmit", "waitSeq", "result"}
  /\ flag \in NONE .. RESULT /\ ackSeq \in 0 .. SEQ_LAST
  /\ resWait \in 0 .. RES_WAIT /\ retry \in 0 .. RETRY_TX
  /\ seqErr \in 0 .. (SEQ_WAIT + RETRY_TX - 1)
  /\ idx \in 0 .. PACKETS /\ seq \in 0 .. SEQ_LAST
  /\ toBoard \in Seq(Frames) /\ Len(toBoard) <= BUS_MAX
  /\ toUnit \in Seq(Frames) /\ Len(toUnit) <= BUS_MAX
  /\ image \subseteq 0 .. (PACKETS - 1)
  /\ started \in 0 .. Updates /\ waited \in 0 .. SEQ_WAIT
  /\ tries \in 0 .. RETRY_TX /\ leftover \in BOOLEAN

Transferring == pc \in {"transmit", "waitSeq"}

\* The download is one of the abstract transfer: lost frames, repeated
\* transmissions, late answers and the wrap of the sequence number from 255 to 1
\* notwithstanding, the console passes a packet only when the board has stored it.
\* There are two exceptions.  The number 0 of packet 0 is also what u32MultiPacketSeq
\* holds when nothing has been answered.  And a number says nothing of the update it
\* belongs to: if packets of an earlier update, or answers to them, are still on their
\* way when an update is started, their answers pass for its own.
Transfer == INSTANCE FwTransfer WITH
              running <- Transferring, passed <- idx, stored <- image, mixed <- leftover
Implements == Transfer!Spec

\* "If it is still an error after waiting 100 times for the sequence error and
\* trying to send 10 times, stop the update" (IOManager.c, IOM_IOBdUpdate):
\* whatever the packets before it needed, a packet has all its transmissions
\* before the update is stopped for it.  The wait, however, is one for all of them:
\* only the first is waited for in full, each repetition is judged after a single
\* wait, because the error counter is not reset for it.
EveryPacketTried ==
  [][/\ pc = "waitSeq" /\ pc' = "result" /\ idx' = idx => tries = RETRY_TX
     /\ pc = "waitSeq" /\ ackSeq # seq /\ pc' \in {"transmit", "result"}
          => waited' = IF tries = 1 THEN SEQ_WAIT ELSE 1]_vars

\* A transfer ends.
UpdateEnds == pc # "idle" ~> pc = "idle"

\* "If the IO board is updating, sync data is not requested" (IOManager.c,
\* IOM_IOBdLiveCheck, of the range READY .. DOWNLOAD_FIN of the flag): once
\* the console has ended the update the flag leaves that range.
Updating == flag >= READY /\ flag < RESULT
SuspensionEnds == pc = "idle" /\ Updating ~> ~(pc = "idle" /\ Updating)

=============================================================================
