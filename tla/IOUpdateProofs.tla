---------------------------- MODULE IOUpdateProofs ----------------------------
(***************************************************************************)
(* Proofs about IOUpdate for every number of packets, every range of the   *)
(* sequence number, every limit of waits and retries, every length of the  *)
(* bus and every number of updates.                                        *)
(*                                                                         *)
(* The refinement of FwTransfer rests on what the bus holds (Ordered,      *)
(* Fresh): seen from the parser through the bus to the console, packets    *)
(* come in order and only the last two are left, which have different      *)
(* numbers.  The limits of retries rest on Retries, which relates the      *)
(* error counter the code keeps across transmissions to the transmissions. *)
(***************************************************************************)
EXTENDS IOUpdate, TLAPS

\* The counters of the console: the error counter is not reset for a repetition,
\* so what it is beyond SEQ_WAIT tells the repetitions.
Retries ==
  /\ retry = IF seqErr < SEQ_WAIT THEN 0 ELSE seqErr - SEQ_WAIT + 1
  /\ Transferring => retry < RETRY_TX /\ idx < PACKETS
  /\ pc = "transmit" => tries = retry /\ (retry = 0 => seqErr = 0)
  /\ pc = "waitSeq" => tries = retry + 1
  /\ pc = "waitSeq" => waited = IF retry = 0 THEN seqErr ELSE 0

\* Where the console is in the file.
Position ==
  /\ pc # "idle" => started > 0
  /\ pc \in {"waitReady", "waitSize"} =>
       idx = 0 /\ seq = 0 /\ seqErr = 0 /\ retry = 0 /\ tries = 0
  /\ idx = 0 <=> seq = 0

\* Packets are of the updates begun, and none of this one is ahead of the console.
Reached(frame) ==
  Packet(frame) => /\ frame.update <= started
                   /\ frame.update = started => frame.idx <= idx

NotAhead ==
  /\ \A k \in DOMAIN toBoard : Reached(toBoard[k])
  /\ \A k \in DOMAIN toUnit : Reached(toUnit[k])

\* The packets on the bus are in the order of the file, and of this update,
\* unless it was begun with others on the bus.
Ordered ==
  ~leftover =>
    /\ \A j, k \in DOMAIN toBoard :
         j <= k /\ Packet(toBoard[j]) /\ Packet(toBoard[k]) => toBoard[j].idx <= toBoard[k].idx
    /\ \A j, k \in DOMAIN toUnit :
         j <= k /\ Packet(toUnit[j]) /\ Packet(toUnit[k]) => toUnit[j].idx <= toUnit[k].idx
    /\ \A j \in DOMAIN toUnit, k \in DOMAIN toBoard :
         Packet(toUnit[j]) /\ Packet(toBoard[k]) => toUnit[j].idx <= toBoard[k].idx

\* A packet that is still of interest: the one the console is at, with its
\* number, or the one before, with another.
Recent(frame) ==
  Packet(frame) => /\ frame.update = started
                   /\ \/ frame.idx = idx /\ frame.seq = seq
                      \/ frame.idx = idx - 1 /\ frame.seq # seq

Fresh ==
  ~leftover =>
    /\ \A k \in DOMAIN toBoard : Recent(toBoard[k])
    /\ \A k \in DOMAIN toUnit : Recent(toUnit[k])
    /\ \A k \in DOMAIN toUnit : Packet(toUnit[k]) => toUnit[k].idx \in image

\* When the number of the packet has been answered, the board has stored it and
\* what is on the bus is repetitions of it.
Answered ==
  ~leftover /\ idx > 0 /\ ackSeq = seq =>
    /\ idx \in image
    /\ \A k \in DOMAIN toBoard : Packet(toBoard[k]) => toBoard[k].idx = idx
    /\ \A k \in DOMAIN toUnit : Packet(toUnit[k]) => toUnit[k].idx = idx

IInv == TypeOK /\ Retries /\ Position /\ NotAhead /\ Ordered /\ Fresh /\ Answered
-----------------------------------------------------------------------------
(* The operators of the model                                              *)

\* What may have arrived is in the order sent, the new frame last.
LEMMA SentElements ==
  ASSUME NEW S, NEW q \in Seq(S), NEW f \in S, NEW r, Sent(q, r, f), Len(q) <= BUS_MAX
  PROVE  /\ r \in Seq(S) /\ Len(r) <= BUS_MAX
         /\ \A k \in DOMAIN r : \/ k \in DOMAIN q /\ r[k] = q[k]
                                \/ k = Len(q) + 1 /\ r[k] = f
<1> USE UpdateConstants
<1>1. CASE r = q
  BY <1>1
<1>2. CASE r = Append(q, f) /\ Len(q) < BUS_MAX
  <2>1. r \in Seq(S) /\ Len(r) = Len(q) + 1 /\ Len(q) \in Nat
    BY <1>2
  <2>2. \A k \in 1 .. Len(q) : r[k] = q[k]
    BY <1>2
  <2>3. r[Len(q) + 1] = f
    BY <1>2
  <2>4. DOMAIN r = 1 .. Len(q) + 1 /\ DOMAIN q = 1 .. Len(q)
    BY <2>1
  <2>5. QED  BY <1>2, <2>1, <2>2, <2>3, <2>4
<1>3. QED  BY <1>1, <1>2 DEF Sent

\* Taking the first frame moves the others up.
LEMMA TailElements ==
  ASSUME NEW S, NEW q \in Seq(S), q # <<>>, Len(q) <= BUS_MAX
  PROVE  /\ Tail(q) \in Seq(S) /\ Len(Tail(q)) <= BUS_MAX
         /\ Head(q) \in S /\ 1 \in DOMAIN q /\ Head(q) = q[1]
         /\ \A k \in DOMAIN Tail(q) : k + 1 \in DOMAIN q /\ Tail(q)[k] = q[k + 1]
<1>1. Len(q) \in Nat \ {0} /\ DOMAIN q = 1 .. Len(q)
  OBVIOUS
<1>2. Tail(q) \in Seq(S) /\ Len(Tail(q)) = Len(q) - 1
  BY <1>1
<1>3. \A k \in 1 .. Len(q) - 1 : Tail(q)[k] = q[k + 1]
  BY <1>1
<1>4. Head(q) = q[1] /\ q[1] \in S
  BY <1>1
<1>5. QED  BY UpdateConstants, <1>1, <1>2, <1>3, <1>4

\* The fields of a packet, and of the frames the console sends.
LEMMA FrameFields ==
  ASSUME NEW frame \in Frames, Packet(frame)
  PROVE  /\ frame.update \in 1 .. Updates /\ frame.seq \in 0 .. SEQ_LAST
         /\ frame.idx \in 0 .. (PACKETS - 1)
  BY DEF Frames, Packet

\* The next number is in range, is never 0 and never the same again.
LEMMA NextSeqDiffers ==
  ASSUME seq \in 0 .. SEQ_LAST
  PROVE  NextSeq \in 1 .. SEQ_LAST /\ NextSeq # seq
  BY UpdateConstants DEF NextSeq

\* IOM_Parser leaves the flag and the number answered in their ranges.
LEMMA StoredTypes ==
  ASSUME flag \in NONE .. RESULT, ackSeq \in 0 .. SEQ_LAST, NEW frame \in Frames,
         Stored(frame)
  PROVE  flag' \in NONE .. RESULT /\ ackSeq' \in 0 .. SEQ_LAST
  BY UpdateConstants
  DEF Stored, Frames, NONE, READY, DOWNLOAD_READY, DOWNLOAD_FIN, RESULT
-----------------------------------------------------------------------------
(* The inductive invariant                                                 *)

LEMMA InitIInv == Init => IInv
<1> SUFFICES ASSUME Init PROVE IInv
  OBVIOUS
<1> USE UpdateConstants DEF Init
<1>1. TypeOK
  <2>1. flag \in NONE .. RESULT /\ ackSeq \in 0 .. SEQ_LAST
    BY DEF NONE, RESULT
  <2>2. toBoard \in Seq(Frames) /\ Len(toBoard) <= BUS_MAX
    OBVIOUS
  <2>3. toUnit \in Seq(Frames) /\ Len(toUnit) <= BUS_MAX
    OBVIOUS
  <2>4. leftover \in BOOLEAN
    OBVIOUS
  <2>5. QED  BY <2>1, <2>2, <2>3, <2>4 DEF TypeOK
<1>2. Retries /\ Position
  BY DEF Retries, Position, Transferring
<1>3. DOMAIN toBoard = {} /\ DOMAIN toUnit = {}
  OBVIOUS
<1>4. NotAhead /\ Ordered /\ Fresh /\ Answered
  BY <1>3 DEF NotAhead, Ordered, Fresh, Answered
<1>5. QED  BY <1>1, <1>2, <1>4 DEF IInv

\* A step of the console that puts nothing on the bus and stays at the packet.
LEMMA SamePacket ==
  ASSUME IInv, UNCHANGED <<idx, seq, started, leftover, ackSeq, bus, image>>
  PROVE  NotAhead' /\ Ordered' /\ Fresh' /\ Answered'
  BY DEF IInv, NotAhead, Reached, Ordered, Fresh, Recent, Answered, bus

\* A step that may put a frame that is no packet on the bus to the board.
LEMMA NoPacketSent ==
  ASSUME IInv, NEW frame \in Frames, ~Packet(frame), Send(frame),
         UNCHANGED <<idx, seq, started, leftover, ackSeq, image>>
  PROVE  /\ NotAhead' /\ Ordered' /\ Fresh' /\ Answered'
         /\ toBoard' \in Seq(Frames) /\ Len(toBoard') <= BUS_MAX
<1>1. /\ toBoard' \in Seq(Frames) /\ Len(toBoard') <= BUS_MAX
      /\ \A k \in DOMAIN toBoard' : \/ k \in DOMAIN toBoard /\ toBoard'[k] = toBoard[k]
                                    \/ ~Packet(toBoard'[k])
  BY SentElements DEF IInv, TypeOK, Send
<1>2. UNCHANGED <<toUnit, idx, seq, started, leftover, ackSeq, image>>
  BY DEF Send
<1>3. NotAhead'
  BY <1>1, <1>2 DEF IInv, NotAhead, Reached
<1>4. Ordered'
  BY <1>1, <1>2 DEF IInv, Ordered
<1>5. Fresh'
  BY <1>1, <1>2 DEF IInv, Fresh, Recent
<1>6. Answered'
  BY <1>1, <1>2 DEF IInv, Answered
<1>7. QED  BY <1>1, <1>3, <1>4, <1>5, <1>6

LEMMA StartIInv == ASSUME IInv, Start PROVE IInv'
<1> USE UpdateConstants DEF IInv
<1>1. [cmd |-> "start"] \in Frames /\ ~Packet([cmd |-> "start"])
  BY DEF Frames, Packet
<1>2. /\ toBoard' \in Seq(Frames) /\ Len(toBoard') <= BUS_MAX /\ toUnit' = toUnit
      /\ \A k \in DOMAIN toBoard' : \/ k \in DOMAIN toBoard /\ toBoard'[k] = toBoard[k]
                                    \/ ~Packet(toBoard'[k])
  BY <1>1, SentElements DEF Start, Send, TypeOK
<1>3. TypeOK'
  <2>1. leftover' \in BOOLEAN
    BY DEF Start
  <2>2. started' \in 0 .. Updates
    BY DEF Start, TypeOK
  <2>3. flag' \in NONE .. RESULT /\ UNCHANGED ackSeq
    BY DEF Start, NONE, RESULT
  <2>4. QED  BY <1>2, <2>1, <2>2, <2>3 DEF Start, TypeOK
<1>4. Retries' /\ Position'
  BY DEF Start, Retries, Position, Transferring, TypeOK
<1>5. NotAhead'
  <2>1. \A k \in DOMAIN toBoard : Packet(toBoard[k]) => toBoard[k].update < started'
    BY FrameFields DEF Start, NotAhead, Reached, TypeOK
  <2>2. \A k \in DOMAIN toUnit : Packet(toUnit[k]) => toUnit[k].update < started'
    BY FrameFields DEF Start, NotAhead, Reached, TypeOK
  <2>3. QED  BY <1>2, <2>1, <2>2, FrameFields DEF NotAhead, Reached, TypeOK, Start
<1>6. ~leftover' => /\ \A k \in DOMAIN toBoard' : ~Packet(toBoard'[k])
                    /\ \A k \in DOMAIN toUnit' : ~Packet(toUnit'[k])
  BY <1>2 DEF Start
<1>7. Ordered' /\ Fresh'
  BY <1>6 DEF Ordered, Fresh, Recent
<1>8. Answered'
  BY DEF Start, Answered
<1>9. QED  BY <1>3, <1>4, <1>5, <1>7, <1>8

\* The console until the download, and after it, one case for each step.
LEMMA PreludeIInv ==
  ASSUME IInv, GiveUp \/ WaitOn \/ SendSize \/ BeginDownload \/ AskResult
  PROVE  IInv'
<1> USE UpdateConstants DEF IInv, console, shared, Counters
<1>1. CASE GiveUp
  BY <1>1, SamePacket DEF GiveUp, TypeOK, Retries, Position, Transferring, bus
<1>2. CASE WaitOn
  BY <1>2, SamePacket DEF WaitOn, TypeOK, Retries, Position, Transferring, bus
<1>3. CASE SendSize
  <2> DEFINE frame == [cmd |-> "size", update |-> started]
  <2>1. frame \in Frames /\ ~Packet(frame)
    BY <1>3 DEF SendSize, Frames, Packet, Position, TypeOK
  <2>2. Send(frame) /\ UNCHANGED <<Counters, shared, image>> /\ resWait' = 0
    BY <1>3 DEF SendSize
  <2>3. pc = "waitReady" /\ pc' = "waitSize"
    BY <1>3 DEF SendSize
  <2>4. /\ NotAhead' /\ Ordered' /\ Fresh' /\ Answered'
        /\ toBoard' \in Seq(Frames) /\ Len(toBoard') <= BUS_MAX
    BY <2>1, <2>2, NoPacketSent
  <2>5. TypeOK'
    BY <2>2, <2>3, <2>4 DEF TypeOK, Send
  <2>6. Retries' /\ Position'
    BY <2>2, <2>3 DEF Retries, Position, Transferring
  <2>7. QED  BY <2>4, <2>5, <2>6
<1>4. CASE BeginDownload
  BY <1>4, SamePacket DEF BeginDownload, TypeOK, Retries, Position, Transferring, bus
<1>5. CASE AskResult
  <2> DEFINE frame == [cmd |-> "result"]
  <2>1. frame \in Frames /\ ~Packet(frame)
    BY DEF Frames, Packet
  <2>2. Send(frame) /\ UNCHANGED <<console, shared, image>> /\ pc' = "idle"
    BY <1>5 DEF AskResult
  <2>3. /\ NotAhead' /\ Ordered' /\ Fresh' /\ Answered'
        /\ toBoard' \in Seq(Frames) /\ Len(toBoard') <= BUS_MAX
    BY <2>1, <2>2, NoPacketSent
  <2>4. TypeOK'
    BY <2>2, <2>3 DEF TypeOK, Send
  <2>5. Retries' /\ Position'
    BY <2>2 DEF Retries, Position, Transferring
  <2>6. QED  BY <2>3, <2>4, <2>5
<1>6. QED  BY <1>1, <1>2, <1>3, <1>4, <1>5

LEMMA TransmitIInv == ASSUME IInv, Transmit PROVE IInv'
<1> USE UpdateConstants DEF IInv
<1> DEFINE frame == [cmd |-> IF idx = PACKETS - 1 THEN "finish" ELSE "data",
                     update |-> started, seq |-> seq, idx |-> idx]
<1>1. /\ pc = "transmit" /\ pc' = "waitSeq" /\ waited' = 0 /\ tries' = tries + 1
      /\ UNCHANGED <<resWait, seqErr, retry, idx, seq, started, leftover, flag, ackSeq,
                     toUnit, image>>
  BY DEF Transmit, Send, shared
<1>2. /\ frame \in Frames /\ Packet(frame) /\ frame.update = started
      /\ frame.seq = seq /\ frame.idx = idx
  <2>1. /\ started \in 1 .. Updates /\ seq \in 0 .. SEQ_LAST
        /\ idx \in 0 .. (PACKETS - 1)
    BY <1>1 DEF TypeOK, Retries, Position, Transferring
  <2>2. QED  BY <2>1 DEF Frames, Packet
<1>3. Sent(toBoard, toBoard', frame)
  BY DEF Transmit, Send
<1>4. /\ toBoard' \in Seq(Frames) /\ Len(toBoard') <= BUS_MAX
      /\ \A k \in DOMAIN toBoard' : \/ k \in DOMAIN toBoard /\ toBoard'[k] = toBoard[k]
                                    \/ k = Len(toBoard) + 1 /\ toBoard'[k] = frame
  <2> HIDE DEF frame
  <2>1. QED  BY <1>2, <1>3, SentElements DEF TypeOK
<1> HIDE DEF frame
<1>5. Retries' /\ Position'
  BY <1>1 DEF Retries, Position, Transferring
<1>6. TypeOK'
  <2>1. tries' \in 0 .. RETRY_TX
    BY <1>1 DEF Retries, Transferring, TypeOK
  <2>2. QED  BY <1>1, <1>4, <2>1 DEF TypeOK
<1>7. NotAhead'
  BY <1>1, <1>2, <1>4 DEF NotAhead, Reached, TypeOK
<1>8. Fresh'
  BY <1>1, <1>2, <1>4 DEF Fresh, Recent
<1>9. Ordered'
  <2> SUFFICES ASSUME ~leftover PROVE Ordered'
    BY <1>1 DEF Ordered
  <2>1. /\ \A k \in DOMAIN toBoard : Packet(toBoard[k]) => toBoard[k].idx <= idx
        /\ \A k \in DOMAIN toUnit : Packet(toUnit[k]) => toUnit[k].idx <= idx
    BY DEF Fresh, Recent, NotAhead, Reached
  <2>2. \A j, k \in DOMAIN toBoard' :
          j <= k /\ Packet(toBoard'[j]) /\ Packet(toBoard'[k])
            => toBoard'[j].idx <= toBoard'[k].idx
    <3>1. TAKE j, k \in DOMAIN toBoard'
    <3>2. HAVE j <= k /\ Packet(toBoard'[j]) /\ Packet(toBoard'[k])
    <3>3. CASE k \in DOMAIN toBoard /\ toBoard'[k] = toBoard[k]
      <4>1. j \in DOMAIN toBoard /\ toBoard'[j] = toBoard[j]
        BY <1>4, <3>2, <3>3 DEF TypeOK
      <4>2. QED  BY <3>2, <3>3, <4>1 DEF Ordered
    <3>4. CASE k = Len(toBoard) + 1 /\ toBoard'[k] = frame
      <4>1. CASE j \in DOMAIN toBoard /\ toBoard'[j] = toBoard[j]
        BY <1>2, <2>1, <3>2, <3>4, <4>1
      <4>2. CASE toBoard'[j] = frame
        BY <1>2, <3>4, <4>2 DEF TypeOK
      <4>3. QED  BY <1>4, <4>1, <4>2
    <3>5. QED  BY <1>4, <3>3, <3>4
  <2>3. \A j \in DOMAIN toUnit, k \in DOMAIN toBoard' :
          Packet(toUnit[j]) /\ Packet(toBoard'[k]) => toUnit[j].idx <= toBoard'[k].idx
    BY <1>2, <1>4, <2>1 DEF Ordered
  <2>4. QED  BY <1>1, <2>2, <2>3 DEF Ordered
<1>10. Answered'
  BY <1>1, <1>2, <1>4 DEF Answered
<1>11. QED  BY <1>5, <1>6, <1>7, <1>8, <1>9, <1>10

\* Before the console goes on, the packets on the bus are repetitions of the one
\* it leaves.
LEMMA AcceptIInv == ASSUME IInv, Accept PROVE IInv'
<1> USE UpdateConstants DEF IInv
<1>1. /\ pc = "waitSeq" /\ pc' \in {"transmit", "result"}
      /\ pc' = "transmit" => idx' < PACKETS
      /\ idx' = idx + 1 /\ seq' = NextSeq /\ ackSeq = seq
      /\ seqErr' = 0 /\ retry' = 0 /\ tries' = 0
      /\ UNCHANGED <<resWait, started, waited, leftover, flag, ackSeq, toBoard, toUnit,
                     image>>
  BY DEF Accept, shared, bus
<1>2. seq' \in 1 .. SEQ_LAST /\ seq' # seq /\ idx < PACKETS /\ idx \in Nat
  BY <1>1, NextSeqDiffers DEF TypeOK, Retries, Transferring
<1>3. TypeOK'
  BY <1>1, <1>2 DEF TypeOK
<1>4. Retries' /\ Position'
  BY <1>1, <1>2 DEF Retries, Position, Transferring
<1>5. NotAhead'
  BY <1>1, <1>2, FrameFields DEF NotAhead, Reached, TypeOK
<1>6. Ordered'
  BY <1>1 DEF Ordered
<1>7. Fresh'
  <2> SUFFICES ASSUME ~leftover PROVE Fresh'
    BY <1>1 DEF Fresh
  <2>1. ASSUME NEW f \in Frames, Recent(f), Packet(f) => idx = 0 \/ f.idx = idx
        PROVE  Recent(f)'
    <3> SUFFICES ASSUME Packet(f) PROVE Recent(f)'
      BY DEF Recent
    <3>1. f.idx = idx /\ f.seq = seq /\ f.update = started
      BY <1>2, <2>1, FrameFields DEF Recent
    <3>2. QED  BY <1>1, <1>2, <3>1 DEF Recent
  <2>2. /\ \A k \in DOMAIN toBoard : Packet(toBoard[k]) => idx = 0 \/ toBoard[k].idx = idx
        /\ \A k \in DOMAIN toUnit : Packet(toUnit[k]) => idx = 0 \/ toUnit[k].idx = idx
    BY <1>1, <1>2 DEF Answered
  <2>3. /\ \A k \in DOMAIN toBoard : toBoard[k] \in Frames
        /\ \A k \in DOMAIN toUnit : toUnit[k] \in Frames
    BY DEF TypeOK
  <2>4. /\ \A k \in DOMAIN toBoard : Recent(toBoard[k])'
        /\ \A k \in DOMAIN toUnit : Recent(toUnit[k])'
    BY <1>1, <2>1, <2>2, <2>3 DEF Fresh, Recent
  <2>5. QED  BY <1>1, <2>4 DEF Fresh
<1>8. Answered'
  BY <1>1, <1>2 DEF Answered
<1>9. QED  BY <1>3, <1>4, <1>5, <1>6, <1>7, <1>8

LEMMA SeqErrorIInv == ASSUME IInv, SeqError PROVE IInv'
<1> USE UpdateConstants DEF IInv
<1>1. /\ pc = "waitSeq" /\ seqErr' = seqErr + 1 /\ waited' = waited + 1
      /\ UNCHANGED <<resWait, idx, seq, started, tries, leftover, ackSeq, image>>
  BY DEF SeqError
<1>2. /\ retry' = IF seqErr' < SEQ_WAIT THEN retry ELSE retry + 1
      /\ pc' = IF seqErr' < SEQ_WAIT THEN "waitSeq"
               ELSE IF retry' < RETRY_TX THEN "transmit" ELSE "result"
  BY <1>1 DEF SeqError, TypeOK
<1>3. /\ seqErr \in Nat /\ retry \in Nat /\ SEQ_WAIT \in Nat \ {0} /\ RETRY_TX \in Nat \ {0}
      /\ retry < RETRY_TX /\ tries = retry + 1
      /\ retry = IF seqErr < SEQ_WAIT THEN 0 ELSE seqErr - SEQ_WAIT + 1
      /\ waited = IF retry = 0 THEN seqErr ELSE 0
  BY <1>1 DEF Retries, Transferring, TypeOK
<1>4. /\ seqErr' \in 0 .. (SEQ_WAIT + RETRY_TX - 1) /\ retry' \in 0 .. RETRY_TX
      /\ waited' \in 0 .. SEQ_WAIT
      /\ retry' = IF seqErr' < SEQ_WAIT THEN 0 ELSE seqErr' - SEQ_WAIT + 1
  <2>1. CASE seqErr + 1 < SEQ_WAIT
    <3>1. retry = 0 /\ retry' = 0
      BY <1>1, <1>2, <1>3, <2>1
    <3>2. QED  BY <1>1, <1>3, <2>1, <3>1
  <2>2. CASE seqErr + 1 = SEQ_WAIT
    <3>1. retry = 0 /\ retry' = 1
      BY <1>1, <1>2, <1>3, <2>2
    <3>2. QED  BY <1>1, <1>3, <2>2, <3>1
  <2>3. CASE seqErr >= SEQ_WAIT
    <3>1. retry > 0 /\ retry' = retry + 1
      BY <1>1, <1>2, <1>3, <2>3
    <3>2. QED  BY <1>1, <1>3, <2>3, <3>1
  <2>4. QED  BY <1>3, <2>1, <2>2, <2>3
<1>5. Retries' /\ Position'
  <2>1. CASE seqErr' < SEQ_WAIT
    <3>1. pc' = "waitSeq" /\ retry' = 0 /\ retry = 0 /\ waited' = seqErr'
      BY <1>1, <1>2, <1>3, <1>4, <2>1
    <3>2. QED  BY <1>1, <1>3, <1>4, <2>1, <3>1 DEF Retries, Position, Transferring
  <2>2. CASE ~(seqErr' < SEQ_WAIT)
    <3>1. pc' = (IF retry' < RETRY_TX THEN "transmit" ELSE "result")
          /\ retry' = retry + 1 /\ retry' > 0
      BY <1>1, <1>2, <1>3, <1>4, <2>2
    <3>2. QED  BY <1>1, <1>3, <1>4, <2>2, <3>1 DEF Retries, Position, Transferring
  <2>3. QED  BY <2>1, <2>2
<1>6. CASE UNCHANGED <<flag, bus>>
  <2>1. TypeOK'
    BY <1>1, <1>2, <1>4, <1>6 DEF TypeOK, bus
  <2>2. QED  BY <1>1, <1>5, <1>6, <2>1, SamePacket
<1>7. CASE flag' = NONE /\ Send([cmd |-> "stop"])
  <2> DEFINE frame == [cmd |-> "stop"]
  <2>1. frame \in Frames /\ ~Packet(frame)
    BY DEF Frames, Packet
  <2>2. /\ NotAhead' /\ Ordered' /\ Fresh' /\ Answered'
        /\ toBoard' \in Seq(Frames) /\ Len(toBoard') <= BUS_MAX
    BY <1>1, <1>7, <2>1, NoPacketSent
  <2>3. flag' \in NONE .. RESULT
    BY <1>7 DEF NONE, RESULT
  <2>4. TypeOK'
    BY <1>1, <1>2, <1>4, <1>7, <2>2, <2>3 DEF TypeOK, Send
  <2>5. QED  BY <1>5, <2>2, <2>4
<1>8. QED  BY <1>6, <1>7 DEF SeqError

\* What is parsed answers the packet the console is at, and then the board has
\* stored it, or does not concern it.
LEMMA ParseIInv == ASSUME IInv, Parse PROVE IInv'
<1> USE UpdateConstants DEF IInv
<1> DEFINE frame == Head(toUnit)
<1>1. /\ toUnit # <<>> /\ toUnit' = Tail(toUnit) /\ Stored(frame)
      /\ UNCHANGED <<pc, resWait, seqErr, retry, idx, seq, started, waited, tries, leftover,
                     toBoard, image>>
  BY DEF Parse, console
<1>2. /\ toUnit' \in Seq(Frames) /\ Len(toUnit') <= BUS_MAX
      /\ frame \in Frames /\ 1 \in DOMAIN toUnit /\ frame = toUnit[1]
      /\ \A k \in DOMAIN toUnit' : k + 1 \in DOMAIN toUnit /\ toUnit'[k] = toUnit[k + 1]
  BY <1>1, TailElements DEF TypeOK
<1> HIDE DEF frame
<1>3. TypeOK'
  BY <1>1, <1>2, StoredTypes DEF TypeOK
<1>4. Retries' /\ Position'
  BY <1>1 DEF Retries, Position, Transferring
<1>5. NotAhead'
  BY <1>1, <1>2 DEF NotAhead, Reached
<1>6. Ordered'
  <2>1. DOMAIN toUnit \subseteq Int /\ DOMAIN toUnit' \subseteq Int
    BY <1>2 DEF TypeOK
  <2>2. \A j, k \in DOMAIN toUnit' : j <= k => j + 1 <= k + 1
    BY <2>1
  <2>3. QED  BY <1>1, <1>2, <2>2 DEF Ordered
<1>7. Fresh'
  BY <1>1, <1>2 DEF Fresh, Recent
<1>8. Answered'
  <2> SUFFICES ASSUME ~leftover, idx > 0, ackSeq' = seq PROVE Answered'
    BY <1>1 DEF Answered
  <2>1. idx \in Nat /\ seq # 0
    BY DEF TypeOK, Position
  <2>2. CASE UNCHANGED ackSeq
    BY <1>1, <1>2, <2>2 DEF Answered
  <2>3. CASE ~UNCHANGED ackSeq
    <3>1. Packet(frame) /\ frame.seq = seq
      BY <1>1, <2>1, <2>3 DEF Stored, Packet
    <3>2. frame.idx = idx /\ frame.idx \in image
      BY <1>2, <3>1 DEF Fresh, Recent
    <3>3. \A k \in DOMAIN toUnit : Packet(toUnit[k]) => toUnit[k].idx >= idx
      <4>1. \A k \in DOMAIN toUnit : 1 <= k
        BY DEF TypeOK
      <4>2. QED  BY <1>2, <3>1, <3>2, <4>1, FrameFields DEF Ordered, TypeOK
    <3>4. \A k \in DOMAIN toBoard : Packet(toBoard[k]) => toBoard[k].idx >= idx
      BY <1>2, <3>1, <3>2, FrameFields DEF Ordered, TypeOK
    <3>5. /\ \A k \in DOMAIN toUnit : Packet(toUnit[k]) => toUnit[k].idx = idx
          /\ \A k \in DOMAIN toBoard : Packet(toBoard[k]) => toBoard[k].idx = idx
      BY <2>1, <3>3, <3>4 DEF Fresh, Recent
    <3>6. QED  BY <1>1, <1>2, <3>2, <3>5 DEF Answered
  <2>4. QED  BY <2>2, <2>3
<1>9. QED  BY <1>3, <1>4, <1>5, <1>6, <1>7, <1>8

\* The first frame of the one direction becomes the last of the other, or is lost.
LEMMA BoardIInv == ASSUME IInv, Board PROVE IInv'
<1> USE UpdateConstants DEF IInv
<1> DEFINE frame == Head(toBoard)
<1>1. /\ toBoard # <<>> /\ toBoard' = Tail(toBoard) /\ Sent(toUnit, toUnit', frame)
      /\ image' = IF Packet(frame) /\ frame.update = started
                  THEN image \cup {frame.idx} ELSE image
      /\ UNCHANGED <<pc, resWait, seqErr, retry, idx, seq, started, waited, tries, leftover,
                     flag, ackSeq>>
  BY DEF Board, Reply, console, shared
<1>2. /\ toBoard' \in Seq(Frames) /\ Len(toBoard') <= BUS_MAX
      /\ frame \in Frames /\ 1 \in DOMAIN toBoard /\ frame = toBoard[1]
      /\ \A k \in DOMAIN toBoard' : k + 1 \in DOMAIN toBoard /\ toBoard'[k] = toBoard[k + 1]
  BY <1>1, TailElements DEF TypeOK
<1> HIDE DEF frame
<1>3. /\ toUnit' \in Seq(Frames) /\ Len(toUnit') <= BUS_MAX
      /\ \A k \in DOMAIN toUnit' : \/ k \in DOMAIN toUnit /\ toUnit'[k] = toUnit[k]
                                   \/ k = Len(toUnit) + 1 /\ toUnit'[k] = frame
  BY <1>1, <1>2, SentElements DEF TypeOK
<1>4. image \subseteq image' /\ image' \subseteq 0 .. (PACKETS - 1)
  BY <1>1, <1>2, FrameFields DEF TypeOK
<1>5. TypeOK'
  BY <1>1, <1>2, <1>3, <1>4 DEF TypeOK
<1>6. Retries' /\ Position'
  BY <1>1 DEF Retries, Position, Transferring
<1>7. NotAhead'
  BY <1>1, <1>2, <1>3 DEF NotAhead, Reached
<1>8. Ordered'
  <2> SUFFICES ASSUME ~leftover PROVE Ordered'
    BY <1>1 DEF Ordered
  <2>1. /\ DOMAIN toBoard \subseteq Int /\ DOMAIN toBoard' \subseteq Int
        /\ \A k \in DOMAIN toBoard : 1 <= k
        /\ \A k \in DOMAIN toUnit : k < Len(toUnit) + 1
    BY <1>2 DEF TypeOK
  <2>2. \A j, k \in DOMAIN toBoard' :
          j <= k /\ Packet(toBoard'[j]) /\ Packet(toBoard'[k])
            => toBoard'[j].idx <= toBoard'[k].idx
    <3>1. \A j, k \in DOMAIN toBoard' : j <= k => j + 1 <= k + 1
      BY <2>1
    <3>2. QED  BY <1>2, <3>1 DEF Ordered
  <2>3. /\ \A k \in DOMAIN toBoard :
             Packet(frame) /\ Packet(toBoard[k]) => frame.idx <= toBoard[k].idx
        /\ \A j \in DOMAIN toUnit :
             Packet(toUnit[j]) /\ Packet(frame) => toUnit[j].idx <= frame.idx
    BY <1>2, <2>1 DEF Ordered
  <2>4. \A j, k \in DOMAIN toUnit' :
          j <= k /\ Packet(toUnit'[j]) /\ Packet(toUnit'[k])
            => toUnit'[j].idx <= toUnit'[k].idx
    <3>1. TAKE j, k \in DOMAIN toUnit'
    <3>2. HAVE j <= k /\ Packet(toUnit'[j]) /\ Packet(toUnit'[k])
    <3>3. CASE k \in DOMAIN toUnit /\ toUnit'[k] = toUnit[k]
      <4>1. j \in DOMAIN toUnit /\ toUnit'[j] = toUnit[j]
        BY <1>3, <3>2, <3>3 DEF TypeOK
      <4>2. QED  BY <3>2, <3>3, <4>1 DEF Ordered
    <3>4. CASE k = Len(toUnit) + 1 /\ toUnit'[k] = frame
      <4>1. CASE j \in DOMAIN toUnit /\ toUnit'[j] = toUnit[j]
        BY <2>3, <3>2, <3>4, <4>1
      <4>2. CASE toUnit'[j] = frame
        BY <1>2, <3>2, <3>4, <4>2, FrameFields
      <4>3. QED  BY <1>3, <4>1, <4>2
    <3>5. QED  BY <1>3, <3>3, <3>4
  <2>5. \A j \in DOMAIN toUnit', k \in DOMAIN toBoard' :
          Packet(toUnit'[j]) /\ Packet(toBoard'[k]) => toUnit'[j].idx <= toBoard'[k].idx
    BY <1>2, <1>3, <2>3 DEF Ordered
  <2>6. QED  BY <1>1, <2>2, <2>4, <2>5 DEF Ordered
<1>9. Fresh'
  <2> SUFFICES ASSUME ~leftover PROVE Fresh'
    BY <1>1 DEF Fresh
  <2>1. Recent(frame) /\ (Packet(frame) => frame.idx \in image')
    BY <1>1, <1>2 DEF Fresh, Recent
  <2>2. QED  BY <1>1, <1>2, <1>3, <1>4, <2>1 DEF Fresh, Recent
<1>10. Answered'
  BY <1>1, <1>2, <1>3, <1>4 DEF Answered
<1>11. QED  BY <1>5, <1>6, <1>7, <1>8, <1>9, <1>10

LEMMA StepIInv == IInv /\ [Next]_vars => IInv'
<1> SUFFICES ASSUME IInv, [Next]_vars PROVE IInv'
  OBVIOUS
<1>1. CASE Start
  BY <1>1, StartIInv
<1>2. CASE Console
  BY <1>2, PreludeIInv, TransmitIInv, AcceptIInv, SeqErrorIInv DEF Console
<1>3. CASE Parse \/ Board
  BY <1>3, ParseIInv, BoardIInv
<1>4. CASE UNCHANGED vars
  <2>1. UNCHANGED <<idx, seq, started, leftover, ackSeq, bus, image>>
    BY <1>4 DEF vars, console, shared
  <2>2. TypeOK' /\ Retries' /\ Position'
    BY <1>4 DEF vars, console, shared, bus, IInv, TypeOK, Retries, Position, Transferring
  <2>3. QED  BY <2>1, <2>2, SamePacket DEF IInv
<1>5. QED  BY <1>1, <1>2, <1>3, <1>4 DEF Next
-----------------------------------------------------------------------------
THEOREM Inductive == Spec => []IInv
  BY InitIInv, StepIInv, PTL DEF Spec

\* The variables keep their types: the counters stay within the limits, the
\* error counter below SEQ_WAIT + RETRY_TX, the number within one byte.
THEOREM TypeCorrect == Spec => []TypeOK
<1>1. IInv => TypeOK
  BY DEF IInv
<1>2. QED  BY <1>1, Inductive, PTL

\* Whatever the packets before it needed, a packet has all its transmissions
\* before the update is stopped for it; its first one is waited for in full, and
\* each of the others for a single wait.
THEOREM PacketsTried == Spec => EveryPacketTried
<1> DEFINE Tried ==
      /\ pc = "waitSeq" /\ pc' = "result" /\ idx' = idx => tries = RETRY_TX
      /\ pc = "waitSeq" /\ ackSeq # seq /\ pc' \in {"transmit", "result"}
           => waited' = IF tries = 1 THEN SEQ_WAIT ELSE 1
<1>1. IInv /\ [Next]_vars => [Tried]_vars
  <2> SUFFICES ASSUME IInv, Next, pc = "waitSeq", pc' \in {"transmit", "result"},
                      idx' = idx \/ ackSeq # seq
               PROVE  Tried
    OBVIOUS
  <2>1. SeqError
    BY DEF Next, Console, Start, GiveUp, WaitOn, SendSize, BeginDownload, Transmit,
           Accept, AskResult, Parse, Board, IInv, TypeOK
  <2>2. /\ seqErr \in Nat /\ retry \in Nat /\ SEQ_WAIT \in Nat \ {0}
        /\ RETRY_TX \in Nat \ {0} /\ retry < RETRY_TX /\ tries = retry + 1
        /\ retry = IF seqErr < SEQ_WAIT THEN 0 ELSE seqErr - SEQ_WAIT + 1
        /\ waited = IF retry = 0 THEN seqErr ELSE 0
    BY UpdateConstants DEF IInv, TypeOK, Retries, Transferring
  <2>3. /\ seqErr' = seqErr + 1 /\ waited' = waited + 1
        /\ seqErr' >= SEQ_WAIT /\ retry' = retry + 1
        /\ pc' = "result" => ~(retry' < RETRY_TX)
    BY <2>1, <2>2 DEF SeqError
  <2>4. pc' = "result" => tries = RETRY_TX
    BY <2>2, <2>3
  <2>5. waited' = IF tries = 1 THEN SEQ_WAIT ELSE 1
    <3>1. CASE retry = 0
      <4>1. tries = 1 /\ waited' = seqErr + 1 /\ seqErr < SEQ_WAIT
        BY <2>2, <2>3, <3>1
      <4>2. QED  BY <2>2, <2>3, <4>1
    <3>2. CASE retry # 0
      BY <2>2, <2>3, <3>2
    <3>3. QED  BY <3>1, <3>2
  <2>6. QED  BY <2>4, <2>5
<1>2. QED  BY <1>1, Inductive, PTL DEF Spec, EveryPacketTried

\* The update begins as the abstract transfer does.
LEMMA TransferInit == Init => Transfer!Init
  BY DEF Init, Transfer!Init, Transferring

\* Every step of the update is one of the abstract transfer, or none.
LEMMA TransferStep == IInv /\ [Next]_vars => [Transfer!Next]_(Transfer!vars)
<1> SUFFICES ASSUME IInv, [Next]_vars
             PROVE  Transfer!Next \/ UNCHANGED Transfer!vars
  OBVIOUS
<1> USE UpdateConstants DEF Transferring, Transfer!vars
<1>1. CASE Start
  <2>1. leftover' \in BOOLEAN
    BY <1>1 DEF Start
  <2>2. Transfer!Announce
    BY <1>1, <2>1 DEF Start, Transfer!Announce
  <2>3. QED  BY <2>2 DEF Transfer!Next
<1>2. CASE GiveUp \/ WaitOn \/ SendSize \/ Transmit \/ AskResult \/ Parse
  BY <1>2 DEF GiveUp, WaitOn, SendSize, Transmit, AskResult, Parse, console, Counters, bus
<1>3. CASE BeginDownload
  <2>1. Transfer!Begin
    BY <1>3 DEF BeginDownload, Counters, IInv, Position, Transfer!Begin
  <2>2. QED  BY <2>1 DEF Transfer!Next
<1>4. CASE Accept
  <2>1. idx < PACKETS /\ idx \in Nat /\ PACKETS \in Nat
    BY <1>4 DEF Accept, IInv, TypeOK, Retries
  <2>2. idx = 0 \/ idx \in image \/ leftover
    BY <1>4, <2>1 DEF Accept, IInv, TypeOK, Answered
  <2>3. /\ Transferring /\ idx' = idx + 1 /\ UNCHANGED <<image, leftover>>
        /\ Transferring' = (idx' < PACKETS)
    BY <1>4 DEF Accept
  <2>4. Transfer!Pass
    BY <2>1, <2>2, <2>3 DEF Transfer!Pass
  <2>5. QED  BY <2>4 DEF Transfer!Next
<1>5. CASE SeqError
  <2>1. Transferring /\ UNCHANGED <<idx, image, leftover>>
    BY <1>5 DEF SeqError
  <2>2. CASE Transferring'
    BY <2>1, <2>2
  <2>3. CASE ~Transferring'
    BY <2>1, <2>3 DEF Transfer!Next, Transfer!End
  <2>4. QED  BY <2>2, <2>3
<1>6. CASE Board
  <2> DEFINE frame == Head(toBoard)
  <2>1. frame \in Frames /\ 1 \in DOMAIN toBoard /\ frame = toBoard[1]
    BY <1>6, TailElements DEF Board, IInv, TypeOK
  <2>2. UNCHANGED <<pc, idx, leftover>>
    BY <1>6 DEF Board, console
  <2>3. CASE Packet(frame) /\ frame.update = started
    <3>1. image' = image \cup {frame.idx}
      BY <1>6, <2>3 DEF Board
    <3>2. frame.idx \in 0 .. (PACKETS - 1) /\ frame.idx <= idx
      BY <2>1, <2>3, FrameFields DEF IInv, NotAhead, Reached
    <3>3. Transfer!Store(frame.idx)
      BY <2>2, <3>1, <3>2 DEF Transfer!Store
    <3>4. QED  BY <3>2, <3>3 DEF Transfer!Next
  <2>4. CASE ~(Packet(frame) /\ frame.update = started)
    <3>1. UNCHANGED image
      BY <1>6, <2>4 DEF Board
    <3>2. QED  BY <2>2, <3>1
  <2>5. QED  BY <2>3, <2>4
<1>7. CASE UNCHANGED vars
  BY <1>7 DEF vars, console
<1>8. QED  BY <1>1, <1>2, <1>3, <1>4, <1>5, <1>6, <1>7 DEF Next, Console

\* The download implements the abstract transfer: whatever is lost, repeated or
\* late, the console passes a packet only when the board has stored it, packet 0
\* and downloads begun among the packets of an earlier one excepted.
THEOREM Refinement == Spec => Implements
  BY TransferInit, TransferStep, Inductive, PTL DEF Spec, Implements, Transfer!Spec
===============================================================================
