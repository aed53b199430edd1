----------------------------- MODULE IOLiveProofs -----------------------------
(***************************************************************************)
(* Proofs about IOLive for every limit of missed checks (three or more),   *)
(* every interval of recovery attempts and every size of the buffer.       *)
(*                                                                         *)
(* The alarm counts checks that missed, the property polls that went       *)
(* unanswered.  They differ by the check that follows a search, for which  *)
(* nothing was polled (Unpolled); Misses shows that they never differ by   *)
(* more than one before the alarm.                                         *)
(***************************************************************************)
EXTENDS IOLive, TLAPS

\* The alarm the unit sees is the one that is counted for, and without it the
\* count is below the limit: the byte has not wrapped.
Alarm ==
  /\ totalErr <=> responseErr
  /\ ~totalErr => errCnt < ERR_LIMIT

\* Nothing was polled only before the first check, for which the board counts as
\* alive, and after a search, which is not repeated at the next check.
Unpolled == found /\ ~polled => live \/ (waitCnt = 0 /\ retryFlag)

\* Without the alarm: the first two misses counted are two polls missed, but for one.
\* If that one is used up, the next miss is a poll's.
Misses ==
  ~totalErr =>
    /\ errCnt = 1 /\ unanswered = 0 => polled /\ retryFlag
    /\ errCnt = 2 => unanswered >= 1
    /\ errCnt = 2 /\ unanswered = 1 => polled
    /\ errCnt >= 3 => unanswered = 2

\* What a search found has not been used yet as long as the next recovery may use it.
Found == retryFlag /\ retryId => answered

IInv == TypeOK /\ Alarm /\ Unpolled /\ Misses /\ Found
-----------------------------------------------------------------------------
LEMMA InitIInv == Init => IInv
<1> SUFFICES ASSUME Init PROVE IInv
  OBVIOUS
<1> USE LiveConstants DEF Init
<1>1. /\ found \in BOOLEAN /\ due \in BOOLEAN /\ live \in BOOLEAN /\ totalErr \in BOOLEAN
      /\ retryFlag \in BOOLEAN /\ retryId \in BOOLEAN /\ responseErr \in BOOLEAN
  OBVIOUS
<1>2. /\ updating \in BOOLEAN /\ boardUp \in BOOLEAN /\ polled \in BOOLEAN
      /\ answered \in BOOLEAN
  OBVIOUS
<1>3. rx \in Seq(Frames) /\ Len(rx) <= RX_MAX
  OBVIOUS
<1>4. request \subseteq Requests
  BY DEF Requests
<1>5. TypeOK
  BY <1>1, <1>2, <1>3, <1>4 DEF TypeOK
<1>6. Alarm /\ Unpolled /\ Misses /\ Found
  BY DEF Alarm, Unpolled, Misses, Found
<1>7. QED  BY <1>5, <1>6 DEF IInv

\* A missed check leaves the counts as they must be, whatever it goes on to do, and
\* raises the alarm only after two unanswered polls.
LEMMA RaiseCounts ==
  ASSUME IInv, Judge, ~live, Raise
  PROVE  /\ errCnt' \in 0 .. (U8_MOD - 1) /\ totalErr' \in BOOLEAN
         /\ responseErr' \in BOOLEAN /\ unanswered' \in 0 .. 2
         /\ Alarm'
         /\ ~totalErr' =>
              /\ errCnt' = 1 /\ unanswered' = 0 => ~polled /\ retryFlag
              /\ errCnt' = 2 => unanswered' >= 1
              /\ errCnt' = 2 /\ unanswered' = 1 => ~polled \/ retryFlag
              /\ errCnt' >= 3 => unanswered' = 2
         /\ ~responseErr /\ responseErr' => unanswered' >= 2
<1> USE LiveConstants DEF IInv
<1>1. /\ totalErr \in BOOLEAN /\ responseErr \in BOOLEAN
      /\ errCnt \in Nat /\ errCnt < U8_MOD /\ unanswered \in {0, 1, 2}
      /\ ERR_LIMIT \in Nat /\ U8_MOD \in Nat /\ ERR_LIMIT >= 3 /\ U8_MOD > ERR_LIMIT
  BY DEF TypeOK
<1>2. /\ errCnt' = (errCnt + 1) % U8_MOD
      /\ totalErr' <=> totalErr \/ errCnt' >= ERR_LIMIT
      /\ responseErr' <=> responseErr \/ (~totalErr /\ errCnt' >= ERR_LIMIT)
      /\ unanswered' = IF polled /\ unanswered < 2 THEN unanswered + 1 ELSE unanswered
  BY <1>1 DEF Raise, RaiseAt
<1>3. errCnt' \in 0 .. (U8_MOD - 1) /\ unanswered' \in 0 .. 2
  BY <1>1, <1>2
<1>4. totalErr' \in BOOLEAN /\ responseErr' \in BOOLEAN
  BY DEF Raise, RaiseAt
<1>5. CASE totalErr
  BY <1>1, <1>2, <1>3, <1>4, <1>5 DEF Alarm
<1>6. CASE ~totalErr
  <2>1. errCnt + 1 < U8_MOD /\ errCnt' = errCnt + 1
    BY <1>1, <1>2, <1>6 DEF Alarm
  <2>2. ~polled => retryFlag
    BY DEF Judge, Unpolled
  <2>3. Alarm'
    BY <1>1, <1>2, <1>6, <2>1 DEF Alarm
  <2>4. errCnt' = 1 /\ unanswered' = 0 => ~polled /\ retryFlag
    BY <1>1, <1>2, <2>1, <2>2
  <2>5. errCnt' = 2 => unanswered' >= 1
    BY <1>1, <1>2, <1>6, <2>1 DEF Misses
  <2>6. errCnt' = 2 /\ unanswered' = 1 => ~polled \/ retryFlag
    BY <1>1, <1>2, <1>6, <2>1 DEF Misses
  <2>7. errCnt' >= 3 => unanswered' = 2
    BY <1>1, <1>2, <1>6, <2>1 DEF Misses
  <2>8. ~responseErr /\ responseErr' => unanswered' >= 2
    BY <1>1, <1>2, <1>6, <2>1, <2>7
  <2>9. QED  BY <1>3, <1>4, <2>3, <2>4, <2>5, <2>6, <2>7, <2>8
<1>7. QED  BY <1>5, <1>6

\* IOM_IOBdLiveCheck, one case for each of its ways out.
LEMMA LiveCheckIInv == ASSUME IInv, LiveCheck PROVE IInv'
<1> USE LiveConstants DEF IInv, EndCheck
<1>1. CASE NotDue \/ Suspended
  <2>1. /\ UNCHANGED <<found, live, monitor, retryId, updating, request, rx, boardUp, polled,
                       answered>>
        /\ turn' = "parse" /\ due' \in {found, FALSE}
    BY <1>1 DEF NotDue, Suspended
  <2>2. due' \in BOOLEAN
    BY <2>1 DEF TypeOK
  <2>3. QED  BY <2>1, <2>2 DEF TypeOK, Alarm, Unpolled, Misses, Found, monitor
<1>2. CASE Answered
  <2>1. TypeOK'
    <3>1. /\ errCnt' \in 0 .. (U8_MOD - 1) /\ unanswered' \in 0 .. 2
          /\ totalErr' \in BOOLEAN /\ responseErr' \in BOOLEAN
      <4>1. CASE Release
        <5>1. errCnt' = 0 /\ unanswered' = 0 /\ ~totalErr' /\ ~responseErr'
          BY <4>1 DEF Release
        <5>2. totalErr' \in BOOLEAN /\ responseErr' \in BOOLEAN
          BY <4>1 DEF Release
        <5>3. QED  BY <5>1, <5>2
      <4>2. CASE UNCHANGED <<errCnt, totalErr, responseErr, unanswered>>
        BY <4>2 DEF TypeOK
      <4>3. QED  BY <1>2, <4>1, <4>2 DEF Answered
    <3>2. request' \subseteq Requests
      BY <1>2 DEF Answered, Poll, Requests, TypeOK
    <3>3. /\ UNCHANGED <<found, updating, rx, boardUp, waitCnt, retryFlag, retryId, answered>>
          /\ turn' = "parse" /\ due' = FALSE /\ live' = FALSE /\ polled' = TRUE
      BY <1>2 DEF Answered, Judge, Poll
    <3>4. QED  BY <3>1, <3>2, <3>3 DEF TypeOK
  <2>2. Alarm' /\ Misses'
    BY <1>2 DEF Answered, Release, Poll, Alarm, Misses, TypeOK
  <2>3. Unpolled' /\ Found'
    BY <1>2 DEF Answered, Poll, Unpolled, Found
  <2>4. QED  BY <2>1, <2>2, <2>3
<1>3. CASE Missed
  <2> USE <1>3 DEF Missed
  <2>1. Judge /\ ~live /\ Raise
    OBVIOUS
  <2>2. TypeOK' /\ Alarm'
    <3>1. request' \subseteq Requests /\ waitCnt' \in 0 .. (WAIT_LIMIT - 1)
      BY DEF Poll, Requests, TypeOK
    <3>2. /\ UNCHANGED <<found, updating, rx, boardUp, retryFlag, retryId, answered>>
          /\ turn' = "parse" /\ due' = FALSE /\ live' = FALSE /\ polled' = TRUE
      BY DEF Judge, Poll
    <3>3. QED  BY <2>1, <3>1, <3>2, RaiseCounts DEF TypeOK
  <2>3. polled' /\ UNCHANGED <<retryFlag, retryId, answered>>
    BY DEF Poll
  <2>4. Misses'
    BY <2>1, <2>3, RaiseCounts DEF Misses
  <2>5. QED  BY <2>2, <2>3, <2>4 DEF Unpolled, Found
<1>4. CASE Search
  <2> USE <1>4 DEF Search
  <2>1. Judge /\ ~live /\ Raise
    OBVIOUS
  <2>2. TypeOK' /\ Alarm'
    <3>1. request' \subseteq Requests /\ waitCnt' \in 0 .. (WAIT_LIMIT - 1)
      BY DEF Requests, TypeOK
    <3>2. /\ UNCHANGED <<found, updating, rx, boardUp, live>>
          /\ turn' = "parse" /\ due' = FALSE /\ retryFlag' = TRUE
          /\ retryId' = FALSE /\ polled' = FALSE
      BY DEF Judge
    <3>3. QED  BY <2>1, <3>1, <3>2, RaiseCounts DEF TypeOK
  <2>3. polled
    BY <2>1 DEF Judge, Unpolled, TypeOK
  <2>4. Misses'
    BY <2>1, <2>3, RaiseCounts DEF Misses
  <2>5. QED  BY <2>2, <2>4 DEF Unpolled, Found
<1>5. CASE Recover
  <2> USE <1>5 DEF Recover
  <2>1. Judge /\ ~live /\ Raise
    OBVIOUS
  <2>2. TypeOK' /\ Alarm'
    <3>1. request' \subseteq Requests /\ waitCnt' \in 0 .. (WAIT_LIMIT - 1)
      BY DEF Poll, Requests, TypeOK
    <3>2. /\ UNCHANGED <<found, updating, rx, boardUp, retryId>>
          /\ turn' = "parse" /\ due' = FALSE /\ retryFlag' = FALSE
          /\ live' = FALSE /\ polled' = TRUE /\ answered' \in BOOLEAN
      BY DEF Judge, Poll, TypeOK
    <3>3. QED  BY <2>1, <3>1, <3>2, RaiseCounts DEF TypeOK
  <2>3. polled' /\ ~retryFlag'
    BY DEF Poll
  <2>4. polled
    BY <2>1 DEF Judge, Unpolled, TypeOK
  <2>5. Misses'
    BY <2>1, <2>3, <2>4, RaiseCounts DEF Misses
  <2>6. QED  BY <2>2, <2>3, <2>5 DEF Unpolled, Found
<1>6. QED  BY <1>1, <1>2, <1>3, <1>4, <1>5 DEF LiveCheck

\* IOM_Parser.
LEMMA ParserIInv == ASSUME IInv, Parser PROVE IInv'
<1> USE LiveConstants DEF IInv, EndParse, Receive, monitor, Frames, Requests
<1>1. CASE NothingReceived
  BY <1>1 DEF NothingReceived, TypeOK, Alarm, Unpolled, Misses, Found
<1>2. CASE ReceiveCheck \/ ReceiveSetReq \/ ReceiveInfo
  <2>1. rx' \in Seq(Frames) /\ Len(rx') <= RX_MAX
    <3>1. rx # <<>> /\ rx' = Tail(rx)
      BY <1>2 DEF ReceiveCheck, ReceiveSetReq, ReceiveInfo
    <3>2. QED  BY <3>1 DEF TypeOK
  <2>2. CASE ReceiveCheck
    BY <2>1, <2>2 DEF ReceiveCheck, TypeOK, Alarm, Unpolled, Misses, Found
  <2>3. CASE ReceiveSetReq
    BY <2>1, <2>3 DEF ReceiveSetReq, TypeOK, Alarm, Unpolled, Misses, Found
  <2>4. CASE ReceiveInfo
    BY <2>1, <2>4 DEF ReceiveInfo, TypeOK, Alarm, Unpolled, Misses, Found
  <2>5. QED  BY <1>2, <2>2, <2>3, <2>4
<1>3. QED  BY <1>1, <1>2 DEF Parser

\* The board, the bus and the update leave what the supervision counts alone.
LEMMA BoardIInv == ASSUME IInv, Board \/ Update PROVE IInv'
<1> USE LiveConstants DEF IInv, local, monitor
<1>1. UNCHANGED local
  BY DEF Board, BoardAnswers, Lose, BoardFails, BoardStarts, Update
<1>2. Alarm' /\ Unpolled' /\ Misses' /\ Found'
  BY <1>1 DEF Alarm, Unpolled, Misses, Found
<1>3. request' \subseteq Requests
  BY DEF Board, BoardAnswers, Lose, BoardFails, BoardStarts, Update, TypeOK
<1>4. rx' \in Seq(Frames) /\ Len(rx') <= RX_MAX
  <2>1. ASSUME NEW frame \in Frames, Deliver(frame)
        PROVE  rx' \in Seq(Frames) /\ Len(rx') <= RX_MAX
    BY <2>1 DEF Deliver, TypeOK
  <2>2. UNCHANGED rx \/ \E frame \in Frames : Deliver(frame)
    BY DEF Board, BoardAnswers, Lose, BoardFails, BoardStarts, Update, Requests, Frames
  <2>3. QED  BY <2>1, <2>2 DEF TypeOK
<1>5. updating' \in BOOLEAN /\ boardUp' \in BOOLEAN
  BY DEF Board, BoardAnswers, Lose, BoardFails, BoardStarts, Update, TypeOK
<1>6. TypeOK'
  BY <1>1, <1>3, <1>4, <1>5 DEF TypeOK
<1>7. QED  BY <1>2, <1>6

LEMMA StepIInv == IInv /\ [Next]_vars => IInv'
<1> SUFFICES ASSUME IInv, [Next]_vars PROVE IInv'
  OBVIOUS
<1>1. CASE Next
  BY <1>1, LiveCheckIInv, ParserIInv, BoardIInv DEF Next
<1>2. CASE UNCHANGED vars
  BY <1>2 DEF vars, monitor, IInv, TypeOK, Alarm, Unpolled, Misses, Found
<1>3. QED  BY <1>1, <1>2
-----------------------------------------------------------------------------
THEOREM Inductive == Spec => []IInv
  BY InitIInv, StepIInv, PTL DEF Spec

\* The variables keep their types; the error counter stays a byte.
THEOREM TypeCorrect == Spec => []TypeOK
<1>1. IInv => TypeOK
  BY DEF IInv
<1>2. QED  BY <1>1, Inductive, PTL

\* However the counters were left by earlier outages, an alarm is not raised before
\* two polls since the last release went unanswered.
THEOREM AlarmAfterTwoPolls == Spec => AlarmNeedsMisses
<1>1. IInv /\ [Next]_vars => [~responseErr /\ responseErr' => unanswered' >= 2]_vars
  <2> SUFFICES ASSUME IInv, Next, ~responseErr, responseErr' PROVE unanswered' >= 2
    OBVIOUS
  <2>1. Judge /\ ~live /\ Raise
    BY DEF Next, LiveCheck, NotDue, Suspended, Answered, Release, Missed, Search, Recover,
           Parser, NothingReceived, ReceiveCheck, ReceiveSetReq, ReceiveInfo, Receive,
           EndParse, Board, BoardAnswers, Lose, BoardFails, BoardStarts, Update, local,
           monitor
  <2>2. QED  BY <2>1, RaiseCounts
<1>2. QED  BY <1>1, Inductive, PTL DEF Spec, AlarmNeedsMisses

\* One answer to a search leads to one set-up at most, however outages, searches and
\* late answers follow each other.
THEOREM AnswersUsedOnce == Spec => SetUpNeedsAnswer
<1> DEFINE Assigned == turn = "check" /\ "assign" \in request' \ request => answered
<1>1. IInv /\ [Next]_vars => [Assigned]_vars
  <2> SUFFICES ASSUME IInv, Next, turn = "check", "assign" \in request' \ request
               PROVE  answered
    OBVIOUS
  <2>1. Recover /\ retryId
    BY DEF Next, LiveCheck, NotDue, Suspended, Answered, Poll, Missed, Search, Recover,
           Parser, NothingReceived, ReceiveCheck, ReceiveSetReq, ReceiveInfo, Receive,
           Board, BoardAnswers, Lose, BoardFails, BoardStarts, Update, local
  <2>2. QED  BY <2>1 DEF IInv, Found, Recover
<1>2. QED  BY <1>1, Inductive, PTL DEF Spec, SetUpNeedsAnswer
===============================================================================
