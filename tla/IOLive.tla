------------------------------- MODULE IOLive --------------------------------
(***************************************************************************)
(* The supervision of the digital input/output board over CAN, in          *)
(* sdk/src/IOManager.c: the thread IOM_ProcessMain alternates              *)
(* IOM_IOBdLiveCheck, which every other time judges the last poll and      *)
(* sends the next, and IOM_Parser, which takes at most one frame.  Several *)
(* missed polls raise u8IOResponseErrFlag; in an outage the board is       *)
(* searched for (BOARD_CHECK) and set up again (DIO_ASSIGN).               *)
(*                                                                         *)
(* One board, as in IOM_Init.  LiveID and RetryID are modelled by whether  *)
(* they equal InitID.  The board and the bus are the environment: frames   *)
(* may be lost in both directions and answers may be late.  The firmware   *)
(* update, module IOUpdate, is here only the range of s8UpdatCheckFlag     *)
(* that suspends the check.                                                *)
(***************************************************************************)
EXTENDS Naturals, Sequences

CONSTANTS ERR_LIMIT,    \* missed checks that raise the alarm (3)
          WAIT_LIMIT,   \* missed checks between recovery attempts (5)
          U8_MOD,       \* the error counter's range (256)
          RX_MAX        \* frames the receive buffer of the socket holds

ASSUME LiveConstants ==
  /\ ERR_LIMIT \in Nat /\ ERR_LIMIT >= 3
  /\ WAIT_LIMIT \in Nat /\ WAIT_LIMIT >= 2 /\ RX_MAX \in Nat \ {0}
  /\ U8_MOD \in Nat /\ U8_MOD > ERR_LIMIT

VARIABLES
  found,        \* IOM_Init found the board (g_u32TotIOBdCnt > 0)
  turn,         \* what IOM_ProcessMain does next: "check" or "parse"
  due,          \* g_LiveCheckTmCnt >= CheckTm
  live,         \* s32LiveID = s32InitID
  errCnt, totalErr, waitCnt, retryFlag,
  retryId,      \* s32RetryID = s32InitID
  responseErr,  \* u8IOResponseErrFlag, what the rest of the unit sees
  updating,     \* s8UpdatCheckFlag is in the range that suspends the check
  request,      \* requests on their way to the board
  rx,           \* frames received from the board
  boardUp,
  unanswered,   \* history: polls missed since the last release, up to 2
  polled,       \* history: a poll was sent since the last judged check
  answered      \* history: a BOARD_CHECK frame since the last set-up of a recovery

monitor == <<errCnt, totalErr, waitCnt, retryFlag, responseErr, unanswered>>
vars == <<found, turn, due, live, monitor, retryId, updating, request, rx,
          boardUp, polled, answered>>

Requests == {"info", "check", "assign"}
Frames   == {"info", "check", "setReq"}

\* IOM_Init: the board answered within 500 microseconds or it did not; the
\* loop runs in either case.
Init ==
  /\ found \in BOOLEAN
  /\ turn = "check" /\ due = FALSE
  /\ live = found
  /\ errCnt = 0 /\ totalErr = FALSE /\ waitCnt = 0
  /\ retryFlag = FALSE /\ retryId = FALSE
  /\ responseErr = FALSE /\ updating = FALSE
  /\ request = (IF found THEN {"assign"} ELSE {})
  /\ rx = <<>> /\ boardUp = TRUE
  /\ unanswered = 0 /\ polled = FALSE /\ answered = FALSE
-----------------------------------------------------------------------------
(* IOM_IOBdLiveCheck                                                       *)

EndCheck == turn' = "parse" /\ UNCHANGED <<found, updating, rx, boardUp>>

\* The end of a judged check: forget the answer, ask for the next.
Poll(requests) ==
  /\ live' = FALSE
  /\ request' = requests \cup {"info"}
  /\ polled' = TRUE

\* Not yet time, or no board: only the time is counted.
NotDue ==
  /\ turn = "check" /\ (~found \/ ~due)
  /\ due' = found
  /\ EndCheck
  /\ UNCHANGED <<live, monitor, retryId, request, polled, answered>>

Suspended ==
  /\ turn = "check" /\ found /\ due /\ updating
  /\ due' = FALSE
  /\ EndCheck
  /\ UNCHANGED <<live, monitor, retryId, request, polled, answered>>

Judge == turn = "check" /\ found /\ due /\ ~updating /\ due' = FALSE

\* The alarm is released; errors counted without an alarm stay counted.
Release ==
  /\ responseErr' = FALSE /\ totalErr' = FALSE /\ errCnt' = 0
  /\ unanswered' = 0

Answered ==
  /\ Judge /\ live
  /\ IF totalErr THEN Release
     ELSE UNCHANGED <<errCnt, totalErr, responseErr, unanswered>>
  /\ Poll(request)
  /\ EndCheck
  /\ UNCHANGED <<waitCnt, retryFlag, retryId, answered>>

\* Store the error count e and raise the alarm if it has reached the limit.
RaiseAt(e, limit) ==
  LET raise == ~totalErr /\ e >= limit
  IN  /\ errCnt' = e
      /\ totalErr' = (totalErr \/ raise)
      /\ responseErr' = (responseErr \/ raise)
      /\ unanswered' = IF polled /\ unanswered < 2 THEN unanswered + 1
                                                   ELSE unanswered

\* Mutants: the count is wider than a byte; one miss less is enough; the count
\* is not stored.
RaiseWide  == RaiseAt(errCnt + 1, ERR_LIMIT)
RaiseEarly == RaiseAt((errCnt + 1) % U8_MOD, ERR_LIMIT - 1)
RaiseNever == UNCHANGED <<errCnt, totalErr, responseErr, unanswered>>

\* A missed check: count it (one byte) and raise the alarm at the limit.
Raise == RaiseAt((errCnt + 1) % U8_MOD, ERR_LIMIT)

\* Missed, and no recovery attempt is due.
Missed ==
  /\ Judge /\ ~live /\ waitCnt + 1 < WAIT_LIMIT
  /\ Raise
  /\ waitCnt' = waitCnt + 1
  /\ Poll(request)
  /\ EndCheck
  /\ UNCHANGED <<retryFlag, retryId, answered>>

\* Mutant: what the last search found is kept.
SearchKeepingId ==
  /\ Judge /\ ~live /\ waitCnt + 1 >= WAIT_LIMIT /\ ~retryFlag
  /\ Raise
  /\ waitCnt' = 0 /\ retryFlag' = TRUE
  /\ request' = request \cup {"check"}
  /\ polled' = FALSE
  /\ EndCheck
  /\ UNCHANGED <<live, retryId, answered>>

\* Missed: search for the board.  The function returns here, so nothing is
\* polled and the next check misses again unless a late answer comes in.
Search ==
  /\ Judge /\ ~live /\ waitCnt + 1 >= WAIT_LIMIT /\ ~retryFlag
  /\ Raise
  /\ waitCnt' = 0 /\ retryFlag' = TRUE /\ retryId' = FALSE
  /\ request' = request \cup {"check"}
  /\ polled' = FALSE
  /\ EndCheck
  /\ UNCHANGED <<live, answered>>

\* Missed again after a search: set the board up if the search found it.
Recover ==
  /\ Judge /\ ~live /\ waitCnt + 1 >= WAIT_LIMIT /\ retryFlag
  /\ Raise
  /\ waitCnt' = 0 /\ retryFlag' = FALSE
  /\ Poll(IF retryId THEN request \cup {"assign"} ELSE request)
  /\ answered' = (answered /\ ~retryId)
  /\ EndCheck
  /\ UNCHANGED retryId

LiveCheck == NotDue \/ Suspended \/ Answered \/ Missed \/ Search \/ Recover
-----------------------------------------------------------------------------
(* IOM_Parser: one frame per pass                                          *)

EndParse == turn' = "check" /\ UNCHANGED <<found, due, monitor, updating, boardUp>>

NothingReceived ==
  /\ turn = "parse" /\ (rx = <<>> \/ ~found)
  /\ EndParse
  /\ UNCHANGED <<live, retryId, request, rx, polled, answered>>

Receive(frame) == /\ turn = "parse" /\ found /\ rx # <<>>
                  /\ Head(rx) = frame /\ rx' = Tail(rx)
                  /\ EndParse

\* CMD_READ_BOARD_CHECK
ReceiveCheck ==
  /\ Receive("check")
  /\ retryId' = (retryId \/ retryFlag)
  /\ answered' = TRUE
  /\ UNCHANGED <<live, request, polled>>

\* CMD_READ_BOARD_SET_REQ
ReceiveSetReq ==
  /\ Receive("setReq")
  /\ request' = request \cup {"assign"}
  /\ UNCHANGED <<live, retryId, polled, answered>>

\* CMD_READ_DIO_INFORMATION
ReceiveInfo ==
  /\ Receive("info")
  /\ live' = TRUE
  /\ UNCHANGED <<retryId, request, polled, answered>>

Parser == NothingReceived \/ ReceiveCheck \/ ReceiveSetReq \/ ReceiveInfo
-----------------------------------------------------------------------------
(* The board, the bus and the update                                       *)

Deliver(frame) == rx' = IF Len(rx) < RX_MAX THEN Append(rx, frame) ELSE rx

local == <<found, turn, due, live, monitor, retryId, polled, answered>>

BoardAnswers(r) ==
  /\ boardUp /\ r \in request
  /\ request' = request \ {r}
  /\ IF r = "assign" THEN UNCHANGED rx ELSE Deliver(r)
  /\ UNCHANGED <<local, updating, boardUp>>

\* A request or its answer is lost, or a board that is down ignores it.
Lose ==
  /\ \E r \in request : request' = request \ {r}
  /\ UNCHANGED <<local, updating, rx, boardUp>>

BoardFails ==
  /\ boardUp /\ boardUp' = FALSE
  /\ UNCHANGED <<local, updating, request, rx>>

\* A board that starts asks for its settings.
BoardStarts ==
  /\ ~boardUp /\ boardUp' = TRUE
  /\ Deliver("setReq")
  /\ UNCHANGED <<local, updating, request>>

Update ==
  /\ found /\ updating' = ~updating
  /\ UNCHANGED <<local, request, rx, boardUp>>

Board == \/ \E r \in Requests : BoardAnswers(r)
         \/ Lose \/ BoardFails \/ BoardStarts

Next == LiveCheck \/ Parser \/ Board \/ Update

Spec == Init /\ [][Next]_vars

\* The thread never stops; a board that is up answers polls again and again.
FairSpec == Spec /\ WF_vars(LiveCheck \/ Parser)
                 /\ SF_vars(BoardAnswers("info") /\ Len(rx) < RX_MAX)
-----------------------------------------------------------------------------
TypeOK ==
  /\ found \in BOOLEAN /\ turn \in {"check", "parse"} /\ due \in BOOLEAN
  /\ live \in BOOLEAN /\ errCnt \in 0 .. (U8_MOD - 1) /\ totalErr \in BOOLEAN
  /\ waitCnt \in 0 .. (WAIT_LIMIT - 1)
  /\ retryFlag \in BOOLEAN /\ retryId \in BOOLEAN
  /\ responseErr \in BOOLEAN /\ updating \in BOOLEAN
  /\ request \subseteq Requests
  /\ rx \in Seq(Frames) /\ Len(rx) <= RX_MAX
  /\ boardUp \in BOOLEAN
  /\ unanswered \in 0 .. 2 /\ polled \in BOOLEAN /\ answered \in BOOLEAN

\* However the error counter, the wait counter and the retry flag were left by
\* earlier outages, an alarm is not raised before two polls since the last
\* release went unanswered.  (Not three: the check that searches for the board
\* sends no poll, and the next check counts that as a miss.)
AlarmNeedsMisses == [][~responseErr /\ responseErr' => unanswered' >= 2]_vars

\* One answer of the board to a search leads to one set-up at most: what a search
\* found is not used again in a later recovery or outage, although RetryFlag and
\* RetryID outlive both.  (Which search it answers nobody can tell: an answer that
\* comes late counts for the search that is on, and one found just before the board
\* came back by itself is used in the next outage.)
SetUpNeedsAnswer ==
  [][turn = "check" /\ "assign" \in request' \ request => answered]_vars

\* A board found at the start that stops answering for good is reported, if
\* it is not being updated.
DeadReported ==
  found /\ <>[](~boardUp /\ ~updating /\ "info" \notin {rx[i] : i \in DOMAIN rx})
    => <>[]responseErr

\* A board that is up for good is not left in alarm.
AlarmReleased == <>[](boardUp /\ ~updating) => []<>~responseErr

\* In the end the alarm says what the board is.
AlarmFollows == DeadReported /\ AlarmReleased
=============================================================================
