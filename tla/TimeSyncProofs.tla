---------------------------- MODULE TimeSyncProofs ----------------------------
(***************************************************************************)
(* Proofs about TimeSync for every interval, pause, timeout and range of   *)
(* the count that TimeConstants allows.                                    *)
(*                                                                         *)
(* SyncDue needs to know what ahead is worth against since (Pace), and     *)
(* GoodIsTrue what the clock (ClockTrue) and the publication of some age   *)
(* (PublishedTrue) can be off.                                             *)
(***************************************************************************)
EXTENDS TimeSync, TLAPS

Drift == IF drifted THEN 1 ELSE 0

Timers ==
  /\ pc = "sleep" => timer <= SLEEP
  /\ pc = "await" => timer <= WAIT

\* Before the first comparison after an attempt since is small and ahead may
\* be anything; after it, ahead has kept pace with since.
Pace ==
  /\ pc = "await" => since <= WAIT - timer
  /\ pc = "publish" =>
       \/ since <= WAIT
       \/ ahead < INTERVAL /\ ahead + WAIT + SLEEP + Drift >= since
  /\ pc = "sleep" =>
       \/ since <= WAIT + SLEEP - timer
       \/ /\ ahead < INTERVAL + SLEEP - timer + Drift
          /\ ahead + WAIT + SLEEP + Drift >= since
          /\ since <= INTERVAL + WAIT + 2 * SLEEP + 1 - timer
  /\ pc = "test" =>
       \/ since <= WAIT + SLEEP
       \/ /\ ahead + WAIT + SLEEP + Drift >= since
          /\ since <= INTERVAL + WAIT + 2 * SLEEP + 1

\* A good clock is behind by the delay of the answer and the drift since, which
\* an attempt starts to count anew.
ClockTrue ==
  quality = "good" /\ sound =>
    LET d == IF pc = "await" THEN Drift + 1 ELSE Drift
    IN  err \in (-WAIT - d) .. d

Age == IF pc = "sleep" THEN SLEEP - timer
       ELSE IF pc = "test" THEN SLEEP
       ELSE IF pc = "await" THEN SLEEP + WAIT - timer
       ELSE SLEEP + WAIT

PublishedTrue ==
  published.quality = "good" /\ published.sound =>
    published.err \in (-WAIT - 1 - Age) .. 1

IInv == TypeOK /\ Timers /\ Pace /\ ClockTrue /\ PublishedTrue
-----------------------------------------------------------------------------
LEMMA ModRange == ASSUME NEW a \in Int, NEW m \in Nat \ {0}
                  PROVE  a % m \in 0 .. (m - 1)
OBVIOUS

LEMMA ModSmall == ASSUME NEW a \in Nat, NEW m \in Nat \ {0}, a < m
                  PROVE  a % m = a
OBVIOUS

\* A small step from a small error is exact, any step stays within Errors.
LEMMA ShiftExact ==
  ASSUME NEW e \in Errors, NEW d \in {-1, 0, 1}
  PROVE  /\ Shift(e, d) \in Errors
         /\ e + d \in (-LAG) .. LAG /\ e # FAR => Shift(e, d) = e + d
BY TimeConstants DEF Shift, Errors, FAR, LAG

\* Setting the clock keeps the types.
LEMMA SetClockType ==
  ASSUME TypeOK, NEW e \in Errors, SetClock(e)
  PROVE  ahead' \in 0 .. (MOD - 1) /\ err' = e
<1> USE TimeConstants
<1>1. CASE FAR \in {e, err}
  BY <1>1 DEF SetClock
<1>2. CASE FAR \notin {e, err}
  <2>1. ahead' = (ahead + e - err) % MOD /\ err' = e
    BY <1>2 DEF SetClock
  <2>2. ahead + e - err \in Int /\ MOD \in Nat \ {0}
    BY DEF TypeOK, Errors, FAR, LAG
  <2>3. QED  BY <2>1, <2>2, ModRange
<1>3. QED  BY <1>1, <1>2

LEMMA InitIInv == Init => IInv
<1> SUFFICES ASSUME Init PROVE IInv
  OBVIOUS
<1> USE TimeConstants DEF Init
<1>1. TypeOK
  <2>1. err \in Errors /\ ahead \in 0 .. (MOD - 1) /\ timer \in 0 .. WAIT
        /\ timer \in 0 .. SLEEP /\ since \in Nat
    BY DEF Errors, FAR, LAG
  <2>2. published \in [quality : Qualities, err : Errors, sound : BOOLEAN]
    BY <2>1 DEF Qualities
  <2>3. QED  BY <2>1, <2>2 DEF TypeOK, Qualities
<1>2. Timers /\ Pace
  BY DEF Timers, Pace
<1>3. ClockTrue /\ PublishedTrue
  BY DEF ClockTrue, PublishedTrue
<1>4. QED  BY <1>1, <1>2, <1>3 DEF IInv

LEMMA TypeStep == ASSUME TypeOK, [Next]_vars PROVE TypeOK'
<1> USE TimeConstants DEF TypeOK
<1>1. CASE Tick
  <2>1. timer' \in 0 .. (IF SLEEP > WAIT THEN SLEEP ELSE WAIT) /\ since' \in Nat
    BY <1>1 DEF Tick
  <2>2. published' \in [quality : Qualities, err : Errors, sound : BOOLEAN]
    BY <1>1, ShiftExact DEF Tick
  <2>3. PICK d \in {-1, 0, 1} :
          /\ ahead' = (ahead + 1 + d) % MOD
          /\ err' = Shift(err, d)
          /\ drifted' = (drifted \/ d # 0)
    BY <1>1 DEF Tick
  <2>4. ahead' \in 0 .. (MOD - 1) /\ err' \in Errors
    BY <2>3, ModRange, ShiftExact
  <2>5. drifted' \in BOOLEAN
    BY <2>3
  <2>6. UNCHANGED <<pc, quality, server, sound>>
    BY <1>1 DEF Tick
  <2>7. QED  BY <2>1, <2>2, <2>4, <2>5, <2>6
<1>2. CASE ServerChanges
  BY <1>2 DEF ServerChanges, history
<1>3. CASE CDM_SetDate
  <2>1. PICK e \in Errors : SetClock(e)
    BY <1>3 DEF CDM_SetDate, Errors, FAR, LAG
  <2>2. QED  BY <1>3, <2>1, SetClockType DEF CDM_SetDate
<1>4. CASE Idle
  BY <1>4 DEF Idle, history
<1>5. CASE FailAtOnce \/ Request
  <2>1. 0 \in 0 .. (MOD - 1) /\ WAIT \in 0 .. (IF SLEEP > WAIT THEN SLEEP ELSE WAIT)
    OBVIOUS
  <2>2. CASE FailAtOnce
    BY <2>1, <2>2 DEF FailAtOnce, Attempt, Qualities
  <2>3. CASE Request
    BY <2>1, <2>3 DEF Request, Attempt
  <2>4. QED  BY <1>5, <2>2, <2>3
<1>6. CASE Receive
  <2>1. PICK e \in Errors : SetClock(e)
    BY <1>6 DEF Receive, Errors, FAR, LAG
  <2>2. quality' \in Qualities
    BY <1>6 DEF Receive, Judged, Qualities
  <2>3. QED  BY <1>6, <2>1, <2>2, SetClockType DEF Receive
<1>7. CASE ReceiveLate
  <2>1. SetClock(FAR) /\ FAR \in Errors
    BY <1>7 DEF ReceiveLate, Errors, FAR, LAG
  <2>2. quality' \in Qualities
    BY <1>7 DEF ReceiveLate, Judged, Qualities
  <2>3. QED  BY <1>7, <2>1, <2>2, SetClockType DEF ReceiveLate
<1>8. CASE Timeout \/ ReceiveShort
  BY <1>8 DEF Timeout, ReceiveShort, history, Qualities
<1>9. CASE Publish
  <2>1. published' \in [quality : Qualities, err : Errors, sound : BOOLEAN]
    BY <1>9 DEF Publish
  <2>2. QED  BY <1>9, <2>1 DEF Publish, history
<1>10. CASE Wake
  BY <1>10 DEF Wake, history
<1>11. CASE UNCHANGED vars
  BY <1>11 DEF vars, history
<1>12. QED
  BY <1>1, <1>2, <1>3, <1>4, <1>5, <1>6, <1>7, <1>8, <1>9, <1>10, <1>11
  DEF Next, TimeThread

\* A tick moves ahead by the unit and the drift, unless it wraps.
LEMMA TickAhead ==
  ASSUME TypeOK, Tick, ahead + 2 < MOD
  PROVE  /\ ahead' \in Int /\ Drift \in {0, 1} /\ Drift' \in {0, 1}
         /\ ahead' + Drift' >= ahead + 1 + Drift
         /\ ahead' - Drift' <= ahead + 1 - Drift
<1> USE TimeConstants DEF TypeOK
<1>1. PICK d \in (IF drifted THEN {0} ELSE {-1, 0, 1}) :
        ahead' = (ahead + 1 + d) % MOD /\ drifted' = (drifted \/ d # 0)
  BY DEF Tick
<1>2. ahead' = ahead + 1 + d
  <2>1. ahead + 1 + d \in Nat /\ ahead + 1 + d < MOD /\ MOD \in Nat \ {0}
    BY <1>1
  <2>2. QED  BY <1>1, <2>1, ModSmall
<1>3. ahead' \in Int
  BY <1>1, <1>2
<1>4. CASE drifted
  <2>1. d = 0 /\ drifted'
    BY <1>1, <1>4
  <2>2. Drift = 1 /\ Drift' = 1
    BY <1>4, <2>1 DEF Drift
  <2>3. QED  BY <1>2, <1>3, <2>1, <2>2
<1>5. CASE ~drifted /\ d = 0
  <2>1. ~drifted'
    BY <1>1, <1>5
  <2>2. Drift = 0 /\ Drift' = 0
    BY <1>5, <2>1 DEF Drift
  <2>3. QED  BY <1>2, <1>3, <1>5, <2>2
<1>6. CASE ~drifted /\ d # 0
  <2>1. drifted' /\ d \in {-1, 1}
    BY <1>1, <1>6
  <2>2. Drift = 0 /\ Drift' = 1
    BY <1>6, <2>1 DEF Drift
  <2>3. QED  BY <1>2, <1>3, <2>1, <2>2
<1>7. QED  BY <1>4, <1>5, <1>6

\* The sums of one tick, with ahead, Drift, since and timer.
LEMMA Keeping ==
  ASSUME NEW a \in Int, NEW a1 \in Int, NEW d \in Int, NEW d1 \in Int,
         NEW s \in Int, NEW t \in Int
  PROVE  /\ /\ a1 + d1 >= a + 1 + d /\ a + WAIT + SLEEP + d >= s
            => a1 + WAIT + SLEEP + d1 >= s + 1
         /\ /\ a1 - d1 <= a + 1 - d /\ a < INTERVAL + SLEEP - t + d
            => a1 < INTERVAL + SLEEP - (t - 1) + d1
BY TimeConstants

LEMMA PaceStep == ASSUME TypeOK, Timers, Pace, [Next]_vars
                  PROVE  Timers' /\ Pace'
<1> USE TimeConstants DEF TypeOK, Timers, Pace
<1>1. CASE Tick
  <2>1. CASE pc = "await"
    BY <1>1, <2>1 DEF Tick
  <2>2. CASE pc = "sleep" /\ since <= WAIT + SLEEP - timer
    BY <1>1, <2>2 DEF Tick
  <2>3. CASE pc = "sleep" /\ ~(since <= WAIT + SLEEP - timer)
    <3>1. ahead + 2 < MOD
      BY <1>1, <2>3 DEF Tick, Drift
    <3>2. /\ ahead' \in Int /\ Drift \in {0, 1} /\ Drift' \in {0, 1}
          /\ ahead' + Drift' >= ahead + 1 + Drift
          /\ ahead' - Drift' <= ahead + 1 - Drift
      BY <1>1, <3>1, TickAhead
    <3>3. pc' = "sleep" /\ timer' = timer - 1 /\ since' = since + 1
      BY <1>1, <2>3 DEF Tick
    <3>4. /\ ahead < INTERVAL + SLEEP - timer + Drift
          /\ ahead + WAIT + SLEEP + Drift >= since
          /\ since <= INTERVAL + WAIT + 2 * SLEEP + 1 - timer
      BY <2>3
    <3>5. timer \in Int /\ since \in Int /\ ahead \in Int
      OBVIOUS
    <3>6. since' <= INTERVAL + WAIT + 2 * SLEEP + 1 - timer'
      BY <3>3, <3>4, <3>5
    <3>7. Drift \in Int /\ Drift' \in Int
      BY <3>2
    <3>8. /\ ahead' + WAIT + SLEEP + Drift' >= since + 1
          /\ ahead' < INTERVAL + SLEEP - (timer - 1) + Drift'
      BY <3>2, <3>4, <3>5, <3>7, Keeping, Zenon
    <3>9. /\ ahead' + WAIT + SLEEP + Drift' >= since'
          /\ ahead' < INTERVAL + SLEEP - timer' + Drift'
      BY <3>3, <3>8, Zenon
    <3>10. QED  BY <2>3, <3>3, <3>6, <3>9
  <2>4. QED  BY <1>1, <2>1, <2>2, <2>3 DEF Tick
<1>2. CASE ServerChanges
  BY <1>2 DEF ServerChanges, history, Drift
<1>3. CASE CDM_SetDate
  BY <1>3 DEF CDM_SetDate
<1>4. CASE Idle
  BY <1>4 DEF Idle, history, Drift, Due
<1>5. CASE FailAtOnce
  BY <1>5 DEF FailAtOnce, Attempt
<1>6. CASE Request
  BY <1>6 DEF Request, Attempt
<1>7. CASE Receive
  BY <1>7 DEF Receive
<1>8. CASE ReceiveLate
  BY <1>8 DEF ReceiveLate
<1>9. CASE Timeout \/ ReceiveShort
  BY <1>9 DEF Timeout, ReceiveShort, history
<1>10. CASE Publish
  BY <1>10 DEF Publish, history, Drift
<1>11. CASE Wake
  BY <1>11 DEF Wake, history, Drift
<1>12. CASE UNCHANGED vars
  BY <1>12 DEF vars, history, Drift
<1>13. QED
  BY <1>1, <1>2, <1>3, <1>4, <1>5, <1>6, <1>7, <1>8, <1>9, <1>10, <1>11, <1>12
  DEF Next, TimeThread

LEMMA ClockStep == ASSUME TypeOK, Timers, ClockTrue, [Next]_vars
                   PROVE  ClockTrue'
<1> USE TimeConstants DEF TypeOK, ClockTrue
<1>1. CASE Tick
  <2> SUFFICES ASSUME quality = "good", sound
               PROVE  err' \in LET d == IF pc = "await" THEN Drift' + 1 ELSE Drift'
                               IN  (-WAIT - d) .. d
    BY <1>1 DEF Tick
  <2> DEFINE a == IF pc = "await" THEN 1 ELSE 0
  <2>1. err \in (-WAIT - (Drift + a)) .. (Drift + a) /\ Drift \in {0, 1}
    BY DEF Drift
  <2>2. PICK d \in (IF drifted THEN {0} ELSE {-1, 0, 1}) :
          err' = Shift(err, d) /\ drifted' = (drifted \/ d # 0)
    BY <1>1 DEF Tick
  <2>3. err' = err + d
    <3>1. err \in Int /\ err >= -WAIT - 2 /\ err <= 2
      BY <2>1
    <3>2. err + d \in (-LAG) .. LAG /\ err # FAR
      BY <2>1, <2>2, <3>1 DEF LAG, FAR, Drift
    <3>3. d \in {-1, 0, 1} /\ err \in Errors
      BY <2>2
    <3>4. QED  BY <2>2, <3>2, <3>3, ShiftExact
  <2>4. Drift' \in {0, 1} /\ err + d \in (-WAIT - (Drift' + a)) .. (Drift' + a)
    <3>1. CASE drifted
      <4>1. d = 0 /\ Drift = 1 /\ Drift' = 1
        BY <2>2, <3>1 DEF Drift
      <4>2. QED  BY <2>1, <4>1
    <3>2. CASE ~drifted /\ d = 0
      <4>1. Drift = 0 /\ Drift' = 0
        BY <2>2, <3>2 DEF Drift
      <4>2. QED  BY <2>1, <3>2, <4>1
    <3>3. CASE ~drifted /\ d # 0
      <4>1. Drift = 0 /\ Drift' = 1 /\ d \in {-1, 1}
        BY <2>2, <3>3 DEF Drift
      <4>2. QED  BY <2>1, <4>1
    <3>4. QED  BY <3>1, <3>2, <3>3
  <2>5. QED  BY <2>3, <2>4
<1>2. CASE ServerChanges
  BY <1>2 DEF ServerChanges, history, Drift
<1>3. CASE CDM_SetDate
  BY <1>3 DEF CDM_SetDate
<1>4. CASE Idle
  BY <1>4 DEF Idle, history, Drift
<1>5. CASE FailAtOnce
  BY <1>5 DEF FailAtOnce, Attempt
<1>6. CASE Request
  BY <1>6 DEF Request, Attempt, Drift
<1>7. CASE Receive
  <2>1. PICK e \in ((timer - WAIT) .. 0) \cup (IF server = "unsync" THEN {FAR} ELSE {}) :
          SetClock(e)
    BY <1>7 DEF Receive
  <2>2. pc = "await" /\ pc' = "publish" /\ err' = e /\ drifted' = drifted
    BY <1>7, <2>1 DEF Receive, SetClock
  <2>3. CASE server = "good"
    BY <2>1, <2>2, <2>3 DEF Drift, Timers
  <2>4. CASE server # "good"
    BY <1>7, <2>4 DEF Receive, Judged
  <2>5. QED  BY <2>3, <2>4
<1>8. CASE ReceiveLate
  BY <1>8 DEF ReceiveLate
<1>9. CASE Timeout \/ ReceiveShort
  BY <1>9 DEF Timeout, ReceiveShort, history
<1>10. CASE Publish
  BY <1>10 DEF Publish, history, Drift
<1>11. CASE Wake
  BY <1>11 DEF Wake, history, Drift
<1>12. CASE UNCHANGED vars
  BY <1>12 DEF vars, history, Drift
<1>13. QED
  BY <1>1, <1>2, <1>3, <1>4, <1>5, <1>6, <1>7, <1>8, <1>9, <1>10, <1>11, <1>12
  DEF Next, TimeThread

\* A publication is made from a clock that is true.
LEMMA PublishedStep ==
  ASSUME TypeOK, Timers, ClockTrue, PublishedTrue, [Next]_vars
  PROVE  PublishedTrue'
<1> USE TimeConstants DEF TypeOK, PublishedTrue
<1>1. CASE Tick
  <2> SUFFICES ASSUME published.quality = "good", published.sound
               PROVE  published'.err \in (-WAIT - 1 - Age') .. 1
    BY <1>1 DEF Tick
  <2>1. published.err \in (-WAIT - 1 - Age) .. 1 /\ Age \in 0 .. (SLEEP + WAIT - 1)
    BY <1>1 DEF Tick, Age, Timers
  <2>2. Age' = Age + 1
    BY <1>1 DEF Tick, Age
  <2>3. published'.err = published.err - 1
    <3>1. published'.err = Shift(published.err, -1)
      BY <1>1 DEF Tick
    <3>2. published.err + (-1) \in (-LAG) .. LAG /\ published.err # FAR
      BY <2>1 DEF LAG, FAR
    <3>3. QED  BY <3>1, <3>2, ShiftExact
  <2>4. published.err - 1 \in (-WAIT - 1 - (Age + 1)) .. 1
    BY <2>1
  <2>5. QED  BY <2>2, <2>3, <2>4
<1>2. CASE ServerChanges
  BY <1>2 DEF ServerChanges, history, Age
<1>3. CASE CDM_SetDate
  BY <1>3 DEF CDM_SetDate, Age
<1>4. CASE Idle
  BY <1>4 DEF Idle, history, Age
<1>5. CASE FailAtOnce
  BY <1>5 DEF FailAtOnce, Attempt, Age
<1>6. CASE Request
  BY <1>6 DEF Request, Attempt, Age
<1>7. CASE Receive
  BY <1>7 DEF Receive, Age, Timers
<1>8. CASE ReceiveLate
  BY <1>8 DEF ReceiveLate, Age, Timers
<1>9. CASE Timeout \/ ReceiveShort
  BY <1>9 DEF Timeout, ReceiveShort, history, Age
<1>10. CASE Publish
  <2>1. quality = "good" /\ sound => err \in (-WAIT - 1) .. 1
    BY <1>10 DEF Publish, ClockTrue, Drift
  <2>2. published' = [quality |-> quality, err |-> err, sound |-> sound] /\ Age' = 0
    BY <1>10 DEF Publish, Age
  <2>3. QED  BY <2>1, <2>2
<1>11. CASE Wake
  BY <1>11 DEF Wake, history, Age
<1>12. CASE UNCHANGED vars
  BY <1>12 DEF vars, history, Age
<1>13. QED
  BY <1>1, <1>2, <1>3, <1>4, <1>5, <1>6, <1>7, <1>8, <1>9, <1>10, <1>11, <1>12
  DEF Next, TimeThread
-----------------------------------------------------------------------------
LEMMA Inductive == Spec => []IInv
<1>1. IInv /\ [Next]_vars => IInv'
  BY TypeStep, PaceStep, ClockStep, PublishedStep DEF IInv
<1>2. QED  BY InitIInv, <1>1, PTL DEF Spec

\* Every variable of the time thread keeps its type, the 32 bit difference its
\* range included.
THEOREM TypeCorrect == Spec => []TypeOK
BY Inductive, PTL DEF IInv

\* TimeThread (main.c) asks for the time in time whatever sets the clock: the
\* unsigned difference of two times is safe against steps in both directions.
THEOREM SyncInTime == Spec => []SyncDue
<1>1. IInv => SyncDue
  BY TimeConstants DEF IInv, TypeOK, Timers, Pace, SyncDue, Drift
<1>2. QED  BY Inductive, <1>1, PTL

\* What TimeThread publishes as good is true within the delay of the answer, the
\* drift and the age, for every timeout and pause.
THEOREM GoodTimes == Spec => []GoodIsTrue
<1>1. IInv => GoodIsTrue
  BY TimeConstants DEF IInv, TypeOK, Timers, PublishedTrue, GoodIsTrue, Age, LAG
<1>2. QED  BY Inductive, <1>1, PTL
=============================================================================
