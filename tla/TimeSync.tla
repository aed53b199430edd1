------------------------------- MODULE TimeSync -------------------------------
(***************************************************************************)
(* The clock of the unit: TimeThread (sdk/src/main.c), which asks an SNTP  *)
(* server for the time every minute (TSM_TimeSyncExe and sntp_client,      *)
(* sdk/src/TimeSyncModule.c) and publishes time and quality every half     *)
(* second, and the console commands DATE and TIME, which set the clock     *)
(* from another thread (sdk/src/ConsoleManager.c).                         *)
(*                                                                         *)
(* Time is counted in units that all threads see alike; steps of the       *)
(* program take no time, waits do.  Of the clock the program compares only *)
(* currentTime - lastSyncTime, modulo 2^32 milliseconds: ahead.  Otherwise *)
(* only the error of the clock matters, FAR standing for all large ones.   *)
(* The clock drifts by less than a unit from one synchronisation to the    *)
(* next.  The server, the network and the operator are the environment.    *)
(***************************************************************************)
EXTENDS Integers

CONSTANTS INTERVAL,   \* MINUTE_IN_MILLISECONDS
          SLEEP,      \* the pause of TimeThread, 500 ms
          WAIT,       \* the timeout of select, 1 s
          MOD         \* the range of an unsigned long: 2^32

ASSUME TimeConstants ==
  /\ INTERVAL \in Nat \ {0} /\ SLEEP \in Nat \ {0} /\ WAIT \in Nat \ {0}
  /\ MOD \in Nat /\ MOD > INTERVAL + 2 * SLEEP

VARIABLES
  pc,         \* where TimeThread is
  timer,      \* what is left of a wait or a pause
  ahead,      \* currentTime - lastSyncTime, as the program computes it
  err,        \* the clock minus the true time
  quality,    \* gs32SntpTimeQuality
  published,  \* dsArmDestUTC: its quality, the error of its time, and the
              \* history whether the clock was sound when it was published
  server,     \* what the server does: "good", "unsync" or "silent"
  drifted,    \* the clock has drifted since the last attempt
  since,      \* history: time since the last attempt or command
  sound       \* history: neither a command nor a late answer set the clock last

history == <<since, sound>>
vars == <<pc, timer, ahead, err, quality, published, server, drifted, history>>

LAG == 2 * WAIT + SLEEP + 1     \* as far as a good time can be behind
FAR == LAG + 1
Errors == (-LAG) .. FAR
Shift(e, d) == IF e # FAR /\ e + d \in (-LAG) .. LAG THEN e + d ELSE FAR

\* SNTP_CLOCK_FAILURE and SNTP_CLOCK_NOT_SYNCHRONIZED are the same number.
Qualities == {"unknown", "good", "bad"}

Init ==
  /\ pc = "test" /\ timer = 0 /\ ahead \in 0 .. (MOD - 1) /\ err \in {0, FAR}
  /\ quality = "unknown"
  /\ published = [quality |-> "unknown", err |-> err, sound |-> TRUE]
  /\ server \in {"good", "unsync", "silent"} /\ drifted = FALSE
  /\ since = 0 /\ sound = TRUE
-----------------------------------------------------------------------------
(* Time and its server                                                     *)

\* Mutant: a wait that has ended goes on.
TickOn ==
  /\ pc \in {"await", "sleep"} /\ timer' = timer - 1
  /\ since' = since + 1 /\ ahead' = (ahead + 1) % MOD
  /\ published' = [published EXCEPT !.err = Shift(@, -1)]
  /\ UNCHANGED <<pc, err, quality, server, drifted, sound>>

Tick ==
  /\ pc \in {"await", "sleep"} /\ timer > 0
  /\ timer' = timer - 1 /\ since' = since + 1
  /\ published' = [published EXCEPT !.err = Shift(@, -1)]
  /\ \E d \in IF drifted THEN {0} ELSE {-1, 0, 1} :
       /\ ahead' = (ahead + 1 + d) % MOD
       /\ err' = Shift(err, d)
       /\ drifted' = (drifted \/ d # 0)
  /\ UNCHANGED <<pc, quality, server, sound>>

ServerChanges ==
  /\ server' \in {"good", "unsync", "silent"} \ {server}
  /\ UNCHANGED <<pc, timer, ahead, err, quality, published, drifted, history>>

\* The clock is set; ahead moves with it.
SetClock(e) ==
  /\ err' = e
  /\ IF FAR \in {e, err} THEN ahead' \in 0 .. (MOD - 1)
                         ELSE ahead' = (ahead + e - err) % MOD

\* DATE and TIME: popen("date -s ...").
CDM_SetDate ==
  /\ \E e \in {0, FAR} : SetClock(e)
  /\ since' = 0 /\ sound' = FALSE
  /\ UNCHANGED <<pc, timer, quality, published, server, drifted>>
-----------------------------------------------------------------------------
(* TimeThread                                                              *)

\* Mutant: the difference is taken for a signed number.
DueSigned == ahead >= INTERVAL /\ ahead <= MOD \div 2

Due == ahead >= INTERVAL

Idle == /\ pc = "test" /\ ~Due
        /\ pc' = "publish"
        /\ UNCHANGED <<timer, ahead, err, quality, published, server, drifted, history>>

\* lastSyncTime becomes the time before the attempt.
Attempt == /\ pc = "test" /\ Due
           /\ ahead' = 0 /\ drifted' = FALSE /\ since' = 0

\* sntp_client: no address, no socket, the port in use, or sendto fails.
FailAtOnce ==
  /\ Attempt
  /\ quality' = "bad"
  /\ pc' = "publish"
  /\ UNCHANGED <<timer, err, published, server, sound>>

Request ==
  /\ Attempt
  /\ pc' = "await" /\ timer' = WAIT
  /\ UNCHANGED <<err, quality, published, server, sound>>

\* Leap indicator 3: the server is not synchronised itself.
Judged(synchronised) == IF synchronised THEN "good" ELSE "bad"

\* An answer in time: the clock is set in either case, to the time at which
\* the server sent it, which a server that is not synchronised may have wrong.
Receive ==
  /\ pc = "await" /\ server # "silent"
  /\ \E e \in ((timer - WAIT) .. 0) \cup (IF server = "unsync" THEN {FAR} ELSE {}) : SetClock(e)
  /\ quality' = Judged(server = "good")
  /\ pc' = "publish" /\ sound' = TRUE
  /\ UNCHANGED <<timer, published, server, drifted, since>>

\* The answer to an earlier request, or its duplicate, arrives on the port,
\* and nothing in it is compared with the request.
ReceiveLate ==
  /\ pc = "await"
  /\ SetClock(FAR)
  /\ \E synchronised \in BOOLEAN : quality' = Judged(synchronised)
  /\ pc' = "publish" /\ sound' = FALSE
  /\ UNCHANGED <<timer, published, server, drifted, since>>

\* A datagram of another length.
ReceiveShort ==
  /\ pc = "await"
  /\ quality' = "bad"
  /\ pc' = "publish"
  /\ UNCHANGED <<timer, ahead, err, published, server, drifted, history>>

\* Mutant: a request without an answer changes nothing.
TimeoutIgnored ==
  /\ pc = "await" /\ timer = 0 /\ server # "good"
  /\ pc' = "publish"
  /\ UNCHANGED <<timer, ahead, err, quality, published, server, drifted, history>>

Timeout ==
  /\ pc = "await" /\ timer = 0 /\ server # "good"
  /\ quality' = "bad"
  /\ pc' = "publish"
  /\ UNCHANGED <<timer, ahead, err, published, server, drifted, history>>

\* Mutant: time and quality are published when the time was asked for only.
PublishSync ==
  /\ pc = "publish"
  /\ published' = IF since <= WAIT THEN [quality |-> quality, err |-> err, sound |-> sound]
                                   ELSE published
  /\ pc' = "sleep" /\ timer' = SLEEP
  /\ UNCHANGED <<ahead, err, quality, server, drifted, history>>

\* Under the mutex that readers of the 61850 library take.
Publish ==
  /\ pc = "publish"
  /\ published' = [quality |-> quality, err |-> err, sound |-> sound]
  /\ pc' = "sleep" /\ timer' = SLEEP
  /\ UNCHANGED <<ahead, err, quality, server, drifted, history>>

Wake ==
  /\ pc = "sleep" /\ timer = 0
  /\ pc' = "test"
  /\ UNCHANGED <<timer, ahead, err, quality, published, server, drifted, history>>

TimeThread == \/ Idle \/ FailAtOnce \/ Request \/ Receive \/ Timeout \/ Publish \/ Wake

Next == TimeThread \/ ReceiveLate \/ ReceiveShort \/ Tick \/ ServerChanges \/ CDM_SetDate

Spec == Init /\ [][Next]_vars

\* Time passes, the thread is scheduled, and an attempt does not fail for want
\* of a socket for ever.
FairSpec == Spec /\ WF_vars(TimeThread) /\ WF_vars(Tick) /\ SF_vars(Request)
-----------------------------------------------------------------------------
TypeOK ==
  /\ pc \in {"test", "await", "publish", "sleep"}
  /\ timer \in 0 .. (IF SLEEP > WAIT THEN SLEEP ELSE WAIT)
  /\ ahead \in 0 .. (MOD - 1) /\ err \in Errors /\ quality \in Qualities
  /\ published \in [quality : Qualities, err : Errors, sound : BOOLEAN]
  /\ server \in {"good", "unsync", "silent"} /\ drifted \in BOOLEAN
  /\ since \in Nat /\ sound \in BOOLEAN

\* Whatever the server and the operator set the clock to, backwards or across
\* the wrap of the 32 bit count, the next attempt comes after the interval, one
\* wait and at most two pauses.
SyncDue == since <= INTERVAL + WAIT + 2 * SLEEP + 1

\* A time published as good is the true time, but for the delay of the answer,
\* the drift and the age of the publication, unless a command or a late answer
\* set the clock last: those leave or give the clock a good quality.
GoodIsTrue ==
  published.quality = "good" /\ published.sound =>
    published.err \in (-LAG) .. 1

\* When the server falls silent for good, the time is at last not published as
\* good any more, unless commands that set the clock put off every attempt.
Degrades ==
  <>[][server = "silent" /\ server' = "silent" /\ ~ReceiveLate]_vars
    /\ <>[][~CDM_SetDate]_vars
    => <>[](published.quality # "good")

\* When the server answers in time for good, the time is at last good and sound,
\* whatever the clock was.
Recovers ==
  <>[][server = "good" /\ server' = "good" /\ ~ReceiveLate /\ ~ReceiveShort /\ ~FailAtOnce]_vars
    /\ <>[][~CDM_SetDate]_vars
    => <>[](published.quality = "good" /\ published.sound)

\* In the end the quality follows the server.
QualityFollows == Degrades /\ Recovers
=============================================================================
