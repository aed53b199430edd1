----------------------------- MODULE DspLinkProofs -----------------------------
(***************************************************************************)
(* Proofs about DspLink for every number of commands, restarts and polls.  *)
(*                                                                         *)
(* Each property speaks of the moment the answer is used; the invariant    *)
(* follows the command, the point or the size from the moment it is        *)
(* written in the shared memory to the one the other side reads it, across *)
(* time-outs, restarts and answers that come late.                         *)
(***************************************************************************)
EXTENDS DspLink, TLAPS

\* The console has room for the commands ADCADJ has still to give.
Numbered ==
  /\ issued + more <= MaxCommands + 2
  /\ pc = "again" => more > 0

\* A command is complete when its flag is raised.  One that is not and whose
\* flag is up all the same was begun under the flag of another.
Written ==
  /\ pc \in {"raise", "wait"} => box.part = "complete"
  /\ flag = "byMPU" /\ box.part # "complete" => box.id \in overlapped

\* What the DSP is at while the console awaits an answer is the command in the
\* memory, unless it was busy when that was raised; so is what it answered.
Answering ==
  pc = "wait" /\ box.id \notin crowded =>
    /\ dsp = "busy" /\ ~job.td => job.id = box.id /\ job.part = "complete"
    /\ flag = "byDSP" =>
         [td |-> FALSE, id |-> box.id, part |-> "complete"] \in finished

\* What TDF SET calls for is one of its two points.  After the DSP was unbound,
\* a point is only called for, and only dealt with, while the console awaits it.
OwnPoint ==
  /\ tdFlag = "byMPU" => tdPoint \in {"first", "second"}
  /\ pc \notin {"off", "ended"} /\ tdFlag = "byMPU" => pc = "tdWait"
  /\ pc \notin {"off", "ended", "unbind"} /\ dsp = "busy" /\ job.td =>
       pc = "tdWait" /\ tdFlag = "byMPU" /\ job.id = issued /\ job.part = tdPoint

\* The points of this TDF SET the DSP has dealt with.
PointsDone ==
  LET Dealt(p) == [td |-> TRUE, id |-> issued, part |-> p] \in finished
  IN  /\ pc = "tdWait" => tdPoint \in {"first", "second"}
      /\ pc = "tdWait" /\ tdFlag # "byMPU" => Dealt(tdPoint)
      /\ pc = "tdNext" \/ (pc = "tdWait" /\ tdPoint = "second") => Dealt("first")

\* The sizes in the memory: the program's own from the time it is written to
\* the comparison, the DSP's always that of its firmware.
Sizes ==
  /\ pc \in {"bind", "check"} => size.mpu = "same"
  /\ size.dsp \in {"zero", firmware}

\* Where the console takes commands.
Up == {"idle", "fill", "raise", "wait", "again", "tdWait", "tdNext"}

\* Unless a boot was cut short: the size is out of the memory when the next boot
\* begins, no DSP but the one bound last is about to write its own, and what is
\* found at the comparison was written by it.
BoundDsp ==
  ~cut =>
    /\ size.mpu = "same" => pc \in {"bind", "check"}
    /\ dsp = "started" => pc = "check"
    /\ pc \in {"unbind", "write", "bind"} => size.dsp = "zero"
    /\ pc \in {"write", "bind"} => dsp = "off"
    /\ pc = "check" /\ size.dsp # "zero" => up

\* The types, in the three parts the steps treat differently.
ControlType ==
  /\ pc \in {"off", "unbind", "write", "bind", "check", "idle", "fill", "raise", "wait",
             "again", "tdWait", "tdNext", "ended"}
  /\ dsp \in {"off", "waiting", "started", "running", "busy"}
  /\ kind \in Kinds /\ more \in 0 .. 2 /\ waits \in 0 .. WAIT + 1
  /\ issued \in Ids /\ restarts \in 0 .. MaxRestarts
  /\ up \in BOOLEAN /\ cut \in BOOLEAN

MemoryType ==
  /\ size \in [mpu : {"zero", "same"}, dsp : {"zero", "same", "other"}]
  /\ firmware \in {"same", "other"}
  /\ box \in [id : Ids, part : Parts]
  /\ flag \in {"none", "byMPU", "byDSP", "error", "readByMPU"}
  /\ tdPoint \in {"none", "first", "second"}
  /\ tdFlag \in {"none", "byMPU", "byDSP", "error"}

Jobs == [td : BOOLEAN, id : Ids, part : Parts \cup {"first", "second"}]

HistoryType ==
  /\ job \in Jobs /\ finished \subseteq Jobs
  /\ reported \subseteq [td : BOOLEAN, id : Ids]
  /\ overlapped \subseteq Ids /\ crowded \subseteq Ids

IInv == /\ ControlType /\ MemoryType /\ HistoryType
        /\ Numbered /\ Written /\ NoTornCommand /\ Answering
        /\ OwnPoint /\ PointsDone /\ DoneIsMine /\ Sizes /\ BoundDsp /\ BootChecked
-----------------------------------------------------------------------------
LEMMA TypeParts == TypeOK <=> ControlType /\ MemoryType /\ HistoryType
  BY DEF TypeOK, ControlType, MemoryType, HistoryType, Jobs

LEMMA InitIInv == Init => IInv
<1> SUFFICES ASSUME Init PROVE IInv
  OBVIOUS
<1> USE DspLinkConstants DEF Init, NoCommand, NoJob
<1>1. ControlType
  <2>1. up \in BOOLEAN /\ cut \in BOOLEAN
    OBVIOUS
  <2>2. /\ more \in 0 .. 2 /\ waits \in 0 .. WAIT + 1 /\ issued \in Ids
        /\ restarts \in 0 .. MaxRestarts
    BY DEF Ids
  <2>3. QED  BY <2>1, <2>2 DEF ControlType, Kinds
<1>2. MemoryType
  BY DEF MemoryType, Ids, Parts
<1>3. HistoryType
  BY DEF HistoryType, Jobs, Ids, Parts
<1>4. Numbered /\ Written /\ NoTornCommand /\ Answering /\ OwnPoint /\ PointsDone
  BY DEF Numbered, Written, NoTornCommand, Answering, OwnPoint, PointsDone
<1>5. DoneIsMine /\ Sizes /\ BoundDsp /\ BootChecked
  BY DEF DoneIsMine, Sizes, BoundDsp, BootChecked
<1>6. QED  BY <1>1, <1>2, <1>3, <1>4, <1>5 DEF IInv

\* The steps of main, one case each.
LEMMA BootIInv ==
  ASSUME IInv, Boot
  PROVE  IInv'
<1> USE DspLinkConstants
    DEF IInv, memory, console, history, boot, NoCommand, NoJob
<1>1. CASE CCM_AllocShareMem
  <2> USE <1>1 DEF CCM_AllocShareMem, InitSharedMemory
  <2>1. ControlType' /\ MemoryType' /\ HistoryType' /\ Numbered'
    BY DEF ControlType, MemoryType, HistoryType, Jobs, Ids, Parts, Kinds, Numbered
  <2>2. Written' /\ NoTornCommand' /\ Answering' /\ OwnPoint' /\ PointsDone'
    BY DEF ControlType, MemoryType, HistoryType, Jobs, Written, NoTornCommand,
           Answering, OwnPoint, PointsDone
  <2>3. DoneIsMine' /\ Sizes' /\ BoundDsp' /\ BootChecked'
    BY DEF ControlType, MemoryType, DoneIsMine, Sizes, BoundDsp, BootChecked
  <2>4. QED  BY <2>1, <2>2, <2>3
<1>2. CASE Unbind
  <2> USE <1>2 DEF Unbind
  <2>1. ControlType' /\ Numbered'
    BY DEF ControlType, Ids, Kinds, Numbered
  <2>2. MemoryType'
    BY DEF MemoryType
  <2>3. HistoryType'
    BY DEF HistoryType, ControlType, MemoryType, Jobs, Ids, Parts
  <2>4. Written' /\ NoTornCommand' /\ Answering' /\ OwnPoint' /\ PointsDone'
    BY DEF ControlType, MemoryType, HistoryType, Jobs, Written, NoTornCommand,
           Answering, OwnPoint, PointsDone
  <2>5. DoneIsMine' /\ Sizes' /\ BoundDsp' /\ BootChecked'
    BY DEF ControlType, MemoryType, DoneIsMine, Sizes, BoundDsp, BootChecked
  <2>6. QED  BY <2>1, <2>2, <2>3, <2>4, <2>5
<1>3. CASE DspManager_DSPOn
  <2> USE <1>3 DEF DspManager_DSPOn
  <2>1. ControlType' /\ MemoryType' /\ HistoryType' /\ Numbered'
    BY DEF ControlType, MemoryType, HistoryType, Jobs, Ids, Parts, Kinds, Numbered
  <2>2. Written' /\ NoTornCommand' /\ Answering' /\ OwnPoint' /\ PointsDone'
    BY DEF ControlType, MemoryType, HistoryType, Jobs, Written, NoTornCommand,
           Answering, OwnPoint, PointsDone
  <2>3. DoneIsMine' /\ Sizes' /\ BoundDsp' /\ BootChecked'
    BY DEF ControlType, MemoryType, DoneIsMine, Sizes, BoundDsp, BootChecked
  <2>4. QED  BY <2>1, <2>2, <2>3
<1>4. CASE CompareSizes
  <2> USE <1>4 DEF CompareSizes
  <2>1. ControlType' /\ MemoryType' /\ HistoryType' /\ Numbered'
    BY DEF ControlType, MemoryType, HistoryType, Jobs, Ids, Parts, Kinds, Numbered
  <2>2. Written' /\ NoTornCommand' /\ Answering' /\ OwnPoint' /\ PointsDone'
    BY DEF ControlType, MemoryType, HistoryType, Jobs, Written, NoTornCommand,
           Answering, OwnPoint, PointsDone
  <2>3. DoneIsMine' /\ Sizes' /\ BoundDsp' /\ BootChecked'
    BY DEF ControlType, MemoryType, DoneIsMine, Sizes, BoundDsp, BootChecked
  <2>4. QED  BY <2>1, <2>2, <2>3
<1>5. QED  BY <1>1, <1>2, <1>3, <1>4 DEF Boot

\* A command, from the operator's line to the flag.
LEMMA BeginIInv ==
  ASSUME IInv, Issue \/ NextOffset \/ Reject \/ Fill \/ Raise
  PROVE  IInv'
<1> USE DspLinkConstants
    DEF IInv, memory, console, history, boot, NoCommand, NoJob
<1>1. CASE Issue
  <2> USE <1>1 DEF Issue, Begin, Following, Kinds
  <2>1. ControlType' /\ MemoryType' /\ HistoryType' /\ Numbered'
    BY DEF ControlType, MemoryType, HistoryType, Jobs, Ids, Parts, Kinds, Numbered
  <2>2. Written' /\ NoTornCommand' /\ Answering' /\ OwnPoint' /\ PointsDone'
    BY DEF ControlType, MemoryType, HistoryType, Jobs, Written, NoTornCommand,
           Answering, OwnPoint, PointsDone
  <2>3. DoneIsMine' /\ Sizes' /\ BoundDsp' /\ BootChecked'
    BY DEF ControlType, MemoryType, DoneIsMine, Sizes, BoundDsp, BootChecked
  <2>4. QED  BY <2>1, <2>2, <2>3
<1>2. CASE NextOffset
  <2> USE <1>2 DEF NextOffset, Begin, Following, Kinds
  <2>1. ControlType' /\ MemoryType' /\ HistoryType' /\ Numbered'
    BY DEF ControlType, MemoryType, HistoryType, Jobs, Ids, Parts, Kinds, Numbered
  <2>2. Written' /\ NoTornCommand' /\ Answering' /\ OwnPoint' /\ PointsDone'
    BY DEF ControlType, MemoryType, HistoryType, Jobs, Written, NoTornCommand,
           Answering, OwnPoint, PointsDone
  <2>3. DoneIsMine' /\ Sizes' /\ BoundDsp' /\ BootChecked'
    BY DEF ControlType, MemoryType, DoneIsMine, Sizes, BoundDsp, BootChecked
  <2>4. QED  BY <2>1, <2>2, <2>3
<1>3. CASE Reject
  <2> USE <1>3 DEF Reject
  <2>1. ControlType' /\ MemoryType' /\ HistoryType' /\ Numbered'
    BY DEF ControlType, MemoryType, HistoryType, Jobs, Ids, Parts, Kinds, Numbered
  <2>2. Written' /\ NoTornCommand' /\ Answering' /\ OwnPoint' /\ PointsDone'
    BY DEF ControlType, MemoryType, HistoryType, Jobs, Written, NoTornCommand,
           Answering, OwnPoint, PointsDone
  <2>3. DoneIsMine' /\ Sizes' /\ BoundDsp' /\ BootChecked'
    BY DEF ControlType, MemoryType, DoneIsMine, Sizes, BoundDsp, BootChecked
  <2>4. QED  BY <2>1, <2>2, <2>3
<1>4. CASE Fill
  <2> USE <1>4 DEF Fill
  <2>1. ControlType' /\ MemoryType' /\ HistoryType' /\ Numbered'
    BY DEF ControlType, MemoryType, HistoryType, Jobs, Ids, Parts, Kinds, Numbered
  <2>2. Written' /\ NoTornCommand' /\ Answering' /\ OwnPoint' /\ PointsDone'
    BY DEF ControlType, MemoryType, HistoryType, Jobs, Written, NoTornCommand,
           Answering, OwnPoint, PointsDone
  <2>3. DoneIsMine' /\ Sizes' /\ BoundDsp' /\ BootChecked'
    BY DEF ControlType, MemoryType, DoneIsMine, Sizes, BoundDsp, BootChecked
  <2>4. QED  BY <2>1, <2>2, <2>3
<1>5. CASE Raise
  <2> USE <1>5 DEF Raise, Awaited
  <2>1. ControlType' /\ Numbered'
    BY DEF ControlType, Ids, Kinds, Numbered
  <2>2. MemoryType'
    BY DEF MemoryType
  <2>3. HistoryType'
    BY DEF HistoryType, ControlType, MemoryType, Jobs, Ids, Parts
  <2>4. Written' /\ NoTornCommand' /\ Answering' /\ OwnPoint' /\ PointsDone'
    BY DEF ControlType, MemoryType, HistoryType, Jobs, Written, NoTornCommand,
           Answering, OwnPoint, PointsDone
  <2>5. DoneIsMine' /\ Sizes' /\ BoundDsp' /\ BootChecked'
    BY DEF ControlType, MemoryType, DoneIsMine, Sizes, BoundDsp, BootChecked
  <2>6. QED  BY <2>1, <2>2, <2>3, <2>4, <2>5
<1>6. QED  BY <1>1, <1>2, <1>3, <1>4, <1>5

\* The wait for its answer.
LEMMA AnswerIInv ==
  ASSUME IInv, Done \/ Poll \/ Timeout
  PROVE  IInv'
<1> USE DspLinkConstants
    DEF IInv, memory, console, history, boot, NoCommand, NoJob
<1>1. CASE Done
  <2> USE <1>1 DEF Done, Return
  <2>1. ControlType' /\ Numbered'
    BY DEF ControlType, Ids, Kinds, Numbered
  <2>2. MemoryType'
    BY DEF MemoryType
  <2>3. HistoryType'
    <3>1. [td |-> FALSE, id |-> box.id] \in [td : BOOLEAN, id : Ids]
      BY DEF MemoryType
    <3>2. QED  BY <3>1 DEF HistoryType
  <2>4. Written' /\ NoTornCommand' /\ Answering' /\ OwnPoint' /\ PointsDone'
    BY DEF ControlType, MemoryType, HistoryType, Jobs, Written, NoTornCommand,
           Answering, OwnPoint, PointsDone
  <2>5. DoneIsMine'
    <3> USE DEF DoneIsMine
    <3>1. TAKE r \in reported'
    <3>2. CASE r = [td |-> FALSE, id |-> box.id]
      BY <3>2 DEF Answering
    <3>3. CASE r \in reported
      BY <3>3 DEF DoneIsMine
    <3>4. QED  BY <3>2, <3>3
  <2>6. Sizes' /\ BoundDsp' /\ BootChecked'
    BY DEF ControlType, MemoryType, Sizes, BoundDsp, BootChecked
  <2>7. QED  BY <2>1, <2>2, <2>3, <2>4, <2>5, <2>6
<1>2. CASE Poll
  <2> USE <1>2 DEF Poll
  <2>1. ControlType' /\ MemoryType' /\ HistoryType' /\ Numbered'
    BY DEF ControlType, MemoryType, HistoryType, Jobs, Ids, Parts, Kinds, Numbered
  <2>2. Written' /\ NoTornCommand' /\ Answering' /\ OwnPoint' /\ PointsDone'
    BY DEF ControlType, MemoryType, HistoryType, Jobs, Written, NoTornCommand,
           Answering, OwnPoint, PointsDone
  <2>3. DoneIsMine' /\ Sizes' /\ BoundDsp' /\ BootChecked'
    BY DEF ControlType, MemoryType, DoneIsMine, Sizes, BoundDsp, BootChecked
  <2>4. QED  BY <2>1, <2>2, <2>3
<1>3. CASE Timeout
  <2> USE <1>3 DEF Timeout, Return
  <2>1. ControlType' /\ MemoryType' /\ HistoryType' /\ Numbered'
    BY DEF ControlType, MemoryType, HistoryType, Jobs, Ids, Parts, Kinds, Numbered
  <2>2. Written' /\ NoTornCommand' /\ Answering' /\ OwnPoint' /\ PointsDone'
    BY DEF ControlType, MemoryType, HistoryType, Jobs, Written, NoTornCommand,
           Answering, OwnPoint, PointsDone
  <2>3. DoneIsMine' /\ Sizes' /\ BoundDsp' /\ BootChecked'
    BY DEF ControlType, MemoryType, DoneIsMine, Sizes, BoundDsp, BootChecked
  <2>4. QED  BY <2>1, <2>2, <2>3
<1>4. QED  BY <1>1, <1>2, <1>3

\* TDF SET and KILL.
LEMMA TdIInv ==
  ASSUME IInv, TdFirst \/ TdSecond \/ TdWait \/ Exit_App
  PROVE  IInv'
<1> USE DspLinkConstants
    DEF IInv, memory, console, history, boot, NoCommand, NoJob
<1>1. CASE TdFirst
  <2> USE <1>1 DEF TdFirst, TdPoint
  <2>1. ControlType' /\ MemoryType' /\ HistoryType' /\ Numbered'
    BY DEF ControlType, MemoryType, HistoryType, Jobs, Ids, Parts, Kinds, Numbered
  <2>2. Written' /\ NoTornCommand' /\ Answering' /\ OwnPoint' /\ PointsDone'
    BY DEF ControlType, MemoryType, HistoryType, Jobs, Written, NoTornCommand,
           Answering, OwnPoint, PointsDone
  <2>3. DoneIsMine' /\ Sizes' /\ BoundDsp' /\ BootChecked'
    BY DEF ControlType, MemoryType, DoneIsMine, Sizes, BoundDsp, BootChecked
  <2>4. QED  BY <2>1, <2>2, <2>3
<1>2. CASE TdSecond
  <2> USE <1>2 DEF TdSecond, TdPoint
  <2>1. ControlType' /\ MemoryType' /\ HistoryType' /\ Numbered'
    BY DEF ControlType, MemoryType, HistoryType, Jobs, Ids, Parts, Kinds, Numbered
  <2>2. Written' /\ NoTornCommand' /\ Answering' /\ OwnPoint' /\ PointsDone'
    BY DEF ControlType, MemoryType, HistoryType, Jobs, Written, NoTornCommand,
           Answering, OwnPoint, PointsDone
  <2>3. DoneIsMine' /\ Sizes' /\ BoundDsp' /\ BootChecked'
    BY DEF ControlType, MemoryType, DoneIsMine, Sizes, BoundDsp, BootChecked
  <2>4. QED  BY <2>1, <2>2, <2>3
<1>3. CASE TdWait
  <2> USE <1>3 DEF TdWait
  <2>1. ControlType' /\ Numbered'
    BY DEF ControlType, Ids, Kinds, Numbered
  <2>2. MemoryType'
    BY DEF MemoryType
  <2>3. HistoryType'
    <3>1. [td |-> TRUE, id |-> issued] \in [td : BOOLEAN, id : Ids]
      BY DEF ControlType
    <3>2. QED  BY <3>1 DEF HistoryType
  <2>4. Written' /\ NoTornCommand' /\ Answering' /\ OwnPoint' /\ PointsDone'
    BY DEF ControlType, MemoryType, HistoryType, Jobs, Written, NoTornCommand,
           Answering, OwnPoint, PointsDone
  <2>5. DoneIsMine'
    <3>1. CASE UNCHANGED reported
      BY <3>1 DEF DoneIsMine
    <3>2. CASE pc' = "idle" /\ reported' = reported \cup {[td |-> TRUE, id |-> issued]}
      <4> USE DEF DoneIsMine
      <4>1. TAKE r \in reported'
      <4>2. CASE r = [td |-> TRUE, id |-> issued]
        BY <3>2, <4>2 DEF PointsDone
      <4>3. CASE r \in reported
        BY <4>3 DEF DoneIsMine
      <4>4. QED  BY <3>2, <4>2, <4>3
    <3>3. QED  BY <3>1, <3>2
  <2>6. Sizes' /\ BoundDsp' /\ BootChecked'
    BY DEF ControlType, MemoryType, Sizes, BoundDsp, BootChecked
  <2>7. QED  BY <2>1, <2>2, <2>3, <2>4, <2>5, <2>6
<1>4. CASE Exit_App
  <2> USE <1>4 DEF Exit_App
  <2>1. ControlType' /\ Numbered'
    BY DEF ControlType, Ids, Kinds, Numbered
  <2>2. MemoryType'
    BY DEF MemoryType
  <2>3. HistoryType'
    BY DEF HistoryType, ControlType, MemoryType, Jobs, Ids, Parts
  <2>4. Written' /\ NoTornCommand' /\ Answering' /\ OwnPoint' /\ PointsDone'
    BY DEF ControlType, MemoryType, HistoryType, Jobs, Written, NoTornCommand,
           Answering, OwnPoint, PointsDone
  <2>5. DoneIsMine' /\ Sizes' /\ BoundDsp' /\ BootChecked'
    BY DEF ControlType, MemoryType, DoneIsMine, Sizes, BoundDsp, BootChecked
  <2>6. QED  BY <2>1, <2>2, <2>3, <2>4, <2>5
<1>5. QED  BY <1>1, <1>2, <1>3, <1>4

\* The DSP and the supply.
LEMMA DspIInv ==
  ASSUME IInv, DspStart \/ DspTake \/ DspFinish \/ Restart
  PROVE  IInv'
<1> USE DspLinkConstants
    DEF IInv, memory, console, history, boot, NoCommand, NoJob
<1>1. CASE DspStart
  <2> USE <1>1 DEF DspStart
  <2>1. ControlType' /\ Numbered'
    BY DEF ControlType, Ids, Kinds, Numbered
  <2>2. MemoryType'
    BY DEF MemoryType
  <2>3. HistoryType'
    BY DEF HistoryType, ControlType, MemoryType, Jobs, Ids, Parts
  <2>4. Written' /\ NoTornCommand' /\ Answering' /\ OwnPoint' /\ PointsDone'
    BY DEF ControlType, MemoryType, HistoryType, Jobs, Written, NoTornCommand,
           Answering, OwnPoint, PointsDone
  <2>5. DoneIsMine' /\ Sizes' /\ BoundDsp' /\ BootChecked'
    BY DEF ControlType, MemoryType, DoneIsMine, Sizes, BoundDsp, BootChecked
  <2>6. QED  BY <2>1, <2>2, <2>3, <2>4, <2>5
<1>2. CASE DspTake
  <2> USE <1>2 DEF DspTake
  <2>1. ControlType' /\ Numbered'
    BY DEF ControlType, Ids, Kinds, Numbered
  <2>2. MemoryType'
    BY DEF MemoryType
  <2>3. HistoryType'
    <3>1. CASE flag = "byMPU" /\ job' = [td |-> FALSE, id |-> box.id, part |-> box.part]
      <4>1. job' \in Jobs
        BY <3>1 DEF MemoryType, Jobs
      <4>2. QED  BY <4>1 DEF HistoryType
    <3>2. CASE tdFlag = "byMPU" /\ job' = [td |-> TRUE, id |-> issued, part |-> tdPoint]
      <4>1. tdPoint \in {"first", "second"}
        BY <3>2 DEF OwnPoint
      <4>2. job' \in Jobs
        BY <3>2, <4>1 DEF ControlType, Jobs
      <4>3. QED  BY <4>2 DEF HistoryType
    <3>3. QED  BY <3>1, <3>2
  <2>4. Written' /\ NoTornCommand' /\ Answering' /\ OwnPoint' /\ PointsDone'
    BY DEF ControlType, MemoryType, HistoryType, Jobs, Written, NoTornCommand,
           Answering, OwnPoint, PointsDone
  <2>5. DoneIsMine' /\ Sizes' /\ BoundDsp' /\ BootChecked'
    BY DEF ControlType, MemoryType, DoneIsMine, Sizes, BoundDsp, BootChecked
  <2>6. QED  BY <2>1, <2>2, <2>3, <2>4, <2>5
<1>3. CASE DspFinish
  <2> USE <1>3 DEF DspFinish
  <2>1. ControlType' /\ MemoryType' /\ HistoryType' /\ Numbered'
    BY DEF ControlType, MemoryType, HistoryType, Jobs, Ids, Parts, Kinds, Numbered
  <2>2. Written' /\ NoTornCommand' /\ Answering' /\ OwnPoint' /\ PointsDone'
    BY DEF ControlType, MemoryType, HistoryType, Jobs, Written, NoTornCommand,
           Answering, OwnPoint, PointsDone
  <2>3. DoneIsMine' /\ Sizes' /\ BoundDsp' /\ BootChecked'
    BY DEF ControlType, MemoryType, DoneIsMine, Sizes, BoundDsp, BootChecked
  <2>4. QED  BY <2>1, <2>2, <2>3
<1>4. CASE Restart
  <2> USE <1>4 DEF Restart, InitSharedMemory
  <2>1. ControlType' /\ Numbered'
    <3>1. pc' = "off" /\ dsp' \in {dsp, "waiting"} /\ up' \in BOOLEAN
      OBVIOUS
    <3>2. restarts' \in 0 .. MaxRestarts
      BY DEF ControlType
    <3>3. cut' \in BOOLEAN
      BY DEF ControlType
    <3>4. QED  BY <3>1, <3>2, <3>3 DEF ControlType, Numbered
  <2>2. MemoryType'
    <3>1. CASE InitSharedMemory
      BY <3>1 DEF MemoryType, InitSharedMemory, Ids, Parts
    <3>2. CASE UNCHANGED memory
      BY <3>2 DEF MemoryType
    <3>3. QED  BY <3>1, <3>2
  <2>3. HistoryType'
    <3>1. job' \in {job, NoJob} /\ UNCHANGED history
      OBVIOUS
    <3>2. NoJob \in Jobs
      BY DEF Jobs, Parts, Ids
    <3>3. QED  BY <3>1, <3>2 DEF HistoryType
  <2>4. Written' /\ NoTornCommand' /\ Answering' /\ OwnPoint' /\ PointsDone'
    BY DEF ControlType, MemoryType, HistoryType, Jobs, Written, NoTornCommand,
           Answering, OwnPoint, PointsDone
  <2>5. DoneIsMine'
    BY DEF DoneIsMine
  <2>6. Sizes' /\ BoundDsp' /\ BootChecked'
    <3>1. /\ pc' = "off" /\ dsp' \in {dsp, "waiting"}
          /\ ~cut' => ~cut /\ pc \notin {"bind", "check"}
      OBVIOUS
    <3>2. size' = size \/ size' = [mpu |-> "zero", dsp |-> "zero"]
      OBVIOUS
    <3>3. QED  BY <3>1, <3>2 DEF ControlType, MemoryType, Sizes, BoundDsp, BootChecked
  <2>7. QED  BY <2>1, <2>2, <2>3, <2>4, <2>5, <2>6
<1>5. QED  BY <1>1, <1>2, <1>3, <1>4

LEMMA StepIInv == IInv /\ [Next]_vars => IInv'
<1> SUFFICES ASSUME IInv, [Next]_vars PROVE IInv'
  OBVIOUS
<1>1. CASE Next
  BY <1>1, BootIInv, BeginIInv, AnswerIInv, TdIInv, DspIInv DEF Next, Command, DSP
<1>2. CASE UNCHANGED vars
  BY <1>2
  DEF vars, memory, console, history, boot, IInv, ControlType, MemoryType, HistoryType,
      Numbered, Written, NoTornCommand, Answering, OwnPoint, PointsDone, DoneIsMine,
      Sizes, BoundDsp, BootChecked
<1>3. QED  BY <1>1, <1>2
-----------------------------------------------------------------------------
THEOREM Inductive == Spec => []IInv
  BY InitIInv, StepIInv, PTL DEF Spec

\* The variables keep their types; in particular ADCADJ never runs out of
\* numbers for the commands it has still to give, whatever restarts it.
THEOREM TypeCorrect == Spec => []TypeOK
<1>1. IInv => TypeOK
  BY TypeParts DEF IInv
<1>2. QED  BY <1>1, Inductive, PTL

\* The DSP takes a command that is not written completely only if the console
\* began it while the flag of an earlier one was up.
THEOREM TornOnlyUnderFlag == Spec => []NoTornCommand
<1>1. IInv => NoTornCommand
  BY DEF IInv
<1>2. QED  BY <1>1, Inductive, PTL

\* A command reported as done was carried out, unless the DSP was busy when it
\* was raised; a result of TDF SET follows both its points.
THEOREM ReportedWasDone == Spec => []DoneIsMine
<1>1. IInv => DoneIsMine
  BY DEF IInv
<1>2. QED  BY <1>1, Inductive, PTL

\* A program that passed the check of the shared memory has the same structure
\* as the DSP, and that DSP was bound in this boot unless a boot was cut short.
THEOREM CheckedAtBoot == Spec => []BootChecked
<1>1. IInv => BootChecked
  BY DEF IInv
<1>2. QED  BY <1>1, Inductive, PTL
================================================================================
