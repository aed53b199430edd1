-------------------------------- MODULE DspLink --------------------------------
(***************************************************************************)
(* The application processor (MPU) and the DSP of the unit, which share a  *)
(* stretch of uncached memory: the hand-over of the memory at boot         *)
(* (sdk/src/SharedMemMgr.c, main) and the calibration commands of the      *)
(* console (sdk/src/MSManager.c).  The console thread is the only one that *)
(* gives commands.  The firmware of the DSP is not in the repository: what *)
(* it does is taken from what the two files expect of it.                  *)
(***************************************************************************)
EXTENDS Naturals, FiniteSets

CONSTANTS MaxCommands,  \* bound on the operator's commands
          MaxRestarts,  \* bound on the restarts of the program or the unit
          WAIT          \* polls of a command's answer: 3000 in the code

ASSUME DspLinkConstants ==
  MaxCommands \in Nat /\ MaxRestarts \in Nat /\ WAIT \in Nat

\* AOF, ABF and AVF; FACTOR with a value; FRESET and ADCADJ 0; ADCADJ 1.
Kinds == {"auto", "factor", "reset", "offset"}

\* ADCADJ 1 gives its command for each of the three converters.
Following(k) == IF k = "offset" THEN 2 ELSE 0
Awaited(k)   == k # "factor"

VARIABLES
  pc,         \* where main, then the console thread is
  dsp,        \* "off", "waiting" for a size, "started", "running" or "busy"
  size,       \* m_u32dsSize: the size each side wrote, "zero" if none
  firmware,   \* size of the structure in the firmware of the DSP
  box,        \* u32CalibrationCMD and its operands: whose they are, and how
              \* much of them is written
  flag,       \* u32HFlag of m_dsMeasCalibration
  tdPoint, tdFlag,  \* u32Mode and u32HFlag of m_dsTDCalibration
  kind, more, waits,  \* command in hand, offset commands to follow, u32WaitCnt
  issued, restarts,
  job,        \* what the DSP is at
  finished,   \* history: commands and points the DSP has carried out
  reported,   \* history: commands reported as done
  overlapped, \* history: commands begun with the flag of another still up
  crowded,    \* history: commands raised while the DSP was busy
  up,         \* history: the DSP bound in this boot has written its size
  cut         \* history: a boot was cut short with the size in the memory, or ended
              \* before the DSP it had bound wrote its own

memory  == <<size, box, flag, tdPoint, tdFlag>>
console == <<kind, more, waits, issued>>
history == <<finished, reported, overlapped, crowded>>
boot    == <<restarts, up, cut>>
vars == <<pc, dsp, memory, firmware, console, job, history, boot>>

NoCommand == [id |-> 0, part |-> "cleared"]
NoJob     == [td |-> FALSE, id |-> 0, part |-> "cleared"]

Init ==
  /\ pc = "off" /\ dsp = "waiting"
  /\ size = [mpu |-> "zero", dsp |-> "zero"] /\ firmware \in {"same", "other"}
  /\ box = NoCommand /\ flag = "none" /\ tdPoint = "none" /\ tdFlag = "none"
  /\ kind = "auto" /\ more = 0 /\ waits = 0 /\ issued = 0
  /\ job = NoJob
  /\ finished = {} /\ reported = {} /\ overlapped = {} /\ crowded = {}
  /\ restarts = 0 /\ up = FALSE /\ cut = FALSE
-----------------------------------------------------------------------------
(* main: CCM_AllocShareMem and SharedMemMgr_MemCheck                       *)

InitSharedMemory ==
  /\ size' = [mpu |-> "zero", dsp |-> "zero"]
  /\ box' = NoCommand /\ flag' = "none" /\ tdPoint' = "none" /\ tdFlag' = "none"

\* If there is no memory, MemCheck ends the program.
CCM_AllocShareMem ==
  /\ pc = "off"
  /\ \/ pc' = "unbind" /\ InitSharedMemory
     \/ pc' = "ended" /\ UNCHANGED memory
  /\ UNCHANGED <<dsp, firmware, console, job, history, boot>>

Unbind ==
  /\ pc = "unbind" /\ pc' = "write"
  /\ dsp' = "off" /\ job' = NoJob /\ up' = FALSE
  /\ UNCHANGED <<memory, firmware, console, history, restarts, cut>>

DspManager_DSPOn ==
  /\ \/ pc = "write" /\ pc' = "bind" /\ size' = [size EXCEPT !.mpu = "same"]
        /\ dsp' = dsp
     \/ pc = "bind" /\ pc' = "check" /\ dsp' = "waiting" /\ size' = size
  /\ UNCHANGED <<box, flag, tdPoint, tdFlag, firmware, console, job, history, boot>>

\* Mutant: the size stays in the memory.
CheckAndLeave ==
  /\ pc = "check"
  /\ pc' = IF size.dsp = size.mpu THEN "idle" ELSE "ended"
  /\ cut' = (cut \/ dsp = "started")
  /\ UNCHANGED <<dsp, memory, firmware, console, job, history, restarts, up>>

\* After three seconds the sizes are compared, whatever the DSP did meanwhile.
CompareSizes ==
  /\ pc = "check"
  /\ pc' = IF size.dsp = size.mpu THEN "idle" ELSE "ended"
  /\ size' = [size EXCEPT !.mpu = "zero"]
  /\ cut' = (cut \/ dsp = "started")
  /\ UNCHANGED <<dsp, box, flag, tdPoint, tdFlag, firmware, console, job, history,
                 restarts, up>>

Boot == CCM_AllocShareMem \/ Unbind \/ DspManager_DSPOn \/ CompareSizes
-----------------------------------------------------------------------------
(* Calibration commands                                                    *)

Begin(k, n) ==
  /\ pc' = "fill" /\ kind' = k /\ more' = n
  /\ issued' = issued + 1
  /\ box' = [id |-> issued + 1, part |-> "cleared"]
  /\ overlapped' = IF flag = "byMPU" THEN overlapped \cup {issued + 1} ELSE overlapped
  /\ UNCHANGED <<dsp, size, flag, tdPoint, tdFlag, firmware, waits, job, finished,
                 reported, crowded, boot>>

\* The operator's command; u32CalibrationCMD is cleared.
Issue ==
  /\ pc = "idle" /\ issued < MaxCommands
  /\ \E k \in Kinds : Begin(k, Following(k))

\* ADCADJ goes on with the next converter, whatever became of the last.
NextOffset == pc = "again" /\ Begin("offset", more - 1)

\* A wrong channel, range or type is found after the command was cleared.
Reject ==
  /\ pc = "fill" /\ kind \in {"auto", "factor"} /\ box.part = "cleared"
  /\ pc' = "idle"
  /\ UNCHANGED <<dsp, memory, firmware, console, job, history, boot>>

\* Channel, target and the bits of the command, one after the other.
Fill ==
  /\ pc = "fill"
  /\ IF box.part = "cleared" THEN box' = [box EXCEPT !.part = "partial"] /\ pc' = pc
                             ELSE box' = [box EXCEPT !.part = "complete"] /\ pc' = "raise"
  /\ UNCHANGED <<dsp, size, flag, tdPoint, tdFlag, firmware, console, job, history, boot>>

\* Mutant: the flag is raised before the command is complete.
RaiseFirst ==
  /\ pc \in {"fill", "raise"} /\ flag # "byMPU"
  /\ flag' = "byMPU" /\ waits' = 0
  /\ pc' = IF pc = "fill" THEN pc ELSE IF Awaited(kind) THEN "wait" ELSE "idle"
  /\ crowded' = IF dsp = "busy" THEN crowded \cup {box.id} ELSE crowded
  /\ UNCHANGED <<dsp, size, box, tdPoint, tdFlag, firmware, kind, more, issued, job,
                 finished, reported, overlapped, boot>>

\* u32HFlag = DATA_SET_BY_MPU.  FACTOR does not wait for the answer.
Raise ==
  /\ pc = "raise"
  /\ flag' = "byMPU" /\ waits' = 0
  /\ pc' = IF Awaited(kind) THEN "wait" ELSE "idle"
  /\ crowded' = IF dsp = "busy" THEN crowded \cup {box.id} ELSE crowded
  /\ UNCHANGED <<dsp, size, box, tdPoint, tdFlag, firmware, kind, more, issued, job,
                 finished, reported, overlapped, boot>>

Return == pc' = IF more > 0 THEN "again" ELSE "idle"

\* Mutant: whatever the DSP writes is an answer.
AnyAnswer ==
  /\ pc = "wait" /\ waits <= WAIT /\ flag # "byMPU"
  /\ flag' = "readByMPU" /\ reported' = reported \cup {[td |-> FALSE, id |-> box.id]}
  /\ Return
  /\ UNCHANGED <<dsp, size, box, tdPoint, tdFlag, firmware, console, job, finished,
                 overlapped, crowded, boot>>

Done ==
  /\ pc = "wait" /\ waits <= WAIT /\ flag = "byDSP"
  /\ flag' = "readByMPU" /\ reported' = reported \cup {[td |-> FALSE, id |-> box.id]}
  /\ Return
  /\ UNCHANGED <<dsp, size, box, tdPoint, tdFlag, firmware, console, job, finished,
                 overlapped, crowded, boot>>

\* Mutant: the time-out is looked for after the answer only.
PollOn ==
  /\ pc = "wait" /\ flag # "byDSP"
  /\ waits' = waits + 1
  /\ UNCHANGED <<pc, dsp, memory, firmware, kind, more, issued, job, history, boot>>

Poll ==
  /\ pc = "wait" /\ waits <= WAIT /\ flag # "byDSP"
  /\ waits' = waits + 1
  /\ UNCHANGED <<pc, dsp, memory, firmware, kind, more, issued, job, history, boot>>

\* The flag stays as it is.
Timeout ==
  /\ pc = "wait" /\ waits > WAIT
  /\ Return
  /\ UNCHANGED <<dsp, memory, firmware, console, job, history, boot>>
-----------------------------------------------------------------------------
(* TDF SET: two points, each awaited without a bound                       *)

TdPoint(from, to, point) ==
  /\ pc = from /\ pc' = to
  /\ tdPoint' = point /\ tdFlag' = "byMPU"
  /\ UNCHANGED <<dsp, size, box, flag, firmware, kind, more, waits, job, history, boot>>

TdFirst  == /\ issued < MaxCommands /\ issued' = issued + 1
            /\ TdPoint("idle", "tdWait", "first")
TdSecond == TdPoint("tdNext", "tdWait", "second") /\ UNCHANGED issued

\* Mutant: an error is no answer.
TdWaitStrict ==
  /\ pc = "tdWait" /\ tdFlag = "byDSP"
  /\ IF tdPoint = "first" THEN pc' = "tdNext" /\ UNCHANGED reported
                    ELSE pc' = "idle" /\ reported' = reported \cup {[td |-> TRUE, id |-> issued]}
  /\ UNCHANGED <<dsp, memory, firmware, console, job, finished, overlapped, crowded, boot>>

TdWait ==
  /\ pc = "tdWait" /\ tdFlag # "byMPU"
  /\ IF tdPoint = "first" THEN pc' = "tdNext" /\ UNCHANGED reported
                    ELSE pc' = "idle" /\ reported' = reported \cup {[td |-> TRUE, id |-> issued]}
  /\ UNCHANGED <<dsp, memory, firmware, console, job, finished, overlapped, crowded, boot>>

\* KILL: DspManager_DSPOff, then exit.
Exit_App ==
  /\ pc = "idle" /\ pc' = "ended"
  /\ dsp' = "off" /\ job' = NoJob
  /\ size' = [size EXCEPT !.mpu = "zero"]
  /\ UNCHANGED <<box, flag, tdPoint, tdFlag, firmware, console, history, boot>>

Command == \/ NextOffset \/ Reject \/ Fill \/ Raise \/ Done \/ Poll \/ Timeout
           \/ TdSecond \/ TdWait
-----------------------------------------------------------------------------
(* The DSP and the supply                                                  *)

\* It waits for a size, then writes its own.
DspStart ==
  /\ \/ dsp = "waiting" /\ size.mpu # "zero" /\ dsp' = "started" /\ UNCHANGED <<size, up>>
     \/ dsp = "started" /\ dsp' = "running" /\ size' = [size EXCEPT !.dsp = firmware]
        /\ up' = (pc \notin {"off", "unbind", "write", "bind", "ended"})
  /\ UNCHANGED <<pc, box, flag, tdPoint, tdFlag, firmware, console, job, history,
                 restarts, cut>>

DspTake ==
  /\ dsp = "running" /\ dsp' = "busy"
  /\ \/ flag = "byMPU" /\ job' = [td |-> FALSE, id |-> box.id, part |-> box.part]
     \/ tdFlag = "byMPU" /\ job' = [td |-> TRUE, id |-> issued, part |-> tdPoint]
  /\ UNCHANGED <<pc, memory, firmware, console, history, boot>>

\* It succeeds or finds an error, and says so in the flag it was called by.
DspFinish ==
  /\ dsp = "busy" /\ dsp' = "running" /\ job' = NoJob
  /\ \E answer \in {"byDSP", "error"} :
       /\ IF job.td THEN tdFlag' = answer /\ flag' = flag
                    ELSE flag' = answer /\ tdFlag' = tdFlag
       /\ finished' = IF job.td \/ answer = "byDSP" THEN finished \cup {job} ELSE finished
  /\ UNCHANGED <<pc, size, box, tdPoint, firmware, console, reported, overlapped, crowded,
                 boot>>

DSP == DspStart \/ DspTake \/ DspFinish

\* The program ends by itself and is started anew, or the unit is switched off
\* and on: the memory keeps its contents for a while, and the DSP comes up first.
Restart ==
  /\ pc # "off" /\ restarts < MaxRestarts
  /\ pc' = "off" /\ restarts' = restarts + 1 /\ up' = FALSE
  /\ cut' = (cut \/ pc \in {"bind", "check"})
  /\ \/ UNCHANGED <<dsp, job, memory>>
     \/ dsp' = "waiting" /\ job' = NoJob /\ UNCHANGED memory
     \/ dsp' = "waiting" /\ job' = NoJob /\ InitSharedMemory
  /\ UNCHANGED <<firmware, console, history>>

Next == Boot \/ Issue \/ TdFirst \/ Command \/ Exit_App \/ DSP \/ Restart

Spec == Init /\ [][Next]_vars

\* The threads of the MPU run; the DSP need not answer.
FairSpec == Spec /\ WF_vars(Boot) /\ WF_vars(Command)
-----------------------------------------------------------------------------
Parts == {"cleared", "partial", "complete"}
Ids   == 0 .. MaxCommands + 2

TypeOK ==
  /\ pc \in {"off", "unbind", "write", "bind", "check", "idle", "fill", "raise", "wait",
             "again", "tdWait", "tdNext", "ended"}
  /\ dsp \in {"off", "waiting", "started", "running", "busy"}
  /\ size \in [mpu : {"zero", "same"}, dsp : {"zero", "same", "other"}]
  /\ firmware \in {"same", "other"}
  /\ box \in [id : Ids, part : Parts]
  /\ flag \in {"none", "byMPU", "byDSP", "error", "readByMPU"}
  /\ tdPoint \in {"none", "first", "second"}
  /\ tdFlag \in {"none", "byMPU", "byDSP", "error"}
  /\ kind \in Kinds /\ more \in 0 .. 2 /\ waits \in 0 .. WAIT + 1
  /\ issued \in Ids /\ restarts \in 0 .. MaxRestarts
  /\ {job} \cup finished \subseteq
       [td : BOOLEAN, id : Ids, part : Parts \cup {"first", "second"}]
  /\ reported \subseteq [td : BOOLEAN, id : Ids]
  /\ overlapped \subseteq Ids /\ crowded \subseteq Ids
  /\ up \in BOOLEAN /\ cut \in BOOLEAN

\* The DSP takes a command that is not written completely only if the console
\* began it while the flag of an earlier one was up (after a time-out, or after
\* FACTOR, which does not wait).
NoTornCommand ==
  dsp = "busy" /\ ~job.td /\ job.part # "complete" => job.id \in overlapped

\* "Done" is the answer to this command, unless the DSP was still busy when it
\* was raised: then it may be the answer to an earlier one.  TDF SET shows a result
\* only after the DSP has dealt with both points, the first one while 4 mA were put.
DoneIsMine ==
  \A r \in reported :
    IF r.td THEN \A p \in {"first", "second"} :
                   [td |-> TRUE, id |-> r.id, part |-> p] \in finished
            ELSE \/ [td |-> FALSE, id |-> r.id, part |-> "complete"] \in finished
                 \/ r.id \in crowded

\* A unit that passed the check talks to the DSP that was bound in this boot,
\* and their structures agree, however the program and the unit were restarted
\* (SharedMemMgr.c, comment of SharedMemMgr_MemCheck).  The exception: an earlier
\* boot ended before its DSP had written its size, and that DSP, or one started
\* by the size left in the memory, writes it after the memory was cleared.
BootChecked ==
  pc \in {"idle", "fill", "raise", "wait", "again", "tdWait", "tdNext"} =>
    /\ firmware = "same"
    /\ up \/ cut

\* Every command comes to an end, and so does every boot, even if the DSP never
\* answers; TDF SET, which waits without a bound, if the DSP is up and answers, be it
\* with an error.
CommandsEnd ==
  /\ pc \notin {"idle", "tdWait"} ~> pc \in {"idle", "off", "ended", "tdWait"}
  /\ WF_vars(DSP) => (pc = "tdWait" /\ dsp \in {"running", "busy"} ~> pc # "tdWait")
=============================================================================
