------------------------------ MODULE Collector ------------------------------
(***************************************************************************)
(* The thread that collects breaker events and tap changer recordings, in  *)
(* sdk/src/sensorcomm.c (subsystem_thread), Acq.c and oltc.c.  Once a pass *)
(* it polls a logger over Modbus, saves each record the logger counts,     *)
(* sleeps, and saves the recording whose flag the DSP has raised in shared *)
(* memory.  Files are named by the time.                                   *)
(*                                                                         *)
(* The time passes through the static structure of localtime, here tm.     *)
(* The commands DATE and TIME of the console fill, edit and read it without *)
(* a lock (ConsoleManager.c), and the consumer of partial discharge packets *)
(* fills it round after round with the hour of another zone, for gmtime has *)
(* the same structure in the C library.  A pointer taken once, _tm_, names *)
(* the recordings by whatever the structure then holds.                    *)
(*                                                                         *)
(* The clock is counted in units of at most a second; DAY of them stand    *)
(* for a date.  Conversions by the collector one after the other, with     *)
(* nothing between, leave what the last one leaves.  The logger is taken   *)
(* to show one record at a time and to move on when its last block was     *)
(* read, for the code counts on it: it reads as many records as the        *)
(* counter says from the same registers.                                   *)
(***************************************************************************)
EXTENDS Naturals

CONSTANTS
  MaxEvents,    \* bound on what happens to the collector: breaker operations,
                \* recordings, commands, failed reads and calls of gmtime
  LastTime,     \* bound on the two clocks, which stop there
  DAY,          \* time units in a date
  LoggerTimes,  \* what the logger's clock may show at first
  ZONE,         \* the nine hours that the consumer adds
  Typed,        \* what is typed after DATE and TIME: fields with their values (a
                \* time that no clock shows is refused by "date -s")
  Milli         \* milliseconds of each breaker event, part of its file's name

CollectorConstants ==
  /\ MaxEvents \in Nat /\ LastTime \in Nat /\ DAY \in Nat \ {0}
  /\ LoggerTimes \subseteq 0 .. LastTime /\ ZONE \in Nat
  /\ Typed \subseteq ({"day"} \X Nat) \cup ({"tod"} \X (0 .. (DAY - 1)))
  /\ Milli \in [1 .. MaxEvents -> Nat]

VARIABLES
  pc,
  now,          \* the clock of the unit
  tm,           \* the static structure of localtime
  left,         \* records still to be read in this pass
  flagRecords,  \* flag_Records[0]
  clock, setsA, \* the logger's clock, and its time as last read
  event, waves, \* the records in cbevnt and in the wave buffers, 0 for none
  eventFiles,
  oltcFiles,
  made, taken,  \* the logger's records, and those it has moved on from
  samples,      \* the two halves of the DSP's buffer: the recordings they are of
  recordings,   \* recordings completed by the DSP
  recording,    \* the DSP has written the first half of the next one
  hFlag,        \* m_dsMeasQueueData.u32HFlag
  command,      \* the console: where it is in DATE or TIME, what was typed
  spent,        \* outside events so far
  source,       \* history: what the time in tm is, "stale" if the logger's clock was
                \* not read
  spoilt,       \* history: records at hand when a read failed
  hasty,        \* history: recordings overwritten before their file, and those
                \* completed between the file of the last one and the taking down
                \* of its flag
  got,          \* history: the clock when the command began
  heard,        \* history: another time than the unit's was converted since then
  clockSet      \* history: a command has set the clock

logger    == <<made, taken>>
dsp       == <<samples, recordings, recording, hFlag, hasty>>
records   == <<left, flagRecords, event, waves, eventFiles, spoilt>>
static    == <<tm, source, heard>>
console   == <<command, got, clockSet>>
times     == <<clock, setsA>>
vars == <<pc, now, static, records, times, oltcFiles, logger, dsp, console, spent>>

Split(t) == [day |-> t \div DAY, tod |-> t % DAY]
Join(s)  == s.day * DAY + s.tod

NoCommand == [at |-> "prompt", field |-> "day", value |-> 0]

Init ==
  /\ pc = "open" /\ now = 0
  /\ tm = Split(0) /\ source = "unit" /\ heard = FALSE
  /\ left = 0 /\ flagRecords = 0 /\ clock \in LoggerTimes /\ setsA = 0
  /\ event = 0 /\ waves = 0 /\ eventFiles = {} /\ spoilt = {}
  /\ oltcFiles = {}
  /\ made = 0 /\ taken = 0
  /\ samples = <<0, 0>> /\ recordings = 0 /\ recording = FALSE
  /\ hFlag = FALSE /\ hasty = {}
  /\ command = NoCommand /\ got = 0 /\ clockSet = FALSE
  /\ spent = 0

\* localtime and gmtime; the console calls them with nothing to be heard yet.
Localtime(t, whose) ==
  /\ tm' = Split(t) /\ source' = whose
  /\ heard' = (heard \/ (whose # "unit" /\ command.at # "prompt"))
Spend == spent < MaxEvents /\ spent' = spent + 1

\* A read that is not answered; modbus_read_registers says -1, the code asks for 0.
Outcome(answered) == IF answered THEN UNCHANGED spent ELSE Spend
-----------------------------------------------------------------------------
(* A pass of subsystem_thread: the logger                                  *)

\* openAcqBus
Connect ==
  /\ pc = "open" /\ pc' = "flags"
  /\ UNCHANGED <<now, static, records, times, oltcFiles, logger, dsp, console, spent>>

\* Mutants: nothing is converted without a connection; the logger's last time is.
NoConnectionNoTime ==
  /\ pc = "open" /\ pc' = "sleep"
  /\ UNCHANGED <<now, static, records, times, oltcFiles, logger, dsp, console, spent>>
NoConnectionOldTime ==
  /\ pc = "open" /\ pc' = "sleep"
  /\ Localtime(setsA, "unit")
  /\ UNCHANGED <<now, records, times, oltcFiles, logger, dsp, console, spent>>

\* openAcqBus fails; readDateTime2
NoConnection ==
  /\ pc = "open" /\ pc' = "sleep"
  /\ Localtime(now, "unit")
  /\ UNCHANGED <<now, records, times, oltcFiles, logger, dsp, console, spent>>

\* checkRecordFlags: a failed read leaves the old count, which counts.
CheckRecordFlags(answered) ==
  LET n == IF answered THEN made - taken ELSE flagRecords
  IN  /\ pc = "flags"
      /\ Outcome(answered)
      /\ flagRecords' = n /\ left' = n
      /\ pc' = IF n > 0 THEN "event" ELSE "clock"
      /\ UNCHANGED <<now, static, times, event, waves, eventFiles, spoilt, oltcFiles,
                     logger, dsp, console>>

\* What the registers show: the first record waiting, or else the last one.
Shown == IF taken < made THEN taken + 1 ELSE taken

\* prepareFileData: the event block.
ReadEvent(answered) ==
  /\ pc = "event" /\ pc' = "waves"
  /\ Outcome(answered)
  /\ Localtime(now, "unit")
  /\ event' = IF answered THEN Shown ELSE event
  /\ spoilt' = IF answered /\ taken < made THEN spoilt
                                            ELSE spoilt \cup {Shown, taken + 1, event}
  /\ UNCHANGED <<now, left, flagRecords, waves, eventFiles, times, oltcFiles, logger,
                 dsp, console>>

MoveOn == taken' = Shown /\ UNCHANGED made

\* readAll: the waves, after which the logger moves on.  Of a read that failed
\* either the request or the answer was lost.
ReadWaves(answered) ==
  /\ pc = "waves" /\ pc' = "stamp"
  /\ Outcome(answered)
  /\ waves' = IF answered THEN Shown ELSE waves
  /\ spoilt' = IF answered THEN spoilt ELSE spoilt \cup {Shown}
  /\ MoveOn \/ (~answered /\ UNCHANGED logger)
  /\ UNCHANGED <<now, static, left, flagRecords, event, eventFiles, times, oltcFiles, dsp, console>>

\* gettimeofday, localtime
Stamp ==
  /\ pc = "stamp" /\ pc' = "save"
  /\ Localtime(now, "unit")
  /\ UNCHANGED <<now, records, times, oltcFiles, logger, dsp, console, spent>>

\* Mutant: only the seconds name a file.
EventNameBySecond == [time |-> Join(tm), ms |-> 0]
EventName == [time |-> Join(tm), ms |-> IF event = 0 THEN 0 ELSE Milli[event]]

\* Mutant: the loop runs once more than there are records.
SaveFileOneMore ==
  /\ pc = "save"
  /\ eventFiles' = eventFiles \cup {[name |-> EventName, event |-> event, waves |-> waves]}
  /\ left' = left - 1
  /\ pc' = IF left >= 1 THEN "event" ELSE "clock"
  /\ UNCHANGED <<now, static, flagRecords, event, waves, spoilt, times, oltcFiles, logger,
                 dsp, console, spent>>

\* save_file: fopen with "w+b" replaces a file of that name.
SaveFile ==
  /\ pc = "save"
  /\ eventFiles' = {f \in eventFiles : f.name # EventName}
                     \cup {[name |-> EventName, event |-> event, waves |-> waves]}
  /\ left' = left - 1
  /\ pc' = IF left > 1 THEN "event" ELSE "clock"
  /\ UNCHANGED <<now, static, flagRecords, event, waves, spoilt, times, oltcFiles, logger,
                 dsp, console, spent>>

\* readAcqDateTime: the logger's time, or the old one if the read failed;
\* closeModbus.
ReadClock(answered) ==
  /\ pc = "clock" /\ pc' = "sleep"
  /\ Outcome(answered)
  /\ setsA' = IF answered THEN clock ELSE setsA
  /\ Localtime(setsA', IF answered THEN "logger" ELSE "stale")
  /\ UNCHANGED <<now, records, clock, oltcFiles, logger, dsp, console>>

\* Mutant: the flag is looked at after records only.
LookAfterRecords ==
  /\ pc = "rest"
  /\ pc' = IF hFlag /\ flagRecords > 0 THEN "saveOltc" ELSE "open"
  /\ UNCHANGED <<now, static, records, times, oltcFiles, logger, dsp, console, spent>>

\* The flag is looked at once a pass.
LookAtFlag ==
  /\ pc = "rest"
  /\ pc' = IF hFlag THEN "saveOltc" ELSE "open"
  /\ UNCHANGED <<now, static, records, times, oltcFiles, logger, dsp, console, spent>>

\* save_oltc_file(_tm_): the name by the structure as it is, the samples as they are,
\* each converted to two bytes; but of each phase DATA_QUEUE_SIZE bytes are copied, the
\* first half of its DATA_QUEUE_SIZE samples.
FileOfRecording == [name |-> Join(tm), by |-> source, rec |-> <<samples[1], 0>>]
SaveOltcFile ==
  /\ pc = "saveOltc" /\ pc' = "clear"
  /\ oltcFiles' = {f \in oltcFiles : f.name # Join(tm)} \cup {FileOfRecording}
  /\ UNCHANGED <<now, static, records, times, logger, dsp, console, spent>>

ClearFlag ==
  /\ pc = "clear" /\ pc' = "open"
  /\ hFlag' = FALSE
  /\ UNCHANGED <<now, static, records, times, oltcFiles, logger, samples, recordings,
                 recording, hasty, console, spent>>

Collect ==
  \/ Connect \/ NoConnection
  \/ \E answered \in BOOLEAN :
       \/ CheckRecordFlags(answered) \/ ReadEvent(answered) \/ ReadWaves(answered)
       \/ ReadClock(answered)
  \/ Stamp \/ SaveFile
  \/ LookAtFlag \/ SaveOltcFile \/ ClearFlag
-----------------------------------------------------------------------------
(* Time, the logger, the DSP and the console                               *)

Later(t) == IF t < LastTime THEN t + 1 ELSE t

\* The pauses of a pass take a second or more, on both clocks.
Tick ==
  /\ now < LastTime \/ pc = "sleep"
  /\ now' = Later(now) /\ clock' = Later(clock)
  /\ pc' = IF pc = "sleep" THEN "rest" ELSE pc
  /\ UNCHANGED <<static, records, setsA, oltcFiles, logger, dsp, console, spent>>

BreakerOperates ==
  /\ Spend
  /\ made' = made + 1
  /\ UNCHANGED <<pc, now, static, records, times, oltcFiles, taken, dsp, console>>

\* The DSP fills its buffer and raises the flag.  That it waits for the flag to
\* be taken down first is up to its firmware.
RecordFirstPart ==
  /\ Spend /\ ~recording /\ recording' = TRUE
  /\ samples' = [samples EXCEPT ![1] = recordings + 1]
  /\ hasty' = IF hFlag /\ pc # "clear" THEN hasty \cup {recordings} ELSE hasty
  /\ UNCHANGED <<pc, now, static, records, times, oltcFiles, logger, recordings, hFlag,
                 console>>

RecordLastPart ==
  /\ recording /\ recording' = FALSE
  /\ samples' = [samples EXCEPT ![2] = recordings + 1]
  /\ recordings' = recordings + 1 /\ hFlag' = TRUE
  /\ hasty' = IF pc = "clear" THEN hasty \cup {recordings + 1} ELSE hasty
  /\ UNCHANGED <<pc, now, static, records, times, oltcFiles, logger, console, spent>>

\* CDM_SetDate, CDM_SetTime: gettimeofday, localtime ...
BeginCommand(field, value) ==
  /\ Spend
  /\ command.at = "prompt"
  /\ command' = [at |-> "edit", field |-> field, value |-> value]
  /\ tm' = Split(now) /\ source' = "console"
  /\ got' = now /\ heard' = FALSE
  /\ UNCHANGED <<pc, now, records, times, oltcFiles, logger, dsp, clockSet>>

\* ... the date or the time typed in the structure ...
EditTime ==
  /\ command.at = "edit"
  /\ command' = [command EXCEPT !.at = "set"]
  /\ tm' = [tm EXCEPT ![command.field] = command.value] /\ source' = "console"
  /\ UNCHANGED <<pc, now, heard, records, times, oltcFiles, logger, dsp, got, clockSet, spent>>

\* ... and "date -s" with what the structure holds.
SetClock ==
  /\ command.at = "set"
  /\ command' = NoCommand
  /\ now' = Join(tm) /\ clockSet' = TRUE
  /\ got' = 0 /\ heard' = FALSE
  /\ UNCHANGED <<pc, tm, source, records, times, oltcFiles, logger, dsp, spent>>

\* ProcessPDDataThread, once a round; the published time counts as the clock's.
ProcessPDData ==
  /\ Spend
  /\ Localtime(now + ZONE, "zone")
  /\ UNCHANGED <<pc, now, records, times, oltcFiles, logger, dsp, console>>

Others == \/ Tick \/ BreakerOperates \/ RecordFirstPart \/ RecordLastPart
          \/ \E c \in Typed : BeginCommand(c[1], c[2])
          \/ EditTime \/ SetClock
          \/ ProcessPDData

Next == Collect \/ Others

Spec == Init /\ [][Next]_vars

\* The collector runs, time passes, and the logger can be reached again and again.
FairSpec == Spec /\ WF_vars(Collect) /\ WF_vars(Tick) /\ SF_vars(Connect)
-----------------------------------------------------------------------------
Sources == {"unit", "logger", "stale", "zone", "console"}

TypeOK ==
  /\ pc \in {"open", "flags", "event", "waves", "stamp", "save", "clock", "sleep",
             "rest", "saveOltc", "clear"}
  /\ now \in Nat /\ clock \in 0 .. LastTime /\ setsA \in 0 .. LastTime /\ got \in Nat
  /\ tm \in [day : Nat, tod : 0 .. (DAY - 1)] /\ source \in Sources
  /\ {left, flagRecords, event, waves, made, taken, recordings, spent}
       \subseteq 0 .. MaxEvents
  /\ taken <= made /\ spoilt \subseteq 0 .. (MaxEvents + 1)
  /\ eventFiles \subseteq [name : [time : Nat, ms : Nat], event : 0 .. MaxEvents,
                            waves : 0 .. MaxEvents]
  /\ samples \in (0 .. MaxEvents) \X (0 .. MaxEvents)
  /\ oltcFiles \subseteq [name : Nat, by : Sources, rec : (0 .. MaxEvents) \X (0 .. MaxEvents)]
  /\ command \in [at : {"prompt", "edit", "set"}, field : {"day", "tod"}, value : Nat]
  /\ {recording, hFlag, heard, clockSet} \subseteq BOOLEAN /\ hasty \subseteq 0 .. MaxEvents

\* A record that the logger has moved on from is in a file, with its own waves,
\* whatever other records and commands came in between, unless a read failed
\* while it or the one after it was at hand, or another event, be it one that the
\* logger has not moved on from, had the same milliseconds (only these tell files
\* of one second apart).
EventKept ==
  \A r \in 1 .. taken :
    \/ r = taken /\ pc \in {"stamp", "save"}
    \/ r \in spoilt
    \/ \E q \in (1 .. made) \ {r} : Milli[q] = Milli[r]
    \/ \E f \in eventFiles : f.event = r /\ f.waves = r

\* The flag of a recording is taken down only when the first half of its samples is in
\* a file, unless that very recording was overwritten before its file, or completed
\* between the file of the one before and the taking down of the flag: an overlap
\* costs the recordings it touches and no later one.  A file of a recording is
\* replaced by that of another only if the times of two clocks, or of one that was
\* set, named them, or the new one was named by a time that the logger did not give,
\* the consumer's or a command's.
RecordingKept ==
  [][/\ hFlag /\ ~hFlag' => recordings \in hasty \/ \E f \in oltcFiles : f.rec[1] = recordings
     /\ \A f \in oltcFiles \ oltcFiles', g \in oltcFiles' \ oltcFiles :
          \/ f.by # g.by \/ g.by \in {"stale", "zone", "console"}
          \/ f.by = "unit" /\ clockSet
          \/ f.name = LastTime]_vars

\* DATE and TIME change the part of the time that was typed, or nothing if the
\* collector asked for the time meanwhile; only another time, the logger's or the
\* consumer's, converted meanwhile, can take the clock elsewhere.
ClockAsTyped ==
  [][SetClock => \/ heard
                 \/ \E t \in got .. now :
                      now' \in {t, Join([Split(t) EXCEPT ![command.field] = command.value])}]_vars

\* Recordings are taken and records are read, whatever fails now and then.
Collected == /\ hFlag ~> ~hFlag
             /\ taken < made ~> taken = made
=============================================================================
