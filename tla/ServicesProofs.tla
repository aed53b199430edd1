---------------------------- MODULE ServicesProofs ----------------------------
(***************************************************************************)
(* Proofs about the three parts of Services for every choice of constants. *)
(* Each part has an inductive invariant of its own; a step of one leaves   *)
(* the variables of the others as they are.                                *)
(***************************************************************************)
EXTENDS Services, SequenceTheorems, WellFoundedInduction, TLAPS

-----------------------------------------------------------------------------
(* The collector of events and recordings                                  *)

Busy == {"event", "waves", "stamp", "save"}

\* C!TypeOK, one variable at a time; what a clock shows can be typed.
Types ==
  /\ pc \in {"open", "flags", "event", "waves", "stamp", "save", "clock", "sleep",
             "rest", "saveOltc", "clear"}
  /\ now \in Nat /\ clock \in 0 .. LastTime /\ setsA \in 0 .. LastTime /\ got \in Nat
  /\ tm \in [day : Nat, tod : 0 .. (DAY - 1)] /\ source \in C!Sources
  /\ left \in Nat /\ flagRecords \in Nat /\ event \in Nat /\ waves \in Nat
  /\ made \in Nat /\ taken \in Nat /\ recordings \in Nat /\ spent \in Nat
  /\ samples \in (0 .. MaxEvents) \X (0 .. MaxEvents)
  /\ oltcFiles \subseteq [name : Nat, by : C!Sources,
                           rec : (0 .. MaxEvents) \X (0 .. MaxEvents)]
  /\ command \in [at : {"prompt", "edit", "set"}, field : {"day", "tod"}, value : Nat]
  /\ command.field = "tod" => command.value \in 0 .. (DAY - 1)
  /\ recording \in BOOLEAN /\ hFlag \in BOOLEAN /\ hasty \subseteq 0 .. MaxEvents
  /\ heard \in BOOLEAN /\ clockSet \in BOOLEAN

\* Every record and every recording was one of the events counted in spent, and the
\* buffers hold nothing that was not recorded; a pass that has begun a record has
\* one to read.
Counts ==
  /\ made + recordings + (IF recording THEN 1 ELSE 0) <= spent /\ spent <= MaxEvents
  /\ taken <= made /\ event <= made /\ waves <= made /\ flagRecords <= made
  /\ left <= made /\ (pc \in Busy => left >= 1)
  /\ spoilt \subseteq 0 .. (MaxEvents + 1)

\* The files of the events, named by the milliseconds of the record in them.
Filed ==
  /\ eventFiles \subseteq [name : [time : Nat, ms : Nat], event : 0 .. MaxEvents,
                            waves : 0 .. MaxEvents]
  /\ \A f \in eventFiles : f.event >= 1 => event >= 1 /\ f.name.ms = Milli[f.event]

\* What is at hand is one record with its own waves, or spoilt.
Hand ==
  /\ pc = "waves" => \/ event = taken + 1 /\ taken < made
                     \/ {taken + 1, event} \subseteq spoilt
  /\ pc \in {"stamp", "save"} => event \in spoilt \/ (event = taken /\ waves = taken)

Twin(r)   == \E q \in (1 .. made) \ {r} : Milli[q] = Milli[r]
InFile(r) == \E f \in eventFiles : f.event = r /\ f.waves = r

\* As C!EventKept, and what is not in a file yet is at hand.
Kept ==
  \A r \in 1 .. taken :
    \/ r \in spoilt \/ Twin(r) \/ InFile(r)
    \/ r = taken /\ pc \in {"stamp", "save"} /\ event = r /\ waves = r

\* While the flag is up the first half of the recording stays where the DSP wrote it,
\* and the flag is taken down after a file has it, but for recordings in hasty.
Flag ==
  /\ hFlag /\ pc # "clear" => recordings \in hasty \/ samples[1] = recordings
  /\ recording => samples[1] = recordings + 1
  /\ pc \in {"saveOltc", "clear"} => hFlag
  /\ pc = "clear" => recordings \in hasty \/ \E f \in oltcFiles : f.rec[1] = recordings

\* The recordings that one clock named have names before what it shows, and so has
\* the one that is about to be: a pause lies between two of them.
Ordered(by, shown) ==
  /\ shown <= LastTime
  /\ \A f \in oltcFiles : f.by = by => f.name < shown \/ f.name = LastTime
  /\ source = by /\ pc \in {"sleep", "rest", "saveOltc"} =>
       /\ \A f \in oltcFiles : f.by = by => f.name < C!Join(tm) \/ f.name = LastTime
       /\ C!Join(tm) <= shown
       /\ pc # "sleep" => C!Join(tm) < shown \/ C!Join(tm) = LastTime

\* Nothing sets the logger's clock; a command may set the unit's.
Named ==
  /\ \A f, g \in oltcFiles : f.name = g.name => f = g
  /\ clockSet \/ Ordered("unit", now)
  /\ Ordered("logger", clock)

\* Since a command began the structure holds a time of the clock, edited or not.
Asked ==
  command.at # "prompt" =>
    /\ got <= now
    /\ \/ heard
       \/ \E t \in got .. now :
            \/ tm = C!Split(t)
            \/ command.at = "set" /\ tm = [C!Split(t) EXCEPT ![command.field] = command.value]

CInv == Types /\ Counts /\ Filed /\ Hand /\ Kept /\ Flag /\ Named /\ Asked

\* What the numbers of the collector are.
LEMMA CollectorNumbers ==
  /\ MaxEvents \in Nat /\ LastTime \in Nat /\ DAY \in Nat \ {0} /\ ZONE \in Nat
  /\ LoggerTimes \subseteq 0 .. LastTime
  /\ Typed \subseteq ({"day"} \X Nat) \cup ({"tod"} \X (0 .. (DAY - 1)))
  /\ Milli \in [1 .. MaxEvents -> Nat]
BY ServicesConstants DEF C!CollectorConstants

LEMMA Division ==
  ASSUME NEW t \in Nat, NEW d \in Nat \ {0}
  PROVE  t \div d \in Nat /\ t % d \in 0 .. (d - 1) /\ (t \div d) * d + (t % d) = t
<1>1. t \div d \in Nat
  BY SMT
<1>2. t % d \in 0 .. (d - 1)
  BY SMT
<1>3. (t \div d) * d + (t % d) = t
  BY SMT
<1>4. QED  BY <1>1, <1>2, <1>3

LEMMA Product ==
  ASSUME NEW m \in Nat, NEW n \in Nat
  PROVE  m * n \in Nat
BY SMT

\* A time is its date and its time of day.
LEMMA SplitTime ==
  ASSUME NEW t \in Nat
  PROVE  C!Split(t) \in [day : Nat, tod : 0 .. (DAY - 1)] /\ C!Join(C!Split(t)) = t
<1>1. DAY \in Nat \ {0}
  BY CollectorNumbers
<1>2. /\ t \div DAY \in Nat /\ t % DAY \in 0 .. (DAY - 1)
      /\ (t \div DAY) * DAY + (t % DAY) = t
  BY <1>1, Division
<1>3. QED  BY <1>2 DEF C!Split, C!Join

LEMMA JoinTime ==
  ASSUME NEW s \in [day : Nat, tod : 0 .. (DAY - 1)]
  PROVE  C!Join(s) \in Nat
<1>1. DAY \in Nat /\ s.day \in Nat /\ s.tod \in Nat
  BY CollectorNumbers
<1>2. s.day * DAY \in Nat
  BY <1>1, Product
<1>3. QED  BY <1>1, <1>2 DEF C!Join

LEMMA CollectorTypes ==
  ASSUME Types, Counts, Filed
  PROVE  C!TypeOK
<1>1. /\ left \in Nat /\ flagRecords \in Nat /\ event \in Nat /\ waves \in Nat
      /\ made \in Nat /\ taken \in Nat /\ recordings \in Nat /\ spent \in Nat
      /\ recording \in BOOLEAN /\ hFlag \in BOOLEAN /\ heard \in BOOLEAN /\ clockSet \in BOOLEAN
  BY DEF Types
<1>2. /\ left \in 0 .. MaxEvents /\ flagRecords \in 0 .. MaxEvents
      /\ event \in 0 .. MaxEvents /\ waves \in 0 .. MaxEvents /\ made \in 0 .. MaxEvents
      /\ taken \in 0 .. MaxEvents /\ recordings \in 0 .. MaxEvents
      /\ spent \in 0 .. MaxEvents
  BY <1>1, CollectorNumbers DEF Counts
<1>3. {left, flagRecords, event, waves, made, taken, recordings, spent} \subseteq 0 .. MaxEvents
  BY <1>2
<1>4. {recording, hFlag, heard, clockSet} \subseteq BOOLEAN
  BY <1>1
<1>5. QED  BY <1>3, <1>4 DEF C!TypeOK, Types, Counts, Filed

LEMMA CollectorInit ==
  ASSUME Init
  PROVE  CInv
<1> USE CollectorNumbers
<1>1. C!Init
  BY DEF Init
<1>2. C!Split(0) \in [day : Nat, tod : 0 .. (DAY - 1)]
  BY SplitTime
<1>3. Types
  <2>1. samples \in (0 .. MaxEvents) \X (0 .. MaxEvents)
    BY <1>1 DEF C!Init
  <2>2. /\ command \in [at : {"prompt", "edit", "set"}, field : {"day", "tod"}, value : Nat]
        /\ command.field # "tod"
    BY <1>1 DEF C!Init, C!NoCommand
  <2>3. source \in C!Sources /\ clock \in 0 .. LastTime /\ setsA \in 0 .. LastTime
    BY <1>1 DEF C!Init, C!Sources
  <2>4. QED  BY <1>1, <1>2, <2>1, <2>2, <2>3 DEF C!Init, Types
<1>4. Counts /\ Filed /\ Hand /\ Flag
  BY <1>1 DEF C!Init, Counts, Filed, Hand, Flag, Busy
<1>5. Kept
  BY <1>1 DEF C!Init, Kept
<1>6. Named /\ Asked
  BY <1>1 DEF C!Init, Named, Ordered, Asked, C!NoCommand
<1>7. QED  BY <1>3, <1>4, <1>5, <1>6 DEF CInv

LEMMA CollectorRests ==
  ASSUME CInv, UNCHANGED collectorVars
  PROVE  CInv'
<1>1. UNCHANGED <<pc, now, tm, left, flagRecords, clock, setsA, event, waves, eventFiles, oltcFiles>>
  BY DEF collectorVars
<1>2. UNCHANGED <<made, taken, samples, recordings, recording, hFlag, command, spent, source>>
  BY DEF collectorVars
<1>3. UNCHANGED <<spoilt, hasty, got, heard, clockSet>>
  BY DEF collectorVars
<1>4. Types' /\ Counts' /\ Filed' /\ Hand'
  BY <1>1, <1>2, <1>3 DEF CInv, Types, Counts, Filed, Hand
<1>5. Kept' /\ Flag'
  BY <1>1, <1>2, <1>3 DEF CInv, Kept, Flag, Twin, InFile
<1>6. Named' /\ Asked'
  BY <1>1, <1>2, <1>3 DEF CInv, Named, Ordered, Asked, C!Join, C!Split
<1>7. QED  BY <1>4, <1>5, <1>6 DEF CInv

\* What a step of the collector or of what is around it is.
LEMMA CollectorSteps ==
  ASSUME C!Next
  PROVE  \/ C!Connect \/ C!NoConnection \/ C!Stamp \/ C!SaveFile
         \/ C!LookAtFlag \/ C!SaveOltcFile \/ C!ClearFlag
         \/ \E answered \in BOOLEAN :
              \/ C!CheckRecordFlags(answered) \/ C!ReadEvent(answered)
              \/ C!ReadWaves(answered) \/ C!ReadClock(answered)
         \/ C!Tick \/ C!BreakerOperates \/ C!RecordFirstPart \/ C!RecordLastPart
         \/ \E c \in Typed : C!BeginCommand(c[1], c[2])
         \/ C!EditTime \/ C!SetClock \/ C!ProcessPDData
BY DEF C!Next, C!Collect, C!Others

\* The record that the registers show.
LEMMA ShownRecord ==
  ASSUME Types, Counts
  PROVE  /\ C!Shown \in Nat /\ C!Shown <= made /\ taken <= C!Shown
         /\ taken < made => C!Shown = taken + 1
         /\ taken = made => C!Shown = taken
         /\ made >= 1 => C!Shown >= 1
BY DEF Types, Counts, C!Shown

\* The part of the state that belongs to the logger and its records, as a step of
\* any kind leaves or changes it.
LEMMA CountsStep ==
  ASSUME CInv, C!Next
  PROVE  Counts'
<1> DEFINE Same == UNCHANGED <<left, flagRecords, event, waves, made, taken, recordings,
                               recording, spoilt>>
<1>1. /\ Types /\ Counts /\ MaxEvents \in Nat
      /\ C!Shown \in Nat /\ C!Shown <= made /\ C!Shown <= taken + 1
  BY CollectorNumbers, ShownRecord DEF CInv, C!Shown, Types, Counts
<1>2. ASSUME NEW answered \in BOOLEAN, C!CheckRecordFlags(answered)
      PROVE  Counts'
  BY <1>1, <1>2 DEF C!CheckRecordFlags, C!Outcome, C!Spend, C!logger, C!dsp, Types, Counts, Busy
<1>3. ASSUME NEW answered \in BOOLEAN, C!ReadEvent(answered)
      PROVE  Counts'
  <2>1. spoilt' \subseteq 0 .. (MaxEvents + 1)
    BY <1>1, <1>3 DEF C!ReadEvent, Types, Counts
  <2>2. QED  BY <1>1, <1>3, <2>1 DEF C!ReadEvent, C!Outcome, C!Spend, C!logger, C!dsp, Types, Counts, Busy
<1>4. ASSUME NEW answered \in BOOLEAN, C!ReadWaves(answered)
      PROVE  Counts'
  <2>1. spoilt' \subseteq 0 .. (MaxEvents + 1)
    BY <1>1, <1>4 DEF C!ReadWaves, Types, Counts
  <2>2. taken' \in Nat /\ taken' <= made /\ made' = made
    BY <1>1, <1>4 DEF C!ReadWaves, C!MoveOn, C!logger, Types, Counts
  <2>3. QED  BY <1>1, <1>4, <2>1, <2>2 DEF C!ReadWaves, C!Outcome, C!Spend, C!dsp, Types, Counts, Busy
<1>5. CASE C!SaveFile
  BY <1>1, <1>5 DEF C!SaveFile, C!logger, C!dsp, Types, Counts, Busy
<1>6. CASE C!BreakerOperates
  BY <1>1, <1>6 DEF C!BreakerOperates, C!Spend, C!records, C!dsp, Types, Counts, Busy
<1>7. CASE C!RecordFirstPart
  BY <1>1, <1>7 DEF C!RecordFirstPart, C!Spend, C!records, C!logger, Types, Counts, Busy
<1>8. CASE C!RecordLastPart
  BY <1>1, <1>8 DEF C!RecordLastPart, C!records, C!logger, Types, Counts, Busy
<1>9. CASE Same /\ (pc' \in Busy => pc \in Busy) /\ (UNCHANGED spent \/ C!Spend)
  BY <1>1, <1>9 DEF C!Spend, Types, Counts
<1>10. ASSUME NEW answered \in BOOLEAN, C!ReadClock(answered)
       PROVE  Counts'
  <2>1. Same /\ pc' \notin Busy /\ (UNCHANGED spent \/ C!Spend)
    BY <1>10 DEF C!ReadClock, C!Outcome, C!records, C!logger, C!dsp, Busy
  <2>2. QED  BY <1>9, <2>1
<1>11. CASE C!Connect \/ C!NoConnection \/ C!LookAtFlag \/ C!SaveOltcFile \/ C!ClearFlag
  <2>1. Same /\ pc' \notin Busy /\ UNCHANGED spent
    BY <1>11 DEF C!Connect, C!NoConnection, C!LookAtFlag, C!SaveOltcFile, C!ClearFlag,
                 C!records, C!logger, C!dsp, Busy
  <2>2. QED  BY <1>9, <2>1
<1>12. CASE C!Stamp \/ C!Tick
  <2>1. Same /\ (pc' \in Busy => pc \in Busy) /\ UNCHANGED spent
    BY <1>12 DEF C!Stamp, C!Tick, C!records, C!logger, C!dsp, Busy
  <2>2. QED  BY <1>9, <2>1
<1>13. CASE C!EditTime \/ C!SetClock \/ C!ProcessPDData \/ \E c \in Typed : C!BeginCommand(c[1], c[2])
  <2>1. Same /\ UNCHANGED pc /\ (UNCHANGED spent \/ C!Spend)
    BY <1>13 DEF C!EditTime, C!SetClock, C!ProcessPDData, C!BeginCommand, C!Spend,
                 C!records, C!logger, C!dsp
  <2>2. QED  BY <1>9, <2>1
<1>14. QED
  BY <1>2, <1>3, <1>4, <1>5, <1>6, <1>7, <1>8, <1>10, <1>11, <1>12, <1>13, CollectorSteps

LEMMA FiledStep ==
  ASSUME CInv, C!Next
  PROVE  Filed'
<1>1. Types /\ Counts /\ Filed /\ MaxEvents \in Nat /\ Milli \in [1 .. MaxEvents -> Nat]
  BY CollectorNumbers DEF CInv
<1>2. CASE C!SaveFile
  <2>1. C!Join(tm) \in Nat
    BY <1>1, JoinTime DEF Types
  <2>2. event \in 0 .. MaxEvents /\ waves \in 0 .. MaxEvents
    BY <1>1 DEF Types, Counts
  <2>3. C!EventName \in [time : Nat, ms : Nat] /\ (event >= 1 => C!EventName.ms = Milli[event])
    BY <1>1, <2>1, <2>2 DEF C!EventName
  <2>4. \A f \in eventFiles' : f \in eventFiles \/ f = [name |-> C!EventName, event |-> event, waves |-> waves]
    BY <1>2 DEF C!SaveFile
  <2>5. UNCHANGED event
    BY <1>2 DEF C!SaveFile
  <2>6. QED  BY <1>1, <2>2, <2>3, <2>4, <2>5 DEF Filed
<1>3. ASSUME NEW answered \in BOOLEAN, C!ReadEvent(answered)
      PROVE  Filed'
  <2>1. event >= 1 => event' >= 1
    BY <1>1, <1>3, ShownRecord DEF C!ReadEvent, Types, Counts
  <2>2. QED  BY <1>1, <1>3, <2>1 DEF C!ReadEvent, Types, Filed
<1>4. CASE UNCHANGED <<eventFiles, event>>
  BY <1>1, <1>4 DEF Filed
<1>5. ASSUME NEW answered \in BOOLEAN, C!CheckRecordFlags(answered) \/ C!ReadWaves(answered)
      PROVE  Filed'
  BY <1>4, <1>5 DEF C!CheckRecordFlags, C!ReadWaves
<1>6. ASSUME NEW answered \in BOOLEAN, C!ReadClock(answered)
       PROVE  Filed'
  BY <1>4, <1>6 DEF C!ReadClock, C!records
<1>7. CASE C!Connect \/ C!NoConnection \/ C!Stamp \/ C!LookAtFlag \/ C!SaveOltcFile \/ C!ClearFlag
  BY <1>4, <1>7 DEF C!Connect, C!NoConnection, C!Stamp, C!LookAtFlag, C!SaveOltcFile,
                    C!ClearFlag, C!records
<1>8. CASE C!Others
  BY <1>4, <1>8 DEF C!Others, C!Tick, C!BreakerOperates, C!RecordFirstPart, C!RecordLastPart,
                    C!BeginCommand, C!EditTime, C!SetClock, C!ProcessPDData, C!records
<1>9. QED
  BY <1>2, <1>3, <1>5, <1>6, <1>7, <1>8 DEF C!Next, C!Collect

\* What neither reads nor stamps nor saves a record leaves what is at hand; records
\* and spoilt ones only become more.
LEMMA HandStep ==
  ASSUME CInv, C!Next
  PROVE  Hand'
<1>1. Types /\ Counts /\ Hand
  BY DEF CInv
<1>2. ASSUME NEW answered \in BOOLEAN, C!ReadEvent(answered)
      PROVE  Hand'
  <2>1. pc' = "waves" /\ UNCHANGED <<made, taken>>
    BY <1>2 DEF C!ReadEvent, C!logger
  <2>2. CASE answered /\ taken < made
    <3>1. event' = taken + 1
      BY <1>1, <1>2, <2>2, ShownRecord DEF C!ReadEvent
    <3>2. QED  BY <2>1, <2>2, <3>1 DEF Hand
  <2>3. CASE ~(answered /\ taken < made)
    <3>1. /\ spoilt' = spoilt \cup {C!Shown, taken + 1, event}
          /\ event' \in {C!Shown, event}
      BY <1>2, <2>3 DEF C!ReadEvent
    <3>2. QED  BY <2>1, <3>1 DEF Hand
  <2>4. QED  BY <2>2, <2>3
<1>3. ASSUME NEW answered \in BOOLEAN, C!ReadWaves(answered)
      PROVE  Hand'
  <2>1. /\ pc = "waves" /\ pc' = "stamp" /\ UNCHANGED event /\ spoilt \subseteq spoilt'
        /\ (answered => waves' = C!Shown /\ taken' = C!Shown)
        /\ (~answered => C!Shown \in spoilt')
    BY <1>3 DEF C!ReadWaves, C!MoveOn
  <2>2. event \in spoilt \/ event = C!Shown
    BY <1>1, <2>1, ShownRecord DEF Hand
  <2>3. event' \in spoilt' \/ (event' = taken' /\ waves' = taken')
    BY <2>1, <2>2
  <2>4. QED  BY <2>1, <2>3 DEF Hand
<1>4. CASE /\ UNCHANGED <<event, waves, taken, spoilt>> /\ made' \in Nat /\ made <= made'
           /\ pc' = pc \/ pc' \notin {"waves", "stamp", "save"} \/ (pc = "stamp" /\ pc' = "save")
  BY <1>1, <1>4 DEF Hand, Types
<1>5. CASE C!BreakerOperates
  <2>1. made' \in Nat /\ made <= made'
    BY <1>1, <1>5 DEF C!BreakerOperates, Types
  <2>2. QED  BY <1>4, <1>5, <2>1 DEF C!BreakerOperates, C!records
<1>6. CASE UNCHANGED <<event, waves, taken, spoilt, made>>
  <2>1. made' \in Nat /\ made <= made'
    BY <1>1, <1>6 DEF Types
  <2>2. ASSUME NEW answered \in BOOLEAN, C!CheckRecordFlags(answered)
        PROVE  Hand'
    BY <1>4, <1>6, <2>1, <2>2 DEF C!CheckRecordFlags
  <2>3. ASSUME NEW answered \in BOOLEAN, C!ReadClock(answered)
        PROVE  Hand'
    BY <1>4, <1>6, <2>1, <2>3 DEF C!ReadClock
  <2>4. CASE C!Connect \/ C!NoConnection \/ C!Stamp \/ C!SaveFile \/ C!LookAtFlag
               \/ C!SaveOltcFile \/ C!ClearFlag \/ C!Tick
    BY <1>4, <1>6, <2>1, <2>4 DEF C!Connect, C!NoConnection, C!Stamp, C!SaveFile, C!LookAtFlag,
       C!SaveOltcFile, C!ClearFlag, C!Tick
  <2>5. CASE UNCHANGED pc
    BY <1>4, <1>6, <2>1, <2>5
  <2>6. CASE C!RecordFirstPart \/ C!RecordLastPart \/ C!EditTime \/ C!SetClock \/ C!ProcessPDData
    BY <2>5, <2>6 DEF C!RecordFirstPart, C!RecordLastPart, C!EditTime, C!SetClock, C!ProcessPDData
  <2>7. ASSUME NEW c \in Typed, C!BeginCommand(c[1], c[2])
        PROVE  Hand'
    BY <2>5, <2>7 DEF C!BeginCommand
  <2>8. QED  BY <1>2, <1>3, <1>5, <2>2, <2>3, <2>4, <2>6, <2>7, CollectorSteps
<1>7. \/ \E answered \in BOOLEAN : C!ReadEvent(answered) \/ C!ReadWaves(answered)
      \/ C!BreakerOperates \/ UNCHANGED <<event, waves, taken, spoilt, made>>
  BY CollectorSteps DEF C!Connect, C!NoConnection, C!CheckRecordFlags, C!ReadClock, C!Stamp,
     C!SaveFile, C!LookAtFlag, C!SaveOltcFile, C!ClearFlag, C!Tick, C!RecordFirstPart,
     C!RecordLastPart, C!BeginCommand, C!EditTime, C!SetClock, C!ProcessPDData, C!records, C!logger
<1>8. QED  BY <1>2, <1>3, <1>5, <1>6, <1>7

LEMMA KeptStep ==
  ASSUME CInv, C!Next
  PROVE  Kept'
<1>1. Types /\ Counts /\ Filed /\ Hand /\ Kept
  BY DEF CInv
<1>2. CASE C!SaveFile
  <2> SUFFICES ASSUME NEW r \in 1 .. taken
               PROVE  r \in spoilt \/ Twin(r) \/ InFile(r)'
    BY <1>2 DEF C!SaveFile, C!logger, Kept, Twin
  <2> DEFINE new == [name |-> C!EventName, event |-> event, waves |-> waves]
  <2>1. /\ pc = "save" /\ new \in eventFiles'
        /\ \A f \in eventFiles : f.name # C!EventName => f \in eventFiles'
    BY <1>2 DEF C!SaveFile
  <2>2. r \in Nat /\ r >= 1 /\ r <= taken /\ taken <= made /\ r \in 1 .. MaxEvents
    <3>1. /\ taken \in Nat /\ made \in Nat /\ recordings \in Nat /\ spent \in Nat
          /\ recording \in BOOLEAN
      BY <1>1 DEF Types
    <3>2. taken <= made /\ made <= MaxEvents
      BY <1>1, <3>1, CollectorNumbers DEF Counts
    <3>3. QED  BY <3>1, <3>2, CollectorNumbers
  <2>3. CASE event = r /\ waves = r
    BY <2>1, <2>3 DEF InFile
  <2>4. CASE r \notin spoilt /\ ~Twin(r) /\ ~(event = r /\ waves = r)
    <3>1. PICK f \in eventFiles : f.event = r /\ f.waves = r
      BY <1>1, <2>4 DEF Kept, InFile
    <3>2. f.name.ms = Milli[r] /\ event >= 1
      BY <1>1, <2>2, <3>1 DEF Filed
    <3>3. event # r
      BY <1>1, <2>1, <2>2, <2>4 DEF Hand, Types
    <3>4. event \in (1 .. made) \ {r}
      BY <1>1, <3>2, <3>3 DEF Types, Counts
    <3>5. Milli[event] # Milli[r]
      BY <2>4, <3>4 DEF Twin
    <3>6. C!EventName.ms = Milli[event]
      BY <1>1, <3>2 DEF C!EventName, Types
    <3>7. f \in eventFiles'
      BY <2>1, <3>2, <3>5, <3>6
    <3>8. QED  BY <3>1, <3>7 DEF InFile
  <2>5. QED  BY <2>3, <2>4
<1>3. ASSUME NEW answered \in BOOLEAN, C!ReadWaves(answered)
      PROVE  Kept'
  <2>1. /\ pc = "waves" /\ pc' = "stamp" /\ UNCHANGED <<event, eventFiles, made>>
        /\ spoilt \subseteq spoilt' /\ (taken' = taken \/ taken' = C!Shown)
        /\ (answered => waves' = C!Shown /\ taken' = C!Shown)
        /\ (~answered => C!Shown \in spoilt')
    BY <1>3 DEF C!ReadWaves, C!MoveOn, C!logger
  <2> SUFFICES ASSUME NEW r \in 1 .. taken'
               PROVE  \/ r \in spoilt' \/ Twin(r)' \/ InFile(r)'
                      \/ r = taken' /\ event' = r /\ waves' = r
    BY <2>1 DEF Kept
  <2>2. CASE r \in 1 .. taken
    BY <1>1, <2>1, <2>2 DEF Kept, Twin, InFile
  <2>3. CASE r \notin 1 .. taken
    <3>1. r = C!Shown /\ r = taken' /\ r = taken + 1
      BY <1>1, <2>1, <2>3, ShownRecord DEF Types, Counts
    <3>2. event = r \/ r \in spoilt
      BY <1>1, <2>1, <3>1 DEF Hand
    <3>3. QED  BY <2>1, <3>1, <3>2
  <2>4. QED  BY <2>2, <2>3
<1>4. CASE /\ UNCHANGED <<event, waves, taken, eventFiles>> /\ spoilt \subseteq spoilt'
           /\ made' \in Nat /\ made <= made'
           /\ pc \in {"stamp", "save"} => pc' \in {"stamp", "save"}
  <2> SUFFICES ASSUME NEW r \in 1 .. taken
               PROVE  \/ r \in spoilt' \/ Twin(r)' \/ InFile(r)'
                      \/ r = taken' /\ pc' \in {"stamp", "save"} /\ event' = r /\ waves' = r
    BY <1>4 DEF Kept
  <2>1. Twin(r) => Twin(r)'
    BY <1>1, <1>4 DEF Twin, Types
  <2>2. InFile(r) => InFile(r)'
    BY <1>4 DEF InFile
  <2>3. QED  BY <1>1, <1>4, <2>1, <2>2 DEF Kept
<1>5. ASSUME NEW answered \in BOOLEAN, C!ReadEvent(answered)
      PROVE  Kept'
  <2> SUFFICES ASSUME NEW r \in 1 .. taken
               PROVE  r \in spoilt' \/ Twin(r)' \/ InFile(r)'
    BY <1>5 DEF C!ReadEvent, C!logger, Kept
  <2>1. r \in spoilt \/ Twin(r) \/ InFile(r)
    BY <1>1, <1>5 DEF C!ReadEvent, Kept
  <2>2. spoilt \subseteq spoilt' /\ UNCHANGED <<made, eventFiles>>
    BY <1>5 DEF C!ReadEvent, C!logger
  <2>3. QED  BY <2>1, <2>2 DEF Twin, InFile
<1>6. ASSUME C!BreakerOperates
      PROVE  Kept'
  <2>1. made' \in Nat /\ made <= made'
    BY <1>1, <1>6 DEF C!BreakerOperates, Types
  <2>2. QED  BY <1>4, <1>6, <2>1 DEF C!BreakerOperates, C!records
<1>7. CASE /\ UNCHANGED <<event, waves, taken, eventFiles, spoilt, made>>
           /\ pc \in {"stamp", "save"} => pc' \in {"stamp", "save"}
  <2>1. made' \in Nat /\ made <= made'
    BY <1>1, <1>7 DEF Types
  <2>2. QED  BY <1>4, <1>7, <2>1
<1>8. ASSUME NEW answered \in BOOLEAN, C!CheckRecordFlags(answered)
      PROVE  Kept'
  BY <1>7, <1>8 DEF C!CheckRecordFlags, C!logger
<1>9. ASSUME NEW answered \in BOOLEAN, C!ReadClock(answered)
      PROVE  Kept'
  BY <1>7, <1>9 DEF C!ReadClock, C!records, C!logger
<1>10. CASE C!Connect \/ C!NoConnection \/ C!Stamp \/ C!LookAtFlag \/ C!SaveOltcFile
              \/ C!ClearFlag \/ C!Tick
  BY <1>7, <1>10 DEF C!Connect, C!NoConnection, C!Stamp, C!LookAtFlag, C!SaveOltcFile,
     C!ClearFlag, C!Tick, C!records, C!logger
<1>11. CASE C!RecordFirstPart \/ C!RecordLastPart \/ C!EditTime \/ C!SetClock \/ C!ProcessPDData
  BY <1>7, <1>11 DEF C!RecordFirstPart, C!RecordLastPart, C!EditTime, C!SetClock,
     C!ProcessPDData, C!records, C!logger
<1>12. ASSUME NEW c \in Typed, C!BeginCommand(c[1], c[2])
       PROVE  Kept'
  BY <1>7, <1>12 DEF C!BeginCommand, C!records, C!logger
<1>13. QED
  BY <1>2, <1>3, <1>5, <1>6, <1>8, <1>9, <1>10, <1>11, <1>12, CollectorSteps

LEMMA FlagStep ==
  ASSUME CInv, C!Next
  PROVE  Flag'
<1>1. Types /\ Flag
  BY DEF CInv
<1>2. CASE C!RecordFirstPart
  <2>1. /\ recording' /\ ~recording /\ samples'[1] = recordings + 1
        /\ hasty' = IF hFlag /\ pc # "clear" THEN hasty \cup {recordings} ELSE hasty
        /\ UNCHANGED <<pc, recordings, hFlag, oltcFiles>>
    BY <1>1, <1>2 DEF C!RecordFirstPart, Types
  <2>2. QED  BY <1>1, <2>1 DEF Flag
<1>3. CASE C!RecordLastPart
  <2>1. /\ recording /\ ~recording' /\ samples'[1] = recordings + 1
        /\ recordings' = recordings + 1 /\ hFlag'
        /\ hasty' = IF pc = "clear" THEN hasty \cup {recordings + 1} ELSE hasty
        /\ UNCHANGED <<pc, oltcFiles>>
    BY <1>1, <1>3 DEF C!RecordLastPart, Types, Flag
  <2>2. QED  BY <1>1, <2>1 DEF Flag
<1>4. CASE C!LookAtFlag
  BY <1>1, <1>4 DEF C!LookAtFlag, C!dsp, Flag
<1>5. CASE C!SaveOltcFile
  <2>1. hFlag /\ (recordings \in hasty \/ samples[1] = recordings)
    BY <1>1, <1>5 DEF C!SaveOltcFile, Flag
  <2>2. C!FileOfRecording \in oltcFiles' /\ C!FileOfRecording.rec[1] = samples[1]
    BY <1>5 DEF C!SaveOltcFile, C!FileOfRecording
  <2>3. QED  BY <1>1, <1>5, <2>1, <2>2 DEF C!SaveOltcFile, C!dsp, Flag
<1>6. CASE C!ClearFlag
  BY <1>1, <1>6 DEF C!ClearFlag, Flag
<1>7. CASE /\ UNCHANGED <<C!dsp, oltcFiles>>
           /\ pc' \in {"saveOltc", "clear"} \/ pc = "clear" => pc' = pc
  BY <1>1, <1>7 DEF C!dsp, Flag
<1>8. ASSUME NEW answered \in BOOLEAN,
             C!CheckRecordFlags(answered) \/ C!ReadEvent(answered) \/ C!ReadWaves(answered)
      PROVE  Flag'
  BY <1>7, <1>8 DEF C!CheckRecordFlags, C!ReadEvent, C!ReadWaves
<1>9. ASSUME NEW answered \in BOOLEAN, C!ReadClock(answered)
      PROVE  Flag'
  BY <1>7, <1>9 DEF C!ReadClock
<1>10. CASE C!Connect \/ C!NoConnection \/ C!Stamp \/ C!SaveFile \/ C!Tick
  BY <1>7, <1>10 DEF C!Connect, C!NoConnection, C!Stamp, C!SaveFile, C!Tick
<1>11. CASE C!BreakerOperates \/ C!EditTime \/ C!SetClock \/ C!ProcessPDData
  BY <1>7, <1>11 DEF C!BreakerOperates, C!EditTime, C!SetClock, C!ProcessPDData
<1>12. ASSUME NEW c \in Typed, C!BeginCommand(c[1], c[2])
       PROVE  Flag'
  BY <1>7, <1>12 DEF C!BeginCommand
<1>13. QED
  BY <1>2, <1>3, <1>4, <1>5, <1>6, <1>8, <1>9, <1>10, <1>11, <1>12, CollectorSteps

\* The two clocks after the file of a recording: the name is before both times if it
\* was taken from them.
LEMMA NamedSave ==
  ASSUME CInv, C!SaveOltcFile
  PROVE  Named'
<1> DEFINE new == C!FileOfRecording
<1>1. Named /\ new.name = C!Join(tm) /\ new.by = source
  BY DEF CInv, C!FileOfRecording
<1>2. /\ pc = "saveOltc" /\ pc' = "clear" /\ UNCHANGED <<clockSet, now, clock>>
      /\ oltcFiles' = {f \in oltcFiles : f.name # C!Join(tm)} \cup {new}
  BY DEF C!SaveOltcFile, C!console, C!times
<1> HIDE DEF new
<1>3. \A f, g \in oltcFiles' : f.name = g.name => f = g
  BY <1>1, <1>2 DEF Named
<1>4. ASSUME Ordered("unit", now)
      PROVE  Ordered("unit", now)'
  <2>1. \A f \in oltcFiles' : f.by = "unit" => f.name < now \/ f.name = LastTime
    BY <1>1, <1>2, <1>4 DEF Ordered
  <2>2. QED  BY <1>2, <1>4, <2>1 DEF Ordered
<1>5. Ordered("logger", clock)'
  <2>1. \A f \in oltcFiles' : f.by = "logger" => f.name < clock \/ f.name = LastTime
    BY <1>1, <1>2 DEF Named, Ordered
  <2>2. QED  BY <1>1, <1>2, <2>1 DEF Named, Ordered
<1>6. QED  BY <1>1, <1>2, <1>3, <1>4, <1>5 DEF Named

\* A pause takes both clocks on.
LEMMA NamedTick ==
  ASSUME CInv, C!Tick
  PROVE  Named'
<1> DEFINE Pause == {"sleep", "rest", "saveOltc"}
<1>1. /\ Types /\ Named /\ LastTime \in Nat /\ C!Join(tm) \in Nat
      /\ \A f \in oltcFiles : f.name \in Nat
  BY CollectorNumbers, JoinTime DEF CInv, Types
<1>2. /\ now' = C!Later(now) /\ clock' = C!Later(clock)
      /\ pc' \in Pause => pc \in Pause
      /\ pc' # "sleep"
      /\ UNCHANGED <<clockSet, oltcFiles, tm, source>>
  BY DEF C!Tick, C!static, C!console
<1>3. C!Join(tm)' = C!Join(tm)
  BY <1>2 DEF C!Join
<1>4. ASSUME NEW t \in Nat, t <= LastTime
      PROVE  /\ C!Later(t) \in Nat /\ t <= C!Later(t) /\ C!Later(t) <= LastTime
             /\ t < C!Later(t) \/ C!Later(t) = LastTime
  BY <1>1, <1>4 DEF C!Later
<1>5. ASSUME Ordered("unit", now)
      PROVE  Ordered("unit", now)'
  <2>1. now <= LastTime /\ now \in Nat
    BY <1>1, <1>5 DEF Ordered, Types
  <2>2. /\ now' \in Nat /\ now <= now' /\ now' <= LastTime
        /\ now < now' \/ now' = LastTime
    BY <1>2, <1>4, <2>1
  <2>3. \A f \in oltcFiles : f.by = "unit" => f.name < now' \/ f.name = LastTime
    BY <1>1, <1>5, <2>1, <2>2 DEF Ordered
  <2>4. source = "unit" /\ pc \in Pause =>
          /\ C!Join(tm) <= now'
          /\ C!Join(tm) < now' \/ C!Join(tm) = LastTime
    BY <1>1, <1>5, <2>1, <2>2 DEF Ordered
  <2>5. QED  BY <1>2, <1>3, <1>5, <2>2, <2>3, <2>4 DEF Ordered
<1>6. Ordered("logger", clock)'
  <2>1. clock <= LastTime /\ clock \in Nat
    BY <1>1 DEF Types
  <2>2. /\ clock' \in Nat /\ clock <= clock' /\ clock' <= LastTime
        /\ clock < clock' \/ clock' = LastTime
    BY <1>2, <1>4, <2>1
  <2>3. \A f \in oltcFiles : f.by = "logger" => f.name < clock' \/ f.name = LastTime
    BY <1>1, <2>1, <2>2 DEF Named, Ordered
  <2>4. source = "logger" /\ pc \in Pause =>
          /\ C!Join(tm) <= clock'
          /\ C!Join(tm) < clock' \/ C!Join(tm) = LastTime
    BY <1>1, <2>1, <2>2 DEF Named, Ordered
  <2>5. QED  BY <1>1, <1>2, <1>3, <2>2, <2>3, <2>4 DEF Named, Ordered
<1>7. QED  BY <1>1, <1>2, <1>5, <1>6 DEF Named

\* The time that a pass ends with is that of its clock.
LEMMA NamedConversion ==
  ASSUME CInv, \/ C!NoConnection
               \/ \E answered \in BOOLEAN : C!ReadClock(answered)
  PROVE  Named'
<1>1. /\ Types /\ Named /\ LastTime \in Nat /\ DAY \in Nat
  BY CollectorNumbers DEF CInv
<1>2. pc' = "sleep" /\ UNCHANGED <<clockSet, now, clock, oltcFiles>>
  BY DEF C!NoConnection, C!ReadClock, C!console, C!times
<1>3. CASE C!NoConnection
  <2>1. tm' = C!Split(now) /\ source' = "unit"
    BY <1>3 DEF C!NoConnection, C!Localtime
  <2>2. C!Join(tm)' = now
    <3>1. C!Join(tm') = now
      BY <1>1, <2>1, SplitTime DEF Types
    <3>2. QED  BY <3>1 DEF C!Join
  <2>3. Ordered("unit", now) => Ordered("unit", now)'
    BY <1>1, <1>2, <2>1, <2>2 DEF Ordered, Types
  <2>4. QED  BY <1>1, <1>2, <2>1, <2>3 DEF Named, Ordered
<1>4. ASSUME C!ReadClock(TRUE)
      PROVE  Named'
  <2>1. tm' = C!Split(clock) /\ source' = "logger"
    BY <1>4 DEF C!ReadClock, C!Localtime, C!Split
  <2>2. C!Join(tm)' = clock
    <3>1. clock \in Nat
      BY <1>1 DEF Types
    <3>2. C!Join(tm') = clock
      BY <2>1, <3>1, SplitTime
    <3>3. QED  BY <3>2 DEF C!Join
  <2>3. Ordered("logger", clock)'
    BY <1>1, <1>2, <2>1, <2>2 DEF Named, Ordered, Types
  <2>4. QED  BY <1>1, <1>2, <2>1, <2>3 DEF Named, Ordered
<1>5. ASSUME C!ReadClock(FALSE)
      PROVE  Named'
  <2>1. source' = "stale"
    BY <1>5 DEF C!ReadClock, C!Localtime
  <2>2. QED  BY <1>1, <1>2, <2>1 DEF Named, Ordered
<1>6. QED  BY <1>3, <1>4, <1>5

LEMMA NamedStep ==
  ASSUME CInv, C!Next
  PROVE  Named'
<1> DEFINE Pause == {"sleep", "rest", "saveOltc"}
<1>1. Named
  BY DEF CInv
<1>2. CASE /\ UNCHANGED <<oltcFiles, clockSet, now, clock>>
           /\ (pc' \notin Pause \/ source' \notin {"unit", "logger"})
  BY <1>1, <1>2 DEF Named, Ordered
<1>3. CASE /\ UNCHANGED <<oltcFiles, clockSet, now, clock, tm, source>>
           /\ (pc' \in Pause => pc \in Pause /\ pc # "sleep" /\ pc' # "sleep") \/ pc' = pc
  BY <1>1, <1>3 DEF Named, Ordered, C!Join
<1>4. CASE C!SetClock
  <2>1. clockSet' /\ UNCHANGED <<oltcFiles, clock, pc, tm, source>>
    BY <1>4 DEF C!SetClock, C!times
  <2>2. QED  BY <1>1, <2>1 DEF Named, Ordered, C!Join
<1>5. ASSUME NEW answered \in BOOLEAN,
             C!CheckRecordFlags(answered) \/ C!ReadEvent(answered) \/ C!ReadWaves(answered)
      PROVE  Named'
  BY <1>2, <1>5 DEF C!CheckRecordFlags, C!ReadEvent, C!ReadWaves, C!console, C!times
<1>6. CASE C!Connect \/ C!Stamp \/ C!SaveFile \/ C!ClearFlag
  BY <1>2, <1>6 DEF C!Connect, C!Stamp, C!SaveFile, C!ClearFlag, C!console, C!times
<1>7. CASE C!LookAtFlag
  BY <1>3, <1>7 DEF C!LookAtFlag, C!static, C!console, C!times
<1>8. CASE C!BreakerOperates \/ C!RecordFirstPart \/ C!RecordLastPart
  BY <1>3, <1>8 DEF C!BreakerOperates, C!RecordFirstPart, C!RecordLastPart, C!static, C!console,
     C!times
<1>9. CASE C!EditTime \/ C!ProcessPDData
  BY <1>2, <1>9 DEF C!EditTime, C!ProcessPDData, C!Localtime, C!console, C!times
<1>10. ASSUME NEW c \in Typed, C!BeginCommand(c[1], c[2])
       PROVE  Named'
  BY <1>2, <1>10 DEF C!BeginCommand, C!times
<1>11. QED
  BY <1>4, <1>5, <1>6, <1>7, <1>8, <1>9, <1>10, NamedSave, NamedTick, NamedConversion,
     CollectorSteps

LEMMA AskedStep ==
  ASSUME CInv, C!Next
  PROVE  Asked'
<1>1. Types /\ Asked
  BY DEF CInv
<1>2. CASE UNCHANGED <<command, got>> /\ now' = now /\ C!Localtime(now, "unit")
  <2>1. tm' = C!Split(now) /\ heard' = heard
    BY <1>1, <1>2 DEF C!Localtime, Types
  <2>2. command.at # "prompt" => got <= now /\ now \in got .. now
    BY <1>1 DEF Types, Asked
  <2>3. QED  BY <1>2, <2>1, <2>2 DEF Asked
<1>3. CASE UNCHANGED <<command, got, now>> /\ \E t, w : C!Localtime(t, w) /\ w # "unit"
  BY <1>1, <1>3 DEF Asked, C!Localtime
<1>4. CASE UNCHANGED <<command, got, tm, heard>> /\ now' \in Nat /\ now <= now'
  BY <1>1, <1>4 DEF Asked, Types, C!Split
<1>5. CASE UNCHANGED <<command, got, tm, heard, now>>
  BY <1>1, <1>4, <1>5 DEF Types
<1>6. ASSUME NEW answered \in BOOLEAN, C!CheckRecordFlags(answered) \/ C!ReadWaves(answered)
      PROVE  Asked'
  BY <1>5, <1>6 DEF C!CheckRecordFlags, C!ReadWaves, C!static, C!console
<1>7. ASSUME NEW answered \in BOOLEAN, C!ReadEvent(answered)
      PROVE  Asked'
  BY <1>2, <1>7 DEF C!ReadEvent, C!console
<1>8. ASSUME NEW answered \in BOOLEAN, C!ReadClock(answered)
       PROVE  Asked'
  BY <1>3, <1>8 DEF C!ReadClock, C!console
<1>9. CASE C!NoConnection \/ C!Stamp
  BY <1>2, <1>9 DEF C!NoConnection, C!Stamp, C!console
<1>10. CASE C!Connect \/ C!SaveFile \/ C!LookAtFlag \/ C!SaveOltcFile \/ C!ClearFlag
  BY <1>5, <1>10 DEF C!Connect, C!SaveFile, C!LookAtFlag, C!SaveOltcFile, C!ClearFlag,
     C!static, C!console
<1>11. CASE C!BreakerOperates \/ C!RecordFirstPart \/ C!RecordLastPart
  BY <1>5, <1>11 DEF C!BreakerOperates, C!RecordFirstPart, C!RecordLastPart, C!static, C!console
<1>12. CASE C!Tick
  <2>1. now \in Nat
    BY <1>1 DEF Types
  <2>2. now' = now + 1 \/ now' = now
    BY <1>12 DEF C!Tick, C!Later
  <2>3. now' \in Nat /\ now <= now'
    BY <2>1, <2>2
  <2>4. QED  BY <1>4, <1>12, <2>3 DEF C!Tick, C!static, C!console
<1>13. CASE C!ProcessPDData
  <2>1. UNCHANGED <<command, got, now>> /\ C!Localtime(now + ZONE, "zone")
    BY <1>13 DEF C!ProcessPDData, C!console
  <2>2. QED  BY <1>3, <2>1
<1>14. CASE C!EditTime
  <2>1. /\ command.at = "edit" /\ command' = [command EXCEPT !.at = "set"]
        /\ tm' = [tm EXCEPT ![command.field] = command.value] /\ UNCHANGED <<now, heard, got>>
    BY <1>14 DEF C!EditTime
  <2>2. command'.field = command.field /\ command'.value = command.value /\ command'.at = "set"
    BY <1>1, <2>1 DEF Types
  <2>3. got <= now /\ (heard \/ \E t \in got .. now : tm = C!Split(t))
    BY <1>1, <2>1 DEF Asked
  <2>4. QED  BY <2>1, <2>2, <2>3 DEF Asked
<1>15. CASE C!SetClock
  BY <1>15 DEF C!SetClock, C!NoCommand, Asked
<1>16. ASSUME NEW c \in Typed, C!BeginCommand(c[1], c[2])
       PROVE  Asked'
  <2>1. tm' = C!Split(now) /\ got' = now /\ now' = now
    BY <1>16 DEF C!BeginCommand
  <2>2. now \in now .. now /\ now <= now
    BY <1>1 DEF Types
  <2>3. QED  BY <2>1, <2>2 DEF Asked
<1>17. QED
  BY <1>6, <1>7, <1>8, <1>9, <1>10, <1>11, <1>12, <1>13, <1>14, <1>15, <1>16, CollectorSteps

\* The time structure, the clock and the command in hand keep their types.
LEMMA TimeTypes ==
  ASSUME CInv, C!Next
  PROVE  /\ now' \in Nat /\ clock' \in 0 .. LastTime /\ setsA' \in 0 .. LastTime /\ got' \in Nat
         /\ tm' \in [day : Nat, tod : 0 .. (DAY - 1)]
         /\ source' \in C!Sources
         /\ command' \in [at : {"prompt", "edit", "set"}, field : {"day", "tod"}, value : Nat]
         /\ (command'.field = "tod" => command'.value \in 0 .. (DAY - 1))
<1> DEFINE Times ==
      /\ now' \in Nat /\ clock' \in 0 .. LastTime /\ setsA' \in 0 .. LastTime /\ got' \in Nat
      /\ tm' \in [day : Nat, tod : 0 .. (DAY - 1)]
      /\ source' \in C!Sources
      /\ command' \in [at : {"prompt", "edit", "set"}, field : {"day", "tod"}, value : Nat]
      /\ (command'.field = "tod" => command'.value \in 0 .. (DAY - 1))
<1>1. /\ Types /\ LastTime \in Nat /\ DAY \in Nat \ {0} /\ ZONE \in Nat /\ LoggerTimes \subseteq 0 .. LastTime
      /\ Typed \subseteq ({"day"} \X Nat) \cup ({"tod"} \X (0 .. (DAY - 1)))
      /\ C!Split(now) \in [day : Nat, tod : 0 .. (DAY - 1)]
  BY CollectorNumbers, SplitTime DEF CInv, Types
<1>2. CASE UNCHANGED <<now, clock, setsA, got, tm, source, command>>
  BY <1>1, <1>2 DEF Types
<1>3. CASE UNCHANGED <<now, clock, setsA, got, command>> /\ C!Localtime(now, "unit")
  BY <1>1, <1>3 DEF C!Localtime, C!Sources, Types
<1>4. ASSUME NEW answered \in BOOLEAN, C!CheckRecordFlags(answered) \/ C!ReadWaves(answered)
      PROVE  Times
  BY <1>2, <1>4 DEF C!CheckRecordFlags, C!ReadWaves, C!static, C!console, C!times
<1>5. ASSUME NEW answered \in BOOLEAN, C!ReadEvent(answered)
      PROVE  Times
  BY <1>3, <1>5 DEF C!ReadEvent, C!console, C!times
<1>6. ASSUME NEW answered \in BOOLEAN, C!ReadClock(answered)
      PROVE  Times
  <2>1. setsA' \in 0 .. LastTime /\ UNCHANGED <<now, clock, got, command>>
    BY <1>1, <1>6 DEF C!ReadClock, C!console, Types
  <2>2. tm' = C!Split(setsA')
    BY <1>6 DEF C!ReadClock, C!Localtime, C!Split
  <2>3. tm' \in [day : Nat, tod : 0 .. (DAY - 1)]
    BY <1>1, <2>1, <2>2, SplitTime
  <2>4. source' \in C!Sources
    BY <1>6 DEF C!ReadClock, C!Localtime, C!Sources
  <2>5. QED  BY <1>1, <2>1, <2>3, <2>4 DEF Types
<1>7. CASE C!NoConnection \/ C!Stamp
  BY <1>3, <1>7 DEF C!NoConnection, C!Stamp, C!console, C!times
<1>8. CASE C!Connect \/ C!SaveFile \/ C!LookAtFlag \/ C!SaveOltcFile \/ C!ClearFlag
  BY <1>2, <1>8 DEF C!Connect, C!SaveFile, C!LookAtFlag, C!SaveOltcFile, C!ClearFlag,
     C!static, C!console, C!times
<1>9. CASE C!BreakerOperates \/ C!RecordFirstPart \/ C!RecordLastPart
  BY <1>2, <1>9 DEF C!BreakerOperates, C!RecordFirstPart, C!RecordLastPart, C!static, C!console,
     C!times
<1>10. CASE C!Tick
  <2>1. now' \in Nat /\ clock' \in 0 .. LastTime
    BY <1>1, <1>10 DEF C!Tick, C!Later, Types
  <2>2. QED  BY <1>1, <1>10, <2>1 DEF C!Tick, C!static, C!console, Types
<1>11. CASE C!ProcessPDData
  <2>1. now + ZONE \in Nat
    BY <1>1 DEF Types
  <2>2. C!Split(now + ZONE) \in [day : Nat, tod : 0 .. (DAY - 1)]
    BY <2>1, SplitTime
  <2>3. QED  BY <1>1, <1>11, <2>2 DEF C!ProcessPDData, C!Localtime, C!Sources, C!console, C!times, Types
<1>12. CASE C!EditTime
  <2>1. tm' \in [day : Nat, tod : 0 .. (DAY - 1)]
    <3>1. CASE command.field = "tod"
      BY <1>1, <1>12, <3>1 DEF C!EditTime, Types
    <3>2. CASE command.field = "day"
      BY <1>1, <1>12, <3>2 DEF C!EditTime, Types
    <3>3. QED  BY <1>1, <3>1, <3>2 DEF Types
  <2>2. QED  BY <1>1, <1>12, <2>1 DEF C!EditTime, C!Sources, C!times, Types
<1>13. CASE C!SetClock
  <2>1. now' \in Nat
    BY <1>1, <1>13, JoinTime DEF C!SetClock, Types
  <2>2. /\ command' \in [at : {"prompt", "edit", "set"}, field : {"day", "tod"}, value : Nat]
        /\ command'.field = "day"
    BY <1>13 DEF C!SetClock, C!NoCommand
  <2>3. QED  BY <1>1, <1>13, <2>1, <2>2 DEF C!SetClock, C!times, Types
<1>14. ASSUME NEW c \in Typed, C!BeginCommand(c[1], c[2])
       PROVE  Times
  <2>1. c \in {"day"} \X Nat \/ c \in {"tod"} \X (0 .. (DAY - 1))
    BY <1>1
  <2>2. c[1] \in {"day", "tod"} /\ c[2] \in Nat /\ (c[1] = "tod" => c[2] \in 0 .. (DAY - 1))
    BY <1>1, <2>1
  <2>3. /\ command' = [at |-> "edit", field |-> c[1], value |-> c[2]]
        /\ tm' = C!Split(now) /\ source' = "console" /\ got' = now
        /\ UNCHANGED <<now, clock, setsA>>
    BY <1>14 DEF C!BeginCommand, C!times
  <2>4. /\ command' \in [at : {"prompt", "edit", "set"}, field : {"day", "tod"}, value : Nat]
        /\ command'.field = c[1] /\ command'.value = c[2]
    BY <2>2, <2>3
  <2>5. QED  BY <1>1, <2>2, <2>3, <2>4 DEF C!Sources, Types
<1>15. QED
  BY <1>4, <1>5, <1>6, <1>7, <1>8, <1>9, <1>10, <1>11, <1>12, <1>13, <1>14, CollectorSteps

LEMMA NumberTypes ==
  ASSUME CInv, C!Next
  PROVE  /\ left' \in Nat /\ flagRecords' \in Nat /\ event' \in Nat /\ waves' \in Nat
         /\ made' \in Nat /\ taken' \in Nat /\ recordings' \in Nat /\ spent' \in Nat
<1> DEFINE Numbers ==
      /\ left' \in Nat /\ flagRecords' \in Nat /\ event' \in Nat /\ waves' \in Nat
      /\ made' \in Nat /\ taken' \in Nat /\ recordings' \in Nat /\ spent' \in Nat
<1>1. Types /\ Counts /\ C!Shown \in Nat
  BY ShownRecord DEF CInv
<1>2. spent' \in Nat
  <2>1. UNCHANGED spent \/ C!Spend
    BY CollectorSteps DEF C!Outcome, C!Connect, C!NoConnection, C!CheckRecordFlags,
       C!ReadEvent, C!ReadWaves, C!ReadClock, C!Stamp, C!SaveFile, C!LookAtFlag, C!SaveOltcFile,
       C!ClearFlag, C!Tick, C!BreakerOperates, C!RecordFirstPart, C!RecordLastPart,
       C!BeginCommand, C!EditTime, C!SetClock, C!ProcessPDData
  <2>2. QED  BY <1>1, <2>1 DEF C!Spend, Types
<1>3. CASE UNCHANGED <<left, flagRecords, event, waves, made, taken, recordings>>
  BY <1>1, <1>2, <1>3 DEF Types
<1>4. ASSUME NEW answered \in BOOLEAN, C!CheckRecordFlags(answered)
      PROVE  Numbers
  <2>1. flagRecords' \in Nat /\ left' \in Nat
    BY <1>1, <1>4 DEF C!CheckRecordFlags, Types, Counts
  <2>2. QED  BY <1>1, <1>2, <1>4, <2>1 DEF C!CheckRecordFlags, C!logger, C!dsp, Types
<1>5. ASSUME NEW answered \in BOOLEAN, C!ReadEvent(answered)
      PROVE  Numbers
  BY <1>1, <1>2, <1>5 DEF C!ReadEvent, C!logger, C!dsp, Types
<1>6. ASSUME NEW answered \in BOOLEAN, C!ReadWaves(answered)
      PROVE  Numbers
  BY <1>1, <1>2, <1>6 DEF C!ReadWaves, C!MoveOn, C!logger, C!dsp, Types
<1>7. CASE C!SaveFile
  BY <1>1, <1>2, <1>7 DEF C!SaveFile, C!logger, C!dsp, Types, Counts, Busy
<1>8. CASE C!BreakerOperates
  BY <1>1, <1>2, <1>8 DEF C!BreakerOperates, C!records, C!dsp, Types
<1>9. CASE C!RecordLastPart
  BY <1>1, <1>2, <1>9 DEF C!RecordLastPart, C!records, C!logger, Types
<1>10. ASSUME NEW answered \in BOOLEAN, C!ReadClock(answered)
       PROVE  Numbers
  BY <1>3, <1>10 DEF C!ReadClock, C!records, C!logger, C!dsp
<1>11. CASE C!Connect \/ C!NoConnection \/ C!Stamp \/ C!LookAtFlag \/ C!SaveOltcFile \/ C!ClearFlag
  BY <1>3, <1>11 DEF C!Connect, C!NoConnection, C!Stamp, C!LookAtFlag, C!SaveOltcFile,
     C!ClearFlag, C!records, C!logger, C!dsp
<1>12. CASE C!Tick \/ C!RecordFirstPart \/ C!EditTime \/ C!SetClock \/ C!ProcessPDData
  BY <1>3, <1>12 DEF C!Tick, C!RecordFirstPart, C!EditTime, C!SetClock, C!ProcessPDData,
     C!records, C!logger, C!dsp
<1>13. ASSUME NEW c \in Typed, C!BeginCommand(c[1], c[2])
       PROVE  Numbers
  BY <1>3, <1>13 DEF C!BeginCommand, C!records, C!logger, C!dsp
<1>14. QED
  BY <1>4, <1>5, <1>6, <1>7, <1>8, <1>9, <1>10, <1>11, <1>12, <1>13, CollectorSteps

LEMMA TypesStep ==
  ASSUME CInv, C!Next
  PROVE  Types'
<1>1. Types /\ Counts /\ MaxEvents \in Nat
  BY CollectorNumbers DEF CInv
<1>2. pc' \in {"open", "flags", "event", "waves", "stamp", "save", "clock", "sleep",
               "rest", "saveOltc", "clear"}
  BY <1>1, CollectorSteps DEF Types, C!Connect, C!NoConnection, C!CheckRecordFlags, C!ReadEvent,
     C!ReadWaves, C!ReadClock, C!Stamp, C!SaveFile, C!LookAtFlag, C!SaveOltcFile, C!ClearFlag,
     C!Tick, C!BreakerOperates, C!RecordFirstPart, C!RecordLastPart, C!BeginCommand, C!EditTime,
     C!SetClock, C!ProcessPDData
<1>3. /\ recording' \in BOOLEAN /\ hFlag' \in BOOLEAN /\ hasty' \subseteq 0 .. MaxEvents
      /\ samples' \in (0 .. MaxEvents) \X (0 .. MaxEvents)
  <2>1. CASE UNCHANGED C!dsp
    BY <1>1, <2>1 DEF C!dsp, Types
  <2>2. CASE C!RecordFirstPart
    <3>1. recordings + 1 \in 0 .. MaxEvents
      BY <1>1, <2>2 DEF C!RecordFirstPart, C!Spend, Types, Counts
    <3>2. samples' \in (0 .. MaxEvents) \X (0 .. MaxEvents)
      BY <1>1, <2>2, <3>1 DEF C!RecordFirstPart, Types
    <3>3. recording' \in BOOLEAN /\ hasty' \subseteq 0 .. MaxEvents /\ hFlag' \in BOOLEAN
      BY <1>1, <2>2, <3>1 DEF C!RecordFirstPart, Types
    <3>4. QED  BY <3>2, <3>3
  <2>3. CASE C!RecordLastPart
    <3>1. recordings + 1 \in 0 .. MaxEvents
      BY <1>1, <2>3 DEF C!RecordLastPart, Types, Counts
    <3>2. samples' \in (0 .. MaxEvents) \X (0 .. MaxEvents)
      BY <1>1, <2>3, <3>1 DEF C!RecordLastPart, Types
    <3>3. recording' \in BOOLEAN /\ hasty' \subseteq 0 .. MaxEvents /\ hFlag' \in BOOLEAN
      BY <1>1, <2>3, <3>1 DEF C!RecordLastPart, Types
    <3>4. QED  BY <3>2, <3>3
  <2>4. CASE C!ClearFlag
    BY <1>1, <2>4 DEF C!ClearFlag, Types
  <2>5. C!RecordFirstPart \/ C!RecordLastPart \/ C!ClearFlag \/ UNCHANGED C!dsp
    BY CollectorSteps DEF C!Connect, C!NoConnection, C!CheckRecordFlags, C!ReadEvent,
     C!ReadWaves, C!ReadClock, C!Stamp, C!SaveFile, C!LookAtFlag, C!SaveOltcFile,
     C!Tick, C!BreakerOperates, C!BeginCommand, C!EditTime, C!SetClock, C!ProcessPDData
  <2>6. QED  BY <2>1, <2>2, <2>3, <2>4, <2>5
<1>4. oltcFiles' \subseteq [name : Nat, by : C!Sources,
                           rec : (0 .. MaxEvents) \X (0 .. MaxEvents)]
  <2>1. CASE C!SaveOltcFile
    <3>1. C!Join(tm) \in Nat /\ source \in C!Sources
      BY <1>1, JoinTime DEF Types
    <3>2. <<samples[1], 0>> \in (0 .. MaxEvents) \X (0 .. MaxEvents)
      BY <1>1 DEF Types
    <3>3. C!FileOfRecording \in [name : Nat, by : C!Sources,
                                rec : (0 .. MaxEvents) \X (0 .. MaxEvents)]
      BY <3>1, <3>2 DEF C!FileOfRecording
    <3>4. QED  BY <1>1, <2>1, <3>3 DEF C!SaveOltcFile, Types
  <2>2. C!SaveOltcFile \/ UNCHANGED oltcFiles
    BY CollectorSteps DEF C!Connect, C!NoConnection, C!CheckRecordFlags, C!ReadEvent,
     C!ReadWaves, C!ReadClock, C!Stamp, C!SaveFile, C!LookAtFlag, C!ClearFlag,
     C!Tick, C!BreakerOperates, C!RecordFirstPart, C!RecordLastPart, C!BeginCommand, C!EditTime,
     C!SetClock, C!ProcessPDData
  <2>3. QED  BY <1>1, <2>1, <2>2 DEF Types
<1>5. heard' \in BOOLEAN /\ clockSet' \in BOOLEAN
  BY <1>1, CollectorSteps DEF Types, C!Localtime, C!Connect, C!NoConnection,
     C!CheckRecordFlags, C!ReadEvent, C!ReadWaves, C!ReadClock, C!Stamp, C!SaveFile, C!LookAtFlag,
     C!SaveOltcFile, C!ClearFlag, C!Tick, C!BreakerOperates, C!RecordFirstPart, C!RecordLastPart,
     C!BeginCommand, C!EditTime, C!SetClock, C!ProcessPDData, C!static, C!console
<1>6. QED  BY <1>2, <1>3, <1>4, <1>5, TimeTypes, NumberTypes DEF Types

LEMMA CollectorStep ==
  ASSUME CInv, C!Next
  PROVE  CInv'
BY TypesStep, CountsStep, FiledStep, HandStep, KeptStep, FlagStep, NamedStep, AskedStep DEF CInv

\* The flag falls in ClearFlag alone, and files give way in SaveOltcFile alone.
LEMMA RecordingStep ==
  ASSUME CInv, C!Next
  PROVE  /\ hFlag /\ ~hFlag' => recordings \in hasty \/ \E f \in oltcFiles : f.rec[1] = recordings
         /\ \A f \in oltcFiles \ oltcFiles', g \in oltcFiles' \ oltcFiles :
              \/ f.by # g.by \/ g.by \in {"stale", "zone", "console"}
              \/ f.by = "unit" /\ clockSet
              \/ f.name = LastTime
<1>1. /\ Types /\ Flag /\ Named /\ C!Join(tm) \in Nat
      /\ \A f \in oltcFiles : f.name \in Nat /\ f.by \in C!Sources
  BY JoinTime DEF CInv, Types
<1>2. CASE C!ClearFlag
  BY <1>1, <1>2 DEF C!ClearFlag, Flag
<1>3. CASE C!SaveOltcFile
  <2> DEFINE new == C!FileOfRecording
  <2>1. /\ UNCHANGED hFlag /\ pc = "saveOltc"
        /\ oltcFiles' = {f \in oltcFiles : f.name # C!Join(tm)} \cup {new}
    BY <1>3 DEF C!SaveOltcFile, C!dsp
  <2>2. new.name = C!Join(tm) /\ new.by = source
    BY DEF C!FileOfRecording
  <2> HIDE DEF new
  <2>3. ASSUME NEW f \in oltcFiles \ oltcFiles', NEW g \in oltcFiles' \ oltcFiles,
               f.by = g.by, g.by \notin {"stale", "zone", "console"},
               ~(f.by = "unit" /\ clockSet)
        PROVE  f.name = LastTime
    <3>1. f.name = C!Join(tm) /\ g = new /\ f.by = source
      BY <2>1, <2>2, <2>3
    <3>2. f.by \in {"unit", "logger"}
      BY <1>1, <2>3 DEF C!Sources
    <3>3. f.by = source => f.name < C!Join(tm) \/ f.name = LastTime
      BY <1>1, <2>1, <2>3, <3>2 DEF Named, Ordered
    <3>4. QED  BY <1>1, <3>1, <3>3
  <2>4. QED  BY <2>1, <2>3
<1>4. C!ClearFlag \/ C!SaveOltcFile \/ (UNCHANGED oltcFiles /\ (hFlag => hFlag'))
  BY <1>1, CollectorSteps DEF Types, C!Connect, C!NoConnection, C!CheckRecordFlags, C!ReadEvent,
     C!ReadWaves, C!ReadClock, C!Stamp, C!SaveFile, C!LookAtFlag, C!Tick, C!BreakerOperates,
     C!RecordFirstPart, C!RecordLastPart, C!BeginCommand, C!EditTime, C!SetClock,
     C!ProcessPDData, C!dsp
<1>5. QED  BY <1>2, <1>3, <1>4

LEMMA ClockStep ==
  ASSUME CInv, C!SetClock
  PROVE  \/ heard
         \/ \E t \in got .. now :
              now' \in {t, C!Join([C!Split(t) EXCEPT ![command.field] = command.value])}
<1>1. Types /\ Asked /\ command.at = "set" /\ now' = C!Join(tm)
  BY DEF CInv, C!SetClock
<1>2. CASE heard
  BY <1>2
<1>3. CASE ~heard
  <2>1. PICK t \in got .. now :
          \/ tm = C!Split(t)
          \/ tm = [C!Split(t) EXCEPT ![command.field] = command.value]
    BY <1>1, <1>3 DEF Asked
  <2>2. t \in Nat
    BY <1>1 DEF Types
  <2>3. now' = t \/ now' = C!Join([C!Split(t) EXCEPT ![command.field] = command.value])
    BY <1>1, <2>1, <2>2, SplitTime
  <2>4. QED  BY <2>3
<1>4. QED  BY <1>2, <1>3

-----------------------------------------------------------------------------
(* The file and status server                                              *)

\* A unit of a stream: a word with a number.
Words == F!Requests \cup {"break", "reboot", "data"}
Units == Words \X Nat

\* What follows the header of an upload, if its client gave up waiting for the
\* answer; no more follows.
Expected(i) == IF i <= SIZE THEN F!Data(i) ELSE F!Command("break")

FTypes ==
  /\ server \in {"closed", "accept", "serve", "upload", "ended"}
  /\ serving \in Clients \cup {Nobody}
  /\ server \in {"serve", "upload"} => serving \in Clients
  /\ backlog \in Seq(Clients)
  /\ client \in [Clients -> F!Requests \cup {"away", "idle", "left", "gone"}]
  /\ wire \in [Clients -> Seq(Units)]
  /\ answers \in [Clients -> SUBSET F!Requests]
  /\ recv \in Seq(Units) /\ tot \in 0 .. (SIZE + MAX)

\* The header of an upload is at place p of what the client has sent.
Header(c, p) == p \in 1 .. Len(wire[c]) /\ wire[c][p][1] = "upload"

\* An upload is on its way, or being taken.
Pending(c) == (\E p \in 1 .. Len(wire[c]) : Header(c, p)) \/ (server = "upload" /\ serving = c)

\* A client that uploads waits for the one answer, and is in the meantime either
\* there or gone: no second header follows the first.
OneUpload(c) ==
  /\ Pending(c) \/ "upload" \in answers[c] => client[c] \in {"upload", "gone"}
  /\ ~(Pending(c) /\ "upload" \in answers[c])

\* What was sent after a header is the archive, whole while the client waits.
Sent(c) ==
  \A p \in 1 .. Len(wire[c]) : Header(c, p) =>
    /\ Len(wire[c]) - p <= SIZE + 1
    /\ client[c] = "upload" => Len(wire[c]) - p = SIZE
    /\ \A i \in 1 .. (Len(wire[c]) - p) : wire[c][p + i] = Expected(i)

Uploads == \A c \in Clients : OneUpload(c) /\ Sent(c)

\* What was read of it and what is still to be read.
Taken ==
  server = "upload" =>
    /\ tot = Len(recv) + 1 /\ tot <= SIZE
    /\ Len(recv) + Len(wire[serving]) <= SIZE + 1
    /\ client[serving] = "upload" => Len(recv) + Len(wire[serving]) = SIZE
    /\ \A i \in 1 .. Len(recv) : recv[i] = Expected(i)
    /\ \A i \in 1 .. Len(wire[serving]) : wire[serving][i] = Expected(Len(recv) + i)

FInv == FTypes /\ Uploads /\ Taken /\ F!UploadExact

LEMMA ServerConstants ==
  Nobody \notin Clients /\ SIZE \in Nat /\ MAX \in Nat \ {0} /\ MAX <= SIZE
BY ServicesConstants DEF F!FileServerConstants

LEMMA ServerTypes ==
  ASSUME FTypes
  PROVE  F!TypeOK
<1>1. Nobody \notin Clients
  BY ServerConstants
<1>2. F!ToSet(backlog) \subseteq Clients
  BY DEF FTypes, F!ToSet
<1>3. QED  BY <1>1, <1>2 DEF FTypes, F!TypeOK

LEMMA ServerInit ==
  ASSUME Init
  PROVE  FInv
<1>1. F!Init
  BY DEF Init
<1>2. SIZE \in Nat /\ MAX \in Nat
  BY ServerConstants
<1>3. FTypes
  <2>1. wire \in [Clients -> Seq(Units)] /\ answers \in [Clients -> SUBSET F!Requests]
    BY <1>1 DEF F!Init
  <2>2. client \in [Clients -> F!Requests \cup {"away", "idle", "left", "gone"}]
    BY <1>1 DEF F!Init
  <2>3. QED  BY <1>1, <1>2, <2>1, <2>2 DEF F!Init, FTypes
<1>4. Uploads /\ Taken
  BY <1>1 DEF F!Init, Uploads, OneUpload, Sent, Taken, Pending, Header
<1>5. F!UploadExact
  BY <1>1 DEF F!Init, F!UploadExact
<1>6. QED  BY <1>3, <1>4, <1>5 DEF FInv

LEMMA ServerRests ==
  ASSUME FInv, UNCHANGED serverVars
  PROVE  FInv'
<1>1. UNCHANGED <<server, serving, backlog, client, wire, answers, recv, tot, installed>>
  BY DEF serverVars
<1>2. FTypes' /\ F!UploadExact'
  BY <1>1 DEF FInv, FTypes, F!UploadExact
<1>3. Uploads' /\ Taken'
  BY <1>1 DEF FInv, Uploads, OneUpload, Sent, Taken, Pending, Header
<1>4. QED  BY <1>2, <1>3 DEF FInv

\* The first k elements of a sequence, and the others.
LEMMA FirstPart ==
  ASSUME NEW S, NEW s \in Seq(S), NEW k \in 0 .. Len(s)
  PROVE  /\ SubSeq(s, 1, k) \in Seq(S) /\ Len(SubSeq(s, 1, k)) = k
         /\ \A i \in 1 .. k : SubSeq(s, 1, k)[i] = s[i]
<1>1. Len(s) \in Nat /\ k \in Int /\ 1 \in Int /\ \A i \in 1 .. k : s[i] \in S
  OBVIOUS
<1>2. /\ SubSeq(s, 1, k) \in Seq(S)
      /\ Len(SubSeq(s, 1, k)) = IF 1 <= k THEN k - 1 + 1 ELSE 0
      /\ \A i \in 1 .. k - 1 + 1 : SubSeq(s, 1, k)[i] = s[1 + i - 1]
  BY <1>1, SubSeqProperties
<1>3. QED  BY <1>1, <1>2

LEMMA OtherPart ==
  ASSUME NEW S, NEW s \in Seq(S), NEW k \in 0 .. Len(s)
  PROVE  /\ SubSeq(s, k + 1, Len(s)) \in Seq(S) /\ Len(SubSeq(s, k + 1, Len(s))) = Len(s) - k
         /\ \A i \in 1 .. (Len(s) - k) : SubSeq(s, k + 1, Len(s))[i] = s[k + i]
<1> DEFINE m == k + 1
           n == Len(s)
<1>1. m \in Int /\ n \in Int /\ \A i \in m .. n : s[i] \in S
  OBVIOUS
<1>2. /\ SubSeq(s, m, n) \in Seq(S)
      /\ Len(SubSeq(s, m, n)) = IF m <= n THEN n - m + 1 ELSE 0
      /\ \A i \in 1 .. n - m + 1 : SubSeq(s, m, n)[i] = s[m + i - 1]
  <2> HIDE DEF m, n
  <2>1. QED  BY <1>1, SubSeqProperties
<1>3. QED  BY <1>1, <1>2

\* What a read takes, and what it leaves.
LEMMA ReadPart ==
  ASSUME FTypes, serving \in Clients, NEW k, F!Read(k)
  PROVE  /\ k \in 1 .. Len(wire[serving]) /\ k <= MAX
         /\ F!Chunk(k) \in Seq(Units) /\ Len(F!Chunk(k)) = k
         /\ \A i \in 1 .. k : F!Chunk(k)[i] = wire[serving][i]
         /\ Head(F!Chunk(k)) = wire[serving][1]
         /\ wire' \in [Clients -> Seq(Units)]
         /\ \A c \in Clients \ {serving} : wire'[c] = wire[c]
         /\ Len(wire'[serving]) = Len(wire[serving]) - k
         /\ \A i \in 1 .. (Len(wire[serving]) - k) : wire'[serving][i] = wire[serving][k + i]
<1>1. wire[serving] \in Seq(Units) /\ wire \in [Clients -> Seq(Units)] /\ MAX \in Nat
  BY ServerConstants DEF FTypes
<1>2. k \in 1 .. Len(wire[serving]) /\ k <= MAX
  BY <1>1 DEF F!Read
<1>3. /\ F!Chunk(k) \in Seq(Units) /\ Len(F!Chunk(k)) = k
      /\ \A i \in 1 .. k : F!Chunk(k)[i] = wire[serving][i]
  BY <1>1, <1>2, FirstPart DEF F!Chunk
<1>4. Head(F!Chunk(k)) = wire[serving][1]
  BY <1>2, <1>3
<1> DEFINE others == SubSeq(wire[serving], k + 1, Len(wire[serving]))
<1>5. /\ others \in Seq(Units) /\ Len(others) = Len(wire[serving]) - k
      /\ \A i \in 1 .. (Len(wire[serving]) - k) : others[i] = wire[serving][k + i]
  BY <1>1, <1>2, OtherPart
<1>6. wire' = [wire EXCEPT ![serving] = others]
  BY DEF F!Read
<1> HIDE DEF others
<1>7. wire'[serving] = others /\ wire' \in [Clients -> Seq(Units)]
      /\ \A c \in Clients \ {serving} : wire'[c] = wire[c]
  BY <1>1, <1>5, <1>6
<1>8. QED  BY <1>2, <1>3, <1>4, <1>5, <1>7

\* What a client adds to its stream.
LEMMA SendPart ==
  ASSUME FTypes, NEW c \in Clients, NEW units \in Seq(Units), NEW then, F!Send(c, units, then)
  PROVE  /\ wire' \in [Clients -> Seq(Units)]
         /\ \A d \in Clients \ {c} : wire'[d] = wire[d] /\ client'[d] = client[d]
         /\ client'[c] = then
         /\ Len(wire'[c]) = Len(wire[c]) + Len(units)
         /\ \A i \in 1 .. Len(wire[c]) : wire'[c][i] = wire[c][i]
         /\ \A i \in 1 .. Len(units) : wire'[c][Len(wire[c]) + i] = units[i]
<1>1. wire[c] \in Seq(Units) /\ wire \in [Clients -> Seq(Units)] /\ c \in DOMAIN client
  BY DEF FTypes
<1>2. /\ wire[c] \o units \in Seq(Units) /\ Len(wire[c] \o units) = Len(wire[c]) + Len(units)
      /\ \A i \in 1 .. Len(wire[c]) + Len(units) : (wire[c] \o units)[i] =
           IF i <= Len(wire[c]) THEN wire[c][i] ELSE units[i - Len(wire[c])]
  BY <1>1, ConcatProperties
<1> DEFINE all == wire[c] \o units
<1>3. /\ \A i \in 1 .. Len(wire[c]) : all[i] = wire[c][i]
      /\ \A i \in 1 .. Len(units) : all[Len(wire[c]) + i] = units[i]
  BY <1>1, <1>2
<1>4. wire' = [wire EXCEPT ![c] = all] /\ client' = [client EXCEPT ![c] = then]
  BY DEF F!Send
<1> HIDE DEF all
<1>5. /\ wire'[c] = all /\ client'[c] = then
      /\ \A d \in Clients \ {c} : wire'[d] = wire[d] /\ client'[d] = client[d]
  BY <1>1, <1>4 DEF FTypes
<1>6. wire' \in [Clients -> Seq(Units)]
  BY <1>1, <1>2, <1>4 DEF all
<1>7. QED  BY <1>2, <1>3, <1>5, <1>6 DEF all

\* The archive as a sequence of units.
LEMMA ArchiveUnits ==
  /\ F!Archive \in Seq(Units) /\ Len(F!Archive) = SIZE
  /\ \A i \in 1 .. SIZE : F!Archive[i] = F!Data(i)
<1>1. SIZE \in Nat
  BY ServerConstants
<1>2. F!Archive \in [1 .. SIZE -> Units]
  <2>1. "data" \in Words
    BY DEF Words
  <2>2. \A i \in 1 .. SIZE : F!Data(i) \in Units
    BY <1>1, <2>1 DEF F!Data, Units
  <2>3. QED  BY <2>2 DEF F!Archive
<1>3. F!Archive \in Seq(Units) /\ Len(F!Archive) = SIZE
  BY <1>1, <1>2
<1>4. QED  BY <1>3 DEF F!Archive

\* Nothing that follows a header is taken for one.
LEMMA ExpectedNoHeader ==
  ASSUME NEW i \in Nat
  PROVE  Expected(i)[1] # "upload"
BY DEF Expected, F!Data, F!Command

\* How a step reads: served, ignored, taken as an archive, or closed.
LEMMA ServerSteps ==
  ASSUME F!Next
  PROVE  \/ F!Listen \/ F!Fail \/ F!Accept \/ F!ReadFails
         \/ \E k \in 1 .. MAX, code \in {"status", "file"} : F!Serve(k, code)
         \/ \E k \in 1 .. MAX : \/ F!Ignore(k) \/ F!BeginUpload(k) \/ F!Upload(k)
                                \/ F!Break(k) \/ F!Reboot(k)
         \/ \E c \in Clients : \/ F!Connect(c) \/ F!Take(c) \/ F!GiveUp(c) \/ F!Vanish(c)
         \/ \E c \in Clients, code \in F!Requests : F!Request(c, code)
         \/ \E c \in Clients, code \in {"break", "reboot"} : F!Leave(c, code)
BY DEF F!Next, F!Func, F!Client

\* What closing the connections leaves.
LEMMA Closed ==
  ASSUME FTypes, F!Close
  PROVE  /\ client' \in [Clients -> F!Requests \cup {"away", "idle", "left", "gone"}]
         /\ wire' \in [Clients -> Seq(Units)] /\ answers' \in [Clients -> SUBSET F!Requests]
         /\ server' = "closed" /\ serving' = Nobody /\ backlog' = <<>>
         /\ \A c \in Clients :
              \/ wire'[c] = <<>> /\ answers'[c] = {}
              \/ wire'[c] = wire[c] /\ answers'[c] = answers[c] /\ client'[c] = client[c]
BY DEF FTypes, F!Close

\* What a client asks with.
LEMMA Asking ==
  ASSUME NEW code \in F!Requests \cup {"break", "reboot"}
  PROVE  <<F!Command(code)>> \in Seq(Units)
<1>1. code \in Words
  BY DEF Words
<1>2. QED  BY <1>1 DEF F!Command, Units

LEMMA AskingUpload ==
  /\ <<F!Command("upload")>> \o F!Archive \in Seq(Units)
  /\ Len(<<F!Command("upload")>> \o F!Archive) = SIZE + 1
  /\ (<<F!Command("upload")>> \o F!Archive)[1] = F!Command("upload")
  /\ \A i \in 1 .. SIZE : (<<F!Command("upload")>> \o F!Archive)[i + 1] = F!Data(i)
<1>1. <<F!Command("upload")>> \in Seq(Units) /\ SIZE \in Nat
  BY Asking, ServerConstants DEF F!Requests
<1> DEFINE all == <<F!Command("upload")>> \o F!Archive
<1>2. /\ all \in Seq(Units) /\ Len(all) = 1 + SIZE
      /\ \A i \in 1 .. 1 + SIZE : all[i] = IF i <= 1 THEN <<F!Command("upload")>>[i]
                                                    ELSE F!Archive[i - 1]
  <2>1. Len(<<F!Command("upload")>>) = 1
    OBVIOUS
  <2>2. QED  BY <1>1, <2>1, ArchiveUnits, ConcatProperties
<1> HIDE DEF all
<1>3. all[1] = F!Command("upload") /\ \A i \in 1 .. SIZE : all[i + 1] = F!Data(i)
  BY <1>1, <1>2, ArchiveUnits
<1>4. QED  BY <1>1, <1>2, <1>3 DEF all

\* What an answer changes.
LEMMA Answered ==
  ASSUME FTypes, serving \in Clients, NEW code \in F!Requests, F!Write(code)
  PROVE  /\ answers' \in [Clients -> SUBSET F!Requests] /\ server' \in {"serve", "ended"}
         /\ \A c \in Clients \ {serving} : answers'[c] = answers[c]
         /\ answers'[serving] \subseteq answers[serving] \cup {code}
<1>1. CASE answers' = [answers EXCEPT ![serving] = @ \cup {code}] /\ server' = "serve"
  <2>1. answers[serving] \cup {code} \in SUBSET F!Requests
    BY DEF FTypes
  <2>2. QED  BY <1>1, <2>1 DEF FTypes
<1>2. CASE UNCHANGED answers /\ server' = "ended"
  BY <1>2 DEF FTypes
<1>3. QED  BY <1>1, <1>2 DEF F!Write

LEMMA FTypesStep ==
  ASSUME FInv, F!Next
  PROVE  FTypes'
<1>1. /\ FTypes /\ Nobody \notin Clients /\ SIZE \in Nat /\ MAX \in Nat \ {0} /\ MAX <= SIZE
  BY ServerConstants DEF FInv
<1>2. CASE F!Listen \/ F!Fail \/ F!ReadFails
  BY <1>1, <1>2 DEF F!Listen, F!Fail, F!ReadFails, F!End, FTypes
<1>3. CASE F!Accept
  BY <1>1, <1>3 DEF F!Accept, FTypes
<1>4. ASSUME NEW k \in 1 .. MAX, NEW code \in {"status", "file"}, F!Serve(k, code)
      PROVE  FTypes'
  <2>1. wire' \in [Clients -> Seq(Units)] /\ serving \in Clients
    BY <1>1, <1>4, ReadPart DEF F!Serve, FTypes
  <2>2. F!Write(code) /\ code \in F!Requests
    BY <1>4 DEF F!Serve, F!Requests
  <2>3. answers' \in [Clients -> SUBSET F!Requests] /\ server' \in {"serve", "ended"}
    BY <1>1, <2>1, <2>2, Answered
  <2>4. QED  BY <1>1, <1>4, <2>1, <2>2, <2>3 DEF F!Serve, FTypes
<1>5. ASSUME NEW k \in 1 .. MAX, F!Ignore(k)
      PROVE  FTypes'
  <2>1. wire' \in [Clients -> Seq(Units)] /\ serving \in Clients
    BY <1>1, <1>5, ReadPart DEF F!Ignore, FTypes
  <2>2. QED  BY <1>1, <1>5, <2>1 DEF F!Ignore, FTypes
<1>6. ASSUME NEW k \in 1 .. MAX, F!BeginUpload(k)
      PROVE  FTypes'
  <2>1. /\ wire' \in [Clients -> Seq(Units)] /\ serving \in Clients
        /\ F!Chunk(k) \in Seq(Units) /\ Len(F!Chunk(k)) = k
    BY <1>1, <1>6, ReadPart DEF F!BeginUpload, FTypes
  <2>2. recv' \in Seq(Units) /\ tot' \in 0 .. (SIZE + MAX)
    BY <1>1, <1>6, <2>1 DEF F!BeginUpload
  <2>3. QED  BY <1>1, <1>6, <2>1, <2>2 DEF F!BeginUpload, FTypes
<1>7. ASSUME NEW k \in 1 .. MAX, F!Upload(k)
      PROVE  FTypes'
  <2>1. /\ wire' \in [Clients -> Seq(Units)] /\ serving \in Clients
        /\ F!Chunk(k) \in Seq(Units)
    BY <1>1, <1>7, ReadPart DEF F!Upload, FTypes
  <2>2. recv' \in Seq(Units) /\ tot' \in 0 .. (SIZE + MAX)
    <3>1. tot <= SIZE /\ tot' = tot + k
      BY <1>7 DEF FInv, Taken, F!Upload
    <3>2. recv' \in Seq(Units)
      BY <1>1, <1>7, <2>1 DEF F!Upload, FTypes
    <3>3. QED  BY <1>1, <3>1, <3>2 DEF FTypes
  <2>3. answers' \in [Clients -> SUBSET F!Requests]
    BY <1>1, <1>7 DEF F!Upload, F!Write, F!Requests, FTypes
  <2>4. server' \in {"serve", "upload", "ended"}
    BY <1>7 DEF F!Upload, F!Write
  <2>5. QED  BY <1>1, <1>7, <2>1, <2>2, <2>3, <2>4 DEF F!Upload, FTypes
<1>8. ASSUME NEW k \in 1 .. MAX, F!Break(k)
      PROVE  FTypes'
  <2>1. <<>> \in Seq(Clients)
    OBVIOUS
  <2>2. QED  BY <1>1, <1>8, <2>1, Closed DEF F!Break, FTypes
<1>9. ASSUME NEW k \in 1 .. MAX, F!Reboot(k)
      PROVE  FTypes'
  BY <1>1, <1>9 DEF F!Reboot, F!End, FTypes
<1>10. ASSUME NEW c \in Clients, F!Connect(c)
       PROVE  FTypes'
  <2>1. client' \in [Clients -> F!Requests \cup {"away", "idle", "left", "gone"}]
    BY <1>1, <1>10 DEF F!Connect, FTypes
  <2>2. QED  BY <1>1, <1>10, <2>1 DEF F!Connect, FTypes
<1>11. ASSUME NEW c \in Clients, F!Take(c)
       PROVE  FTypes'
  <2>1. client' \in [Clients -> F!Requests \cup {"away", "idle", "left", "gone"}]
    BY <1>1, <1>11 DEF F!Take, FTypes
  <2>2. answers' \in [Clients -> SUBSET F!Requests]
    BY <1>1, <1>11 DEF F!Take, FTypes
  <2>3. QED  BY <1>1, <1>11, <2>1, <2>2 DEF F!Take, FTypes
<1>12. ASSUME NEW c \in Clients, NEW units \in Seq(Units),
              NEW then \in F!Requests \cup {"left", "gone"}, F!Send(c, units, then)
       PROVE  FTypes'
  <2>1. wire' \in [Clients -> Seq(Units)]
    BY <1>1, <1>12, SendPart
  <2>2. client' \in [Clients -> F!Requests \cup {"away", "idle", "left", "gone"}]
    BY <1>1, <1>12 DEF F!Send, FTypes
  <2>3. QED  BY <1>1, <1>12, <2>1, <2>2 DEF F!Send, FTypes
<1>13. ASSUME NEW c \in Clients, F!GiveUp(c)
       PROVE  FTypes'
  BY <1>12, <1>13, Asking DEF F!GiveUp
<1>14. ASSUME NEW c \in Clients, NEW code \in F!Requests, F!Request(c, code)
       PROVE  FTypes'
  <2>1. CASE code = "upload"
    BY <1>12, <1>14, <2>1, AskingUpload DEF F!Request
  <2>2. CASE code # "upload"
    <3>1. <<F!Command(code)>> \o <<>> \in Seq(Units)
      BY Asking
    <3>2. QED  BY <1>12, <1>14, <2>2, <3>1 DEF F!Request
  <2>3. QED  BY <2>1, <2>2
<1>15. ASSUME NEW c \in Clients, NEW code \in {"break", "reboot"}, F!Leave(c, code)
       PROVE  FTypes'
  BY <1>12, <1>15, Asking DEF F!Leave
<1>16. ASSUME NEW c \in Clients, F!Vanish(c)
       PROVE  FTypes'
  <2>1. wire' \in [Clients -> Seq(Units)]
    <3>1. PICK k \in 0 .. Len(wire[c]) : wire' = [wire EXCEPT ![c] = SubSeq(@, 1, k)]
      BY <1>16 DEF F!Vanish
    <3>2. wire[c] \in Seq(Units)
      BY <1>1 DEF FTypes
    <3>3. SubSeq(wire[c], 1, k) \in Seq(Units)
      BY <3>2, FirstPart
    <3>4. QED  BY <1>1, <3>1, <3>3 DEF FTypes
  <2>2. client' \in [Clients -> F!Requests \cup {"away", "idle", "left", "gone"}]
    BY <1>1, <1>16 DEF F!Vanish, FTypes
  <2>3. QED  BY <1>1, <1>16, <2>1, <2>2 DEF F!Vanish, FTypes
<1>17. QED
  BY <1>2, <1>3, <1>4, <1>5, <1>6, <1>7, <1>8, <1>9, <1>10, <1>11, <1>13, <1>14, <1>15, <1>16,
     ServerSteps

\* A client of which a step reads some units, or none, and changes nothing else.
LEMMA UploadsRead ==
  ASSUME FInv, NEW c \in Clients, NEW k \in 0 .. Len(wire[c]),
         Len(wire'[c]) = Len(wire[c]) - k,
         \A i \in 1 .. (Len(wire[c]) - k) : wire'[c][i] = wire[c][k + i],
         client'[c] = client[c], "upload" \in answers'[c] => "upload" \in answers[c],
         server' = "upload" /\ serving' = c => Pending(c)
  PROVE  OneUpload(c)' /\ Sent(c)'
<1>1. OneUpload(c) /\ Sent(c) /\ Len(wire[c]) \in Nat
  BY DEF FInv, Uploads, FTypes
<1>2. ASSUME NEW p \in 1 .. Len(wire'[c]), Header(c, p)'
      PROVE  p + k \in 1 .. Len(wire[c]) /\ Header(c, p + k) /\ wire[c][k + p] = wire'[c][p]
  BY <1>1, <1>2 DEF Header
<1>3. Pending(c)' => Pending(c)
  BY <1>2 DEF Pending
<1>4. OneUpload(c)'
  BY <1>1, <1>3 DEF OneUpload
<1>5. ASSUME NEW p \in 1 .. Len(wire'[c]), Header(c, p)'
      PROVE  /\ Len(wire'[c]) - p <= SIZE + 1
             /\ client'[c] = "upload" => Len(wire'[c]) - p = SIZE
             /\ \A i \in 1 .. (Len(wire'[c]) - p) : wire'[c][p + i] = Expected(i)
  <2>1. p + k \in 1 .. Len(wire[c]) /\ Header(c, p + k)
    BY <1>2, <1>5
  <2>2. /\ Len(wire[c]) - (p + k) <= SIZE + 1
        /\ client[c] = "upload" => Len(wire[c]) - (p + k) = SIZE
        /\ \A i \in 1 .. (Len(wire[c]) - (p + k)) : wire[c][p + k + i] = Expected(i)
    BY <1>1, <2>1 DEF Sent
  <2>3. Len(wire'[c]) - p = Len(wire[c]) - (p + k)
    BY <1>1, <2>1
  <2>4. ASSUME NEW i \in 1 .. (Len(wire'[c]) - p)
        PROVE  wire'[c][p + i] = Expected(i)
    <3>1. p + i \in 1 .. (Len(wire[c]) - k) /\ i \in 1 .. (Len(wire[c]) - (p + k))
      BY <1>1, <2>1, <2>3
    <3>2. wire'[c][p + i] = wire[c][k + (p + i)]
      BY <3>1
    <3>3. k + (p + i) = p + k + i
      OBVIOUS
    <3>4. QED  BY <2>2, <3>1, <3>2, <3>3
  <2>5. QED  BY <2>2, <2>3, <2>4
<1>6. Sent(c)'
  BY <1>5 DEF Sent, Expected
<1>7. QED  BY <1>4, <1>6

LEMMA UploadsSame ==
  ASSUME FInv, NEW c \in Clients, wire'[c] = wire[c],
         client'[c] = client[c], "upload" \in answers'[c] => "upload" \in answers[c],
         server' = "upload" /\ serving' = c => Pending(c)
  PROVE  OneUpload(c)' /\ Sent(c)'
<1>1. Len(wire[c]) \in Nat
  BY DEF FInv, FTypes
<1>2. /\ 0 \in 0 .. Len(wire[c]) /\ Len(wire'[c]) = Len(wire[c]) - 0
      /\ \A i \in 1 .. (Len(wire[c]) - 0) : wire'[c][i] = wire[c][0 + i]
  BY <1>1
<1>3. QED  BY <1>2, UploadsRead

\* A client without an upload on its way and without a header in its stream.
LEMMA UploadsNone ==
  ASSUME NEW c \in Clients, ~Pending(c)', "upload" \notin answers'[c]
  PROVE  OneUpload(c)' /\ Sent(c)'
BY DEF OneUpload, Sent, Pending

\* The end of an upload: its answer is given, and no header is left.
LEMMA NoneLeft ==
  ASSUME FInv, server = "upload", NEW c \in Clients, c = serving, NEW k, F!Read(k)
  PROVE  \A p \in 1 .. Len(wire'[c]) : ~Header(c, p)'
<1>1. FTypes /\ Taken /\ Len(recv) \in Nat /\ Len(wire[c]) \in Nat
  BY DEF FInv, FTypes
<1>2. /\ k \in 1 .. Len(wire[c]) /\ Len(wire'[c]) = Len(wire[c]) - k
      /\ \A i \in 1 .. (Len(wire[c]) - k) : wire'[c][i] = wire[c][k + i]
  BY <1>1, ReadPart
<1> SUFFICES ASSUME NEW p \in 1 .. Len(wire'[c])
             PROVE  wire'[c][p][1] # "upload"
  BY DEF Header
<1>3. wire'[c][p] = wire[c][k + p] /\ k + p \in 1 .. Len(wire[c])
  BY <1>1, <1>2
<1>4. wire[c][k + p] = Expected(Len(recv) + (k + p)) /\ Len(recv) + (k + p) \in Nat
  BY <1>1, <1>2, <1>3 DEF Taken
<1>5. QED  BY <1>3, <1>4, ExpectedNoHeader

\* A client that is neither uploading nor gone has no upload on its way.
LEMMA NotUploading ==
  ASSUME FInv, NEW c \in Clients, client[c] \notin {"upload", "gone"}
  PROVE  ~Pending(c) /\ "upload" \notin answers[c]
BY DEF FInv, Uploads, OneUpload

\* What a client sends that is not an upload.
LEMMA UploadsSend ==
  ASSUME FInv, NEW c \in Clients, NEW units \in Seq(Units), NEW then, F!Send(c, units, then),
         ~Pending(c), "upload" \notin answers[c],
         \A i \in 1 .. Len(units) : units[i][1] # "upload"
  PROVE  Uploads'
<1>1. FTypes /\ UNCHANGED <<server, serving, answers>>
  BY DEF FInv, F!Send
<1>2. /\ \A d \in Clients \ {c} : wire'[d] = wire[d] /\ client'[d] = client[d]
      /\ Len(wire'[c]) = Len(wire[c]) + Len(units)
      /\ \A i \in 1 .. Len(wire[c]) : wire'[c][i] = wire[c][i]
      /\ \A i \in 1 .. Len(units) : wire'[c][Len(wire[c]) + i] = units[i]
  BY <1>1, SendPart
<1>3. Len(wire[c]) \in Nat /\ Len(units) \in Nat
  BY <1>1 DEF FTypes
<1>4. ~Pending(c)'
  <2>1. ASSUME NEW p \in 1 .. Len(wire'[c])
        PROVE  ~Header(c, p)'
    <3>1. CASE p \in 1 .. Len(wire[c])
      BY <1>2, <3>1 DEF Header, Pending
    <3>2. CASE p \notin 1 .. Len(wire[c])
      <4>1. p - Len(wire[c]) \in 1 .. Len(units) /\ Len(wire[c]) + (p - Len(wire[c])) = p
        BY <1>2, <1>3, <3>2
      <4>2. wire'[c][p] = units[p - Len(wire[c])]
        BY <1>2, <4>1
      <4>3. QED  BY <4>1, <4>2 DEF Header
    <3>3. QED  BY <3>1, <3>2
  <2>2. QED  BY <1>1, <2>1 DEF Pending
<1>5. ASSUME NEW d \in Clients
      PROVE  OneUpload(d)' /\ Sent(d)'
  <2>1. CASE d = c
    BY <1>1, <1>4, <2>1, UploadsNone
  <2>2. CASE d # c
    <3>1. server' = "upload" /\ serving' = d => Pending(d)
      BY <1>1 DEF Pending
    <3>2. wire'[d] = wire[d] /\ client'[d] = client[d]
      BY <1>2, <2>2
    <3>3. QED  BY <1>1, <3>1, <3>2, UploadsSame
  <2>3. QED  BY <2>1, <2>2
<1>6. QED  BY <1>5 DEF Uploads

LEMMA UploadsStepServer ==
  ASSUME FInv, NEW k \in 1 .. MAX,
         \/ \E code \in {"status", "file"} : F!Serve(k, code)
         \/ F!Ignore(k) \/ F!BeginUpload(k) \/ F!Upload(k)
  PROVE  Uploads'
<1>1. FTypes /\ Taken /\ F!Read(k) /\ serving \in Clients /\ UNCHANGED <<client, serving>>
  BY DEF FInv, FTypes, F!Serve, F!Ignore, F!BeginUpload, F!Upload
<1>2. /\ k \in 1 .. Len(wire[serving])
      /\ Head(F!Chunk(k)) = wire[serving][1]
      /\ \A c \in Clients \ {serving} : wire'[c] = wire[c]
      /\ Len(wire'[serving]) = Len(wire[serving]) - k
      /\ \A i \in 1 .. (Len(wire[serving]) - k) : wire'[serving][i] = wire[serving][k + i]
  BY <1>1, ReadPart
<1>3. /\ \A c \in Clients \ {serving} : answers'[c] = answers[c]
      /\ \/ "upload" \in answers'[serving] => "upload" \in answers[serving]
         \/ F!Upload(k) /\ server' # "upload"
  <2>1. ASSUME NEW code \in {"status", "file"}, F!Serve(k, code)
        PROVE  /\ \A c \in Clients \ {serving} : answers'[c] = answers[c]
               /\ "upload" \in answers'[serving] => "upload" \in answers[serving]
    <3>1. F!Write(code) /\ code \in F!Requests
      BY <2>1 DEF F!Serve, F!Requests
    <3>2. /\ \A c \in Clients \ {serving} : answers'[c] = answers[c]
          /\ answers'[serving] \subseteq answers[serving] \cup {code}
      BY <1>1, <3>1, Answered
    <3>3. QED  BY <2>1, <3>2
  <2>2. CASE F!Upload(k)
    <3>1. CASE F!Write("upload")
      <4>1. "upload" \in F!Requests
        BY DEF F!Requests
      <4>2. QED  BY <1>1, <2>2, <3>1, <4>1, Answered
    <3>2. CASE UNCHANGED answers
      BY <3>2
    <3>3. QED  BY <2>2, <3>1, <3>2 DEF F!Upload
  <2>3. CASE F!Ignore(k) \/ F!BeginUpload(k)
    BY <2>3 DEF F!Ignore, F!BeginUpload
  <2>4. QED  BY <2>1, <2>2, <2>3
<1>4. server' = "upload" => Pending(serving)
  <2>1. CASE F!BeginUpload(k)
    <3>1. wire[serving][1][1] = "upload"
      BY <1>2, <2>1 DEF F!BeginUpload, F!Code
    <3>2. 1 \in 1 .. Len(wire[serving])
      BY <1>2
    <3>3. QED  BY <3>1, <3>2 DEF Pending, Header
  <2>2. CASE F!Upload(k)
    BY <2>2 DEF F!Upload, Pending
  <2>3. CASE F!Ignore(k)
    BY <2>3 DEF F!Ignore
  <2>4. ASSUME NEW code \in {"status", "file"}, F!Serve(k, code)
        PROVE  server' # "upload"
    BY <2>4 DEF F!Serve, F!Write
  <2>5. QED  BY <2>1, <2>2, <2>3, <2>4
<1>5. ASSUME NEW c \in Clients
      PROVE  OneUpload(c)' /\ Sent(c)'
  <2>1. CASE c # serving
    <3>1. serving' # c /\ wire'[c] = wire[c] /\ client'[c] = client[c] /\ answers'[c] = answers[c]
      BY <1>1, <1>2, <1>3, <2>1
    <3>2. QED  BY <3>1, UploadsSame
  <2>2. CASE c = serving /\ ("upload" \in answers'[c] => "upload" \in answers[c])
    <3>1. k \in 0 .. Len(wire[c]) /\ client'[c] = client[c]
      BY <1>1, <1>2, <2>2
    <3>2. /\ Len(wire'[c]) = Len(wire[c]) - k
          /\ \A i \in 1 .. (Len(wire[c]) - k) : wire'[c][i] = wire[c][k + i]
      BY <1>2, <2>2
    <3>3. server' = "upload" /\ serving' = c => Pending(c)
      BY <1>4, <2>2
    <3>4. QED  BY <2>2, <3>1, <3>2, <3>3, UploadsRead
  <2>3. CASE c = serving /\ F!Upload(k) /\ server' # "upload"
    <3>1. server = "upload"
      BY <2>3 DEF F!Upload
    <3>2. client[c] \in {"upload", "gone"} /\ client'[c] = client[c]
      BY <1>1, <2>3, <3>1 DEF FInv, Uploads, OneUpload, Pending
    <3>3. \A p \in 1 .. Len(wire'[c]) : ~Header(c, p)'
      BY <1>1, <2>3, <3>1, NoneLeft
    <3>4. ~Pending(c)'
      BY <2>3, <3>3 DEF Pending
    <3>5. OneUpload(c)' /\ Sent(c)'
      BY <3>2, <3>3, <3>4 DEF OneUpload, Sent
    <3>6. QED  BY <3>5
  <2>4. QED  BY <1>3, <2>1, <2>2, <2>3
<1>6. QED  BY <1>5 DEF Uploads

\* A client that gives up adds a break, which the archive does not have.
LEMMA UploadsGiveUp ==
  ASSUME FInv, NEW c \in Clients, F!GiveUp(c)
  PROVE  Uploads'
<1> DEFINE break == <<F!Command("break")>>
<1>1. /\ FTypes /\ break \in Seq(Units) /\ Len(break) = 1 /\ F!Send(c, break, "gone")
      /\ break[1] = F!Command("break") /\ break[1][1] # "upload" /\ SIZE \in Nat
  BY Asking, ServerConstants DEF FInv, F!GiveUp, F!Command
<1>2. CASE client[c] # "upload"
  <2>1. ~Pending(c) /\ "upload" \notin answers[c]
    BY <1>2, NotUploading DEF F!GiveUp, F!Requests
  <2>2. \A i \in 1 .. Len(break) : break[i][1] # "upload"
    BY <1>1
  <2> HIDE DEF break
  <2>3. QED  BY <1>1, <2>1, <2>2, UploadsSend
<1>3. CASE client[c] = "upload"
  <2> HIDE DEF break
  <2>1. /\ \A d \in Clients \ {c} : wire'[d] = wire[d] /\ client'[d] = client[d]
        /\ client'[c] = "gone" /\ Len(wire'[c]) = Len(wire[c]) + 1
        /\ \A i \in 1 .. Len(wire[c]) : wire'[c][i] = wire[c][i]
        /\ wire'[c][Len(wire[c]) + 1] = F!Command("break")
    <3>1. /\ \A d \in Clients \ {c} : wire'[d] = wire[d] /\ client'[d] = client[d]
          /\ client'[c] = "gone" /\ Len(wire'[c]) = Len(wire[c]) + Len(break)
          /\ \A i \in 1 .. Len(wire[c]) : wire'[c][i] = wire[c][i]
          /\ \A i \in 1 .. Len(break) : wire'[c][Len(wire[c]) + i] = break[i]
      <4>1. FTypes /\ break \in Seq(Units) /\ F!Send(c, break, "gone")
        BY <1>1
      <4>2. QED  BY <4>1, SendPart
    <3>2. 1 \in 1 .. Len(break)
      BY <1>1
    <3>3. QED  BY <1>1, <3>1, <3>2
  <2>2. OneUpload(c) /\ Sent(c) /\ Len(wire[c]) \in Nat /\ UNCHANGED <<server, serving, answers>>
    BY <1>1 DEF FInv, Uploads, FTypes, F!Send
  <2>3. ASSUME NEW p \in 1 .. Len(wire'[c]), Header(c, p)'
        PROVE  p \in 1 .. Len(wire[c]) /\ Header(c, p)
    BY <1>1, <2>1, <2>2, <2>3 DEF Header, F!Command
  <2>4. OneUpload(c)'
    BY <2>1, <2>2, <2>3 DEF OneUpload, Pending
  <2>5. ASSUME NEW p \in 1 .. Len(wire'[c]), Header(c, p)'
        PROVE  /\ Len(wire'[c]) - p <= SIZE + 1
               /\ \A i \in 1 .. (Len(wire'[c]) - p) : wire'[c][p + i] = Expected(i)
    <3>1. /\ p \in 1 .. Len(wire[c]) /\ Len(wire[c]) - p = SIZE
          /\ \A i \in 1 .. (Len(wire[c]) - p) : wire[c][p + i] = Expected(i)
      BY <1>3, <2>2, <2>3, <2>5 DEF Sent
    <3>2. Len(wire'[c]) - p = SIZE + 1
      BY <2>1, <2>2, <3>1
    <3>3. ASSUME NEW i \in 1 .. (SIZE + 1)
          PROVE  wire'[c][p + i] = Expected(i)
      <4>1. CASE i \in 1 .. SIZE
        <5>1. p + i \in 1 .. Len(wire[c]) /\ i \in 1 .. (Len(wire[c]) - p)
          BY <1>1, <2>2, <3>1, <4>1
        <5>2. QED  BY <2>1, <3>1, <5>1
      <4>2. CASE i = SIZE + 1
        <5>1. p + i = Len(wire[c]) + 1 /\ ~(i <= SIZE)
          BY <1>1, <2>2, <3>1, <4>2
        <5>2. QED  BY <2>1, <5>1 DEF Expected
      <4>3. QED  BY <1>1, <4>1, <4>2
    <3>4. QED  BY <1>1, <3>2, <3>3
  <2>6. Sent(c)'
    BY <2>1, <2>5 DEF Sent, Expected
  <2>7. ASSUME NEW d \in Clients \ {c}
        PROVE  OneUpload(d)' /\ Sent(d)'
    BY <2>1, <2>2, UploadsSame DEF Pending
  <2>8. QED  BY <2>4, <2>6, <2>7 DEF Uploads
<1>4. QED  BY <1>2, <1>3

LEMMA UploadsRequest ==
  ASSUME FInv, NEW c \in Clients, NEW code \in F!Requests, F!Request(c, code)
  PROVE  Uploads'
<1>1. /\ FTypes /\ client[c] = "idle" /\ ~Pending(c) /\ "upload" \notin answers[c] /\ SIZE \in Nat
  BY NotUploading, ServerConstants DEF FInv, F!Request
<1>2. CASE code # "upload"
  <2> DEFINE one == <<F!Command(code)>> \o <<>>
  <2>1. one \in Seq(Units) /\ Len(one) = 1 /\ one[1] = F!Command(code)
    <3>1. <<F!Command(code)>> \in Seq(Units)
      BY Asking
    <3>2. QED  BY <3>1
  <2>2. F!Send(c, one, code)
    BY <1>2 DEF F!Request
  <2>3. \A i \in 1 .. Len(one) : one[i][1] # "upload"
    BY <1>2, <2>1 DEF F!Command
  <2> HIDE DEF one
  <2>4. QED  BY <1>1, <2>1, <2>2, <2>3, UploadsSend
<1>3. CASE code = "upload"
  <2> DEFINE all == <<F!Command("upload")>> \o F!Archive
  <2>1. /\ all \in Seq(Units) /\ Len(all) = SIZE + 1 /\ all[1] = F!Command("upload")
        /\ \A i \in 1 .. SIZE : all[i + 1] = F!Data(i)
        /\ F!Send(c, all, "upload")
    BY <1>3, AskingUpload DEF F!Request
  <2> HIDE DEF all
  <2>2. /\ \A d \in Clients \ {c} : wire'[d] = wire[d] /\ client'[d] = client[d]
        /\ client'[c] = "upload" /\ Len(wire'[c]) = Len(wire[c]) + (SIZE + 1)
        /\ \A i \in 1 .. Len(wire[c]) : wire'[c][i] = wire[c][i]
        /\ \A i \in 1 .. (SIZE + 1) : wire'[c][Len(wire[c]) + i] = all[i]
    <3>1. /\ \A d \in Clients \ {c} : wire'[d] = wire[d] /\ client'[d] = client[d]
          /\ client'[c] = "upload" /\ Len(wire'[c]) = Len(wire[c]) + Len(all)
          /\ \A i \in 1 .. Len(wire[c]) : wire'[c][i] = wire[c][i]
          /\ \A i \in 1 .. Len(all) : wire'[c][Len(wire[c]) + i] = all[i]
      BY <1>1, <2>1, SendPart
    <3>2. QED  BY <2>1, <3>1
  <2>3. Len(wire[c]) \in Nat /\ UNCHANGED <<server, serving, answers>>
    BY <1>1, <2>1 DEF FTypes, F!Send
  <2> DEFINE n == Len(wire[c])
             m == Len(wire'[c])
  <2>0. n \in Nat /\ m = n + (SIZE + 1)
    BY <2>2, <2>3
  <2>4. \A i \in 1 .. SIZE : wire'[c][Len(wire[c]) + 1 + i] = F!Data(i)
    <3> SUFFICES ASSUME NEW i \in 1 .. SIZE
                 PROVE  wire'[c][Len(wire[c]) + 1 + i] = F!Data(i)
      OBVIOUS
    <3>1. i + 1 \in 1 .. (SIZE + 1) /\ Len(wire[c]) + (i + 1) = Len(wire[c]) + 1 + i
      BY <1>1, <2>3
    <3>2. QED  BY <2>1, <2>2, <3>1
  <2>5. ASSUME NEW p \in 1 .. Len(wire'[c]), Header(c, p)'
        PROVE  p = Len(wire[c]) + 1
    <3>1. p \notin 1 .. Len(wire[c])
      BY <1>1, <2>2, <2>5 DEF Header, Pending
    <3>2. CASE p > Len(wire[c]) + 1
      <4>1. p - (n + 1) \in 1 .. SIZE /\ n + 1 + (p - (n + 1)) = p
        <5>1. p \in 1 .. m /\ p > n + 1
          BY <3>2
        <5> HIDE DEF n, m
        <5>2. QED  BY <1>1, <2>0, <5>1
      <4>2. wire'[c][p] = F!Data(p - (Len(wire[c]) + 1))
        BY <2>4, <4>1
      <4>3. QED  BY <2>5, <4>2 DEF Header, F!Data
    <3>3. QED  BY <2>2, <2>3, <3>1, <3>2
  <2>6. OneUpload(c)'
    BY <1>1, <2>2, <2>3 DEF OneUpload
  <2>7. Sent(c)'
    <3>1. ASSUME NEW p \in 1 .. Len(wire'[c]), Header(c, p)'
          PROVE  /\ Len(wire'[c]) - p = SIZE
                 /\ \A i \in 1 .. SIZE : wire'[c][p + i] = Expected(i)
      <4>1. p = Len(wire[c]) + 1
        BY <2>5, <3>1
      <4>2. m - p = SIZE
        <5>1. p = n + 1
          BY <4>1
        <5> HIDE DEF n, m
        <5>2. QED  BY <1>1, <2>0, <5>1
      <4>3. ASSUME NEW i \in 1 .. SIZE
            PROVE  wire'[c][p + i] = Expected(i)
        <5>1. wire'[c][p + i] = F!Data(i)
          BY <2>4, <4>1
        <5>2. i <= SIZE
          BY <1>1
        <5>3. QED  BY <5>1, <5>2 DEF Expected
      <4>4. QED  BY <4>2, <4>3
    <3>2. QED  BY <1>1, <3>1 DEF Sent, Expected
  <2>8. ASSUME NEW d \in Clients \ {c}
        PROVE  OneUpload(d)' /\ Sent(d)'
    BY <2>2, <2>3, UploadsSame DEF Pending
  <2>9. QED  BY <2>6, <2>7, <2>8 DEF Uploads
<1>4. QED  BY <1>2, <1>3

LEMMA UploadsVanish ==
  ASSUME FInv, NEW c \in Clients, F!Vanish(c)
  PROVE  Uploads'
<1>1. PICK k \in 0 .. Len(wire[c]) : wire' = [wire EXCEPT ![c] = SubSeq(@, 1, k)]
  BY DEF F!Vanish
<1>2. /\ FTypes /\ OneUpload(c) /\ Sent(c) /\ wire[c] \in Seq(Units) /\ Len(wire[c]) \in Nat
      /\ UNCHANGED <<server, serving, answers>>
  BY DEF FInv, FTypes, Uploads, F!Vanish
<1>3. Len(SubSeq(wire[c], 1, k)) = k /\ \A i \in 1 .. k : SubSeq(wire[c], 1, k)[i] = wire[c][i]
  BY <1>2, FirstPart
<1>4. /\ Len(wire'[c]) = k /\ \A i \in 1 .. k : wire'[c][i] = wire[c][i]
      /\ \A d \in Clients \ {c} : wire'[d] = wire[d] /\ client'[d] = client[d]
      /\ client'[c] = "gone"
  <2>1. wire'[c] = SubSeq(wire[c], 1, k)
    BY <1>1, <1>2 DEF FTypes
  <2>2. \A d \in Clients \ {c} : wire'[d] = wire[d]
    BY <1>1, <1>2 DEF FTypes
  <2>3. client'[c] = "gone" /\ \A d \in Clients \ {c} : client'[d] = client[d]
    BY <1>2 DEF F!Vanish, FTypes
  <2>4. QED  BY <1>3, <2>1, <2>2, <2>3
<1>5. ASSUME NEW p \in 1 .. k, Header(c, p)'
      PROVE  p \in 1 .. Len(wire[c]) /\ Header(c, p)
  BY <1>2, <1>4, <1>5 DEF Header
<1>6. OneUpload(c)'
  BY <1>2, <1>4, <1>5 DEF OneUpload, Pending
<1>7. ASSUME NEW p \in 1 .. k, Header(c, p)'
      PROVE  /\ k - p <= SIZE + 1
             /\ \A i \in 1 .. (k - p) : wire'[c][p + i] = Expected(i)
  <2>1. /\ p \in 1 .. Len(wire[c]) /\ Len(wire[c]) - p <= SIZE + 1
        /\ \A i \in 1 .. (Len(wire[c]) - p) : wire[c][p + i] = Expected(i)
    BY <1>2, <1>5, <1>7 DEF Sent
  <2>2. ASSUME NEW i \in 1 .. (k - p)
        PROVE  wire'[c][p + i] = Expected(i)
    <3>1. p + i \in 1 .. k /\ i \in 1 .. (Len(wire[c]) - p)
      BY <1>2, <2>1
    <3>2. QED  BY <1>4, <2>1, <3>1
  <2>3. k - p <= SIZE + 1
    BY <1>2, <2>1, ServerConstants
  <2>4. QED  BY <2>2, <2>3
<1>8. Sent(c)'
  BY <1>4, <1>7 DEF Sent, Expected
<1>9. ASSUME NEW d \in Clients \ {c}
      PROVE  OneUpload(d)' /\ Sent(d)'
  BY <1>2, <1>4, UploadsSame DEF Pending
<1>10. QED  BY <1>6, <1>8, <1>9 DEF Uploads

LEMMA UploadsStep ==
  ASSUME FInv, F!Next
  PROVE  Uploads'
<1>1. FTypes
  BY DEF FInv
<1>2. CASE UNCHANGED <<wire, client, answers>> /\ server' # "upload"
  <2>1. ASSUME NEW c \in Clients
        PROVE  OneUpload(c)' /\ Sent(c)'
    BY <1>2, UploadsSame
  <2>2. QED  BY <2>1 DEF Uploads
<1>3. CASE F!Listen \/ F!Fail \/ F!Accept \/ F!ReadFails
  BY <1>2, <1>3 DEF F!Listen, F!Fail, F!Accept, F!ReadFails, F!End
<1>4. ASSUME NEW k \in 1 .. MAX, F!Reboot(k)
      PROVE  Uploads'
  BY <1>2, <1>4 DEF F!Reboot, F!End
<1>5. ASSUME NEW k \in 1 .. MAX, F!Break(k)
      PROVE  Uploads'
  <2>1. ASSUME NEW c \in Clients
        PROVE  OneUpload(c)' /\ Sent(c)'
    <3>1. /\ server' = "closed"
          /\ \/ wire'[c] = <<>> /\ answers'[c] = {}
             \/ wire'[c] = wire[c] /\ answers'[c] = answers[c] /\ client'[c] = client[c]
      BY <1>1, <1>5, Closed DEF F!Break
    <3>2. CASE wire'[c] = <<>> /\ answers'[c] = {}
      <4>1. ~Pending(c)'
        BY <3>1, <3>2 DEF Pending
      <4>2. QED  BY <3>2, <4>1, UploadsNone
    <3>3. CASE wire'[c] = wire[c] /\ answers'[c] = answers[c] /\ client'[c] = client[c]
      BY <3>1, <3>3, UploadsSame
    <3>4. QED  BY <3>1, <3>2, <3>3
  <2>2. QED  BY <2>1 DEF Uploads
<1>6. ASSUME NEW c \in Clients, F!Connect(c) \/ F!Take(c)
      PROVE  Uploads'
  <2>1. /\ UNCHANGED <<server, serving, wire>>
        /\ \A d \in Clients \ {c} : client'[d] = client[d] /\ answers'[d] = answers[d]
        /\ answers'[c] = answers[c] \/ answers'[c] = {}
    BY <1>1, <1>6 DEF F!Connect, F!Take, FTypes
  <2>2. ~Pending(c) /\ "upload" \notin answers'[c]
    <3>1. CASE F!Connect(c)
      BY <3>1, NotUploading DEF F!Connect
    <3>2. CASE F!Take(c)
      <4>1. client[c] \in answers[c] /\ answers'[c] = {} /\ client[c] \in F!Requests
        BY <1>1, <3>2 DEF F!Take, FTypes
      <4>2. ~Pending(c)
        BY <4>1 DEF FInv, Uploads, OneUpload, F!Requests
      <4>3. QED  BY <4>1, <4>2
    <3>3. QED  BY <1>6, <3>1, <3>2
  <2>3. ~Pending(c)'
    BY <2>1, <2>2 DEF Pending, Header
  <2>4. ASSUME NEW d \in Clients
        PROVE  OneUpload(d)' /\ Sent(d)'
    <3>1. CASE d = c
      BY <2>2, <2>3, <3>1, UploadsNone
    <3>2. CASE d # c
      BY <2>1, <3>2, UploadsSame DEF Pending
    <3>3. QED  BY <3>1, <3>2
  <2>5. QED  BY <2>4 DEF Uploads
<1>7. ASSUME NEW c \in Clients, NEW code \in {"break", "reboot"}, F!Leave(c, code)
      PROVE  Uploads'
  <2> DEFINE last == <<F!Command(code)>>
             then == IF wire[c] = <<>> THEN "left" ELSE "gone"
  <2>1. /\ last \in Seq(Units) /\ \A i \in 1 .. Len(last) : last[i][1] # "upload"
        /\ F!Send(c, last, then)
    BY <1>7, Asking DEF F!Leave, F!Command
  <2>2. ~Pending(c) /\ "upload" \notin answers[c]
    BY <1>7, NotUploading DEF F!Leave
  <2> HIDE DEF last, then
  <2>3. QED  BY <2>1, <2>2, UploadsSend
<1>8. QED
  BY <1>3, <1>4, <1>5, <1>6, <1>7, ServerSteps, UploadsStepServer, UploadsGiveUp, UploadsRequest,
     UploadsVanish

\* Header and archive: what the first read of an upload takes.
LEMMA TakenBegin ==
  ASSUME FInv, NEW k \in 1 .. MAX, F!BeginUpload(k)
  PROVE  Taken'
<1> DEFINE w == wire[serving]
           v == wire'[serving]
<1>1. /\ FTypes /\ F!Read(k) /\ serving \in Clients /\ UNCHANGED <<client, serving>>
      /\ recv' = Tail(F!Chunk(k)) /\ tot' = k
  BY DEF FInv, FTypes, F!BeginUpload
<1>2. /\ k \in 1 .. Len(w) /\ k <= MAX
      /\ F!Chunk(k) \in Seq(Units) /\ Len(F!Chunk(k)) = k
      /\ \A i \in 1 .. k : F!Chunk(k)[i] = w[i]
      /\ Head(F!Chunk(k)) = w[1]
      /\ Len(v) = Len(w) - k
      /\ \A i \in 1 .. (Len(w) - k) : v[i] = w[k + i]
  BY <1>1, ReadPart
<1>3. Len(w) \in Nat /\ SIZE \in Nat /\ MAX \in Nat /\ MAX <= SIZE
  BY <1>1, ServerConstants DEF FTypes
<1>4. 1 \in 1 .. Len(w) /\ w[1][1] = "upload"
  BY <1>2 DEF F!BeginUpload, F!Code
<1>5. /\ Len(w) - 1 <= SIZE + 1
      /\ client[serving] = "upload" => Len(w) - 1 = SIZE
      /\ \A i \in 1 .. (Len(w) - 1) : w[1 + i] = Expected(i)
  BY <1>1, <1>4 DEF FInv, Uploads, Sent, Header
<1>6. /\ Len(recv') = k - 1
      /\ \A i \in 1 .. (k - 1) : recv'[i] = F!Chunk(k)[i + 1]
  <2>1. F!Chunk(k) # <<>>
    BY <1>2
  <2>2. /\ Len(Tail(F!Chunk(k))) = Len(F!Chunk(k)) - 1
        /\ \A i \in 1 .. Len(Tail(F!Chunk(k))) : Tail(F!Chunk(k))[i] = F!Chunk(k)[i + 1]
    BY <1>2, <2>1, HeadTailProperties
  <2>3. QED  BY <1>1, <1>2, <2>2
<1> HIDE DEF w, v
<1>7. \A i \in 1 .. (k - 1) : recv'[i] = Expected(i)
  <2> SUFFICES ASSUME NEW i \in 1 .. (k - 1)
               PROVE  recv'[i] = Expected(i)
    OBVIOUS
  <2>1. i + 1 \in 1 .. k /\ i \in 1 .. (Len(w) - 1) /\ i + 1 = 1 + i
    BY <1>2, <1>3
  <2>2. QED  BY <1>2, <1>5, <1>6, <2>1
<1>8. \A i \in 1 .. Len(v) : v[i] = Expected((k - 1) + i)
  <2> SUFFICES ASSUME NEW i \in 1 .. Len(v)
               PROVE  v[i] = Expected((k - 1) + i)
    OBVIOUS
  <2>1. /\ i \in 1 .. (Len(w) - k) /\ (k - 1) + i \in 1 .. (Len(w) - 1)
        /\ 1 + ((k - 1) + i) = k + i
    BY <1>2, <1>3
  <2>2. w[1 + ((k - 1) + i)] = Expected((k - 1) + i)
    BY <1>5, <2>1
  <2>3. v[i] = w[k + i]
    BY <1>2, <2>1
  <2>4. QED  BY <2>1, <2>2, <2>3
<1>9. /\ tot' = Len(recv') + 1 /\ tot' <= SIZE
      /\ Len(recv') + Len(v) <= SIZE + 1
      /\ client[serving] = "upload" => Len(recv') + Len(v) = SIZE
  <2>1. Len(recv') = k - 1 /\ Len(v) = Len(w) - k /\ tot' = k /\ k <= MAX
    BY <1>1, <1>2, <1>6
  <2>2. tot' = Len(recv') + 1 /\ tot' <= SIZE /\ Len(recv') + Len(v) = Len(w) - 1
    BY <1>3, <2>1
  <2>3. Len(recv') + Len(v) <= SIZE + 1
    BY <1>5, <2>2
  <2>4. client[serving] = "upload" => Len(recv') + Len(v) = SIZE
    BY <1>5, <2>2
  <2>5. QED  BY <2>2, <2>3, <2>4
<1>10. QED
  BY <1>1, <1>6, <1>7, <1>8, <1>9 DEF Taken, v, Expected

\* What was read, with another piece.
LEMMA TakenMore ==
  ASSUME FInv, NEW k \in 1 .. MAX, F!Upload(k)
  PROVE  /\ recv' \in Seq(Units) /\ tot' = Len(recv') + 1
         /\ serving \in Clients /\ UNCHANGED <<client, serving>>
         /\ Len(recv') + Len(wire'[serving]) <= SIZE + 1
         /\ client[serving] = "upload" => Len(recv') + Len(wire'[serving]) = SIZE
         /\ \A i \in 1 .. Len(recv') : recv'[i] = Expected(i)
         /\ \A i \in 1 .. Len(wire'[serving]) : wire'[serving][i] = Expected(Len(recv') + i)
<1> DEFINE w == wire[serving]
           v == wire'[serving]
           n == Len(recv)
<1>1. /\ FTypes /\ Taken /\ server = "upload" /\ F!Read(k) /\ serving \in Clients
      /\ UNCHANGED <<client, serving>>
      /\ recv' = recv \o F!Chunk(k) /\ tot' = tot + k /\ recv \in Seq(Units)
  BY DEF FInv, FTypes, F!Upload
<1>2. /\ k \in 1 .. Len(w)
      /\ F!Chunk(k) \in Seq(Units) /\ Len(F!Chunk(k)) = k
      /\ \A i \in 1 .. k : F!Chunk(k)[i] = w[i]
      /\ Len(v) = Len(w) - k
      /\ \A i \in 1 .. (Len(w) - k) : v[i] = w[k + i]
  BY <1>1, ReadPart
<1>3. Len(w) \in Nat /\ SIZE \in Nat /\ n \in Nat
  BY <1>1, ServerConstants DEF FTypes
<1>4. /\ tot = n + 1 /\ n + Len(w) <= SIZE + 1
      /\ client[serving] = "upload" => n + Len(w) = SIZE
      /\ \A i \in 1 .. n : recv[i] = Expected(i)
      /\ \A i \in 1 .. Len(w) : w[i] = Expected(n + i)
  BY <1>1 DEF Taken
<1>5. /\ recv' \in Seq(Units) /\ Len(recv') = n + k
      /\ \A i \in 1 .. n + k : recv'[i] = IF i <= n THEN recv[i] ELSE F!Chunk(k)[i - n]
  <2>1. /\ recv \o F!Chunk(k) \in Seq(Units)
        /\ Len(recv \o F!Chunk(k)) = Len(recv) + Len(F!Chunk(k))
        /\ \A i \in 1 .. Len(recv) + Len(F!Chunk(k)) :
             (recv \o F!Chunk(k))[i] = IF i <= Len(recv) THEN recv[i] ELSE F!Chunk(k)[i - Len(recv)]
    BY <1>1, <1>2, ConcatProperties
  <2>2. QED  BY <1>1, <1>2, <2>1
<1> HIDE DEF w, v, n
<1>6. \A i \in 1 .. (n + k) : recv'[i] = Expected(i)
  <2> SUFFICES ASSUME NEW i \in 1 .. (n + k)
               PROVE  recv'[i] = Expected(i)
    OBVIOUS
  <2>1. CASE i <= n
    BY <1>3, <1>4, <1>5, <2>1
  <2>2. CASE ~(i <= n)
    <3>1. i - n \in 1 .. k /\ i - n \in 1 .. Len(w) /\ n + (i - n) = i
      BY <1>2, <1>3, <2>2
    <3>2. recv'[i] = w[i - n]
      BY <1>2, <1>5, <2>2, <3>1
    <3>3. w[i - n] = Expected(n + (i - n))
      BY <1>4, <3>1
    <3>4. QED  BY <3>1, <3>2, <3>3
  <2>3. QED  BY <2>1, <2>2
<1>7. \A i \in 1 .. Len(v) : v[i] = Expected((n + k) + i)
  <2> SUFFICES ASSUME NEW i \in 1 .. Len(v)
               PROVE  v[i] = Expected((n + k) + i)
    OBVIOUS
  <2>1. i \in 1 .. (Len(w) - k) /\ k + i \in 1 .. Len(w) /\ n + (k + i) = (n + k) + i
    BY <1>2, <1>3
  <2>2. v[i] = w[k + i] /\ w[k + i] = Expected(n + (k + i))
    BY <1>2, <1>4, <2>1
  <2>3. QED  BY <2>1, <2>2
<1>8. /\ tot' = Len(recv') + 1 /\ Len(recv') + Len(v) <= SIZE + 1
      /\ client[serving] = "upload" => Len(recv') + Len(v) = SIZE
  <2>1. Len(recv') = n + k /\ Len(v) = Len(w) - k /\ tot' = tot + k /\ tot = n + 1
    BY <1>1, <1>2, <1>4, <1>5
  <2>2. tot' = Len(recv') + 1 /\ Len(recv') + Len(v) = n + Len(w)
    BY <1>3, <2>1
  <2>3. Len(recv') + Len(v) <= SIZE + 1
    BY <1>4, <2>2
  <2>4. client[serving] = "upload" => Len(recv') + Len(v) = SIZE
    BY <1>4, <2>2
  <2>5. QED  BY <2>2, <2>3, <2>4
<1>9. QED  BY <1>1, <1>5, <1>6, <1>7, <1>8 DEF v

LEMMA TakenClient ==
  ASSUME FInv, server = "upload", NEW c \in Clients, F!GiveUp(c) \/ F!Vanish(c)
  PROVE  Taken'
<1> DEFINE w == wire[serving]
           v == wire'[serving]
           n == Len(recv)
<1>1. /\ FTypes /\ Taken /\ SIZE \in Nat /\ n \in Nat /\ Len(w) \in Nat /\ serving \in Clients
      /\ UNCHANGED <<server, serving, recv, tot>>
  BY ServerConstants DEF FInv, FTypes, F!GiveUp, F!Vanish, F!Send
<1>2. /\ tot = n + 1 /\ tot <= SIZE /\ n + Len(w) <= SIZE + 1
      /\ client[serving] = "upload" => n + Len(w) = SIZE
      /\ \A i \in 1 .. n : recv[i] = Expected(i)
      /\ \A i \in 1 .. Len(w) : w[i] = Expected(n + i)
  BY <1>1 DEF Taken
<1>3. \/ Len(v) <= Len(w) /\ \A i \in 1 .. Len(v) : v[i] = w[i]
      \/ /\ client[serving] = "upload" /\ Len(v) = Len(w) + 1
         /\ \A i \in 1 .. Len(w) : v[i] = w[i]
         /\ v[Len(w) + 1] = F!Command("break")
  <2>1. CASE serving # c /\ F!GiveUp(c)
    <3>1. F!Send(c, <<F!Command("break")>>, "gone") /\ <<F!Command("break")>> \in Seq(Units)
      BY <2>1, Asking DEF F!GiveUp
    <3>2. v = w
      BY <1>1, <2>1, <3>1, SendPart
    <3> HIDE DEF v, w
    <3>3. QED  BY <1>1, <3>2
  <2>2. CASE serving = c /\ F!GiveUp(c)
    <3>1. client[serving] = "upload"
      BY <1>1, <2>2 DEF FInv, Uploads, OneUpload, Pending, F!GiveUp, F!Requests
    <3> DEFINE break == <<F!Command("break")>>
    <3>2. F!Send(c, break, "gone") /\ break \in Seq(Units) /\ Len(break) = 1
            /\ break[1] = F!Command("break")
      BY <2>2, Asking DEF F!GiveUp
    <3> HIDE DEF break
    <3>3. /\ Len(v) = Len(w) + Len(break)
          /\ \A i \in 1 .. Len(w) : v[i] = w[i]
          /\ \A i \in 1 .. Len(break) : v[Len(w) + i] = break[i]
      <4>1. F!Send(c, break, "gone") /\ break \in Seq(Units)
        BY <3>2
      <4>2. QED  BY <1>1, <2>2, <4>1, SendPart
    <3> HIDE DEF v, w
    <3>4. QED  BY <3>1, <3>2, <3>3
  <2>3. CASE F!Vanish(c)
    <3>1. PICK k \in 0 .. Len(wire[c]) : wire' = [wire EXCEPT ![c] = SubSeq(@, 1, k)]
      BY <2>3 DEF F!Vanish
    <3>2. wire[c] \in Seq(Units) /\ Len(wire[c]) \in Nat
      BY <1>1 DEF FTypes
    <3>3. Len(SubSeq(wire[c], 1, k)) = k /\ \A i \in 1 .. k : SubSeq(wire[c], 1, k)[i] = wire[c][i]
      BY <3>2, FirstPart
    <3>4. CASE serving = c
      <4>1. v = SubSeq(w, 1, k)
        BY <1>1, <3>1, <3>4 DEF FTypes
      <4>2. QED  BY <3>2, <3>3, <3>4, <4>1
    <3>5. CASE serving # c
      <4>1. v = w
        BY <1>1, <3>1, <3>5 DEF FTypes
      <4> HIDE DEF v, w
      <4>2. QED  BY <1>1, <4>1
    <3>6. QED  BY <3>4, <3>5
  <2>4. QED  BY <2>1, <2>2, <2>3
<1>4. client'[serving] = "upload" => client[serving] = "upload" /\ v = w
  <2>1. client'[c] = "gone" /\ \A d \in Clients \ {c} : client'[d] = client[d] /\ wire'[d] = wire[d]
    <3>1. CASE F!GiveUp(c)
      BY <1>1, <3>1 DEF F!GiveUp, F!Send, FTypes
    <3>2. CASE F!Vanish(c)
      BY <1>1, <3>2 DEF F!Vanish, FTypes
    <3>3. QED  BY <3>1, <3>2
  <2>2. QED  BY <1>1, <2>1
<1>5. Len(v) \in Nat
  <2>1. wire' \in [Clients -> Seq(Units)]
    BY FTypesStep DEF F!Next, F!Client, FTypes
  <2>2. QED  BY <1>1, <2>1
<1> HIDE DEF v, w, n
<1>6. \A i \in 1 .. Len(v) : v[i] = Expected(n + i)
  <2> SUFFICES ASSUME NEW i \in 1 .. Len(v)
               PROVE  v[i] = Expected(n + i)
    OBVIOUS
  <2>1. CASE i \in 1 .. Len(w)
    BY <1>1, <1>2, <1>3, <1>5, <2>1
  <2>2. CASE i \notin 1 .. Len(w)
    <3>1. /\ i = Len(w) + 1 /\ v[i] = F!Command("break") /\ n + Len(w) = SIZE
      BY <1>1, <1>2, <1>3, <1>5, <2>2
    <3>2. ~(n + i <= SIZE)
      BY <1>1, <3>1
    <3>3. QED  BY <3>1, <3>2 DEF Expected
  <2>3. QED  BY <2>1, <2>2
<1>7. n + Len(v) <= SIZE + 1
  BY <1>1, <1>2, <1>3, <1>5
<1>8. QED  BY <1>1, <1>2, <1>4, <1>6, <1>7 DEF Taken, v, w, n, Expected

LEMMA TakenStep ==
  ASSUME FInv, F!Next
  PROVE  Taken'
<1>1. FTypes /\ Taken
  BY DEF FInv
<1>2. CASE server' # "upload"
  BY <1>2 DEF Taken
<1>3. ASSUME NEW k \in 1 .. MAX, F!Upload(k), server' = "upload"
      PROVE  Taken'
  <2>1. tot' <= SIZE
    <3>1. ~(tot' >= SIZE)
      BY <1>3 DEF F!Upload, F!Write
    <3>2. tot' \in Nat /\ SIZE \in Nat
      BY FTypesStep, ServerConstants DEF FTypes
    <3>3. QED  BY <3>1, <3>2
  <2>2. QED  BY <1>3, <2>1, TakenMore DEF Taken, Expected
<1>4. ASSUME NEW k \in 1 .. MAX,
             \/ \E code \in {"status", "file"} : F!Serve(k, code)
             \/ F!Ignore(k) \/ F!Break(k) \/ F!Reboot(k)
      PROVE  server' # "upload"
  BY <1>4 DEF F!Serve, F!Write, F!Ignore, F!Break, F!Close, F!Reboot, F!End
<1>5. CASE F!Listen \/ F!Fail \/ F!Accept \/ F!ReadFails
  BY <1>2, <1>5 DEF F!Listen, F!Fail, F!Accept, F!ReadFails, F!End
<1>6. ASSUME NEW c \in Clients, server = "upload",
             \/ F!Connect(c) \/ F!Take(c) \/ \E code \in F!Requests : F!Request(c, code)
             \/ \E code \in {"break", "reboot"} : F!Leave(c, code)
      PROVE  Taken'
  <2>1. c # serving
    <3>1. Pending(serving) /\ serving \in Clients
      BY <1>1, <1>6 DEF Pending, FTypes
    <3>2. client[serving] \in {"upload", "gone"} /\ "upload" \notin answers[serving]
      BY <3>1 DEF FInv, Uploads, OneUpload
    <3>3. CASE F!Take(c)
      BY <1>1, <3>1, <3>2, <3>3 DEF F!Take, F!Requests, FTypes
    <3>4. CASE ~F!Take(c)
      BY <1>6, <3>2, <3>4 DEF F!Connect, F!Request, F!Leave
    <3>5. QED  BY <3>3, <3>4
  <2>2. /\ UNCHANGED <<server, serving, recv, tot>> /\ serving \in Clients
        /\ wire'[serving] = wire[serving] /\ client'[serving] = client[serving]
    BY <1>1, <1>6, <2>1 DEF F!Connect, F!Take, F!Request, F!Leave, F!Send, FTypes
  <2>3. QED  BY <1>1, <2>2 DEF Taken
<1>7. ASSUME NEW c \in Clients, F!Client(c), server # "upload"
      PROVE  server' # "upload"
  BY <1>7 DEF F!Client, F!Connect, F!Take, F!GiveUp, F!Vanish, F!Request, F!Leave, F!Send
<1>8. ASSUME NEW c \in Clients, F!Client(c)
      PROVE  Taken'
  <2>1. CASE server = "upload"
    BY <1>6, <1>8, <2>1, TakenClient DEF F!Client
  <2>2. CASE server # "upload"
    BY <1>2, <1>7, <1>8, <2>2
  <2>3. QED  BY <2>1, <2>2
<1>9. QED
  BY <1>2, <1>3, <1>4, <1>5, <1>8, TakenBegin DEF F!Next, F!Func

\* The archive, but for its last unit, or with the break behind it.
LEMMA InstalledStep ==
  ASSUME FInv, F!Next
  PROVE  F!UploadExact'
<1>1. CASE UNCHANGED installed
  BY <1>1 DEF FInv, F!UploadExact
<1>2. ASSUME NEW k \in 1 .. MAX, F!Upload(k), tot' >= SIZE
      PROVE  F!UploadExact'
  <2>1. installed' = recv'
    BY <1>2 DEF F!Upload
  <2>2. /\ recv' \in Seq(Units) /\ tot' = Len(recv') + 1 /\ serving \in Clients
        /\ Len(recv') + Len(wire'[serving]) <= SIZE + 1
        /\ \A i \in 1 .. Len(recv') : recv'[i] = Expected(i)
    BY <1>2, TakenMore
  <2>3. Len(wire'[serving]) \in Nat /\ SIZE \in Nat \ {0}
    <3>1. wire' \in [Clients -> Seq(Units)]
      BY FTypesStep DEF FTypes
    <3>2. QED  BY <2>2, <3>1, ServerConstants
  <2> DEFINE r == recv'
  <2>4. Len(r) \in Nat /\ Len(r) \in {SIZE - 1, SIZE, SIZE + 1}
    BY <1>2, <2>2, <2>3
  <2>5. /\ F!Archive \in Seq(Units) /\ Len(F!Archive) = SIZE
        /\ \A i \in 1 .. SIZE : F!Archive[i] = Expected(i)
    BY <2>3, ArchiveUnits DEF Expected
  <2>6. CASE Len(r) = SIZE
    <3>1. \A i \in 1 .. Len(r) : r[i] = F!Archive[i]
      BY <2>2, <2>5, <2>6
    <3>2. r = F!Archive
      BY <2>2, <2>5, <2>6, <3>1, SeqEqual
    <3>3. QED  BY <2>1, <3>2 DEF F!UploadExact, F!Archive, F!Data
  <2>7. CASE Len(r) = SIZE - 1
    <3> DEFINE front == SubSeq(F!Archive, 1, SIZE - 1)
    <3>1. /\ front \in Seq(Units) /\ Len(front) = SIZE - 1
          /\ \A i \in 1 .. (SIZE - 1) : front[i] = F!Archive[i]
      BY <2>3, <2>5, FirstPart
    <3> HIDE DEF front
    <3>2. \A i \in 1 .. Len(r) : r[i] = front[i]
      BY <2>2, <2>3, <2>5, <2>7, <3>1
    <3>3. r = front
      BY <2>2, <2>7, <3>1, <3>2, SeqEqual
    <3>4. front = F!Front(F!Archive)
      BY <2>5 DEF F!Front, front
    <3>5. QED  BY <2>1, <3>3, <3>4 DEF F!UploadExact, F!Archive, F!Data, F!Front
  <2>8. CASE Len(r) = SIZE + 1
    <3> DEFINE longer == Append(F!Archive, F!Command("break"))
    <3>1. F!Command("break") \in Units
      BY DEF F!Command, Units, Words
    <3>2. /\ longer \in Seq(Units) /\ Len(longer) = SIZE + 1
          /\ \A i \in 1 .. SIZE : longer[i] = F!Archive[i]
          /\ longer[SIZE + 1] = F!Command("break")
      BY <2>3, <2>5, <3>1
    <3> HIDE DEF longer
    <3>3. \A i \in 1 .. Len(r) : r[i] = longer[i]
      <4> SUFFICES ASSUME NEW i \in 1 .. Len(r)
                   PROVE  r[i] = longer[i]
        OBVIOUS
      <4>1. CASE i \in 1 .. SIZE
        BY <2>2, <2>5, <3>2, <4>1
      <4>2. CASE i = SIZE + 1
        <5>1. ~(i <= SIZE)
          BY <2>3, <4>2
        <5>2. QED  BY <2>2, <3>2, <4>2, <5>1 DEF Expected
      <4>3. QED  BY <2>3, <2>8, <4>1, <4>2
    <3>4. r = longer
      BY <2>2, <2>8, <3>2, <3>3, SeqEqual
    <3>5. QED  BY <2>1, <3>4 DEF longer, F!UploadExact, F!Archive, F!Data, F!Command
  <2>9. QED  BY <2>4, <2>6, <2>7, <2>8
<1>3. ASSUME NEW k \in 1 .. MAX, F!Upload(k), ~(tot' >= SIZE)
      PROVE  UNCHANGED installed
  BY <1>3 DEF F!Upload
<1>4. ASSUME NEW k \in 1 .. MAX,
             \/ \E code \in {"status", "file"} : F!Serve(k, code)
             \/ F!Ignore(k) \/ F!BeginUpload(k) \/ F!Break(k) \/ F!Reboot(k)
      PROVE  UNCHANGED installed
  BY <1>4 DEF F!Serve, F!Ignore, F!BeginUpload, F!Break, F!Reboot, F!End
<1>5. CASE F!Listen \/ F!Fail \/ F!Accept \/ F!ReadFails
  BY <1>1, <1>5 DEF F!Listen, F!Fail, F!Accept, F!ReadFails, F!End
<1>6. ASSUME NEW c \in Clients, F!Client(c)
      PROVE  UNCHANGED installed
  BY <1>6 DEF F!Client, F!Connect, F!Take, F!GiveUp, F!Vanish, F!Request, F!Leave, F!Send
<1>7. QED
  BY <1>1, <1>2, <1>3, <1>4, <1>5, <1>6 DEF F!Next, F!Func

LEMMA ServerStep ==
  ASSUME FInv, F!Next
  PROVE  FInv'
BY FTypesStep, UploadsStep, TakenStep, InstalledStep DEF FInv

-----------------------------------------------------------------------------
(* The publication of breaker values                                       *)

\* The table is searched for breakers with what the thread then reads of LU: a
\* unit that main has not found out yet, or a GLU.  In an MLU there are none.
Table ==
  /\ unit \in {"GLU", "MLU"}
  /\ leafs \in Seq(P!Leafs) /\ P!IsInjective(leafs)
  /\ unit = "MLU" => \A i \in DOMAIN leafs : leafs[i].node # "SCBR"

Searched == thread > 0 => scbr = P!Places("SCBR")

PInv == P!TypeOK /\ Table /\ Searched /\ P!OwnLeaf

\* A set of numbers that is not empty has a first one.
LEMMA FirstOf ==
  ASSUME NEW S \in SUBSET Nat, S # {}
  PROVE  \E k \in S : \A j \in S : ~(j < k)
<1>1. IsWellFoundedOn(OpToRel(<, Nat), Nat)
  BY NatLessThanWellFounded
<1>2. \E k \in S : \A j \in S : ~(<<j, k>> \in OpToRel(<, Nat))
  BY <1>1, WFMin
<1>3. QED  BY <1>2 DEF OpToRel

\* Where a value is written: at its own leaf or, if there is none, at the first.
LEMMA TargetOwn ==
  ASSUME Table, scbr = P!Places("SCBR"), NEW item, NEW i \in P!Target(item)
  PROVE  i \in DOMAIN leafs /\ (i \in P!Own(item) \/ (P!Own(item) = {} /\ i = 1))
<1>1. /\ DOMAIN leafs = 1 .. Len(leafs) /\ Len(leafs) \in Nat
      /\ i \in 1 .. Len(leafs) /\ P!Matches(i, item)
      /\ \A j \in 1 .. (i - 1) : ~P!Matches(j, item)
  BY DEF Table, P!Target
<1>2. CASE P!Own(item) = {}
  <2>1. P!Keys(item) = {}
    BY <1>2 DEF P!Keys, P!Places, P!Own
  <2>2. P!Matches(1, item)
    BY <2>1 DEF P!Matches
  <2>3. QED  BY <1>1, <1>2, <2>2
<1>3. CASE P!Own(item) # {}
  <2>1. P!Own(item) \in SUBSET Nat
    BY <1>1 DEF P!Own
  <2>2. PICK k \in P!Own(item) : \A j \in P!Own(item) : ~(j < k)
    BY <1>3, <2>1, FirstOf
  <2>3. k \in P!Keys(item)
    BY <2>2 DEF P!Keys, P!Places, P!Own
  <2>4. PICK l \in P!Keys(item) : leafs[i] = leafs[l]
    BY <1>1, <2>3 DEF P!Matches
  <2>5. l \in DOMAIN leafs /\ leafs[l].node = "SCBR" /\ leafs[l].item = item
    BY <2>4 DEF P!Keys, P!Places
  <2>6. i = l
    BY <1>1, <2>4, <2>5 DEF Table, P!IsInjective
  <2>7. QED  BY <1>1, <2>5, <2>6 DEF P!Own
<1>4. QED  BY <1>2, <1>3

LEMMA PublicationInit ==
  ASSUME Init
  PROVE  PInv
<1>1. /\ unit \in {"GLU", "MLU"} /\ leafs \in Seq(P!Leafs) /\ P!IsInjective(leafs)
      /\ unit = "MLU" => \A i \in DOMAIN leafs : leafs[i].node # "SCBR"
      /\ LU = P!Unset /\ scbr = {} /\ thread = 0
      /\ written = [i \in DOMAIN leafs |-> {}]
  <2>1. CASE part = "publication"
    <3>1. P!Init
      BY <2>1 DEF Init
    <3>2. leafs \in Seq(P!Leafs)
      BY <3>1 DEF P!Init
    <3>3. QED  BY <3>1, <3>2 DEF P!Init
  <2>2. CASE part # "publication"
    BY <2>2 DEF Init, P!IsInjective
  <2>3. QED  BY <2>1, <2>2
<1>2. Len(Items) \in Nat
  BY ServicesConstants DEF P!PublicationConstants
<1>3. QED  BY <1>1, <1>2 DEF PInv, P!TypeOK, Table, Searched, P!OwnLeaf

LEMMA PublicationStep ==
  ASSUME PInv, P!Next
  PROVE  PInv'
<1>1. Items \in Seq(STRING) /\ Len(Items) \in Nat \ {0} /\ P!ToSet(Items) = {Items[k] : k \in 1 .. Len(Items)}
  BY ServicesConstants DEF P!PublicationConstants, P!ToSet
<1>2. Table'
  BY DEF PInv, Table, P!Next, P!FindUnit, P!Search, P!Update, P!IsInjective
<1>3. UNCHANGED <<leafs, unit>> 
  BY DEF P!Next, P!FindUnit, P!Search, P!Update
<1>4. CASE P!FindUnit
  BY <1>2, <1>4 DEF PInv, P!FindUnit, P!TypeOK, Searched, P!Places, P!OwnLeaf, P!Own
<1>5. CASE P!Search
  <2>1. scbr' = P!Places("SCBR")
    BY <1>5 DEF PInv, P!Search, P!TypeOK, Table, P!Places, P!Unset
  <2>2. /\ Searched' /\ scbr' \subseteq DOMAIN leafs
        /\ thread' \in 0 .. Len(Items) /\ UNCHANGED <<LU, written>>
    BY <1>1, <1>3, <1>5, <2>1 DEF P!Search, Searched, P!Places
  <2>3. P!TypeOK' /\ P!OwnLeaf'
    BY <1>3, <2>2 DEF PInv, P!TypeOK, P!OwnLeaf, P!Own
  <2>4. QED  BY <1>2, <2>2, <2>3 DEF PInv
<1>6. CASE P!Update
  <2>1. /\ thread \in 1 .. Len(Items) /\ thread' \in 1 .. Len(Items)
        /\ UNCHANGED <<leafs, unit, LU, scbr>> /\ scbr = P!Places("SCBR")
        /\ written \in [DOMAIN leafs -> SUBSET P!ToSet(Items)]
    BY <1>1, <1>6 DEF PInv, P!TypeOK, P!Update, Searched
  <2>2. /\ DOMAIN written' = DOMAIN leafs
        /\ \A i \in DOMAIN leafs :
             written'[i] = IF i \in P!Target(Items[thread]) THEN written[i] \cup {Items[thread]}
                                                            ELSE written[i]
    BY <1>6 DEF P!Update
  <2>3. written' \in [DOMAIN leafs -> SUBSET P!ToSet(Items)]
    <3>1. Items[thread] \in P!ToSet(Items)
      BY <1>1, <2>1
    <3>2. QED  BY <1>6, <2>1, <3>1 DEF P!Update
  <2>4. P!TypeOK' /\ Searched'
    BY <2>1, <2>3 DEF PInv, P!TypeOK, Searched, P!Places
  <2>5. P!OwnLeaf'
    <3> SUFFICES ASSUME NEW i \in DOMAIN leafs, NEW item \in written'[i]
                 PROVE  i \in P!Own(item) \/ (P!Own(item) = {} /\ i = 1)
      BY <2>1 DEF P!OwnLeaf, P!Own
    <3>1. item \in written[i] \/ (item = Items[thread] /\ i \in P!Target(item))
      BY <2>2
    <3>2. QED  BY <2>1, <3>1, TargetOwn DEF PInv, P!OwnLeaf
  <2>6. QED  BY <1>2, <2>4, <2>5 DEF PInv
<1>7. QED  BY <1>4, <1>5, <1>6 DEF P!Next

LEMMA PublicationRests ==
  ASSUME PInv, UNCHANGED leafVars
  PROVE  PInv'
  BY DEF leafVars, PInv, P!TypeOK, Table, Searched, P!OwnLeaf, P!Own, P!Places, P!IsInjective

-----------------------------------------------------------------------------
(* The three of them                                                       *)

IInv == CInv /\ FInv /\ PInv

\* A step is one of one part, and the others rest.
LEMMA Steps ==
  ASSUME IInv, [Next]_vars
  PROVE  /\ IInv'
         /\ C!Next \/ UNCHANGED collectorVars
<1>1. CASE Collector /\ C!Next
  <2>1. UNCHANGED serverVars /\ UNCHANGED leafVars
    BY <1>1 DEF Collector
  <2>2. QED  BY <1>1, <2>1, CollectorStep, ServerRests, PublicationRests DEF IInv
<1>2. CASE Server /\ F!Next
  <2>1. UNCHANGED collectorVars /\ UNCHANGED leafVars
    BY <1>2 DEF Server
  <2>2. QED  BY <1>2, <2>1, ServerStep, CollectorRests, PublicationRests DEF IInv
<1>3. CASE Publication /\ P!Next
  <2>1. UNCHANGED collectorVars /\ UNCHANGED serverVars
    BY <1>3 DEF Publication
  <2>2. QED  BY <1>3, <2>1, PublicationStep, CollectorRests, ServerRests DEF IInv
<1>4. CASE UNCHANGED vars
  <2>1. UNCHANGED collectorVars /\ UNCHANGED serverVars /\ UNCHANGED leafVars
    BY <1>4 DEF vars
  <2>2. QED  BY <2>1, CollectorRests, ServerRests, PublicationRests DEF IInv
<1>5. QED  BY <1>1, <1>2, <1>3, <1>4 DEF Next

\* What the collector, the server and the publication keep true by themselves.
THEOREM Inductive == Spec => []IInv
<1>1. Init => IInv
  BY CollectorInit, ServerInit, PublicationInit DEF IInv
<1>2. IInv /\ [Next]_vars => IInv'
  BY Steps
<1>3. QED  BY <1>1, <1>2, PTL DEF Spec

\* Every variable of the three parts keeps its type, for any number of events,
\* clients and leaves: the counts of records stay within the events there were, and
\* tot within an archive and a read.
THEOREM TypeCorrect == Spec => []TypeOK
<1>1. IInv => TypeOK
  BY CollectorTypes, ServerTypes DEF IInv, CInv, FInv, PInv, TypeOK
<1>2. QED  BY <1>1, Inductive, PTL

\* A record that the logger has moved on from is in a file with its own waves,
\* whatever was polled, saved, typed or lost in between, but for records at hand when
\* a read failed and for events with the same milliseconds (subsystem_thread).
THEOREM EventsInFiles == Spec => []EventKept
<1>1. IInv => EventKept
  <2> SUFFICES ASSUME IInv, NEW r \in 1 .. taken
               PROVE  \/ r = taken /\ pc \in {"stamp", "save"}
                      \/ r \in spoilt
                      \/ \E q \in (1 .. made) \ {r} : Milli[q] = Milli[r]
                      \/ \E f \in eventFiles : f.event = r /\ f.waves = r
    BY DEF EventKept, C!EventKept
  <2>1. QED  BY DEF IInv, CInv, Kept, Twin, InFile
<1>2. QED  BY <1>1, Inductive, PTL

\* The flag of a recording is taken down only with its first half in a file, unless
\* that recording overlapped another: its buffer was overwritten before the file, or
\* it was completed between the file of the one before and the taking down of the
\* flag.  For the others this holds however the DSP, the clocks and the console
\* interfere.  Of two recordings that the same clock named, if no command set it, the
\* later does not replace the earlier; names from different clocks, from a clock that
\* was not read, from the console and from the consumer's zone are left out
\* (subsystem_thread, save_oltc_file).
THEOREM RecordingInFile == Spec => RecordingKept
<1> DEFINE Step ==
      /\ hFlag /\ ~hFlag' => recordings \in hasty \/ \E f \in oltcFiles : f.rec[1] = recordings
      /\ \A f \in oltcFiles \ oltcFiles', g \in oltcFiles' \ oltcFiles :
           \/ f.by # g.by \/ g.by \in {"stale", "zone", "console"}
           \/ f.by = "unit" /\ clockSet
           \/ f.name = LastTime
<1>1. IInv /\ [Next]_vars => [Step]_C!vars
  <2> SUFFICES ASSUME IInv, [Next]_vars
               PROVE  Step \/ UNCHANGED C!vars
    OBVIOUS
  <2>1. CASE C!Next
    BY <2>1, RecordingStep DEF IInv
  <2>2. CASE UNCHANGED collectorVars
    BY <2>2 DEF collectorVars, C!vars, C!static, C!records, C!times, C!logger, C!dsp, C!console
  <2>3. QED  BY <2>1, <2>2, Steps
<1>2. QED  BY <1>1, Inductive, PTL DEF Spec, RecordingKept, C!RecordingKept

\* DATE and TIME change what was typed or nothing, unless another time than the
\* unit's was converted in the same structure since the command began.
THEOREM ClockSetAsTyped == Spec => ClockAsTyped
<1> DEFINE Step ==
      C!SetClock => \/ heard
                    \/ \E t \in got .. now :
                         now' \in {t, C!Join([C!Split(t) EXCEPT ![command.field] = command.value])}
<1>1. IInv => [Step]_C!vars
  <2> SUFFICES ASSUME IInv, C!SetClock
               PROVE  \/ heard
                      \/ \E t \in got .. now :
                           now' \in {t, C!Join([C!Split(t) EXCEPT ![command.field] = command.value])}
    OBVIOUS
  <2>1. QED  BY ClockStep DEF IInv
<1>2. QED  BY <1>1, Inductive, PTL DEF ClockAsTyped, C!ClockAsTyped

\* What is unpacked is one archive, but for its last byte or with its break, however
\* reads cut the stream and clients give up (func); the archives of two clients are
\* not told apart.
THEOREM UnpacksOneArchive == Spec => []UploadExact
<1>1. IInv => UploadExact
  BY DEF IInv, FInv, UploadExact
<1>2. QED  BY <1>1, Inductive, PTL

\* For every table and every list of items a value is published at a leaf of its
\* own, if there is one, whichever of main and subsystem_thread comes first.
THEOREM PublishedAtOwnLeaf == Spec => []OwnLeaf
<1>1. IInv => OwnLeaf
  BY DEF IInv, PInv, OwnLeaf
<1>2. QED  BY <1>1, Inductive, PTL
=============================================================================
