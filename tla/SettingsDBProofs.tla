--------------------------- MODULE SettingsDBProofs ---------------------------
(***************************************************************************)
(* Proofs about SettingsDB for every choice of commands, values and        *)
(* faults, and for any number of commands and losses of power.             *)
(*                                                                         *)
(* What a command reports is what the connection to sys sees, what a loss  *)
(* of power leaves is what the file holds.  Kept relates the reports to    *)
(* the connection, Synced the connection to the file, Backup both to the   *)
(* second copy; Prefix and NoGaps follow the script of the first boot.     *)
(***************************************************************************)
EXTENDS SettingsDB, TLAPS

Sys == file["sys"]
Dul == file["dul"]

Complete(db) == db.tables = Tables /\ \A n \in Names : db.row[n] # NoValue

Booting == {"off", "create", "copyDul", "copyDef", "openDul"}
Saving  == {"sysBegin", "sysUpdate", "sysCommit", "dulBegin", "dulUpdate", "dulCommit"}

\* Nothing that sys held was undone, or replaced by the settings of the factory.
Unharmed == excuse \notin {"lost", "reset"} /\ "sys" \notin broken

\* What a connection sees beyond its file belongs to an open transaction; past the
\* script sys has tables, and dul has when it was updated.
Opened ==
  /\ pc \in Booting => open = {}
  /\ pc \in {"sysUpdate", "sysCommit"} => "sys" \in open
  /\ pc \in {"dulUpdate", "dulCommit"} => "dul" \in open
  /\ \A d \in Dbs \ open : seen[d] = file[d]
  /\ pc \notin {"off", "create"} => Sys.tables # {}
  /\ pc = "dulCommit" => Dul.tables # {}

\* Commands add neither tables nor rows; the second copy is empty or has all, and sys
\* with it.
Shapes ==
  /\ \A d \in Dbs : /\ seen[d].tables = file[d].tables
                    /\ \A n \in Names : seen[d].row[n] = NoValue <=> file[d].row[n] = NoValue
  /\ \/ Dul.tables = {} \/ "dul" \in broken
     \/ Complete(Dul) /\ ("sys" \in broken \/ Complete(Sys))

\* The statements of the script before the next one have been carried out.
Done(s) == IF s.create THEN s.table \in Sys.tables ELSE Sys.row[s.name] = FACTORY

Prefix ==
  /\ pc # "create" => step = 1
  /\ pc = "create" => \A i \in 1 .. Len(Script) : i < step => Done(Script[i])
  /\ pc \in {"copyDul", "copyDef"} =>
       Sys.tables = Tables /\ \A n \in Names : Sys.row[n] = FACTORY

\* What sys has, it has from the script, in order, ...
NoGaps ==
  "sys" \notin broken =>
    \A i, j \in 1 .. Len(Script) : i < j /\ Present(Script[j]) => Present(Script[i])

\* ... and everything, unless a boot that ran the script was cut short.
Booted ==
  ~interrupted /\ "sys" \notin broken => \/ Complete(Sys)
                                         \/ pc = "off" /\ Sys.tables = {}
                                         \/ pc = "create"

\* Nothing was reported before the end of the boot that ran the script first.
FirstBoot ==
  excuse # "reset" =>
    /\ "sys" \notin broken /\ (pc \in {"create", "copyDul"} \/ Sys.tables = {}) =>
         behind = Names /\ \A n \in Names : reported[n] = NoValue
    /\ pc = "copyDef" => \A n \in Names : reported[n] = NoValue
    /\ pc \in {"copyDul", "copyDef"} => "sys" \notin broken
    /\ pc = "create" /\ "sys" \in broken => Sys.tables = {}

\* The command in hand has a value and is not reported yet.
InHand == pc \in Saving => value \in Values /\ reported[job.shows] = NoValue

\* The connection sees what was reported, of the settings there are, ...
Kept ==
  Unharmed =>
    \A n \in Names \ {"NTP_Gateway"} :
      reported[n] # NoValue /\ seen["sys"].row[n] # NoValue => seen["sys"].row[n] = reported[n]

\* ... and, unless a COMMIT is to be made good, the file holds what it sees, but
\* for the change in hand.
Synced ==
  excuse \in {"none", "late"} =>
    \A n \in Names : n # job.writes \/ pc # "sysCommit" => Sys.row[n] = seen["sys"].row[n]

\* How far the change in hand has come.
Entered ==
  job.writes \in Names =>
    /\ pc \in {"sysCommit", "dulBegin", "dulUpdate", "dulCommit"} /\ Unharmed =>
         seen["sys"].row[job.writes] \in {NoValue, value}
    /\ pc \in {"dulBegin", "dulUpdate", "dulCommit"} => job.writes \in behind
    /\ pc = "dulCommit" /\ "dul" \notin broken => seen["dul"].row[job.writes] = value

\* The second copy has what sys has of every setting that is not behind, in the
\* file and, while a COMMIT is to be made good, in what the connection sees.
Backup ==
  /\ \A n \in Names \ behind : seen["dul"].row[n] = Dul.row[n]
  /\ Unharmed /\ "dul" \notin broken =>
       /\ \A n \in Names \ behind :
            n # job.writes \/ pc # "sysCommit" => Dul.row[n] = seen["sys"].row[n]
       /\ excuse \in {"none", "late"} =>
            \A n \in Names \ behind : Dul.row[n] = Sys.row[n]

IInv == /\ TypeOK /\ Opened /\ Shapes /\ Prefix /\ NoGaps /\ FactoryCopy /\ Booted
        /\ FirstBoot /\ InHand /\ Kept /\ Synced /\ Entered /\ Backup /\ BackupHolds
-----------------------------------------------------------------------------
(* The operators of the model                                              *)

DB == [tables : SUBSET Tables, row : [Names -> Values \cup {FACTORY, NoValue}]]

LEMMA Databases ==
  ASSUME TypeOK
  PROVE  file \in [Dbs -> DB] /\ seen \in [Dbs -> DB]
  BY DEF TypeOK, DB

\* The script creates every table and inserts every name, each once; no statement
\* inserts the name SETGW -S writes.
LEMMA ScriptFacts ==
  /\ Len(Script) \in Nat \ {0} /\ Range(Script) = {Script[i] : i \in 1 .. Len(Script)}
  /\ \A t \in Tables : \E i \in 1 .. Len(Script) : Script[i].create /\ Script[i].table = t
  /\ \A n \in Names : \E i \in 1 .. Len(Script) : ~Script[i].create /\ Script[i].name = n
  /\ \A i \in 1 .. Len(Script) : /\ Script[i].table \in Tables
                                 /\ ~Script[i].create => Script[i].name \in Names
  /\ \A i, j \in 1 .. Len(Script) :
       (Script[i].create <=> Script[j].create) /\ Script[i].name = Script[j].name => i = j
  /\ \A i \in 1 .. Len(Script) : Script[i].create => Script[i].name = Script[i].table
  /\ "SNTP_Gateway" \notin Names
  /\ {"MacAddr", "MPU_IPAddr", "MPU_Subnet", "MPU_Gateway",
      "NTP_IPAddr", "NTP_Subnet", "NTP_Gateway"} \subseteq Names
<1>1. Len(Script) = 11 /\ DOMAIN Script = 1 .. 11
  BY DEF Script
<1>2. Range(Script) = {Script[i] : i \in 1 .. Len(Script)}
  BY <1>1 DEF Range
<1>3. \A n \in Names : \E i \in 1 .. Len(Script) : ~Script[i].create /\ Script[i].name = n
  BY <1>2 DEF Names, Inserted
<1>4. \A i \in 1 .. Len(Script) : /\ Script[i].table \in Tables
                                  /\ ~Script[i].create => Script[i].name \in Names
  BY <1>2 DEF Names, Inserted, Tables
<1>5. /\ Script[1] = Create("NormalSetting")  /\ Script[2] = Insert("NormalSetting", "MacAddr")
      /\ Script[3] = Create("DevInfo")
      /\ Script[4] = Insert("DevInfo", "MPU_IPAddr")  /\ Script[5] = Insert("DevInfo", "MPU_Subnet")
      /\ Script[6] = Insert("DevInfo", "MPU_Gateway") /\ Script[7] = Insert("DevInfo", "NTP_IPAddr")
      /\ Script[8] = Insert("DevInfo", "NTP_Subnet")  /\ Script[9] = Insert("DevInfo", "NTP_Gateway")
      /\ Script[10] = Create("IEDSetting") /\ Script[11] = Insert("IEDSetting", "User")
  BY DEF Script
<1>6. \A i \in 1 .. 11 : \/ i = 1 \/ i = 2 \/ i = 3 \/ i = 4 \/ i = 5 \/ i = 6
                         \/ i = 7 \/ i = 8 \/ i = 9 \/ i = 10 \/ i = 11
  OBVIOUS
<1>7. \A t \in Tables : \E i \in 1 .. Len(Script) : Script[i].create /\ Script[i].table = t
  <2>1. \A i \in 1 .. 11 : Script[i].table \in {"NormalSetting", "DevInfo", "IEDSetting"}
    BY <1>5, <1>6 DEF Create, Insert
  <2>2. /\ Script[1].create /\ Script[1].table = "NormalSetting"
        /\ Script[3].create /\ Script[3].table = "DevInfo"
        /\ Script[10].create /\ Script[10].table = "IEDSetting"
    BY <1>5 DEF Create
  <2>3. QED  BY <1>1, <1>2, <2>1, <2>2 DEF Tables
<1>8. "SNTP_Gateway" \notin Names
  <2>1. \A i \in 1 .. 11 : Script[i].name # "SNTP_Gateway"
    BY <1>5, <1>6 DEF Create, Insert
  <2>2. QED  BY <1>1, <1>3, <2>1
<1>9. {"MacAddr", "MPU_IPAddr", "MPU_Subnet", "MPU_Gateway",
       "NTP_IPAddr", "NTP_Subnet", "NTP_Gateway"} \subseteq Names
  BY <1>1, <1>4, <1>5 DEF Insert
<1>10. \A i \in 1 .. 11 : Script[i].create => Script[i].name = Script[i].table
  BY <1>5, <1>6 DEF Create, Insert
<1>11. \A i, j \in 1 .. 11 : (Script[i].create <=> Script[j].create) /\ Script[i].name = Script[j].name
         => i = j
  <2>1. /\ \A i \in {1, 3, 10} : Script[i].create
        /\ \A i \in {2, 4, 5, 6, 7, 8, 9, 11} : ~Script[i].create
    BY <1>5 DEF Create, Insert
  <2>2. /\ Script[1].name = "NormalSetting" /\ Script[3].name = "DevInfo"
        /\ Script[10].name = "IEDSetting"
    BY <1>5 DEF Create
  <2>3. /\ Script[2].name = "MacAddr"     /\ Script[4].name = "MPU_IPAddr"
        /\ Script[5].name = "MPU_Subnet"  /\ Script[6].name = "MPU_Gateway"
        /\ Script[7].name = "NTP_IPAddr"  /\ Script[8].name = "NTP_Subnet"
        /\ Script[9].name = "NTP_Gateway" /\ Script[11].name = "User"
    BY <1>5 DEF Insert
  <2>4. QED  BY <1>6, <2>1, <2>2, <2>3
<1>12. QED  BY <1>1, <1>2, <1>3, <1>4, <1>7, <1>8, <1>9, <1>10, <1>11

\* A command shows a setting that exists and, but for SETGW -S, writes it; that
\* one writes a name no row has.
LEMMA WritesShown ==
  ASSUME NEW c \in Commands
  PROVE  /\ c.shows \in Names
         /\ c.writes \in Names <=> c.shows # "NTP_Gateway"
         /\ c.writes \in Names => c.writes = c.shows
<1>1. c \in AllCommands
  BY SettingsConstants
<1>2. c.writes # "SNTP_Gateway" => c.shows # "NTP_Gateway" /\ c.writes = c.shows
  BY <1>1 DEF AllCommands
<1>3. c.writes = "SNTP_Gateway" => c.shows = "NTP_Gateway"
  BY <1>1 DEF AllCommands
<1>4. c.shows \in {"MacAddr", "MPU_IPAddr", "MPU_Subnet", "MPU_Gateway",
                   "NTP_IPAddr", "NTP_Subnet", "NTP_Gateway"}
  BY <1>1 DEF AllCommands
<1>5. QED  BY <1>2, <1>3, <1>4, ScriptFacts

\* A statement of the script adds its table, or gives its row the factory value.
LEMMA ExecutedEffect ==
  ASSUME NEW db \in DB, NEW i \in 1 .. Len(Script)
  PROVE  LET s == Script[i] new == Executed(db, s) IN
         /\ new \in DB
         /\ new.tables = IF s.create THEN db.tables \cup {s.table} ELSE db.tables
         /\ \A n \in Names :
              new.row[n] = IF ~s.create /\ n = s.name THEN FACTORY ELSE db.row[n]
<1>1. Script[i].table \in Tables /\ (~Script[i].create => Script[i].name \in Names)
  BY ScriptFacts
<1>2. CASE Script[i].create
  <2>1. Executed(db, Script[i]) = [db EXCEPT !.tables = @ \cup {Script[i].table}]
    BY <1>2 DEF Executed
  <2>2. QED  BY <1>1, <1>2, <2>1 DEF DB
<1>3. CASE ~Script[i].create
  <2>1. Executed(db, Script[i]) = [db EXCEPT !.row[Script[i].name] = FACTORY]
    BY <1>3 DEF Executed
  <2>2. QED  BY <1>1, <1>3, <2>1 DEF DB
<1>4. QED  BY <1>2, <1>3

\* An UPDATE changes what one connection sees of one row, if it has that row.
LEMMA UpdateEffect ==
  ASSUME TypeOK, NEW d \in Dbs, NEW from, NEW to, Update(d, from, to), value \in Values
  PROVE  /\ seen' \in [Dbs -> DB]
         /\ \A e \in Dbs \ {d} : seen'[e] = seen[e]
         /\ seen'[d].tables = seen[d].tables
         /\ \A n \in Names : seen'[d].row[n] = IF n = job.writes /\ seen[d].row[n] # NoValue
                                               THEN value ELSE seen[d].row[n]
<1>1. seen \in [Dbs -> DB]
  BY Databases
<1>2. CASE job.writes \in Names /\ seen[d].row[job.writes] # NoValue
  <2>1. seen' = [seen EXCEPT ![d].row[job.writes] = value]
    BY <1>2 DEF Update
  <2>2. seen' = [seen EXCEPT ![d] = [seen[d] EXCEPT !.row = [seen[d].row EXCEPT ![job.writes] = value]]]
    BY <2>1
  <2>3. seen'[d] = [seen[d] EXCEPT !.row = [seen[d].row EXCEPT ![job.writes] = value]]
    BY <1>1, <2>2
  <2>4. seen'[d] \in DB /\ seen'[d].tables = seen[d].tables
        /\ seen'[d].row = [seen[d].row EXCEPT ![job.writes] = value]
    BY <1>1, <2>3 DEF DB
  <2>5. QED  BY <1>1, <1>2, <2>2, <2>4 DEF DB
<1>3. CASE ~(job.writes \in Names /\ seen[d].row[job.writes] # NoValue)
  <2>1. seen' = seen
    BY <1>3 DEF Update
  <2>2. QED  BY <1>1, <1>3, <2>1
<1>4. QED  BY <1>2, <1>3

\* What is left of a file that power was lost while writing has no other values.
LEMMA TornEffect ==
  ASSUME NEW db \in DB, NEW t, NEW torn \in Torn(db, t)
  PROVE  torn \in DB /\ \A n \in Names : torn.row[n] \in {db.row[n], NoValue}
<1>1. CASE torn = Empty
  BY <1>1 DEF Empty, DB
<1>2. CASE torn = [db EXCEPT !.row = [n \in Names |-> IF n \in In(t) THEN NoValue ELSE db.row[n]]]
  BY <1>2 DEF DB
<1>3. QED  BY <1>1, <1>2 DEF Torn

-----------------------------------------------------------------------------
(* The inductive invariant: the boot                                       *)

LEMMA InitIInv ==
  Init => IInv
<1> SUFFICES ASSUME Init PROVE IInv
  OBVIOUS
<1> USE SettingsConstants
<1>1. Empty \in DB /\ Empty.tables = {} /\ \A n \in Names : Empty.row[n] = NoValue
  BY DEF Empty, DB
<1>2. \A d \in Dbs : file[d] = Empty /\ seen[d] = Empty
  BY DEF Init
<1>3. TypeOK
  <2>1. job \in Commands
    BY DEF Init
  <2>2. 1 \in 1 .. Len(Script)
    BY ScriptFacts
  <2>3. file \in [Dbs -> DB] /\ seen = file
    BY <1>1 DEF Init
  <2>4. \A db \in {file, seen} : db \in [Dbs -> DB]
    BY <2>3
  <2>5. /\ pc = "off" /\ step = 1 /\ open = {} /\ value = NoValue /\ saves = 0 /\ powerLosses = 0
        /\ reported = [n \in Names |-> NoValue] /\ excuse = "none" /\ interrupted = FALSE
        /\ behind = Names /\ ram = FALSE /\ broken = {}
    BY DEF Init
  <2>6. /\ interrupted \in BOOLEAN /\ ram \in BOOLEAN
        /\ excuse \in {"none", "pending", "late", "lost", "reset"}
    BY <2>5
  <2>7. QED  BY <2>1, <2>2, <2>4, <2>5, <2>6 DEF TypeOK, DB
<1>4. \A i \in 1 .. Len(Script) : ~Present(Script[i])
  BY <1>1, <1>2, ScriptFacts DEF Present, Dbs
<1>5. QED
  BY <1>1, <1>2, <1>3, <1>4 DEF Init, IInv, Opened, Shapes, Prefix, NoGaps, FactoryCopy, Booted,
     FirstBoot, InHand, Kept, Synced, Entered, Backup, BackupHolds, Dbs, Saving, Sys, Dul, Complete

\* An action that moves pc only, and neither into nor within the saving of a change.
LEMMA OpenCopiesStep ==
  ASSUME IInv, OpenCopies
  PROVE  IInv'
<1> USE DEF command, history
<1>1. /\ pc = "openDul" /\ pc' \in {"idle", "off"} /\ ram' \in BOOLEAN
      /\ UNCHANGED <<step, broken, interrupted, file, seen, open, command, powerLosses, history>>
  BY DEF IInv, TypeOK, OpenCopies
<1>2. TypeOK'
  BY <1>1 DEF IInv, TypeOK
<1>3. Opened' /\ Shapes' /\ Prefix' /\ NoGaps' /\ FactoryCopy' /\ Booted' /\ FirstBoot'
  BY <1>1 DEF IInv, Opened, Shapes, Prefix, NoGaps, FactoryCopy, Booted, FirstBoot, Booting,
     Present, Sys, Dul, Complete
<1>4. InHand' /\ Kept' /\ Synced' /\ Entered' /\ Backup' /\ BackupHolds'
  BY <1>1 DEF IInv, InHand, Kept, Synced, Entered, Backup, BackupHolds, Unharmed, Saving, Sys, Dul
<1>5. QED  BY <1>2, <1>3, <1>4 DEF IInv

\* A file with tables is opened as it is; without them, or if they cannot be
\* counted, the script is run.
LEMMA IsNewDBStep ==
  ASSUME IInv, IsNewDB
  PROVE  IInv'
<1>1. /\ pc = "off" /\ ram' \in BOOLEAN
      /\ \/ Sys.tables # {} /\ pc' = "openDul" /\ step' = step /\ excuse' = excuse
         \/ /\ pc' = "create" /\ step' = step
            /\ excuse' = IF Sys.tables = {} THEN excuse ELSE "reset"
      /\ UNCHANGED <<broken, interrupted, file, seen, open, job, value, saves, powerLosses,
                     reported, behind>>
  BY DEF IInv, TypeOK, IsNewDB, Sys, command
<1>2. excuse' = excuse \/ excuse' = "reset"
  BY <1>1
<1>3. TypeOK'
  BY <1>1, <1>2 DEF IInv, TypeOK
<1>4. Opened' /\ Shapes' /\ NoGaps' /\ FactoryCopy' /\ Booted'
  BY <1>1 DEF IInv, Opened, Shapes, NoGaps, FactoryCopy, Booted, Booting, Present, Sys, Dul, Complete
<1>5. Prefix'
  BY <1>1 DEF IInv, Prefix
<1>6. FirstBoot'
  BY <1>1, <1>2 DEF IInv, FirstBoot, Sys
<1>7. InHand' /\ Kept' /\ Synced' /\ Entered' /\ Backup' /\ BackupHolds'
  BY <1>1, <1>2 DEF IInv, InHand, Kept, Synced, Entered, Backup, BackupHolds, Unharmed, Saving,
     Sys, Dul
<1>8. QED  BY <1>3, <1>4, <1>5, <1>6, <1>7 DEF IInv

\* A statement of the script, carried out, extends what is done; after the last
\* the file has everything.  In a first boot nothing has been reported yet.
LEMMA StatementStep ==
  ASSUME IInv, Statement
  PROVE  IInv'
<1> DEFINE new == Executed(file["sys"], Script[step])
<1>1. /\ pc = "create" /\ open = {} /\ step \in 1 .. Len(Script)
      /\ file \in [Dbs -> DB] /\ seen \in [Dbs -> DB]
      /\ excuse # "reset" => "sys" \notin broken
  BY Databases DEF IInv, Opened, FirstBoot, Booting, Statement, TypeOK, Sys
<1>2. /\ new \in DB
      /\ new.tables = IF Script[step].create THEN Sys.tables \cup {Script[step].table}
                                             ELSE Sys.tables
      /\ \A n \in Names : new.row[n] = IF ~Script[step].create /\ n = Script[step].name
                                       THEN FACTORY ELSE Sys.row[n]
  BY <1>1, ExecutedEffect DEF Sys, Dbs
<1>3. /\ file' \in [Dbs -> DB] /\ file'["sys"] = new
      /\ file'["dul"] = file["dul"] /\ file'["def"] = file["def"]
  BY <1>1, <1>2 DEF Statement, Dbs
<1>4. seen' \in [Dbs -> DB] /\ \A d \in Dbs : seen'[d] = file'[d]
  <2>1. \A d \in Dbs : seen[d] = file[d]
    BY <1>1 DEF IInv, Opened
  <2>2. QED  BY <1>1, <1>3, <2>1 DEF Statement, Dbs
<1>5. /\ pc' \in {"create", "copyDul"} /\ open' = {}
      /\ pc' = "create" => step < Len(Script) /\ step' = step + 1
      /\ pc' = "copyDul" => step = Len(Script) /\ step' = 1
  BY <1>1, ScriptFacts DEF Statement
<1>6. UNCHANGED <<ram, broken, interrupted, job, value, saves, powerLosses, reported, excuse, behind>>
  BY DEF Statement, command, history
<1> HIDE DEF new
<1>7. TypeOK'
  <2>1. step' \in 1 .. Len(Script)
    BY <1>1, <1>5, ScriptFacts
  <2>2. \A db \in {file', seen'} : db \in [Dbs -> DB]
    BY <1>3, <1>4
  <2>3. QED  BY <1>1, <1>5, <1>6, <2>1, <2>2 DEF IInv, TypeOK, DB
<1>8. ASSUME NEW i \in 1 .. Len(Script), i < step \/ i = step
      PROVE  Done(Script[i])'
  <2>1. i < step => Done(Script[i])
    BY <1>1 DEF IInv, Prefix
  <2>2. (Script[i].create => Script[i].table \in Tables) /\ (~Script[i].create => Script[i].name \in Names)
    BY ScriptFacts
  <2>3. QED  BY <1>2, <1>3, <1>8, <2>1, <2>2 DEF Done, Sys
<1>9. pc' = "copyDul" => Sys'.tables = Tables /\ \A n \in Names : Sys'.row[n] = FACTORY
  <2> SUFFICES ASSUME pc' = "copyDul"
               PROVE  Sys'.tables = Tables /\ \A n \in Names : Sys'.row[n] = FACTORY
    OBVIOUS
  <2>1. \A i \in 1 .. Len(Script) : Done(Script[i])'
    BY <1>1, <1>5, <1>8, ScriptFacts
  <2>2. Sys'.tables \subseteq Tables
    BY <1>2, <1>3 DEF Sys, DB
  <2>3. Tables \subseteq Sys'.tables
    BY <2>1, ScriptFacts DEF Done
  <2>4. \A n \in Names : Sys'.row[n] = FACTORY
    <3>1. \A n \in Names : \E i \in 1 .. Len(Script) : ~Script[i].create /\ Script[i].name = n
      BY ScriptFacts
    <3>2. QED  BY <2>1, <3>1 DEF Done
  <2>5. QED  BY <2>2, <2>3, <2>4
<1>10. Opened'
  <2>1. Tables # {}
    BY ScriptFacts
  <2>2. QED  BY <1>4, <1>5, <1>9, <2>1 DEF Opened
<1>11. Shapes' /\ FactoryCopy'
  <2>1. Complete(Sys) => Complete(Sys)'
    <3>1. Script[step].table \in Tables
      BY <1>1, ScriptFacts
    <3>2. QED  BY <1>2, <1>3, <3>1, SettingsConstants DEF Complete, Sys
  <2>2. Dul' = Dul
    BY <1>3 DEF Dul
  <2>3. QED  BY <1>3, <1>4, <1>6, <2>1, <2>2 DEF IInv, Shapes, FactoryCopy, Dul, Complete, Dbs
<1>12. Prefix'
  <2>1. pc' = "create" => \A i \in 1 .. Len(Script) : i < step' => Done(Script[i])'
    BY <1>1, <1>5, <1>8, ScriptFacts
  <2>2. QED  BY <1>5, <1>9, <2>1 DEF Prefix
<1>13. NoGaps'
  <2> SUFFICES ASSUME "sys" \notin broken, NEW i \in 1 .. Len(Script), NEW j \in 1 .. Len(Script),
                      i < j, Present(Script[j])'
               PROVE  Present(Script[i])'
    BY <1>6 DEF NoGaps
  <2>1. \A k \in 1 .. Len(Script) : k < step \/ k = step => Present(Script[k])'
    BY <1>8, SettingsConstants DEF Done, Present, Sys
  <2>2. \A k \in 1 .. Len(Script) : Present(Script[k]) => Present(Script[k])'
    BY <1>2, <1>3, ScriptFacts, SettingsConstants DEF Present, Sys
  <2>3. ASSUME NEW k \in 1 .. Len(Script), k # step, Present(Script[k])'
        PROVE  Present(Script[k])
    <3>1. ~((Script[k].create <=> Script[step].create) /\ Script[k].name = Script[step].name)
      BY <1>1, <2>3, ScriptFacts
    <3>2. /\ Script[k].create => Script[k].name = Script[k].table
          /\ Script[step].create => Script[step].name = Script[step].table
          /\ ~Script[k].create => Script[k].name \in Names
      BY <1>1, ScriptFacts
    <3>3. CASE Script[k].create
      <4>1. Script[k].table \in new.tables
        BY <1>3, <2>3, <3>3 DEF Present
      <4>2. Script[k].table \in Sys.tables
        <5>1. CASE Script[step].create
          BY <1>2, <3>1, <3>2, <3>3, <4>1, <5>1
        <5>2. CASE ~Script[step].create
          BY <1>2, <4>1, <5>2
        <5>3. QED  BY <5>1, <5>2
      <4>3. QED  BY <3>3, <4>2 DEF Present, Sys
    <3>4. CASE ~Script[k].create
      <4>1. new.row[Script[k].name] # NoValue
        BY <1>3, <2>3, <3>4 DEF Present
      <4>2. Sys.row[Script[k].name] # NoValue
        <5>1. CASE Script[step].create
          BY <1>2, <3>2, <3>4, <4>1, <5>1
        <5>2. CASE ~Script[step].create
          BY <1>2, <3>1, <3>2, <3>4, <4>1, <5>2
        <5>3. QED  BY <5>1, <5>2
      <4>3. QED  BY <3>4, <4>2 DEF Present, Sys
    <3>5. QED  BY <3>3, <3>4
  <2>4. CASE j < step \/ j = step
    <3>1. i < step
      BY <1>1, <2>4, ScriptFacts
    <3>2. QED  BY <2>1, <3>1
  <2>5. CASE j # step
    BY <2>2, <2>3, <2>5 DEF IInv, NoGaps
  <2>6. QED  BY <2>4, <2>5
<1>14. Booted'
  BY <1>5, <1>9, SettingsConstants DEF Booted, Complete
<1>15. FirstBoot'
  BY <1>1, <1>5, <1>6 DEF IInv, FirstBoot
<1>16. Kept' /\ Backup'
  <2>1. Unharmed => behind = Names /\ \A n \in Names : reported[n] = NoValue
    BY <1>1 DEF IInv, FirstBoot, Unharmed
  <2>2. \A n \in Names \ behind : seen'["dul"].row[n] = Dul'.row[n]
    BY <1>4 DEF Dul, Dbs
  <2>3. QED  BY <1>6, <2>1, <2>2 DEF Kept, Backup, Unharmed
<1>17. InHand' /\ Synced' /\ Entered'
  BY <1>4, <1>5 DEF InHand, Synced, Entered, Saving, Sys, Dbs
<1>18. BackupHolds'
  BY <1>3, <1>6 DEF IInv, BackupHolds
<1>19. QED
  BY <1>7, <1>10, <1>11, <1>12, <1>13, <1>14, <1>15, <1>16, <1>17, <1>18 DEF IInv

\* A statement that fails leaves what the script has done, in order.
LEMMA StatementFailsStep ==
  ASSUME IInv, StatementFails
  PROVE  IInv'
<1>1. /\ pc = "create" /\ pc' = "off" /\ step' = 1 /\ ram' = FALSE /\ interrupted' = TRUE
      /\ UNCHANGED <<broken, file, seen, open, job, value, saves, powerLosses, reported,
                     excuse, behind>>
  BY DEF StatementFails, command, history
<1>2. TypeOK'
  <2>1. step' \in 1 .. Len(Script)
    BY <1>1, ScriptFacts
  <2>2. ram' \in BOOLEAN /\ interrupted' \in BOOLEAN
    BY <1>1
  <2>3. QED  BY <1>1, <2>1, <2>2 DEF IInv, TypeOK
<1>3. Opened' /\ Shapes' /\ Prefix' /\ NoGaps' /\ FactoryCopy' /\ Booted' /\ FirstBoot'
  BY <1>1 DEF IInv, Opened, Shapes, Prefix, NoGaps, FactoryCopy, Booted, FirstBoot, Booting,
     Present, Sys, Dul, Complete
<1>4. InHand' /\ Kept' /\ Synced' /\ Entered' /\ Backup' /\ BackupHolds'
  BY <1>1 DEF IInv, InHand, Kept, Synced, Entered, Backup, BackupHolds, Unharmed, Saving, Sys, Dul
<1>5. QED  BY <1>2, <1>3, <1>4 DEF IInv

\* A copy made has all that sys has; one that failed leaves everything behind.
LEMMA CopyDulStep ==
  ASSUME IInv, Copy("dul", "copyDul", "copyDef")
  PROVE  IInv'
<1>1. /\ pc = "copyDul" /\ pc' = "copyDef" /\ open = {} /\ open' = {}
      /\ file \in [Dbs -> DB] /\ seen \in [Dbs -> DB] /\ \A d \in Dbs : seen[d] = file[d]
      /\ Sys.tables = Tables /\ \A n \in Names : Sys.row[n] = FACTORY
      /\ excuse # "reset" => "sys" \notin broken /\ \A n \in Names : reported[n] = NoValue
      /\ broken \subseteq Dbs
  BY Databases DEF IInv, TypeOK, Opened, Prefix, FirstBoot, Booting, Copy
<1>2. /\ file' \in [Dbs -> DB] /\ file'["sys"] = file["sys"] /\ file'["def"] = file["def"]
      /\ broken' \subseteq Dbs /\ ("sys" \in broken' <=> "sys" \in broken)
      /\ \/ /\ file'["dul"] = file["sys"] /\ behind' = {}
            /\ "sys" \in broken => "dul" \in broken'
         \/ file'["dul"] = file["dul"] /\ broken' = broken /\ behind' = Names
         \/ "dul" \in broken' /\ behind' = Names
  <2>1. Empty \in DB
    BY DEF Empty, DB
  <2>2. QED  BY <1>1, <2>1 DEF Copy, Dbs
<1>3. seen' \in [Dbs -> DB] /\ \A d \in Dbs : seen'[d] = file'[d]
  <2>1. seen' = [seen EXCEPT !["dul"] = file'["dul"]]
    BY DEF Copy
  <2>2. QED  BY <1>1, <1>2, <2>1 DEF Dbs
<1>4. UNCHANGED <<step, ram, interrupted, job, value, saves, powerLosses, reported, excuse>>
  BY DEF Copy, command
<1>5. Tables # {} /\ Complete(Sys)
  BY <1>1, ScriptFacts, SettingsConstants DEF Complete
<1>6. TypeOK'
  <2>1. \A db \in {file', seen'} : db \in [Dbs -> DB]
    BY <1>2, <1>3
  <2>2. behind' \subseteq Names
    BY <1>2
  <2>3. QED  BY <1>1, <1>2, <1>4, <2>1, <2>2 DEF IInv, TypeOK, DB
<1>7. Opened' /\ FactoryCopy'
  BY <1>1, <1>2, <1>3, <1>5 DEF IInv, Opened, FactoryCopy, Sys
<1>8. Shapes'
  <2>1. Complete(Sys)'
    BY <1>2, <1>5 DEF Complete, Sys
  <2>2. (Dul' = Dul /\ broken' = broken) \/ "dul" \in broken' \/ Complete(Dul)'
    BY <1>2, <1>5 DEF Complete, Sys, Dul
  <2>3. QED  BY <1>3, <2>1, <2>2 DEF IInv, Shapes, Complete, Dul
<1>9. Prefix' /\ NoGaps' /\ Booted'
  BY <1>1, <1>2, <1>4, <1>5 DEF IInv, Prefix, NoGaps, Booted, Present, Complete, Sys
<1>10. FirstBoot'
  BY <1>1, <1>2, <1>4, <1>5 DEF FirstBoot, Sys
<1>11. Kept' /\ BackupHolds'
  BY <1>1, <1>2, <1>4 DEF IInv, Kept, BackupHolds, Unharmed
<1>12. InHand' /\ Synced' /\ Entered'
  BY <1>1, <1>3 DEF InHand, Synced, Entered, Saving, Sys, Dbs
<1>13. Backup'
  <2>1. \A n \in Names : seen'["dul"].row[n] = Dul'.row[n] /\ seen'["sys"].row[n] = Sys'.row[n]
    BY <1>3 DEF Sys, Dul, Dbs
  <2>2. "dul" \notin broken' => behind' = Names \/ Dul' = Sys'
    BY <1>2 DEF Sys, Dul
  <2>3. QED  BY <2>1, <2>2 DEF Backup
<1>14. QED
  BY <1>6, <1>7, <1>8, <1>9, <1>10, <1>11, <1>12, <1>13 DEF IInv

\* The factory copy is made of a file that holds nothing but factory values.
LEMMA CopyDefStep ==
  ASSUME IInv, Copy("def", "copyDef", "openDul")
  PROVE  IInv'
<1>1. /\ pc = "copyDef" /\ pc' = "openDul" /\ open = {} /\ open' = {}
      /\ file \in [Dbs -> DB] /\ seen \in [Dbs -> DB] /\ \A d \in Dbs : seen[d] = file[d]
      /\ Sys.tables = Tables /\ \A n \in Names : Sys.row[n] = FACTORY
      /\ broken \subseteq Dbs
  BY Databases DEF IInv, TypeOK, Opened, Prefix, Booting, Copy
<1>2. /\ file' \in [Dbs -> DB] /\ file'["sys"] = file["sys"] /\ file'["dul"] = file["dul"]
      /\ file'["def"] \in {file["sys"], file["def"], Empty}
      /\ broken' \subseteq Dbs /\ \A d \in {"sys", "dul"} : d \in broken' <=> d \in broken
  <2>1. Empty \in DB
    BY DEF Empty, DB
  <2>2. QED  BY <1>1, <2>1 DEF Copy, Dbs
<1>3. /\ seen' \in [Dbs -> DB] /\ \A d \in Dbs : seen'[d] = file'[d]
      /\ seen'["sys"] = seen["sys"] /\ seen'["dul"] = seen["dul"]
  <2>1. seen' = [seen EXCEPT !["def"] = file'["def"]]
    BY DEF Copy
  <2>2. QED  BY <1>1, <1>2, <2>1 DEF Dbs
<1>4. UNCHANGED <<step, ram, interrupted, job, value, saves, powerLosses, reported, excuse, behind>>
  BY DEF Copy, command
<1>5. Tables # {} /\ Complete(Sys)
  BY <1>1, ScriptFacts, SettingsConstants DEF Complete
<1>6. TypeOK'
  <2>1. \A db \in {file', seen'} : db \in [Dbs -> DB]
    BY <1>2, <1>3
  <2>2. QED  BY <1>1, <1>2, <1>4, <2>1 DEF IInv, TypeOK, DB
<1>7. Opened' /\ Prefix'
  BY <1>1, <1>2, <1>3, <1>4, <1>5 DEF IInv, Opened, Prefix, Sys
<1>8. FactoryCopy'
  BY <1>1, <1>2 DEF IInv, FactoryCopy, Sys, Empty
<1>9. Shapes'
  BY <1>2, <1>3 DEF IInv, Shapes, Complete, Sys, Dul
<1>10. NoGaps' /\ Booted' /\ FirstBoot'
  BY <1>1, <1>2, <1>4, <1>5 DEF IInv, NoGaps, Booted, FirstBoot, Present, Complete, Sys
<1>11. Kept' /\ Backup' /\ BackupHolds'
  BY <1>1, <1>2, <1>3, <1>4 DEF IInv, Kept, Backup, BackupHolds, Unharmed, Sys, Dul
<1>12. InHand' /\ Synced' /\ Entered'
  BY <1>1, <1>3 DEF InHand, Synced, Entered, Saving, Sys, Dbs
<1>13. QED  BY <1>6, <1>7, <1>8, <1>9, <1>10, <1>11, <1>12 DEF IInv

-----------------------------------------------------------------------------
(* The inductive invariant: the saving of a change                         *)

\* Entering a value takes back what was reported of the setting.
LEMMA EnterStep ==
  ASSUME IInv, Enter
  PROVE  IInv'
<1>1. /\ pc = "idle" /\ pc' = "sysBegin" /\ job' \in Commands /\ value' \in Values
      /\ reported' = [reported EXCEPT ![job'.shows] = NoValue]
      /\ saves' = saves + 1 /\ saves < MaxSaves
      /\ UNCHANGED <<step, ram, broken, interrupted, file, seen, open, powerLosses, excuse, behind>>
  BY DEF Enter, boot
<1>2. job'.shows \in Names /\ reported \in [Names -> Values \cup {NoValue}]
  BY <1>1, WritesShown DEF IInv, TypeOK
<1>3. TypeOK'
  <2>1. saves' \in 0 .. MaxSaves
    BY <1>1, SettingsConstants DEF IInv, TypeOK
  <2>2. reported' \in [Names -> Values \cup {NoValue}]
    BY <1>1, <1>2
  <2>3. QED  BY <1>1, <2>1, <2>2 DEF IInv, TypeOK
<1>4. \A n \in Names : reported'[n] = IF n = job'.shows THEN NoValue ELSE reported[n]
  BY <1>1, <1>2
<1>5. Opened' /\ Shapes' /\ Prefix' /\ NoGaps' /\ FactoryCopy' /\ Booted'
  BY <1>1 DEF IInv, Opened, Shapes, Prefix, NoGaps, FactoryCopy, Booted, Booting, Present, Sys, Dul,
     Complete
<1>6. FirstBoot' /\ InHand' /\ Kept' /\ BackupHolds'
  BY <1>1, <1>2, <1>4 DEF IInv, Opened, FirstBoot, InHand, Kept, BackupHolds, Unharmed, Sys
<1>7. Synced' /\ Entered' /\ Backup'
  BY <1>1 DEF IInv, Synced, Entered, Backup, Unharmed, Sys, Dul
<1>8. QED  BY <1>3, <1>5, <1>6, <1>7 DEF IInv

LEMMA BeginStep ==
  ASSUME IInv, Begin("sys", "sysBegin", "sysUpdate") \/ Begin("dul", "dulBegin", "dulUpdate")
  PROVE  IInv'
<1>1. /\ \/ pc = "sysBegin" /\ pc' = "sysUpdate" /\ open' = open \cup {"sys"}
         \/ pc = "dulBegin" /\ pc' = "dulUpdate" /\ open' = open \cup {"dul"}
      /\ UNCHANGED <<step, ram, broken, interrupted, file, seen, job, value, saves, powerLosses,
                     reported, excuse, behind>>
  BY DEF Begin, boot, command, history
<1>2. TypeOK'
  BY <1>1 DEF IInv, TypeOK
<1>3. Opened'
  BY <1>1 DEF IInv, Opened, Booting, Sys
<1>4. Shapes' /\ Prefix' /\ NoGaps' /\ FactoryCopy' /\ Booted' /\ FirstBoot'
  BY <1>1 DEF IInv, Shapes, Prefix, NoGaps, FactoryCopy, Booted, FirstBoot, Present, Sys, Dul,
     Complete
<1>5. InHand' /\ Kept' /\ Synced' /\ Entered' /\ Backup' /\ BackupHolds'
  BY <1>1 DEF IInv, InHand, Kept, Synced, Entered, Backup, BackupHolds, Unharmed, Saving, Sys, Dul
<1>6. QED  BY <1>2, <1>3, <1>4, <1>5 DEF IInv

\* The UPDATE of sys changes no setting that stands reported.
LEMMA UpdateSysStep ==
  ASSUME IInv, Update("sys", "sysUpdate", "sysCommit")
  PROVE  IInv'
<1>1. /\ pc = "sysUpdate" /\ pc' = "sysCommit" /\ "sys" \in open /\ value \in Values
      /\ reported[job.shows] = NoValue /\ job \in Commands
      /\ UNCHANGED <<step, ram, broken, interrupted, file, open, job, value, saves, powerLosses,
                     reported, excuse, behind>>
  BY DEF IInv, Opened, InHand, Saving, TypeOK, Update, boot, command, history
<1>2. /\ seen' \in [Dbs -> DB] /\ seen'["dul"] = seen["dul"] /\ seen'["def"] = seen["def"]
      /\ seen'["sys"].tables = seen["sys"].tables
      /\ \A n \in Names : seen'["sys"].row[n] = IF n = job.writes /\ seen["sys"].row[n] # NoValue
                                                THEN value ELSE seen["sys"].row[n]
  BY <1>1, UpdateEffect DEF IInv, Dbs
<1>3. TypeOK'
  <2>1. \A db \in {file', seen'} : db \in [Dbs -> DB]
    BY <1>1, <1>2, Databases DEF IInv
  <2>2. QED  BY <1>1, <2>1 DEF IInv, TypeOK, DB
<1>4. Opened'
  BY <1>1, <1>2 DEF IInv, Opened, Booting, Sys, Dbs
<1>5. Shapes'
  <2>1. \A n \in Names : seen'["sys"].row[n] = NoValue <=> seen["sys"].row[n] = NoValue
    BY <1>1, <1>2, SettingsConstants
  <2>2. QED  BY <1>1, <1>2, <2>1 DEF IInv, Shapes, Complete, Sys, Dul, Dbs
<1>6. /\ Prefix' /\ NoGaps' /\ FactoryCopy' /\ Booted' /\ FirstBoot' /\ InHand'
      /\ BackupHolds'
  BY <1>1 DEF IInv, Prefix, NoGaps, FactoryCopy, Booted, FirstBoot, InHand, BackupHolds, Saving,
     Present, Sys, Complete
<1>7. Kept'
  <2>1. \A n \in Names : reported[n] # NoValue => n # job.writes
    BY <1>1, WritesShown
  <2>2. QED  BY <1>1, <1>2, <2>1 DEF IInv, Kept, Unharmed
<1>8. Synced'
  BY <1>1, <1>2 DEF IInv, Synced, Sys
<1>9. Entered'
  BY <1>1, <1>2 DEF Entered
<1>10. Backup'
  BY <1>1, <1>2 DEF IInv, Backup, Unharmed, Sys, Dul
<1>11. QED  BY <1>3, <1>4, <1>5, <1>6, <1>7, <1>8, <1>9, <1>10 DEF IInv

\* The UPDATE of dul finds the row, and the setting is behind already.
LEMMA UpdateDulStep ==
  ASSUME IInv, Update("dul", "dulUpdate", "dulCommit")
  PROVE  IInv'
<1>1. /\ pc = "dulUpdate" /\ pc' = "dulCommit" /\ "dul" \in open /\ value \in Values
      /\ job \in Commands /\ seen["dul"].tables # {}
      /\ UNCHANGED <<step, ram, broken, interrupted, file, open, job, value, saves, powerLosses,
                     reported, excuse, behind>>
  BY DEF IInv, Opened, InHand, Saving, TypeOK, Update, boot, command, history
<1>2. /\ seen' \in [Dbs -> DB] /\ seen'["sys"] = seen["sys"] /\ seen'["def"] = seen["def"]
      /\ seen'["dul"].tables = seen["dul"].tables
      /\ \A n \in Names : seen'["dul"].row[n] = IF n = job.writes /\ seen["dul"].row[n] # NoValue
                                                THEN value ELSE seen["dul"].row[n]
  BY <1>1, UpdateEffect DEF IInv, Dbs
<1>3. TypeOK'
  <2>1. \A db \in {file', seen'} : db \in [Dbs -> DB]
    BY <1>1, <1>2, Databases DEF IInv
  <2>2. QED  BY <1>1, <2>1 DEF IInv, TypeOK, DB
<1>4. Opened'
  BY <1>1, <1>2 DEF IInv, Opened, Shapes, Booting, Sys, Dul, Dbs
<1>5. Shapes'
  <2>1. \A n \in Names : seen'["dul"].row[n] = NoValue <=> seen["dul"].row[n] = NoValue
    BY <1>1, <1>2, SettingsConstants
  <2>2. QED  BY <1>1, <1>2, <2>1 DEF IInv, Shapes, Complete, Sys, Dul, Dbs
<1>6. /\ Prefix' /\ NoGaps' /\ FactoryCopy' /\ Booted' /\ FirstBoot' /\ InHand'
      /\ BackupHolds'
  BY <1>1 DEF IInv, Prefix, NoGaps, FactoryCopy, Booted, FirstBoot, InHand, BackupHolds, Saving,
     Present, Sys, Complete
<1>7. Kept' /\ Synced'
  BY <1>1, <1>2 DEF IInv, Kept, Synced, Unharmed, Sys
<1>8. Entered'
  <2>1. "dul" \notin broken => \A n \in Names : seen["dul"].row[n] # NoValue
    BY <1>1 DEF IInv, Shapes, Complete, Dul, Dbs
  <2>2. QED  BY <1>1, <1>2, <2>1 DEF IInv, Entered, Unharmed
<1>9. Backup'
  <2>1. \A n \in Names \ behind : n # job.writes
    BY <1>1 DEF IInv, Entered
  <2>2. QED  BY <1>1, <1>2, <2>1 DEF IInv, Backup, Unharmed, Sys, Dul
<1>10. QED  BY <1>3, <1>4, <1>5, <1>6, <1>7, <1>8, <1>9 DEF IInv

\* A failed UPDATE of sys undoes a change that an earlier COMMIT left open, if
\* there is one, and nothing else.
LEMMA SaveFailsStep ==
  ASSUME IInv, SaveFails
  PROVE  IInv'
<1>1. /\ pc = "sysUpdate" /\ pc' = "idle" /\ open' = open \ {"sys"}
      /\ excuse' = (IF excuse = "pending" THEN "lost" ELSE excuse)
      /\ excuse \in {"none", "pending", "late", "lost", "reset"}
      /\ UNCHANGED <<step, ram, broken, interrupted, file, job, value, saves, powerLosses, reported, behind>>
  BY DEF IInv, TypeOK, SaveFails, UpdateFails, boot, command
<1>2. /\ seen' \in [Dbs -> DB] /\ file \in [Dbs -> DB] /\ seen'["sys"] = file["sys"]
      /\ seen'["dul"] = seen["dul"] /\ seen'["def"] = seen["def"]
  BY Databases DEF IInv, SaveFails, UpdateFails, Dbs
<1>3. TypeOK'
  <2>1. \A db \in {file', seen'} : db \in [Dbs -> DB]
    BY <1>1, <1>2
  <2>2. excuse' \in {"none", "pending", "late", "lost", "reset"}
    BY <1>1
  <2>3. QED  BY <1>1, <2>1, <2>2 DEF IInv, TypeOK, DB
<1>4. Opened' /\ Shapes'
  BY <1>1, <1>2 DEF IInv, Opened, Shapes, Complete, Sys, Dul, Booting, Dbs
<1>5. /\ Prefix' /\ NoGaps' /\ FactoryCopy' /\ Booted' /\ FirstBoot' /\ InHand'
      /\ BackupHolds'
  BY <1>1 DEF IInv, Prefix, NoGaps, FactoryCopy, Booted, FirstBoot, InHand, BackupHolds, Saving,
     Present, Sys, Complete
<1>6. Kept' /\ Synced'
  BY <1>1, <1>2 DEF IInv, Kept, Synced, Unharmed, Sys
<1>7. Entered'
  BY <1>1 DEF Entered
<1>8. Backup'
  BY <1>1, <1>2 DEF IInv, Backup, Unharmed, Sys, Dul
<1>9. QED  BY <1>3, <1>4, <1>5, <1>6, <1>7, <1>8 DEF IInv

\* What a COMMIT may do to the file, the connection and the transaction.
LEMMA CommitEffect ==
  ASSUME IInv, NEW d \in {"sys", "dul"}
  PROVE  /\ CommitDone(d) =>
              /\ file' \in [Dbs -> DB] /\ seen' = seen /\ open' = open \ {d}
              /\ file'[d] = seen[d] /\ \A e \in Dbs \ {d} : file'[e] = file[e]
         /\ CommitBusy(d) => UNCHANGED <<file, seen, open>>
         /\ CommitFull(d) =>
              /\ seen' \in [Dbs -> DB] /\ file' = file /\ open' = open \ {d}
              /\ seen'[d] = file[d] /\ \A e \in Dbs \ {d} : seen'[e] = seen[e]
<1>1. file \in [Dbs -> DB] /\ seen \in [Dbs -> DB] /\ d \in Dbs
  BY Databases DEF IInv, Dbs
<1>2. CommitDone(d) => /\ file' \in [Dbs -> DB] /\ seen' = seen /\ open' = open \ {d}
                       /\ file'[d] = seen[d] /\ \A e \in Dbs \ {d} : file'[e] = file[e]
  BY <1>1 DEF CommitDone
<1>3. CommitFull(d) => /\ seen' \in [Dbs -> DB] /\ file' = file /\ open' = open \ {d}
                       /\ seen'[d] = file[d] /\ \A e \in Dbs \ {d} : seen'[e] = seen[e]
  BY <1>1 DEF CommitFull
<1>4. QED  BY <1>2, <1>3 DEF CommitBusy

\* The change in hand is behind in the second copy from here on; a COMMIT that
\* fails leaves it to the next one, or undoes it.
LEMMA CommitSysStep ==
  ASSUME IInv, CommitSys
  PROVE  IInv'
<1>1. /\ pc = "sysCommit" /\ pc' = "dulBegin" /\ "sys" \in open
      /\ behind' = behind \cup ({job.writes} \cap Names)
      /\ excuse \in {"none", "pending", "late", "lost", "reset"}
      /\ UNCHANGED <<step, ram, broken, interrupted, job, value, saves, powerLosses, reported>>
      /\ file \in [Dbs -> DB] /\ seen \in [Dbs -> DB]
  BY Databases DEF IInv, TypeOK, Opened, CommitSys, boot, command
<1>2. \/ CommitDone("sys") /\ excuse' = (IF excuse = "pending" THEN "late" ELSE excuse)
      \/ CommitBusy("sys") /\ excuse' = (IF excuse \in {"lost", "reset"} THEN excuse ELSE "pending")
      \/ CommitFull("sys") /\ excuse' = (IF excuse = "reset" THEN excuse ELSE "lost")
  BY DEF CommitSys
<1>3. /\ file' \in [Dbs -> DB] /\ seen' \in [Dbs -> DB]
      /\ file'["dul"] = file["dul"] /\ file'["def"] = file["def"]
      /\ seen'["dul"] = seen["dul"] /\ seen'["def"] = seen["def"]
      /\ \/ /\ file'["sys"] = seen["sys"] /\ seen'["sys"] = seen["sys"] /\ open' = open \ {"sys"}
            /\ excuse' = (IF excuse = "pending" THEN "late" ELSE excuse)
         \/ /\ file'["sys"] = file["sys"] /\ seen'["sys"] = seen["sys"] /\ open' = open
            /\ excuse' = (IF excuse \in {"lost", "reset"} THEN excuse ELSE "pending")
         \/ /\ file'["sys"] = file["sys"] /\ seen'["sys"] = file["sys"] /\ open' = open \ {"sys"}
            /\ excuse' = (IF excuse = "reset" THEN excuse ELSE "lost")
  <2>1. CASE CommitDone("sys") /\ excuse' = (IF excuse = "pending" THEN "late" ELSE excuse)
    BY <1>1, <2>1, CommitEffect DEF Dbs
  <2>2. CASE CommitBusy("sys") /\ excuse' = (IF excuse \in {"lost", "reset"} THEN excuse ELSE "pending")
    BY <1>1, <2>2, CommitEffect DEF Dbs
  <2>3. CASE CommitFull("sys") /\ excuse' = (IF excuse = "reset" THEN excuse ELSE "lost")
    BY <1>1, <2>3, CommitEffect DEF Dbs
  <2>4. QED  BY <1>2, <2>1, <2>2, <2>3
<1>4. /\ excuse' \in {"none", "pending", "late", "lost", "reset"}
      /\ (Unharmed' => Unharmed) /\ (excuse' # "reset" => excuse # "reset")
  BY <1>1, <1>3 DEF Unharmed
<1>5. TypeOK'
  <2>1. \A db \in {file', seen'} : db \in [Dbs -> DB]
    BY <1>3
  <2>2. open' \subseteq {"sys", "dul"} /\ behind' \subseteq Names
    BY <1>1, <1>3 DEF IInv, TypeOK
  <2>3. QED  BY <1>1, <1>4, <2>1, <2>2 DEF IInv, TypeOK, DB
<1>6. /\ Sys'.tables = Sys.tables
      /\ \A n \in Names : Sys'.row[n] = NoValue <=> Sys.row[n] = NoValue
  BY <1>3 DEF IInv, Shapes, Sys, Dbs
<1>7. Opened' /\ Shapes'
  BY <1>1, <1>3, <1>6 DEF IInv, Opened, Shapes, Complete, Booting, Sys, Dul, Dbs
<1>8. Prefix' /\ FactoryCopy' /\ InHand'
  BY <1>1, <1>3 DEF IInv, Prefix, FactoryCopy, InHand, Saving
<1>9. NoGaps' /\ Booted' /\ FirstBoot'
  <2>1. \A i \in 1 .. Len(Script) : Present(Script[i])' <=> Present(Script[i])
    BY <1>6, ScriptFacts DEF Present, Sys
  <2>2. Complete(Sys)' <=> Complete(Sys)
    BY <1>6 DEF Complete, Sys
  <2>3. Sys.tables # {}
    BY <1>1 DEF IInv, Opened
  <2>4. QED  BY <1>1, <1>6, <2>1, <2>2, <2>3 DEF IInv, NoGaps, Booted, FirstBoot
<1>10. Kept'
  BY <1>1, <1>3, <1>4 DEF IInv, Kept, Unharmed
<1>11. Synced'
  BY <1>3 DEF Synced, Sys
<1>12. Entered'
  BY <1>1, <1>3, <1>4 DEF IInv, Entered, Unharmed
<1>13. Backup' /\ BackupHolds'
  <2>1. \A n \in Names \ behind' : n \in Names \ behind /\ n # job.writes
    BY <1>1
  <2>2. BackupHolds'
    BY <1>1, <1>3, <1>4, <2>1 DEF IInv, BackupHolds
  <2>3. QED  BY <1>1, <1>3, <1>4, <2>1, <2>2 DEF IInv, Backup, Unharmed, Sys, Dul
<1>14. QED
  BY <1>5, <1>7, <1>8, <1>9, <1>10, <1>11, <1>12, <1>13 DEF IInv

\* Whatever became of the second copy, the value reported is the one that the
\* connection to sys sees; only a COMMIT makes the copy catch up.
LEMMA SaveDulStep ==
  ASSUME IInv, SaveDul
  PROVE  IInv'
<1>1. /\ pc \in {"dulUpdate", "dulCommit"} /\ pc' = "idle" /\ "dul" \in open
      /\ value \in Values /\ job \in Commands
      /\ reported' = (IF ReportsSave(job) THEN [reported EXCEPT ![job.shows] = value] ELSE reported)
      /\ UNCHANGED <<step, ram, broken, interrupted, job, value, saves, powerLosses, excuse>>
      /\ file \in [Dbs -> DB] /\ seen \in [Dbs -> DB] /\ reported \in [Names -> Values \cup {NoValue}]
      /\ behind \subseteq Names
  BY Databases DEF IInv, TypeOK, Opened, InHand, Saving, SaveDul, UpdateFails, Report, boot, command
<1>2. /\ file' \in [Dbs -> DB] /\ seen' \in [Dbs -> DB]
      /\ file'["sys"] = file["sys"] /\ file'["def"] = file["def"]
      /\ seen'["sys"] = seen["sys"] /\ seen'["def"] = seen["def"]
      /\ \/ /\ pc = "dulCommit" /\ file'["dul"] = seen["dul"] /\ seen'["dul"] = seen["dul"]
            /\ open' = open \ {"dul"} /\ behind' = behind \ {job.writes}
         \/ /\ file'["dul"] = file["dul"] /\ seen'["dul"] = seen["dul"]
            /\ open' = open /\ behind' = behind
         \/ /\ file'["dul"] = file["dul"] /\ seen'["dul"] = file["dul"]
            /\ open' = open \ {"dul"} /\ behind' = behind
  <2>1. CASE pc = "dulCommit" /\ CommitDone("dul") /\ behind' = behind \ {job.writes}
    BY <1>1, <2>1, CommitEffect DEF Dbs
  <2>2. CASE CommitBusy("dul") /\ behind' = behind
    BY <1>1, <2>2, CommitEffect DEF Dbs
  <2>3. CASE CommitFull("dul") /\ behind' = behind
    BY <1>1, <2>3, CommitEffect DEF Dbs
  <2>4. CASE UpdateFails("dul", "dulUpdate") /\ UNCHANGED <<file, behind>>
    BY <1>1, <2>4 DEF UpdateFails, Dbs
  <2>5. QED  BY <2>1, <2>2, <2>3, <2>4 DEF SaveDul
<1>3. /\ reported' \in [Names -> Values \cup {NoValue}]
      /\ \A n \in Names : reported'[n] = IF ReportsSave(job) /\ n = job.shows
                                         THEN value ELSE reported[n]
  BY <1>1, WritesShown
<1>4. TypeOK'
  <2>1. \A db \in {file', seen'} : db \in [Dbs -> DB]
    BY <1>2
  <2>2. open' \subseteq {"sys", "dul"} /\ behind' \subseteq Names
    BY <1>2 DEF IInv, TypeOK
  <2>3. QED  BY <1>1, <1>3, <2>1, <2>2 DEF IInv, TypeOK, DB
<1>5. Opened'
  BY <1>1, <1>2 DEF IInv, Opened, Booting, Sys, Dbs
<1>6. Shapes'
  BY <1>1, <1>2 DEF IInv, Shapes, Complete, Sys, Dul, Dbs
<1>7. Prefix' /\ NoGaps' /\ FactoryCopy' /\ Booted' /\ InHand'
  BY <1>1, <1>2 DEF IInv, Prefix, NoGaps, FactoryCopy, Booted, InHand, Saving, Present, Sys, Complete
<1>8. FirstBoot'
  BY <1>1, <1>2 DEF IInv, Opened, FirstBoot, Sys
<1>9. Kept'
  <2> SUFFICES ASSUME Unharmed, NEW n \in Names \ {"NTP_Gateway"},
                      reported'[n] # NoValue, seen["sys"].row[n] # NoValue
               PROVE  seen["sys"].row[n] = reported'[n]
    BY <1>1, <1>2 DEF Kept, Unharmed
  <2>1. CASE ReportsSave(job) /\ n = job.shows
    <3>1. job.writes = n
      BY <1>1, <2>1, WritesShown
    <3>2. seen["sys"].row[n] = value
      BY <1>1, <3>1 DEF IInv, Entered
    <3>3. QED  BY <1>3, <2>1, <3>2
  <2>2. CASE ~(ReportsSave(job) /\ n = job.shows)
    BY <1>3, <2>2 DEF IInv, Kept
  <2>3. QED  BY <2>1, <2>2
<1>10. Synced' /\ Entered'
  BY <1>1, <1>2 DEF IInv, Synced, Entered, Sys
<1>11. job.writes \in Names => job.writes \in behind
  BY <1>1 DEF IInv, Entered
<1>12. pc = "dulCommit" /\ job.writes \in Names /\ "dul" \notin broken =>
         seen["dul"].row[job.writes] = value
  BY DEF IInv, Entered
<1>13. \A n \in Names \ behind : seen["dul"].row[n] = Dul.row[n]
  BY DEF IInv, Backup
<1>14. Backup'
  <2>1. \A n \in Names \ behind' : seen'["dul"].row[n] = Dul'.row[n]
    BY <1>2, <1>13 DEF Dul
  <2>2. ASSUME Unharmed, "dul" \notin broken, NEW n \in Names \ behind'
        PROVE  Dul'.row[n] = seen["sys"].row[n]
    <3>1. CASE n \notin behind
      <4>1. Dul'.row[n] = Dul.row[n]
        BY <1>2, <1>13, <3>1 DEF Dul
      <4>2. Dul.row[n] = seen["sys"].row[n]
        BY <1>1, <2>2, <3>1 DEF IInv, Backup
      <4>3. QED  BY <4>1, <4>2
    <3>2. CASE n \in behind
      <4>1. n = job.writes /\ pc = "dulCommit" /\ Dul'.row[n] = seen["dul"].row[n]
        BY <1>2, <2>2, <3>2 DEF Dul
      <4>2. seen["dul"].row[n] = value /\ seen["sys"].row[n] \in {NoValue, value}
        BY <1>12, <2>2, <4>1 DEF IInv, Entered
      <4>3. Dul.tables # {}
        BY <4>1 DEF IInv, Opened
      <4>4. seen["sys"].row[n] # NoValue
        BY <2>2, <4>3 DEF IInv, Shapes, Unharmed, Complete, Sys, Dbs
      <4>5. QED  BY <4>1, <4>2, <4>4
    <3>3. QED  BY <3>1, <3>2
  <2>3. excuse \in {"none", "late"} => \A n \in Names : Sys.row[n] = seen["sys"].row[n]
    BY <1>1 DEF IInv, Synced
  <2>4. QED  BY <1>1, <1>2, <2>1, <2>2, <2>3 DEF Backup, Unharmed, Sys, Dul
<1>15. BackupHolds'
  <2> SUFFICES ASSUME excuse # "reset", "dul" \notin broken,
                      NEW n \in Names \ ({"NTP_Gateway"} \cup behind'), reported'[n] # NoValue
               PROVE  Dul'.row[n] = reported'[n]
    BY <1>1 DEF BackupHolds, Dul
  <2>1. CASE n \notin behind
    <3>1. Dul'.row[n] = Dul.row[n]
      BY <1>2, <1>13, <2>1 DEF Dul
    <3>2. n # job.shows
      BY <1>1, <1>11, <2>1, WritesShown
    <3>3. QED  BY <1>3, <2>1, <3>1, <3>2 DEF IInv, BackupHolds, Dul
  <2>2. CASE n \in behind
    <3>1. n = job.writes /\ pc = "dulCommit" /\ Dul'.row[n] = seen["dul"].row[n]
      BY <1>2, <2>2 DEF Dul
    <3>2. job.shows = n /\ Dul'.row[n] = value
      BY <1>1, <1>12, <3>1, WritesShown
    <3>3. ReportsSave(job)
      BY <1>1, <1>3, <2>2, <3>1, <3>2 DEF IInv, InHand, Saving
    <3>4. QED  BY <1>3, <3>2, <3>3
  <2>3. QED  BY <2>1, <2>2
<1>16. QED
  BY <1>4, <1>5, <1>6, <1>7, <1>8, <1>9, <1>10, <1>14, <1>15 DEF IInv

\* A write that is cut breaks its file, and leaves the others alone.
LEMMA CutWriteEffect ==
  ASSUME IInv, CutWrite \/ UNCHANGED <<file, broken, behind>>, pc # "off"
  PROVE  /\ file' \in [Dbs -> DB] /\ broken' \subseteq Dbs /\ behind' \subseteq Names
         /\ broken \subseteq broken'
         /\ "sys" \notin broken' => file'["sys"] = file["sys"]
         /\ "dul" \notin broken' => file'["dul"] = file["dul"] /\ behind' = behind
         /\ behind' \in {behind, Names}
         /\ FactoryCopy'
<1>1. file \in [Dbs -> DB] /\ broken \subseteq Dbs /\ behind \subseteq Names
  BY Databases DEF IInv, TypeOK
<1>2. CASE UNCHANGED <<file, broken, behind>>
  BY <1>1, <1>2 DEF IInv, FactoryCopy
<1>3. ASSUME NEW t, NEW db \in Torn(file["sys"], t),
             file' = [file EXCEPT !["sys"] = db], broken' = broken \cup {"sys"}, behind' = behind
      PROVE  /\ file' \in [Dbs -> DB] /\ broken' \subseteq Dbs
             /\ \A d \in {"dul", "def"} : file'[d] = file[d]
  BY <1>1, <1>3, TornEffect DEF Dbs
<1>4. ASSUME NEW d \in {"dul", "def"}, NEW t, NEW db \in Torn(file["sys"], t),
             pc = (IF d = "dul" THEN "copyDul" ELSE "copyDef"),
             file' = [file EXCEPT ![d] = db], broken' = broken \cup {d}
      PROVE  /\ file' \in [Dbs -> DB] /\ broken' \subseteq Dbs
             /\ \A e \in Dbs \ {d} : file'[e] = file[e]
             /\ \A n \in Names : file'[d].row[n] \in {FACTORY, NoValue}
  <2>1. db \in DB /\ \A n \in Names : db.row[n] \in {file["sys"].row[n], NoValue}
    BY <1>1, <1>4, TornEffect DEF Dbs
  <2>2. \A n \in Names : file["sys"].row[n] = FACTORY
    BY <1>4 DEF IInv, Prefix, Sys
  <2>3. QED  BY <1>1, <1>4, <2>1, <2>2 DEF Dbs
<1>5. CASE CutWrite
  <2>1. CASE \E db \in Torn(file["sys"], IF pc = "create" THEN Script[step].table ELSE TableOf(job)) :
               /\ file' = [file EXCEPT !["sys"] = db]
               /\ broken' = broken \cup {"sys"} /\ behind' = behind
    BY <1>1, <1>3, <2>1 DEF IInv, FactoryCopy
  <2>2. CASE \E d \in {"dul", "def"}, db \in UNION {Torn(file["sys"], t) : t \in Tables} :
               /\ pc = (IF d = "dul" THEN "copyDul" ELSE "copyDef")
               /\ file' = [file EXCEPT ![d] = db]
               /\ broken' = broken \cup {d}
               /\ behind' = IF d = "dul" THEN Names ELSE behind
    <3>1. PICK d \in {"dul", "def"}, t \in Tables : \E db \in Torn(file["sys"], t) :
               /\ pc = (IF d = "dul" THEN "copyDul" ELSE "copyDef")
               /\ file' = [file EXCEPT ![d] = db]
               /\ broken' = broken \cup {d}
               /\ behind' = IF d = "dul" THEN Names ELSE behind
      BY <2>2
    <3>2. PICK db \in Torn(file["sys"], t) :
               /\ pc = (IF d = "dul" THEN "copyDul" ELSE "copyDef")
               /\ file' = [file EXCEPT ![d] = db]
               /\ broken' = broken \cup {d}
               /\ behind' = IF d = "dul" THEN Names ELSE behind
      BY <3>1
    <3>3. /\ file' \in [Dbs -> DB] /\ broken' \subseteq Dbs
          /\ \A e \in Dbs \ {d} : file'[e] = file[e]
          /\ \A n \in Names : file'[d].row[n] \in {FACTORY, NoValue}
      BY <1>4, <3>2
    <3>4. QED  BY <1>1, <3>2, <3>3 DEF IInv, FactoryCopy, Dbs
  <2>3. QED  BY <1>5, <2>1, <2>2 DEF CutWrite
<1>6. QED  BY <1>2, <1>5

\* A loss of power leaves what the files hold: what was reported, unless a COMMIT
\* was to be made good or a write was cut, and what both copies have.
LEMMA PowerLossStep ==
  ASSUME IInv, PowerLoss
  PROVE  IInv'
<1>1. /\ pc # "off" /\ pc' = "off" /\ seen' = file' /\ open' = {} /\ step' = 1 /\ ram' = FALSE
      /\ excuse' = (IF excuse = "pending" THEN "lost" ELSE excuse)
      /\ excuse \in {"none", "pending", "late", "lost", "reset"}
      /\ interrupted' = (interrupted \/ pc \in {"create", "copyDul", "copyDef"})
      /\ powerLosses < MaxPower /\ powerLosses' = powerLosses + 1
      /\ UNCHANGED <<job, value, saves, reported>>
      /\ file \in [Dbs -> DB] /\ "sys" \in Dbs /\ "dul" \in Dbs
  BY Databases DEF IInv, TypeOK, PowerLoss, command, Dbs
<1>2. /\ file' \in [Dbs -> DB] /\ broken' \subseteq Dbs /\ behind' \subseteq Names
      /\ broken \subseteq broken'
      /\ "sys" \notin broken' => Sys' = Sys
      /\ "dul" \notin broken' => Dul' = Dul /\ behind' = behind
      /\ behind' \in {behind, Names}
      /\ FactoryCopy'
  BY <1>1, CutWriteEffect DEF PowerLoss, Sys, Dul
<1>3. /\ interrupted' \in BOOLEAN /\ ram' \in BOOLEAN
      /\ ~interrupted' => ~interrupted /\ pc \notin {"create", "copyDul", "copyDef"}
      /\ excuse' \in {"none", "pending", "late", "lost", "reset"} /\ excuse' # "pending"
      /\ excuse' # "reset" => excuse # "reset"
      /\ Unharmed' => Unharmed /\ excuse' = excuse /\ excuse \in {"none", "late"}
                      /\ "sys" \notin broken'
  BY <1>1, <1>2 DEF Unharmed
<1>4. TypeOK'
  <2>1. powerLosses' \in 0 .. MaxPower
    BY <1>1, SettingsConstants DEF IInv, TypeOK
  <2>2. step' \in 1 .. Len(Script)
    BY <1>1, ScriptFacts
  <2>3. \A db \in {file', seen'} : db \in [Dbs -> DB]
    BY <1>1, <1>2
  <2>4. QED  BY <1>1, <1>2, <1>3, <2>1, <2>2, <2>3 DEF IInv, TypeOK, DB
<1>5. Opened' /\ Prefix'
  BY <1>1 DEF Opened, Prefix
<1>6. Shapes'
  BY <1>1, <1>2 DEF IInv, Shapes, Complete
<1>7. NoGaps' /\ Booted' /\ FirstBoot'
  <2>1. "sys" \notin broken' => "sys" \notin broken /\ file'["sys"] = file["sys"]
    BY <1>2 DEF Sys
  <2>2. NoGaps'
    BY <2>1 DEF IInv, NoGaps, Present
  <2>3. Booted'
    BY <1>1, <1>2, <1>3, <2>1 DEF IInv, Booted, Complete
  <2>4. FirstBoot'
    BY <1>1, <1>2, <1>3, <2>1 DEF IInv, FirstBoot
  <2>5. QED  BY <2>2, <2>3, <2>4
<1>8. Kept'
  <2> SUFFICES ASSUME Unharmed', NEW n \in Names \ {"NTP_Gateway"}, reported[n] # NoValue,
                      Sys.row[n] # NoValue
               PROVE  Sys.row[n] = reported[n]
    BY <1>1, <1>2, <1>3 DEF Kept, Sys
  <2>1. seen["sys"].row[n] # NoValue
    BY <1>1 DEF IInv, Shapes, Sys
  <2>2. seen["sys"].row[n] = reported[n]
    BY <1>3, <2>1 DEF IInv, Kept
  <2>3. n # job.writes \/ pc # "sysCommit"
    BY WritesShown DEF IInv, InHand, Saving, TypeOK
  <2>4. QED  BY <1>3, <2>2, <2>3 DEF IInv, Synced
<1>9. InHand' /\ Synced' /\ Entered'
  BY <1>1 DEF InHand, Synced, Entered, Saving, Sys
<1>10. Backup'
  <2>1. \A n \in Names : seen'["dul"].row[n] = Dul'.row[n] /\ seen'["sys"].row[n] = Sys'.row[n]
    BY <1>1 DEF Sys, Dul
  <2>2. Unharmed' /\ "dul" \notin broken' => \A n \in Names \ behind' : Dul'.row[n] = Sys'.row[n]
    BY <1>2, <1>3 DEF IInv, Backup
  <2>3. QED  BY <2>1, <2>2 DEF Backup
<1>11. BackupHolds'
  BY <1>1, <1>2, <1>3 DEF IInv, BackupHolds, Dul
<1>12. QED
  BY <1>2, <1>4, <1>5, <1>6, <1>7, <1>8, <1>9, <1>10, <1>11 DEF IInv
-----------------------------------------------------------------------------
(* The theorems                                                            *)

LEMMA NextIInv ==
  IInv /\ [Next]_vars => IInv'
<1> SUFFICES ASSUME IInv, [Next]_vars PROVE IInv'
  OBVIOUS
<1>1. CASE DBM_Init
  BY <1>1, IsNewDBStep, StatementStep, StatementFailsStep, OpenCopiesStep, CopyDulStep, CopyDefStep
     DEF DBM_Init, SysDBInit
<1>2. CASE Enter
  BY <1>2, EnterStep
<1>3. CASE SaveSetting
  BY <1>3, BeginStep, UpdateSysStep, SaveFailsStep, CommitSysStep, UpdateDulStep, SaveDulStep
     DEF SaveSetting
<1>4. CASE PowerLoss
  BY <1>4, PowerLossStep
<1>5. CASE UNCHANGED vars
  <2>1. UNCHANGED <<pc, step, ram, broken, file, seen, open, job, value, saves, powerLosses,
                    reported, excuse, interrupted, behind>>
    BY <1>5 DEF vars, boot, command, history
  <2>2. TypeOK' /\ Opened' /\ Shapes' /\ Prefix' /\ NoGaps' /\ FactoryCopy' /\ Booted' /\ FirstBoot'
    BY <2>1 DEF IInv, TypeOK, Opened, Shapes, Prefix, NoGaps, FactoryCopy, Booted, FirstBoot,
       Done, Present, Sys, Dul, Complete
  <2>3. InHand' /\ Kept' /\ Synced' /\ Entered' /\ Backup' /\ BackupHolds'
    BY <2>1 DEF IInv, InHand, Kept, Synced, Entered, Backup, BackupHolds, Unharmed, Sys, Dul
  <2>4. QED  BY <2>2, <2>3 DEF IInv
<1>6. QED  BY <1>1, <1>2, <1>3, <1>4, <1>5 DEF Next

THEOREM Inductive == Spec => []IInv
<1>1. QED  BY InitIInv, NextIInv, PTL DEF Spec

\* Type correctness, for every choice of commands, values and faults.
THEOREM TypeCorrect == Spec => []TypeOK
<1>1. IInv => TypeOK
  BY DEF IInv
<1>2. QED  BY <1>1, Inductive, PTL

\* What DBM_SaveSetting's caller reports as saved is in the file, however often the
\* power fails, of every setting there is: unless a COMMIT is to be made good or was
\* undone, the script was run over the settings, or power was lost while sys was
\* written without a journal on the disk.
THEOREM SavedIsStored == Spec => []ReportedIsDurable
<1>1. IInv => ReportedIsDurable
  <2> SUFFICES ASSUME IInv, excuse \in {"none", "late"}, "sys" \notin broken,
                      NEW n \in Names \ {"NTP_Gateway"}, reported[n] # NoValue,
                      Sys.row[n] # NoValue
               PROVE  Sys.row[n] = reported[n]
    BY DEF ReportedIsDurable, Stored, Sys
  <2>1. seen["sys"].row[n] # NoValue
    BY DEF IInv, Shapes, Sys, Dbs
  <2>2. seen["sys"].row[n] = reported[n]
    BY <2>1 DEF IInv, Kept, Unharmed
  <2>3. n # job.writes \/ pc # "sysCommit"
    BY WritesShown DEF IInv, InHand, Saving, TypeOK
  <2>4. QED  BY <2>2, <2>3 DEF IInv, Synced
<1>2. QED  BY <1>1, Inductive, PTL

\* The copies are what they are for: between commands the second agrees with sys on
\* every setting whose last change reached it, it has what was reported of those even
\* when sys lost it or cannot be read, and the third never holds anything but factory
\* settings.
THEOREM CopiesKept == Spec => []CopiesAgree
<1>1. IInv => CopiesAgree
  BY DEF IInv, CopiesAgree, BackupAgrees, Backup, Unharmed, Sys, Dul
<1>2. QED  BY <1>1, Inductive, PTL

\* A unit has every setting if the boots that ran the script came to their end; if one
\* was cut short, by the power or by a statement, it lacks the rest of the script.
THEOREM CompleteAfterBoot == Spec => []CompleteOnceRunning
<1>1. IInv => CompleteOnceRunning
  <2> SUFFICES ASSUME IInv, pc = "idle", "sys" \notin broken
               PROVE  CompleteOnceRunning
    BY DEF CompleteOnceRunning
  <2>1. ~interrupted => \A i \in 1 .. Len(Script) : Present(Script[i])
    BY ScriptFacts DEF IInv, Booted, Complete, Present, Sys
  <2>2. QED  BY <2>1 DEF IInv, NoGaps, CompleteOnceRunning
<1>2. QED  BY <1>1, Inductive, PTL
===============================================================================
