------------------------------ MODULE SettingsDB ------------------------------
(***************************************************************************)
(* The settings of the unit: DBM_Init, DBM_SaveSetting and DBM_GetSetting  *)
(* (sdk/src/DBManager.c) over three SQLite files, and the console commands *)
(* that change settings (sdk/src/ConsoleManager.c).  "sys" is in use,      *)
(* "dul" is its second copy, "def" the factory copy.  Power may be lost    *)
(* between any two steps; what a connection has not committed is then      *)
(* gone.  A COMMIT is atomic against it but in the session that ran the    *)
(* script of DBM_SysDBInit, which keeps the journal of sys in memory; nor  *)
(* is cp.                                                                  *)
(*                                                                         *)
(* After the boot the console thread alone uses the connections, so the    *)
(* semaphore around each operation never makes anybody wait.  A row is     *)
(* represented by the value that DBM_GetSetting returns for its name: the  *)
(* last one inserted.                                                      *)
(***************************************************************************)
EXTENDS Naturals, Sequences, FiniteSets, Functions

CONSTANTS Commands,   \* the settings the operator changes
          Values,     \* what the operator may enter
          FACTORY,    \* the value DBM_SysDBInit inserts
          NoValue,
          MaxSaves,   \* bound on the commands
          MaxPower,   \* bound on the losses of power
          Faults      \* what may go wrong

\* Each command shows the setting of one name and writes that of another (the
\* blank in "MPU IPAddr" and the like is written _).
AllCommands ==
  {[command |-> "SETMAC",  shows |-> "MacAddr",     writes |-> "MacAddr"],
   [command |-> "SETIP_M", shows |-> "MPU_IPAddr",  writes |-> "MPU_IPAddr"],
   [command |-> "SETIP_S", shows |-> "NTP_IPAddr",  writes |-> "NTP_IPAddr"],
   [command |-> "SETSM_M", shows |-> "MPU_Subnet",  writes |-> "MPU_Subnet"],
   [command |-> "SETSM_S", shows |-> "NTP_Subnet",  writes |-> "NTP_Subnet"],
   [command |-> "SETGW_M", shows |-> "MPU_Gateway", writes |-> "MPU_Gateway"],
   [command |-> "SETGW_S", shows |-> "NTP_Gateway", writes |-> "SNTP_Gateway"]}

AllFaults == {"prepare",      \* the count of the tables fails
              "statement",    \* a statement of the script fails
              "open",         \* a copy cannot be opened
              "update",       \* an UPDATE fails, the file being locked
              "busy",         \* a COMMIT fails, the transaction stays open
              "full",         \* a COMMIT fails, the transaction is undone
              "copy",         \* cp fails
              "cut"}          \* power is lost while a file is written

ASSUME SettingsConstants ==
  /\ Commands \subseteq AllCommands /\ Commands # {} /\ Faults \subseteq AllFaults
  /\ FACTORY \notin Values /\ NoValue \notin Values \cup {FACTORY}
  /\ MaxSaves \in Nat /\ MaxPower \in Nat

\* The script of DBM_SysDBInit; of the rows of NormalSetting and IEDSetting
\* one each.
Create(table)       == [create |-> TRUE,  table |-> table, name |-> table]
Insert(table, name) == [create |-> FALSE, table |-> table, name |-> name]
Script ==
  << Create("NormalSetting"), Insert("NormalSetting", "MacAddr"),
     Create("DevInfo"),
     Insert("DevInfo", "MPU_IPAddr"),  Insert("DevInfo", "MPU_Subnet"),
     Insert("DevInfo", "MPU_Gateway"), Insert("DevInfo", "NTP_IPAddr"),
     Insert("DevInfo", "NTP_Subnet"),  Insert("DevInfo", "NTP_Gateway"),
     Create("IEDSetting"), Insert("IEDSetting", "User") >>

Inserted == {s \in Range(Script) : ~s.create}
Names  == {s.name : s \in Inserted}
Tables == {s.table : s \in Range(Script)}
TableOf(command) == IF command.writes = "MacAddr" THEN "NormalSetting" ELSE "DevInfo"

\* CDM_SetMAC speaks of the interface only, whatever DBM_SaveSetting returns.
ReportsSave(command) == command.command # "SETMAC"

VARIABLES
  pc,         \* where DBM_Init or DBM_SaveSetting is; "off" also when main returned
  step,       \* statement of the script that is next
  file,       \* what each file holds
  seen,       \* what each connection sees
  open,       \* connections with an open transaction
  ram,        \* the journal of sys is kept in memory
  broken,     \* files that power was lost while writing
  job, value, \* the command in hand and the value entered
  saves, powerLosses,
  reported,   \* history: values reported as saved, and not entered anew since
  excuse,     \* history: what a failed COMMIT of sys left behind, if any: values
              \* "pending", "late" by a COMMIT that succeeded, or "lost"; or
              \* "reset", the script was run over the settings in use
  interrupted,\* history: a boot that ran the script did not come to its end
  behind      \* history: settings of which the second copy missed the last value

boot    == <<step, ram, broken, interrupted>>
command == <<job, value, saves>>
history == <<reported, excuse, behind>>
vars == <<pc, boot, file, seen, open, command, powerLosses, history>>

Dbs   == {"sys", "dul", "def"}
Empty == [tables |-> {}, row |-> [n \in Names |-> NoValue]]

Init ==
  /\ pc = "off" /\ step = 1
  /\ file = [d \in Dbs |-> Empty] /\ seen = file /\ open = {}
  /\ ram = FALSE /\ broken = {}
  /\ job = (CHOOSE c \in Commands : TRUE) /\ value = NoValue
  /\ saves = 0 /\ powerLosses = 0
  /\ reported = [n \in Names |-> NoValue] /\ excuse = "none"
  /\ interrupted = FALSE /\ behind = Names

-----------------------------------------------------------------------------
(* DBM_Init                                                                *)

\* Mutant: a new file is not filled.
NeverNew ==
  /\ pc = "off" /\ pc' = "openDul"
  /\ UNCHANGED <<boot, file, seen, open, command, powerLosses, history>>

\* sqlite3_open of systemDB; DBM_IsNewDB, whose -1 on an error is as good as 1.  The
\* script begins with "pragma journal_mode = MEMORY".
IsNewDB ==
  /\ pc = "off"
  /\ \/ /\ file["sys"].tables # {}
        /\ pc' = "openDul"
        /\ UNCHANGED <<step, ram, excuse>>
     \/ /\ file["sys"].tables = {} \/ "prepare" \in Faults
        /\ pc' = "create" /\ step' = step /\ ram' = TRUE
        /\ excuse' = IF file["sys"].tables = {} THEN excuse ELSE "reset"
  /\ UNCHANGED <<broken, interrupted, file, seen, open, command, powerLosses, reported, behind>>

Executed(db, s) ==
  IF s.create THEN [db EXCEPT !.tables = @ \cup {s.table}]
              ELSE [db EXCEPT !.row[s.name] = FACTORY]

\* Mutant: one statement too many.
StatementTooFar ==
  /\ pc = "create" /\ step' = step + 1
  /\ file' = [file EXCEPT !["sys"] = Executed(@, Script[step])]
  /\ seen' = [seen EXCEPT !["sys"] = file'["sys"]]
  /\ pc' = IF step < Len(Script) THEN "create" ELSE "copyDul"
  /\ UNCHANGED <<ram, broken, interrupted, open, command, powerLosses, history>>

\* The statements of the script are transactions of their own.  A file that cannot
\* be read takes none.
Statement ==
  /\ pc = "create"
  /\ "sys" \in broken => file["sys"].tables # {}
  /\ file' = [file EXCEPT !["sys"] = Executed(@, Script[step])]
  /\ seen' = [seen EXCEPT !["sys"] = file'["sys"]]
  /\ IF step < Len(Script) THEN step' = step + 1 /\ pc' = pc
                           ELSE step' = 1        /\ pc' = "copyDul"
  /\ UNCHANGED <<ram, broken, interrupted, open, command, powerLosses, history>>

\* DBM_SysDBInit returns -1, DBM_Init too, and main returns: no copies are made, and
\* what the script has done stays.
StatementFails ==
  /\ pc = "create" /\ ("statement" \in Faults \/ "sys" \in broken)
  /\ pc' = "off" /\ step' = 1 /\ ram' = FALSE /\ interrupted' = TRUE
  /\ UNCHANGED <<broken, file, seen, open, command, powerLosses, history>>

SysDBInit == Statement \/ StatementFails

\* The setting whose rows are in a table, and what is left of a file if power is lost
\* while that table is written: nothing that can be read, or all but its rows.
In(table) == {s.name : s \in {x \in Inserted : x.table = table}}
Torn(db, table) ==
  {Empty, [db EXCEPT !.row = [n \in Names |-> IF n \in In(table) THEN NoValue ELSE db.row[n]]]}

\* system("cp ..."), its result ignored.  A copy that fails leaves the file alone or
\* unusable.
Copy(d, from, to) ==
  /\ pc = from /\ pc' = to
  /\ \/ /\ file' = [file EXCEPT ![d] = file["sys"]]
        /\ broken' = IF "sys" \in broken THEN broken \cup {d} ELSE broken \ {d}
        /\ behind' = IF d = "dul" THEN {} ELSE behind
     \/ /\ "copy" \in Faults
        /\ \/ UNCHANGED <<file, broken>>
           \/ file' = [file EXCEPT ![d] = Empty] /\ broken' = broken \cup {d}
        /\ behind' = IF d = "dul" THEN Names ELSE behind
  /\ seen' = [seen EXCEPT ![d] = file'[d]]
  /\ UNCHANGED <<step, ram, interrupted, open, command, powerLosses, reported, excuse>>

\* The other two files are opened, and created empty if they are not there; if one
\* cannot be, main returns.
OpenCopies ==
  /\ pc = "openDul"
  /\ \/ pc' = "idle" /\ ram' = ram
     \/ pc' = "off" /\ ram' = FALSE /\ "open" \in Faults
  /\ UNCHANGED <<step, broken, interrupted, file, seen, open, command, powerLosses, history>>

DBM_Init == \/ IsNewDB \/ SysDBInit \/ OpenCopies
            \/ Copy("dul", "copyDul", "copyDef") \/ Copy("def", "copyDef", "openDul")
-----------------------------------------------------------------------------
(* CDM_SetMAC, CDM_SetIp, CDM_SetSubnet, CDM_SetGateway and DBM_SaveSetting *)

\* A valid address is entered.
Enter ==
  /\ pc = "idle" /\ saves < MaxSaves
  /\ job' \in Commands /\ value' \in Values
  /\ saves' = saves + 1
  /\ reported' = [reported EXCEPT ![job'.shows] = NoValue]
  /\ pc' = "sysBegin"
  /\ UNCHANGED <<boot, file, seen, open, powerLosses, excuse, behind>>

\* BEGIN; in an open transaction an error that nobody looks at.
Begin(d, from, to) ==
  /\ pc = from /\ pc' = to
  /\ open' = open \cup {d}
  /\ UNCHANGED <<boot, file, seen, command, powerLosses, history>>

\* An UPDATE of a name no row has changes nothing and succeeds.
Update(d, from, to) ==
  /\ pc = from /\ pc' = to
  /\ TableOf(job) \in seen[d].tables
  /\ seen' = IF job.writes \in Names /\ seen[d].row[job.writes] # NoValue
             THEN [seen EXCEPT ![d].row[job.writes] = value]
             ELSE seen
  /\ UNCHANGED <<boot, file, open, command, powerLosses, history>>

UpdateFails(d, from) ==
  /\ pc = from
  /\ "update" \in Faults \/ d \in broken \/ TableOf(job) \notin seen[d].tables
  /\ seen' = [seen EXCEPT ![d] = file[d]]     \* ROLLBACK
  /\ open' = open \ {d}

\* DBM_SaveSetting returns -1.
SaveFails ==
  /\ UpdateFails("sys", "sysUpdate")
  /\ pc' = "idle"
  /\ excuse' = IF excuse = "pending" THEN "lost" ELSE excuse
  /\ UNCHANGED <<boot, file, command, powerLosses, reported, behind>>

\* Mutant: the transaction is closed without a COMMIT.
CommitForgotten(d) == seen' = seen /\ file' = file /\ open' = open \ {d}

\* COMMIT, its result ignored.
CommitDone(d) == /\ file' = [file EXCEPT ![d] = seen[d]]
                 /\ seen' = seen /\ open' = open \ {d}
CommitBusy(d) == "busy" \in Faults /\ UNCHANGED <<file, seen, open>>
CommitFull(d) == /\ "full" \in Faults \/ d \in broken
                 /\ open' = open \ {d}
                 /\ seen' = [seen EXCEPT ![d] = file[d]] /\ file' = file

CommitSys ==
  /\ pc = "sysCommit" /\ pc' = "dulBegin"
  /\ \/ CommitDone("sys") /\ excuse' = IF excuse = "pending" THEN "late" ELSE excuse
     \/ CommitBusy("sys") /\ excuse' = IF excuse \in {"lost", "reset"} THEN excuse ELSE "pending"
     \/ CommitFull("sys") /\ excuse' = IF excuse = "reset" THEN excuse ELSE "lost"
  /\ behind' = behind \cup ({job.writes} \cap Names)
  /\ UNCHANGED <<boot, command, powerLosses, reported>>

\* The command reports the value; whatever became of the second copy.
Report == /\ pc' = "idle"
          /\ reported' = IF ReportsSave(job)
                         THEN [reported EXCEPT ![job.shows] = value] ELSE reported
          /\ UNCHANGED <<boot, command, powerLosses, excuse>>

\* Mutant: ROLLBACK and COMMIT are exchanged.
SaveDulUndone ==
  \/ pc = "dulCommit" /\ seen' = [seen EXCEPT !["dul"] = file["dul"]] /\ file' = file
     /\ open' = open \ {"dul"} /\ behind' = behind \ {job.writes} /\ Report
  \/ UpdateFails("dul", "dulUpdate") /\ UNCHANGED <<file, behind>> /\ Report

SaveDul ==
  \/ /\ pc = "dulCommit" /\ CommitDone("dul")
     /\ behind' = behind \ {job.writes}
     /\ Report
  \/ /\ pc = "dulCommit" /\ (CommitBusy("dul") \/ CommitFull("dul"))
     /\ UNCHANGED behind
     /\ Report
  \/ /\ UpdateFails("dul", "dulUpdate")
     /\ UNCHANGED <<file, behind>>
     /\ Report

SaveSetting ==
  \/ Begin("sys", "sysBegin", "sysUpdate") \/ Update("sys", "sysUpdate", "sysCommit")
  \/ SaveFails \/ CommitSys
  \/ Begin("dul", "dulBegin", "dulUpdate") \/ Update("dul", "dulUpdate", "dulCommit")
  \/ SaveDul
-----------------------------------------------------------------------------
\* A write without a journal on the disk is cut: a statement of the script, a COMMIT
\* of sys in the same session, or a copy.
CutWrite ==
  /\ "cut" \in Faults
  /\ \/ /\ pc = "create" \/ (pc = "sysCommit" /\ ram)
        /\ \E db \in Torn(file["sys"], IF pc = "create" THEN Script[step].table ELSE TableOf(job)) :
             file' = [file EXCEPT !["sys"] = db]
        /\ broken' = broken \cup {"sys"} /\ behind' = behind
     \/ \E d \in {"dul", "def"}, db \in UNION {Torn(file["sys"], t) : t \in Tables} :
          /\ pc = (IF d = "dul" THEN "copyDul" ELSE "copyDef")
          /\ file' = [file EXCEPT ![d] = db]
          /\ broken' = broken \cup {d}
          /\ behind' = IF d = "dul" THEN Names ELSE behind

PowerLoss ==
  /\ pc # "off" /\ powerLosses < MaxPower
  /\ powerLosses' = powerLosses + 1
  /\ CutWrite \/ UNCHANGED <<file, broken, behind>>
  /\ pc' = "off" /\ step' = 1 /\ seen' = file' /\ open' = {} /\ ram' = FALSE
  /\ excuse' = IF excuse = "pending" THEN "lost" ELSE excuse
  /\ interrupted' = (interrupted \/ pc \in {"create", "copyDul", "copyDef"})
  /\ UNCHANGED <<command, reported>>

Next == DBM_Init \/ Enter \/ SaveSetting \/ PowerLoss

Spec == Init /\ [][Next]_vars

-----------------------------------------------------------------------------
TypeOK ==
  /\ pc \in {"off", "create", "copyDul", "copyDef", "openDul", "idle", "sysBegin",
             "sysUpdate", "sysCommit", "dulBegin", "dulUpdate", "dulCommit"}
  /\ step \in 1 .. Len(Script)
  /\ \A db \in {file, seen} :
       db \in [Dbs -> [tables : SUBSET Tables,
                       row : [Names -> Values \cup {FACTORY, NoValue}]]]
  /\ open \subseteq {"sys", "dul"} /\ ram \in BOOLEAN /\ broken \subseteq Dbs
  /\ job \in Commands /\ value \in Values \cup {NoValue}
  /\ saves \in 0 .. MaxSaves /\ powerLosses \in 0 .. MaxPower
  /\ reported \in [Names -> Values \cup {NoValue}]
  /\ excuse \in {"none", "pending", "late", "lost", "reset"} /\ interrupted \in BOOLEAN
  /\ behind \subseteq Names

Stored(n) == file["sys"].row[n] = reported[n]

\* What a command reported as saved is what the unit has after any loss of power, and
\* also if the first boot was cut short, of every setting there is; unless a failed
\* COMMIT is to be made good or was undone, the script was run over the settings, or
\* power was lost while sys was written without a journal on the disk.
\* (SETGW -S writes a name no row has.)
ReportedIsDurable ==
  excuse \in {"none", "late"} /\ "sys" \notin broken =>
    \A n \in Names \ {"NTP_Gateway"} :
      reported[n] # NoValue /\ file["sys"].row[n] # NoValue => Stored(n)

\* Between commands the two copies agree on every setting whose last value reached
\* the second: a lost change of one setting is not made good, and does not spread
\* to others.
BackupAgrees ==
  pc = "idle" /\ excuse \in {"none", "late"} /\ {"sys", "dul"} \cap broken = {} =>
    \A n \in Names \ behind : file["dul"].row[n] = file["sys"].row[n]

\* The second copy is good for what it is kept for: it has every reported value
\* that reached it, whatever became of the first one by failed COMMITs or by a loss of
\* power while it was written, unless the script was run over the settings.
BackupHolds ==
  excuse # "reset" /\ "dul" \notin broken =>
    \A n \in Names \ ({"NTP_Gateway"} \cup behind) :
      reported[n] # NoValue => file["dul"].row[n] = reported[n]

\* The factory copy keeps the factory settings, through every later boot.
FactoryCopy == \A n \in Names : file["def"].row[n] \in {FACTORY, NoValue}

\* Each copy is what it is kept for: the second the last settings, the third the first.
CopiesAgree == BackupAgrees /\ BackupHolds /\ FactoryCopy

Present(s) == IF s.create THEN s.table \in file["sys"].tables
                          ELSE file["sys"].row[s.name] # NoValue

\* A unit that runs lacks nothing, however often the power failed, if the boots that
\* ran the script came to their end; and if one did not, by a loss of power or a
\* statement that failed, what it lacks is the rest of the script from there on.
CompleteOnceRunning ==
  pc = "idle" /\ "sys" \notin broken =>
    /\ \A i, j \in 1 .. Len(Script) : i < j /\ Present(Script[j]) => Present(Script[i])
    /\ ~interrupted => \A i \in 1 .. Len(Script) : Present(Script[i])

\* "SETGW -S [No1.No2.No3.No4] for SNTP Gateway Setting" (ConsoleManager.c,
\* CDM_SetGateway): once the command has reported the gateway as updated, the
\* setting that the same command displays is the one entered.
ReadBack ==
  pc = "idle" => \A n \in Names : reported[n] # NoValue => seen["sys"].row[n] = reported[n]
=============================================================================
