# Verification of the local unit's firmware

The repository is the firmware of a *local unit* (LU) for preventive diagnosis in a
substation. One C program (`sdk/src`, built as C++ without optimisation) runs on the
application processor (MPU) of the unit: it takes partial discharge packets from a
measuring unit over TCP, supervises an input/output board over CAN, polls a logger of
breaker events over Modbus, exchanges measurements and commands with a DSP through
shared memory, keeps its settings in SQLite files, keeps the clock by SNTP, and
publishes values to an IEC 61850 stack. This directory models the parts of it that
carry their own logic and run concurrently with, or across a wire from, something else.

Everything else in the repository is not the program: `sdk/include`, `sdk/lib`,
`cJSON.c`, `scl.h` and the Modbus headers are third-party, `sdk/User/History`, logs and
caches are leftovers of the editor, `acq_code_modbus` and `sdk/acq_modbus` are older
stand-alone copies of the breaker event collection. There are no tests.

To check a run: `tlc -config <cfg> <MC module>`, as listed under "Runs". To check the
proofs: `tlapm <module>` on each of `PDQueueProofs`, `PDSessionProofs`, `IOLiveProofs`,
`IOUpdateProofs`, `SettingsDBProofs`, `DspLinkProofs`, `TimeSyncProofs` and
`ServicesProofs` (the longest, some minutes).

## Inventory

`main` (`main.c:539`) allocates the shared memory, opens the settings, binds the DSP,
loads the network settings, initialises the IEC 61850 stack, and `RunThread`
(`main.c:267`) starts the threads, none of which is ever joined: `IOM_ProcessMain`,
the console, `tcpserverrun`, `subsystem_thread`, `IEC61850_ProcessMain`, `TimeThread`
and `RunPDDAU`, which makes a `ProcessPDDataThread` per session. They talk through
global variables, most without a lock.

`RunPDDAU`, `subsystem_thread` and main's search for the kind of the unit are compiled
only with the switch `ISPDASYSTEM` (`main.c:305, 369, 731`, `sensorcomm.c:1633`). The
Makefile in the repository does not define it. The build modelled here is the one with it,
in which all of the code runs.

| Component | State | Operations | Talks to | What is hard | What makes it correct |
|---|---|---|---|---|---|
| PD queues (`sensorcomm.c:110-260`) | linked list, `size`, mutex | `enqueue`, `dequeue`, `getSize`, `initQueue` | producer `EnqueuePDData`, consumer `ProcessPDDataThread` | `trylock` with its result ignored: both threads inside; samples used after `free` | list keeps its shape, order, no loss, backlog is worked off |
| PD sessions (`sensorcomm.c:954-1100, 1321-1520`) | socket, buffers, `stopIssued`, queue pointers, threads | connect, reset, start, stream, stop, reconnect | the PD unit (TCP), consumer threads | nobody joins the consumer; EOF taken for a packet; leaked sockets | one consumer per queue set, the flag reaches the right one, the stream comes back |
| PD data (`sensorcomm.c:540-776`) | counters per channel | statistics over the samples, files | files, IEC 61850 leaves | – | data without control |
| IO board supervision (`IOManager.c:134-368, 548-731`) | IDs, error, wait and retry counters, alarm | `IOM_Init`, `IOM_IOBdLiveCheck`, `IOM_Parser` | board (CAN) | lost and late answers, counters surviving an outage | alarm if and only if the board is silent, one set-up for one answer |
| IO board update (`IOManager.c:371-546`) | flag, sequence number, retry counters | `IOM_IOBdUpdate`, its answers in `IOM_Parser` | board (CAN), console | loss, repetition, late answers, wrap of the number | a packet is passed only when stored; the update ends |
| Digital outputs (`IOManager.c:844`) | mask of outputs last asked for | `DOCTRL`, `DBO` | board | frames lost, board restarted | not modelled, see below |
| Settings (`DBManager.c`) | three SQLite files | first boot, save, read | console | a script that stops midway, two copies, power loss also in the middle of a write, ignored results | what was reported is durable, or in the second copy |
| DSP link (`SharedMemMgr.c`, `MSManager.c`) | shared memory: sizes, command, flags | binding at boot, calibration commands | DSP | hand-over by flags, time-outs, restarts | no torn command, right answer, no endless wait |
| Time (`TimeSyncModule.c`, `main.c:214`) | clock, quality, `lastSyncTime` | SNTP request, `DATE`, `TIME`, publication | SNTP server, readers of the time | unsigned differences while the clock jumps, late answers | a good time is true, attempts are not put off |
| Breaker events (`Acq.c`, `oltc.c`, `sensorcomm.c:1628`) | record buffers, structure of `localtime`, files | poll, read a record, write a file, take the recording of the DSP | logger (Modbus), DSP (flag), console and PD consumer (the structure) | failed reads taken for good ones; names made from a time that other threads convert; one flag for the recording | each record, and the first half of each recording, reaches a file of its own; `DATE` and `TIME` set what was typed |
| Publication to IEC 61850 (`main.c:425-490`, `sensorcomm.c:1103`) | lists of leaves | search by substring, write | the stack (library), main (`LU`) | missing leaf, first match, the thread that reads `LU` starts first | a value goes to its own leaf |
| Console (`ConsoleManager.c`) | line, history, mode | edit, dispatch, displays | all managers | bytes outside ASCII execute the line | not modelled, see below |
| File and status server (`tcpipprotocol.c`) | one client, count of the upload | status, file, upload, reboot, break | clients (TCP) | end of file never noticed, one client at a time, pieces of any length | what is unpacked is what was sent; who waits is served or sent away |

`MTrMonitoring.c`, `GISMonitoring.c` and `PDMonitoring.c` are dead code (nothing calls
their entry points). The watchdog is never initialised (`main.c:748`).

## Modules

| Module | Models | State in the code |
|---|---|---|
| `PDQueue` | one channel queue with its two threads, one step per access the other can see | `head`, `tail`, `size` and `locked` are the fields of `struct Queue`; `epc`, `dpc` the positions in `enqueue` and the consumer's loop; `esize`, `dsize` the registers of `size++` and `size--` |
| `PDSession` | `RunPDDAU`, `EnqueuePDData` outside the queue, and the consumer threads | `sockfd` is `valid`, `link` and `fds`; the two packet buffers are their headers; `stopIssued` as in the code |
| `IOLive` | `IOM_ProcessMain`: live check and parser in turn; board and bus | counters and flags under their names; `live` and `retryId` say whether `s32LiveID` and `s32RetryID` equal `s32InitID` |
| `IOUpdate` | `IOM_IOBdUpdate` in the console thread, the parser, the bus both ways | `flag` is `s8UpdatCheckFlag`, `ackSeq` is `u32MultiPacketSeq`, `idx` and `seq` are `u32TxSeq_Cnt` and `u8SeqNum` |
| `FwTransfer` | abstract specification of a download: packets stored in order, passed only when stored; an update begun with packets of an earlier one under way (`mixed`) may pass packets the board has not stored | – |
| `SettingsDB` | `DBM_Init`, `DBM_SaveSetting` and the commands that call it, statement by statement, with the statements and copies that fail | `file` what is committed, `seen` what the connection sees, `open` the transactions, `ram` whether the journal of `sys` is in memory, `broken` the files power was lost while writing |
| `DspLink` | `CCM_AllocShareMem`, `SharedMemMgr_MemCheck`, the calibration commands, the DSP | `size`, `box`, `flag`, `tdPoint` and `tdFlag` are words of the shared memory |
| `TimeSync` | `TimeThread`, `sntp_client`, `CDM_SetDate`, `CDM_SetTime` | `ahead` is `currentTime - lastSyncTime`, `quality` is `gs32SntpTimeQuality`, `published` is `dsArmDestUTC` |
| `Collector` | `subsystem_thread` with `Acq.c` and `save_oltc_file`; logger, DSP, `DATE`, `TIME` and `gmtime` of the PD consumer | `now` is the unit's clock, `clock` the logger's, `setsA` the logger's time as last read, `tm` the static structure of `localtime`, `hFlag` is `u32HFlag`, `flagRecords` is `flag_Records[0]`, `event` and `waves` are `cbevnt` and the wave buffers, by the number of the record they hold |
| `FileServer` | `tcpserverrun`, `func`; clients and their connections | `serving` is the client behind `connfd`, `wire` what it sent and was not read, `tot` and `recv` as in the code |
| `Publication` | the list of leaves, the search by name, `UpdateScbrVmd`, main's search for `LU` | `scbr` is `scbr_leaflist[0]`, as the places its leaves have in the table `leafs`; a value is known by its item |
| `Services` | the three together | `part` is the one whose steps are followed |
| `PDQueueProofs`, `PDSessionProofs`, `IOLiveProofs`, `IOUpdateProofs`, `SettingsDBProofs`, `DspLinkProofs`, `TimeSyncProofs`, `ServicesProofs` | inductive invariants, lemmas and theorems about the module of that name | – |
| `MC...` | instances for TLC | – |

The definitions named "Mutant" are what a plausible mistake would make of the action
after them; no specification uses them. They serve to show that each property can fail.

`PDQueue` refines one step of `PDSession` (`Enqueued`) and the loop of its consumers. The
two are kept apart because each is large and they meet in one fact only: a queue has one
producer and at most one consumer. `OneConsumer` of `PDSession` is that fact, and under
its exception (`late`) `PDQueue` does not apply. `IOUpdate` appears in `IOLive` as the
action that turns `updating` on and off; `SuspensionEnds` of `IOUpdate` is about the
value `IOLive` then reads.

`Services` puts the last three beside each other. None reads what another writes, so the
interleaving of their steps adds states and no behaviour of any of them; `part`, chosen in
the initial state, says which moves. Where they do meet is the end of the program: a failed
`bind`, a reboot or a write to a client that has gone (SIGPIPE is not ignored, only SIGHUP
is, `main.c:139`) stops all of them. Safety of the others allows that at any step; their
liveness supposes it does not happen. The commands `DATE` and `TIME` are in `TimeSync` as
one step that sets the clock, and in `Collector` in the three steps in which other threads
can interfere.

## Runs

| Run | Configuration, module | Asks | Result |
|---|---|---|---|
| `queue` | `PDQueue.cfg`, `MCPDQueue` | What can two threads do to a list that neither locks? | The list stays intact as long as fewer decrements of `size` were lost than the threshold of the consumer; `size` differs from the length by the lost updates exactly; packets leave in order; the mutex is never left locked. |
| `queue_copy` | `PDQueueCopy.cfg`, `MCPDQueue` | Are the samples copied those of the node popped? | **No**: `dequeue` frees the node before its caller copies. |
| `session` | `PDSession.cfg`, `MCPDSession` | Do sessions overlap, does the flag stop the right consumer, does the stream come back? | One consumer at a time on initialised queues, as long as it sees the flag within the 40 seconds of sleep; no descriptor is left open but by a failed connect, start request or wait for its reply; the stream comes back after a failed read, an odd packet or a missing consumer. |
| `session_eof` | `PDSessionEof.cfg`, `MCPDSession` | Does the stream come back when the unit closes the connection? | **No**: a read of length 0 counts as a packet. |
| `live` | `IOLive.cfg`, `MCIOLive` | Is the alarm of the board right, outage after outage? | It needs two missed polls, comes for a board that is silent, goes for one that answers; one answer to a search leads to one set-up at most. |
| `update` | `IOUpdate.cfg`, `MCIOUpdate` | Does a download survive loss, repetition and late answers? | It implements `FwTransfer`, where no packets of an earlier update, or answers to them, were under way at its start (`leftover`); each packet has all its transmissions, the first waited for in full, each repetition judged after a single wait, as the code does; it ends. |
| `update_suspends` | `IOUpdateSuspend.cfg`, `MCIOUpdate` | Is the supervision resumed after an update? | **No**: the flag may stay in the range that suspends it. |
| `settings` | `SettingsDB.cfg`, `MCSettingsDB` | What is left after a loss of power at any step, also in the middle of a write, and failing statements, commits and copies? | What was reported, of every setting there is, unless a COMMIT failed or `sys` was torn, and then the second copy has it, if it reached it; a script run over the settings replaces them in both. The copies differ only where a change missed the second. A unit is complete if the boots that ran the script came to their end; if not, it has the script up to some point. |
| `settings_gateway` | `SettingsReadBack.cfg`, `MCSettingsDB` | Does a command show what it set? | **No**: `SETGW -S` writes a name that no row has. |
| `dsp` | `DspLink.cfg`, `MCDspLink` | Can commands, answers, time-outs and restarts mix? | Only where the flag of an earlier command was still up or the DSP still busy; the sizes checked at boot are those of this boot's DSP but for one case (`cut`). |
| `clock` | `TimeSync.cfg`, `MCTimeSync` | Can a jump of the clock put off synchronisation or spoil a good time? | Attempts come within the interval, one wait and two pauses; a good time is true unless a command or a stray answer set the clock; the quality follows the server. |
| `services` | `Services.cfg`, `MCServices` | Do records, recordings, uploads, waiting clients and published values get where they belong, whatever fails or comes in between? | A record is in a file with its own waves unless a read failed at it or its neighbour, or another event, before or after it, had the same milliseconds; the flag of a recording comes down with the first half of its samples in a file, unless it overlapped another recording, and that file is not replaced by another that the same clock named; `DATE` and `TIME` set what was typed unless another time was converted meanwhile; what is unpacked is one archive, at most without its last byte or with the break behind it; a client that waits is served or sent away unless the one in front went without an isolated break; a value goes to its own leaf or, without one, to the first of the table. |

### Findings

* `CopyIsPopped` (`sensorcomm.c:224`): use of the samples after `free`.
* `SeamlessReconnect` (`sensorcomm.c:1055`): end of file taken for a packet.
* `SuspensionEnds` (`IOManager.c:262`): the supervision stays suspended after an update that gave up.
* `ReadBack` (`ConsoleManager.c:2057`): "SNTP Gateway" is written, "NTP Gateway" is stored and shown.

Several properties carry an exception that names what the code does not guarantee. What
an exception leaves out is so in the code: no property refutes it, and no text of the
repository denies it. Most are history variables, so that the run shows that the property
holds in every other case.

| Exception | In | Leaves out |
|---|---|---|
| `WithinSlack` | `QueueIntact` | the race on `size` has lost as many decrements as the threshold |
| `late` | `OneConsumer`, `ConsumerKept` | a consumer took longer than the sleep to see the flag |
| `unserved` | `ConsumerKept` | the flag of a session without a consumer stops the next session's (`sensorcomm.c:1046`); `SessionsFollow` says the stream comes back |
| `Leaking` | `NothingLeaks` | a connect, start request or wait for its reply failed and left its descriptor open (`sensorcomm.c:1397`) |
| `met` | `SessionsFollow` | descriptors leaked, a start was refused, or the unit closed the connection: the stream does not come back |
| `found` | `AlarmFollows` | the board did not answer within the 500 microseconds at the start and is never supervised (`IOManager.c:167`) |
| `leftover` | `Implements` | packets of an earlier update, or answers to them, were on the bus at the start of this one |
| first transmission | `EveryPacketTried` | a repetition is judged after a single wait, for the wait counter is not reset (`IOManager.c:504`) |
| `excuse` | `ReportedIsDurable`, `CopiesAgree` | a COMMIT failed and nobody looked (`pending`, `lost`), or the script was run over the settings (`reset`, `DBManager.c:57`) |
| `broken` | the properties of `SettingsDB` | power was lost while the file was written with its journal in memory, or by `cp` |
| `interrupted` | `CompleteOnceRunning` | a boot that ran the script was cut short, by the power or by a statement that failed: then only the order of what is there is claimed |
| `behind` | `CopiesAgree` | settings whose last change did not reach the second copy, or all if the copy was never made |
| `overlapped`, `crowded` | `NoTornCommand`, `DoneIsMine` | a command was given with the last one unfinished |
| `sound` | `GoodIsTrue` | `DATE`, `TIME` or a late or stray answer set the clock while its quality stayed good |
| `spoilt`, equal milliseconds | `EventKept` | a read failed with the record or its neighbour at hand (`Acq.c:313`), or two events share their milliseconds |
| `hasty` | `RecordingKept` | a recording that was overwritten before its file, or completed between the file of the one before and the taking down of its flag (`sensorcomm.c:1790`); only that recording, no later one |
| `by` | `RecordingKept` | names of two clocks that meet, of a clock that was set, and names from the consumer's zone, the console or a logger's time not read anew |
| `heard` | `ClockAsTyped` | another time than the unit's was converted during `DATE` or `TIME` (`ConsoleManager.c:1761`) |
| `Abandoned` | `ServedAgain` | a client went without a break of its own: a read of length 0 only makes `func` loop, and it keeps the server for good |

Two limits of what the names say. A frame of the board does not tell which search it
answers, so for `SetUpNeedsAnswer` a late answer to an earlier search counts as in the code.
The archives of `FileServer` do not carry their client: `UploadExact` says that one archive
is unpacked, whole and in order, and not whose.

`RecordingKept` speaks of the first half of a recording. `save_oltc_file` converts all
230400 samples of each phase and copies `DATA_QUEUE_SIZE` bytes of two-byte samples
(`oltc.c:46-48`): 115200 samples, as many as the header of the file says (37) and its type
holds. The second half of the buffer is never saved.

### Bounds

* `queue`: 7 packets with threshold 2, as in the code: the queue is below, at and above
  the threshold, and as many decrements can be lost as the threshold allows, and more.
  The theorems hold for all values.
* `session`: two consumer threads, the most that can overlap before creation fails in the
  model, and three descriptors, so that leaking runs out of them. All faults occur any
  number of times. There is no bound on the sessions.
* `live`: the limits 3 and 5 of the code, an error counter that wraps at 6 instead of 256
  (more than the limit, so a wrap in an outage passes through it), one frame in the
  receive buffer. No bound on outages.
* `update`: 4 packets and numbers up to 2 (255), so the number wraps within a download; 2
  waits (100) and 3 transmissions (10), which give first, repeated and last; 3 updates, for
  answers to the start of the first can begin the second, and the board take packets of the
  second for those of the third.
* `settings`: 2 values (the names of settings without their blanks), a command for each kind
  of name, 2 saves and 2 losses of power; statements, commits, copies and the count of the
  tables fail any number of times. A failed COMMIT meets a later one that succeeds, fails or
  is torn, the boot that follows a loss can be cut short, and a torn file is read, copied and
  written again (2.9 million states).
* `dsp`: one poll (3000), two commands and three of ADCADJ, one restart.
* `clock`: interval 4, pause 2, wait 1 and a count that wraps at 11, which is no multiple
  of the interval or the pause. `since` needs no bound: `SyncDue` bounds it.
* `services`: three events of the outside world in all (operations, recordings, commands,
  failed reads, conversions to another zone), which is enough for a read that fails between
  two records, two recordings under one name, and a command with a conversion in its midst;
  two clocks of two units after the start, which differ once a command has set the unit's,
  two units a date; milliseconds
  1, 2, 1, so that two of the three events share them (two in a row are left to the theorem). Two clients and an archive of four units of which a
  read returns up to three: it comes in two to four pieces, and what follows it can be read
  with it. Tables of up to four leaves of two nodes with two numbers and two items, each in
  every order.

`CHECK_DEADLOCK FALSE` stands where the system may stop: the packets, commands or updates
of the bound are used up, a thread has ended, or behaviour after a wild access is not
followed.

### Fairness

* `queue`: both threads are loops that the scheduler runs; the next packet is not fair.
* `session`: a read has a time-out of ten seconds and `connect` gives up, so `RunPDDAU` is
  never blocked; that the unit accepts a connection again and again is assumed (strong
  fairness of the successful `connect`), and `SessionsFollow` claims no reconnection
  otherwise.
* `live`: `IOM_ProcessMain` never blocks; a board that is up answers polls again and again
  (strong fairness, for answers may be lost). That a dead board is reported does not use the
  latter.
* `update`: console, parser and board go on; frames may all be lost.
* `dsp`: the threads of the MPU run; the DSP need not. `CommandsEnd` states in its
  hypothesis for TDF that the DSP answers, for nothing in the code bounds that wait.
* `services`: the collector runs, its sleeps end, and the logger can be reached again and
  again (strong fairness of `Connect`; a connection that fails is followed by another try).
  The server thread runs, and a client that is idle again and again says break in the end or
  gives up on an answer that does not come. Nothing is assumed about events, or about a
  client that vanishes.
* `clock`: time passes and the thread runs; an attempt does not fail for want of a socket
  for ever. What the server and the operator do is not fair; both parts of
  `QualityFollows` have hypotheses about it.

## Proofs

TLAPS checks the following for every value of the constants that the named assumptions
allow. Every invariant and every action property that a run checks is stated by a theorem,
and so is the refinement. Almost none is inductive as it stands; each module below names what carries
it. TLC finds each of the strengthened invariants (`IInv`) to hold on the instance of the
run.

`PDQueueProofs` (`QueueConstants`: the threshold is positive): `TypeCorrect`, `ShapeKept`,
`SizeAccount`, `FloorKept`, `FirstInFirstOut`.

1. `Copies`: the value of `size` that the producer holds is never below `size`, the one the
   consumer holds never above it, and above the threshold; so a store can only lose the
   other's update, in a known direction;
2. `Losses` and `SizeCounts`: the account of `size`, from which it follows that it never
   falls below the threshold once a node was taken off;
3. `Shape`: the list up to the first wild access, whatever was lost. With (2), the nodes in
   the list number `size` minus the lost decrements plus the lost increments. When the
   consumer enters, `size` is above the threshold, so with fewer lost decrements than the
   threshold there are at least two nodes, and head and tail do not meet. That is why the
   slack is the threshold and not the mutex.

`PDSessionProofs` (`SessionConstants`: `Nobody` is no thread, there is a descriptor to be
had, the faults are of the known kinds): `TypeCorrect`, `AtMostOneConsumer`,
`OneDescriptor`, `SessionKeepsConsumer`. The hazard is what a session leaves behind,
since nobody joins its consumer. `Alone` says that while `RunPDDAU` always slept long
enough, no consumer runs between sessions, and one that still runs while a session rests
has a flag to see. `FlagDown` is the converse: a raised flag has a consumer that will lower
it, so no session opens under it. `QueueReady` follows the queues through the session, and
`Counted` the descriptors: how many are open is known at every step, unless one leaked.

`IOLiveProofs` (`LiveConstants`: the limit of misses is at least three, the interval of
recovery at least two, the counter's range above the limit): `TypeCorrect`,
`AlarmAfterTwoPolls`, `AnswersUsedOnce`. The alarm counts checks, the property counts
polls. `Unpolled` shows that only the check after a search had nothing polled for it, and
`Misses` that the two counts differ by one at most before the alarm, which is why three
checks mean two polls; with a limit of two they would mean one.

`IOUpdateProofs` (`UpdateConstants`: positive limits, and numbers that go to two at least):
`TypeCorrect`, `PacketsTried`, `Refinement`. `Retries` relates the error counter, which the
code does not reset for a repetition, to the transmissions. The refinement
(`TransferInit`, `TransferStep`) rests on what the bus holds: seen from the parser through
the bus to the console, the packets of this update come in order (`Ordered`), only the last
two are left, and they have different numbers (`Fresh`); so when the number awaited is
answered, the board has stored that packet (`Answered`).

`SettingsDBProofs` (`SettingsConstants`: the factory value is a value, there is a command
to give, commands write known names): `TypeCorrect`, `SavedIsStored`, `CopiesKept`,
`CompleteAfterBoot`, for any number of commands, losses of power and faults. `Kept` relates
what was reported to what the connection sees, `Synced` that to the file, `Entered` the
change in hand to both, `Backup` and `BackupHolds` all to the second copy. They hold of
settings that are there, since a boot cut short leaves some out. `Prefix` follows the script,
which is carried out in order from wherever it is begun again; `NoGaps` says that a unit has
an initial part of it, `Booted` all of it unless a boot that ran it was cut short, and
`FirstBoot` that nothing was reported before. A torn file (`TornEffect`) has lost the rows of one table or everything, and what
was in the other copy is untouched.

`DspLinkProofs` (`DspLinkConstants`: the bounds are naturals): `TypeCorrect`,
`TornOnlyUnderFlag`, `ReportedWasDone`, `CheckedAtBoot`. The properties speak of the moment
an answer is used. `Written` follows a command from the first word written to the flag,
`Answering` what the DSP is at meanwhile, across time-outs and commands that overlap;
`OwnPoint` and `PointsDone` do so for the two points of TDF; `Sizes` and `BoundDsp` follow
the sizes from the DSP's writing them to the comparison, across restarts.

`TimeSyncProofs` (`TimeConstants`: positive waits, and a range of the count above the
interval and two pauses): `TypeCorrect`, `SyncInTime`, `GoodTimes`. The invariant is
`Timers` (the timers stay within their waits), `Pace` (once compared, `ahead` has kept pace
with `since`, whatever the clock was set to before: a step of the clock moves `ahead`
anywhere, but the next comparison either finds it due or below the interval, and it cannot
wrap before the one after that), `ClockTrue` and `PublishedTrue` (how far the clock and the
publication can be off). `TickAhead`, `Keeping` and the `Mod...` lemmas are the arithmetic
of one tick.

`ServicesProofs` (`ServicesConstants`: those of the three parts): `TypeCorrect`,
`EventsInFiles`, `RecordingInFile`, `ClockSetAsTyped`, `UnpacksOneArchive`,
`PublishedAtOwnLeaf`. Each part has an invariant of its own, and a step of one leaves the
variables of the others alone, so the three proofs stay apart.

* Collector: `Hand` (what is at hand is one record with its own waves, or spoilt), `Kept`
  (a record taken is in a file or at hand), `Filed` (a file bears the milliseconds of its
  record; so one file replaces another only for records that share them), `Flag` (unless the
  recording at hand overlapped another, the first half of the buffer is its own until it is
  in a file), `Named` (for each clock that nothing has set since, the names it gave lie before
  what it shows, and a pause lies between two passes; nothing sets the logger's clock, for
  `writeDateTime` has no caller), `Asked` (the structure holds
  what was typed, unless another time was converted since).
* File server: `OneUpload` and `Sent` relate the count of the upload to what its client has
  sent and what is still on the wire.
* Publication: `Table` and `Searched`: the search has passed no leaf that matches. That a
  leaf of the table matches is found by induction on its places (`WellFoundedInduction`
  and the facts about sequences of the library), so nothing is assumed of its length.

What the proofs showed that the instances had not:

* Two updates in quick succession: answers to the first can begin the second, and
  its packets be taken for those of a third. The refinement is stated with `leftover`, and
  the bounds of `update` were changed so that TLC meets it.
* Two events with the same milliseconds need not both be done with: a record read again
  after a failed read replaces the file of the one before it. `EventKept` excepts it.
* `ClockAsTyped` needs what is typed to be a time of day; `date -s` refuses anything else.
* After the wrap the numbers go on from 1, not 0. If they ended at 1, the next packet would
  have the number just answered; hence the bound in `UpdateConstants`. The code ends at 255.

Only model-checked is liveness: `Drained`, `SessionsFollow`, `AlarmFollows`, `UpdateEnds`,
`CommandsEnd`, `QualityFollows`, `Collected`, `ServedAgain`. It rests on fairness and
ENABLED, which the prover does not handle. The four properties that are expected to fail are
refuted by TLC.

## Not modelled

* Formats, displays and files of a fixed layout; the statistics over samples.
* `setAmplification` and `getAmplification` except as writes that can end the program.
* The IO board's input values, debounce times and outputs. `DOCTRL` sends one frame that
  nobody waits for; the mask it sends is the one last asked for, whatever the board did
  since. There is no select before operate, no answer and no retry to model.
* The line editor of the console: one thread that edits characters, with no state another
  thread reads. (A byte outside ASCII executes what was typed so far, `ConsoleManager.c:416`.)
* Reading settings and configuring the interfaces with them.
* In `Collector`: what is computed from the waves, and that several blocks make up a record
  (they are read in one step, so a failure in one of them spoils the whole). In
  `FileServer`: how the digits of the length are put together (`tcpipprotocol.c:171-179`
  writes past arrays of one and six characters; the length is taken as meant), a header that
  comes in two reads, and archives that fit in one read (the loop would wait for a second
  one; a tar file has 10 kB, a read 1 kB). In `Publication`: leaves of other nodes, which are
  searched and then not used, and the second breaker, whose values are never published.
* The IEC 61850 stack, SQLite, the CAN driver, the logger and the firmware of DSP, board and
  measuring unit, whose behaviour the modules take from how the code uses them.
* Dead code (`MTrMonitoring.c`, `GISMonitoring.c`, `PDMonitoring.c`, the watchdog) and
  third-party code.

`PROJECT.json` lists every component with the reason.

## Plan

Done: the modules above, in the order queue, session, supervision, update, settings, DSP,
clock, and the three of `Services`. The order followed how much concurrency and failure each
part is exposed to. What carries logic of its own and runs beside something else is
modelled; what is left is in the list above.

Proved: every safety property that a run checks. What is left:

* deeper action properties of the modelled parts (what a step may never do to a session, a
  download or an upload that was already acknowledged), each with its run and its theorem;
* that `OneConsumer` of `PDSession` gives `PDQueue` its one producer and one consumer is
  argued under "Modules" and not proved, for the two have no variables in common;
* the hazards whose note in `PROJECT.json` says that what goes wrong is so and not refuted:
  each is in the model and in the table of exceptions above.
