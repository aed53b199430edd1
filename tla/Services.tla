------------------------------ MODULE Services ------------------------------
(***************************************************************************)
(* Three services of the program that run beside each other: the collector *)
(* of events and recordings (Collector), the file and status server        *)
(* (FileServer) and the publication of breaker values (Publication).  None *)
(* of them reads what another writes, and a step of one leaves the others  *)
(* as they are, so that what one does is the same whatever the others do   *)
(* meanwhile.  The choice of the one that moves, made once, therefore      *)
(* leaves out no behaviour of any of them, and keeps apart the states that *)
(* interleaving would multiply.  When the server ends the program all of   *)
(* them stop, which the safety of the others allows at any step and which  *)
(* their liveness supposes not to happen.                                  *)
(***************************************************************************)
EXTENDS Naturals, Sequences

CONSTANTS MaxEvents, LastTime, DAY, ZONE, LoggerTimes, Typed, Milli \* Collector
CONSTANTS Clients, Nobody, SIZE, MAX                           \* FileServer
CONSTANTS MaxLeafs, Items                                      \* Publication

VARIABLES
  part,   \* the service whose steps are followed
  pc, now, tm, left, flagRecords, clock, setsA, event, waves, eventFiles, oltcFiles, made,
  taken, samples, recordings, recording, hFlag, command, spent, source, spoilt, hasty,
  got, heard, clockSet,
  server, serving, backlog, client, wire, answers, recv, tot, installed,
  leafs, unit, LU, scbr, thread, written

collectorVars ==
  <<pc, now, tm, left, flagRecords, clock, setsA, event, waves, eventFiles, oltcFiles, made,
    taken, samples, recordings, recording, hFlag, command, spent, source, spoilt, hasty,
    got, heard, clockSet>>
serverVars == <<server, serving, backlog, client, wire, answers, recv, tot, installed>>
leafVars   == <<leafs, unit, LU, scbr, thread, written>>
vars       == <<part, collectorVars, serverVars, leafVars>>

C == INSTANCE Collector
F == INSTANCE FileServer
P == INSTANCE Publication

\* What each part asks of its constants.
ASSUME ServicesConstants ==
  C!CollectorConstants /\ F!FileServerConstants /\ P!PublicationConstants

\* Every table is tried where its leaves are searched; elsewhere it is empty.
Init ==
  /\ part \in {"collector", "server", "publication"}
  /\ C!Init /\ F!Init
  /\ IF part = "publication"
       THEN P!Init
       ELSE /\ leafs = <<>> /\ unit = "GLU" /\ LU = P!Unset /\ scbr = {}
            /\ thread = 0 /\ written = <<>>

Collector   == part = "collector"   /\ UNCHANGED <<part, serverVars, leafVars>>
Server      == part = "server"      /\ UNCHANGED <<part, collectorVars, leafVars>>
Publication == part = "publication" /\ UNCHANGED <<part, collectorVars, serverVars>>

Next == \/ Collector /\ C!Next
        \/ Server /\ F!Next
        \/ Publication /\ P!Next

Spec == Init /\ [][Next]_vars

\* The fairness of each part, as its module states it.
FairSpec ==
  /\ Spec
  /\ WF_vars(Collector /\ C!Collect) /\ WF_vars(Collector /\ C!Tick)
  /\ SF_vars(Collector /\ C!Connect)
  /\ WF_vars(Server /\ F!Listen) /\ WF_vars(Server /\ F!Accept)
  /\ WF_vars(Server /\ F!Func)
  /\ \A c \in Clients : /\ SF_vars(Server /\ F!Leave(c, "break"))
                        /\ WF_vars(Server /\ F!GiveUp(c))
-----------------------------------------------------------------------------
(* What each part promises, stated in its module.                          *)

\* Every variable of the three parts has its type.
TypeOK == C!TypeOK /\ F!TypeOK /\ P!TypeOK

\* A record the logger has moved on from is in a file with its own waves.
EventKept == C!EventKept

\* The DSP's flag is taken down only with the first half of the recording in a file,
\* unless that recording overlapped another; a file is not replaced by one that the
\* same clock named.
RecordingKept == C!RecordingKept

\* DATE and TIME set what was typed, unless another time was converted meanwhile.
ClockAsTyped == C!ClockAsTyped

\* Recordings are taken and records are read in the end.
Collected == C!Collected

\* What the server unpacks is one archive, all of it and nothing else.
UploadExact == F!UploadExact

\* A client that waits is accepted or sent away when the one in front says break.
ServedAgain == F!ServedAgain

\* A value is published at a leaf of its own, if the table has one.
OwnLeaf == P!OwnLeaf
=============================================================================
