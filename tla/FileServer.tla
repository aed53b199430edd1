----------------------------- MODULE FileServer -----------------------------
(***************************************************************************)
(* The file and status server on port 9090, sdk/src/tcpipprotocol.c: one   *)
(* thread, which opens a listening socket, accepts one client, serves it   *)
(* in func until it says so itself, and closes both sockets.               *)
(*                                                                         *)
(* A stream of bytes is a sequence of units, of which a read returns any   *)
(* first part.  The header of an upload, four bytes that no client sends   *)
(* apart, is one unit, so that the total the code compares with the length *)
(* plus three is compared with the length here.  A client sends its next   *)
(* request after the answer to the last one, or gives up, says break and   *)
(* closes, or vanishes.                                                    *)
(***************************************************************************)
EXTENDS Naturals, Sequences, SequencesExt

CONSTANTS
  Clients,
  Nobody,
  SIZE,     \* units of an uploaded archive
  MAX       \* units that one read returns at most

FileServerConstants ==
  /\ Nobody \notin Clients
  /\ SIZE \in Nat /\ MAX \in Nat \ {0}
  /\ MAX <= SIZE   \* no archive comes in one read: a tar file has 10 kB or more

VARIABLES
  server,    \* where tcpserverrun is; "ended": the program is
  serving,   \* the client behind connfd
  backlog,   \* clients whose connections are not accepted yet
  client,    \* where each client is: away, idle, what it asked for;
             \* "left" with a break of its own, or "gone" in some other way
  wire,      \* what it has sent and the server has not read
  answers,   \* the codes of the answers it has not taken
  recv,      \* /data/recv.tar
  tot,
  installed  \* what was unpacked last

vars == <<server, serving, backlog, client, wire, answers, recv, tot, installed>>

Command(code) == <<code, 0>>
Data(i)       == <<"data", i>>
Archive       == [i \in 1 .. SIZE |-> Data(i)]
Requests      == {"status", "file", "upload", "other"}

\* The code a unit is taken for: an archive ends in zeros, and zero asks for the
\* status.
Code(unit) == IF unit = Data(SIZE) THEN "status" ELSE unit[1]

Init ==
  /\ server = "closed" /\ serving = Nobody /\ backlog = <<>>
  /\ client = [c \in Clients |-> "away"]
  /\ wire = [c \in Clients |-> <<>>]
  /\ answers = [c \in Clients |-> {}]
  /\ recv = <<>> /\ tot = 0 /\ installed = <<>>
-----------------------------------------------------------------------------
(* tcpserverrun                                                            *)

Listen ==
  /\ server = "closed"
  /\ server' = "accept"
  /\ UNCHANGED <<serving, backlog, client, wire, answers, recv, tot, installed>>

End == /\ server' = "ended"
       /\ UNCHANGED <<serving, backlog, client, wire, answers, recv, tot, installed>>

\* socket, bind, listen or accept fails: exit(0).
Fail == server \in {"closed", "accept"} /\ End

Accept ==
  /\ server = "accept" /\ backlog # <<>>
  /\ server' = "serve"
  /\ serving' = Head(backlog) /\ backlog' = Tail(backlog)
  /\ UNCHANGED <<client, wire, answers, recv, tot, installed>>

\* close(connfd), close(sockfd): connections that wait to be accepted are reset.
Close ==
  LET closed == ToSet(backlog) \cup {serving}
  IN  /\ server' = "closed" /\ serving' = Nobody /\ backlog' = <<>>
      /\ client' = [c \in Clients |-> IF c \in closed THEN "away" ELSE client[c]]
      /\ wire' = [c \in Clients |-> IF c \in closed THEN <<>> ELSE wire[c]]
      /\ answers' = [c \in Clients |-> IF c \in closed THEN {} ELSE answers[c]]
-----------------------------------------------------------------------------
(* func                                                                    *)

\* read: the first k units.
Read(k) ==
  /\ k \in 1 .. MAX /\ k <= Len(wire[serving])
  /\ wire' = [wire EXCEPT ![serving] = SubSeq(@, k + 1, Len(@))]
Chunk(k) == SubSeq(wire[serving], 1, k)

\* write and send: an answer begins with its code.  SIGPIPE is not ignored: a
\* client that has closed its end may end the program.
Write(code) ==
  \/ answers' = [answers EXCEPT ![serving] = @ \cup {code}] /\ server' = "serve"
  \/ /\ client[serving] \in {"left", "gone"}
     /\ server' = "ended" /\ UNCHANGED answers

\* Codes 0 and 1.  What the read returned beyond the code is dropped.
Serve(k, code) ==
  /\ server = "serve" /\ Read(k)
  /\ code \in {"status", "file"} /\ Code(Head(Chunk(k))) = code
  /\ Write(code)
  /\ UNCHANGED <<serving, backlog, client, recv, tot, installed>>

\* There is no status, and no answer; a unit that is no code.
Ignore(k) ==
  /\ server = "serve" /\ Read(k)
  /\ Code(Head(Chunk(k))) \in {"status", "other", "data"}
  /\ UNCHANGED <<server, serving, backlog, client, answers, recv, tot, installed>>

\* Mutant: recv.tar is opened to append.
BeginUploadAppending(k) ==
  /\ server = "serve" /\ Read(k)
  /\ Code(Head(Chunk(k))) = "upload"
  /\ server' = "upload"
  /\ recv' = recv \o Tail(Chunk(k)) /\ tot' = k
  /\ UNCHANGED <<serving, backlog, client, answers, installed>>

\* Code 2: the first piece; the loop that follows reads at least once more.
BeginUpload(k) ==
  /\ server = "serve" /\ Read(k)
  /\ Code(Head(Chunk(k))) = "upload"
  /\ server' = "upload"
  /\ recv' = Tail(Chunk(k)) /\ tot' = k
  /\ UNCHANGED <<serving, backlog, client, answers, installed>>

\* Another piece.  tot counts the header.  tar, cp and rm follow the last one.
Upload(k) ==
  /\ server = "upload" /\ Read(k)
  /\ recv' = recv \o Chunk(k)
  /\ tot' = tot + k
  /\ IF tot' >= SIZE THEN Write("upload") /\ installed' = recv'
                     ELSE UNCHANGED <<server, answers, installed>>
  /\ UNCHANGED <<serving, backlog, client>>

\* Mutant: the break code is not looked for.
BreakUnseen(k) ==
  /\ server = "serve" /\ Read(k)
  /\ Code(Head(Chunk(k))) = "break"
  /\ UNCHANGED <<server, serving, backlog, client, answers, recv, tot, installed>>

\* Code 4, and code 1 without a file to send.
Break(k) ==
  /\ server = "serve" /\ k \in 1 .. MAX /\ k <= Len(wire[serving])
  /\ Code(Head(Chunk(k))) \in {"break", "file"}
  /\ Close
  /\ UNCHANGED <<recv, tot, installed>>

\* Code 3
Reboot(k) ==
  /\ server = "serve" /\ k \in 1 .. MAX /\ k <= Len(wire[serving])
  /\ Code(Head(Chunk(k))) = "reboot"
  /\ End

\* read says -1 when the connection was reset, which fwrite takes for a length
\* beyond all bounds: the program may end, or go on with nothing more to read.
ReadFails ==
  /\ server = "upload" /\ client[serving] = "gone" /\ wire[serving] = <<>>
  /\ End

\* A read of nothing, at the end of the stream, changes nothing: the loops go on.
Func == \E k \in 1 .. MAX :
  \/ \E code \in {"status", "file"} : Serve(k, code)
  \/ Ignore(k) \/ BeginUpload(k) \/ Upload(k) \/ Break(k) \/ Reboot(k)
-----------------------------------------------------------------------------
(* The clients                                                             *)

Connect(c) ==
  /\ client[c] = "away" /\ server \in {"accept", "serve", "upload"}
  /\ client' = [client EXCEPT ![c] = "idle"]
  /\ backlog' = Append(backlog, c)
  /\ UNCHANGED <<server, serving, wire, answers, recv, tot, installed>>

Send(c, units, then) ==
  /\ client' = [client EXCEPT ![c] = then]
  /\ wire' = [wire EXCEPT ![c] = @ \o units]
  /\ UNCHANGED <<server, serving, backlog, answers, recv, tot, installed>>

Request(c, code) ==
  /\ client[c] = "idle"
  /\ Send(c, <<Command(code)>> \o (IF code = "upload" THEN Archive ELSE <<>>), code)

\* A client with nothing more to ask for.  What it sent before may still be unread.
Leave(c, code) ==
  /\ client[c] = "idle"
  /\ Send(c, <<Command(code)>>, IF wire[c] = <<>> THEN "left" ELSE "gone")

Take(c) ==
  /\ client[c] \in answers[c]
  /\ client' = [client EXCEPT ![c] = "idle"]
  /\ answers' = [answers EXCEPT ![c] = {}]
  /\ UNCHANGED <<server, serving, backlog, wire, recv, tot, installed>>

\* No answer in time.
GiveUp(c) == client[c] \in Requests /\ Send(c, <<Command("break")>>, "gone")

\* The connection breaks; the end of what was sent may be lost with it.
Vanish(c) ==
  /\ client[c] \in Requests \cup {"idle"}
  /\ \E k \in 0 .. Len(wire[c]) : wire' = [wire EXCEPT ![c] = SubSeq(@, 1, k)]
  /\ client' = [client EXCEPT ![c] = "gone"]
  /\ UNCHANGED <<server, serving, backlog, answers, recv, tot, installed>>

Client(c) ==
  \/ Connect(c) \/ Take(c) \/ GiveUp(c) \/ Vanish(c)
  \/ \E code \in Requests : Request(c, code)
  \/ \E code \in {"break", "reboot"} : Leave(c, code)

Next == \/ Listen \/ Fail \/ Accept \/ Func \/ ReadFails
        \/ \E c \in Clients : Client(c)

\* The server runs; a client's session ends, with a break or without one.
FairSpec ==
  /\ Init /\ [][Next]_vars
  /\ WF_vars(Listen) /\ WF_vars(Accept) /\ WF_vars(Func)
  /\ \A c \in Clients : SF_vars(Leave(c, "break")) /\ WF_vars(GiveUp(c))
-----------------------------------------------------------------------------
TypeOK ==
  /\ server \in {"closed", "accept", "serve", "upload", "ended"}
  /\ serving \in Clients \cup {Nobody}
  /\ (server \in {"serve", "upload"} => serving # Nobody)
  /\ ToSet(backlog) \subseteq Clients
  /\ client \in [Clients -> Requests \cup {"away", "idle", "left", "gone"}]
  /\ answers \in [Clients -> SUBSET Requests] /\ tot \in 0 .. (SIZE + MAX)

\* What is unpacked is the archive a client sent: not a piece of another, not more
\* than its break if it did not wait for the answer, and not less than all but the
\* last byte, which is one byte early for the loop to end.
UploadExact ==
  installed \in {<<>>, Archive, Front(Archive), Append(Archive, Command("break"))}

\* The server holds on to a client that gave up, vanished or said break while an
\* earlier byte was unread, and whose break was read with something before it.
Abandoned == /\ serving # Nobody
             /\ client[serving] = "gone"
             /\ Command("break") \notin ToSet(wire[serving])

\* Whoever waits to be accepted is, or is sent away when the session in front ends,
\* and it ends when its client says so, whatever that one asked for, unless the
\* server holds on to one as above or the program ends.
ServedAgain ==
  \A c \in Clients :
    c \in ToSet(backlog) ~> c \notin ToSet(backlog) \/ Abandoned \/ server = "ended"
=============================================================================
