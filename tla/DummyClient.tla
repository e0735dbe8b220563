----------------------------- MODULE DummyClient -----------------------------
(***************************************************************************)
(* The two threads of DummyClient (main.cpp, client.cpp). Thread t1 runs   *)
(* io_service::run() and with it every handler; the main thread makes the  *)
(* client, sends its packets without waiting for the connection, and then  *)
(* reads words from the console until "end". The `work` that would keep    *)
(* run() going is commented out: run() returns as soon as nothing is       *)
(* outstanding, and what is started after that completes with no handler.  *)
(*                                                                         *)
(* The server is what GameRoom shows of it: it sends whole packets, each a *)
(* header and a body that is not empty. Windows sockets are assumed, as    *)
(* the project file does: a write fails at once unless the connection is   *)
(* up, and one write's bytes are taken together. Words are read while main *)
(* is at "input"; what a number looks like on the wire is PacketCodec's.   *)
(***************************************************************************)
EXTENDS Naturals, Sequences

CONSTANTS
  MaxSends,    \* the packets that main() sends; 30 in the code
  MaxReplies,  \* bound: the packets that the server sends
  Junk         \* the bytes of a packet that was freed before they were taken

ASSUME ClientAssumption ==
  /\ {MaxSends, MaxReplies} \subseteq Nat
  /\ Junk \notin 1 .. MaxSends

VARIABLES
  main,       \* what the main thread is at
  next,       \* the number of the next packet
  t1,         \* "new", "run" or "returned"; io.stopped() says whether it returned
  process,    \* "running", "exited" by the end of main(), "exit1" by exit(1)
  conn,       \* "none", "connecting", "up", "broken" by the server, "closed" by close()
  connectOp,  \* the async_connect: "none", "pending", "ok", "error" or "handled"
  rd,         \* the outstanding async_read: "none", "header" or "body"
  header,     \* packet_len in recv_buf, as far as it matters: empty or not
  inbox,      \* the parts of packets that the client has yet to read
  writes,     \* the async_writes whose bytes are not taken, oldest first
  sent,       \* finished async_writes whose handler has not run: success or not
  \* history
  early,      \* run() returned before there was anything to do
  replies,    \* the number of packets the server has sent
  server      \* what the server received

mainVars == <<main, next>>
connVars == <<conn, connectOp>>
readVars == <<rd, header, inbox>>
writeVars == <<writes, sent>>
histVars == <<early, replies, server>>
vars == <<mainVars, t1, process, connVars, readVars, writeVars, histVars>>

Init ==
  /\ main = "create"
  /\ next = 1
  /\ t1 = "new"
  /\ process = "running"
  /\ conn = "none"
  /\ connectOp = "none"
  /\ rd = "none"
  /\ header \in {"empty", "full"}     \* new Packet clears nothing
  /\ inbox = <<>>
  /\ writes = <<>>
  /\ sent = <<>>
  /\ early = FALSE
  /\ replies = 0
  /\ server = <<>>

Running == process = "running"

MainAt(label) == Running /\ main = label

\* A thread that is in io_service::run() calls the handlers, one at a time.
IoRuns == Running /\ t1 = "run"

-------------------------------------------------------------------------------
(* The main thread *)

\* client::client: the connect is started.
CreateClient ==
  /\ MainAt("create")
  /\ main' = "send"
  /\ conn' = "connecting"
  /\ connectOp' = "pending"
  /\ UNCHANGED <<next, t1, process, readVars, writeVars, histVars>>

\* Mutant: the loop goes round once more.
OneMore == next > MaxSends + 1

LoopDone == next > MaxSends

\* Make_packet and client::send.
Send ==
  /\ MainAt("send")
  /\ ~LoopDone
  /\ main' = "drop"
  /\ IF conn = "up"
     THEN writes' = Append(writes, [n |-> next, freed |-> FALSE]) /\ UNCHANGED sent
     ELSE sent' = Append(sent, FALSE) /\ UNCHANGED writes
  /\ UNCHANGED <<next, t1, process, connVars, readVars, histVars>>

\* The end of the loop's body: the local p held the only pointer to the packet.
DropPacket ==
  /\ MainAt("drop")
  /\ main' = "send"
  /\ next' = next + 1
  /\ writes' = [i \in DOMAIN writes |-> [writes[i] EXCEPT !.freed = TRUE]]
  /\ UNCHANGED <<t1, process, connVars, readVars, sent, histVars>>

AllSent ==
  /\ MainAt("send")
  /\ LoopDone
  /\ main' = "input"
  /\ UNCHANGED <<next, t1, process, connVars, readVars, writeVars, histVars>>

\* close(): what is outstanding on the socket is aborted.
Abort ==
  /\ conn' = "closed"
  /\ connectOp' = IF connectOp = "pending" THEN "error" ELSE connectOp
  /\ writes' = <<>>
  /\ sent' = sent \o [i \in DOMAIN writes |-> FALSE]

TypeEnd ==
  /\ MainAt("input")
  /\ main' = "join"
  /\ Abort
  /\ UNCHANGED <<next, t1, process, readVars, histVars>>

\* Any other word: main looks whether the io_service has stopped.
TypeWord ==
  /\ MainAt("input")
  /\ t1 = "returned"
  /\ main' = "join"
  /\ UNCHANGED <<next, t1, process, connVars, readVars, writeVars, histVars>>

Join ==
  /\ MainAt("join")
  /\ t1 = "returned"
  /\ process' = "exited"
  /\ UNCHANGED <<mainVars, t1, connVars, readVars, writeVars, histVars>>

-------------------------------------------------------------------------------
(* The thread of the io_service *)

Run ==
  /\ Running
  /\ t1 = "new"
  /\ t1' = "run"
  /\ UNCHANGED <<mainVars, process, connVars, readVars, writeVars, histVars>>

NoWork ==
  /\ connectOp \in {"none", "handled"}
  /\ rd = "none"
  /\ writes = <<>> /\ sent = <<>>

RunReturns ==
  /\ IoRuns
  /\ NoWork
  /\ t1' = "returned"
  /\ early' = (connectOp = "none")
  /\ UNCHANGED <<mainVars, process, connVars, readVars, writeVars, replies, server>>

\* Mutant: the first read is left to somebody else.
NoRead == "none"

FirstRead == "header"

HandleConnect ==
  /\ IoRuns
  /\ connectOp = "ok"
  /\ connectOp' = "handled"
  /\ rd' = FirstRead
  /\ UNCHANGED <<mainVars, t1, process, conn, header, inbox, writeVars, histVars>>

\* exit(1), on this thread.
HandleConnectError ==
  /\ IoRuns
  /\ connectOp = "error"
  /\ process' = "exit1"
  /\ UNCHANGED <<mainVars, t1, connVars, readVars, writeVars, histVars>>

\* Mutant: a packet that was not sent is sent again.
RetryFailed(ok) ==
  IF ~ok /\ conn = "up" THEN Append(writes, [n |-> 1, freed |-> TRUE]) ELSE writes

\* A failure is reported on the console, and that is all.
AfterSend(ok) == writes

HandleSend ==
  /\ IoRuns
  /\ sent # <<>>
  /\ sent' = Tail(sent)
  /\ writes' = AfterSend(Head(sent))
  /\ UNCHANGED <<mainVars, t1, process, connVars, readVars, histVars>>

Readable == conn # "closed" /\ inbox # <<>>

\* Nothing more can be read: close(), or the end of what the server sent.
Ended == conn = "closed" \/ (conn = "broken" /\ inbox = <<>>)

\* The handler ignores its error and goes on with the header that recv_buf holds.
ReadHeader ==
  /\ IoRuns
  /\ rd = "header"
  /\ \/ /\ Readable
        /\ header' = "full"
        /\ inbox' = Tail(inbox)
     \/ /\ Ended
        /\ UNCHANGED <<header, inbox>>
  /\ rd' = "body"
  /\ UNCHANGED <<mainVars, t1, process, connVars, writeVars, histVars>>

\* A read of no bytes succeeds, on a socket that is closed as well.
ReadBody ==
  /\ IoRuns
  /\ rd = "body"
  /\ \/ header = "empty" /\ UNCHANGED inbox
     \/ header = "full" /\ Readable /\ inbox' = Tail(inbox)
  /\ rd' = "header"
  /\ UNCHANGED <<mainVars, t1, process, header, connVars, writeVars, histVars>>

\* Mutant: the next header is read after an error as well.
ReadAgain == "header"

ReadAfterError == "none"

ReadBodyFails ==
  /\ IoRuns
  /\ rd = "body"
  /\ header = "full" /\ Ended
  /\ rd' = ReadAfterError
  /\ UNCHANGED <<mainVars, t1, process, header, inbox, connVars, writeVars, histVars>>

-------------------------------------------------------------------------------
(* The network and the server *)

ConnectEnds ==
  /\ Running
  /\ conn = "connecting"
  /\ \/ conn' = "up" /\ connectOp' = "ok"
     \/ conn' = "broken" /\ connectOp' = "error"
  /\ UNCHANGED <<mainVars, t1, process, readVars, writeVars, histVars>>

\* The bytes of the oldest write are taken, from where its pointer points to.
TakeWrite ==
  /\ Running
  /\ conn = "up"
  /\ writes # <<>>
  /\ LET write == Head(writes)
     IN \E bytes \in {write.n} \cup (IF write.freed THEN {Junk} ELSE {}) :
          server' = Append(server, [n |-> write.n, bytes |-> bytes, freed |-> write.freed])
  /\ writes' = Tail(writes)
  /\ sent' = Append(sent, TRUE)
  /\ UNCHANGED <<mainVars, t1, process, connVars, readVars, early, replies>>

Reply ==
  /\ Running
  /\ conn = "up"
  /\ replies < MaxReplies
  /\ replies' = replies + 1
  /\ inbox' = inbox \o <<"header", "body">>
  /\ UNCHANGED <<mainVars, t1, process, connVars, rd, header, writeVars, early, server>>

\* The connection ends; any suffix of what is unread is lost.
Break ==
  /\ Running
  /\ conn = "up"
  /\ conn' = "broken"
  /\ \E k \in 0 .. Len(inbox) : inbox' = SubSeq(inbox, 1, k)
  /\ writes' = <<>>
  /\ sent' = sent \o [i \in DOMAIN writes |-> FALSE]
  /\ UNCHANGED <<mainVars, t1, process, connectOp, rd, header, histVars>>

-------------------------------------------------------------------------------

Main == CreateClient \/ Send \/ DropPacket \/ AllSent \/ Join

Console == TypeEnd \/ TypeWord

Handlers ==
  HandleConnect \/ HandleConnectError \/ HandleSend \/ ReadHeader \/ ReadBody \/ ReadBodyFails

Io == Run \/ RunReturns \/ Handlers

Network == ConnectEnds \/ TakeWrite \/ Reply \/ Break

Next == Main \/ Console \/ Io \/ Network

Spec == Init /\ [][Next]_vars

(***************************************************************************)
(* Both threads go on while they can, and handlers are called in the order *)
(* in which they became ready. Nobody has to type, and the server has to   *)
(* do nothing.                                                             *)
(***************************************************************************)
Fairness ==
  /\ WF_vars(Main)
  /\ WF_vars(Io)
  /\ WF_vars(HandleConnect)
  /\ WF_vars(HandleConnectError)
  /\ WF_vars(HandleSend)
  /\ WF_vars(ReadHeader) /\ WF_vars(ReadBody \/ ReadBodyFails)

-------------------------------------------------------------------------------
(* Properties *)

\* Every operation is in a state of its own kind, and every write carries a number sent.
TypeOK ==
  /\ main \in {"create", "send", "drop", "input", "join"}
  /\ next \in 1 .. MaxSends + 1
  /\ t1 \in {"new", "run", "returned"}
  /\ process \in {"running", "exited", "exit1"}
  /\ conn \in {"none", "connecting", "up", "broken", "closed"}
  /\ connectOp \in {"none", "pending", "ok", "error", "handled"}
  /\ rd \in {"none", "header", "body"}
  /\ header \in {"empty", "full"}
  /\ inbox \in Seq({"header", "body"})
  /\ writes \in Seq([n : 1 .. MaxSends, freed : BOOLEAN])
  /\ sent \in Seq(BOOLEAN)
  /\ early \in BOOLEAN
  /\ replies \in 0 .. MaxReplies
  /\ server \in Seq([n : 1 .. MaxSends, bytes : 1 .. MaxSends \cup {Junk}, freed : BOOLEAN])

\* What reaches the server is one run of the numbers, without gap or repetition: packets
\* sent before the connection was up are lost in front of it and those after its end
\* behind it, and a packet is only spoilt if its loop had gone on before it was taken.
PacketsFormOneRun ==
  \A i \in DOMAIN server :
    /\ server[i].n = server[1].n + i - 1
    /\ server[i].bytes = server[i].n \/ server[i].freed

\* The io thread, once it has found the connect outstanding, goes on for as long as the
\* connection does, although nothing keeps its io_service at work: main.cpp:19.
IoOutlivesConnection ==
  t1 = "returned" /\ ~early => conn \in {"broken", "closed"}

\* "end" ends the process, whatever is outstanding, unless recv_buf has the header of
\* an empty packet: then header and body of no bytes are read in turn for ever.
EndIsTheEnd == (main = "join") ~> (process # "running" \/ header = "empty")

===============================================================================
