------------------------------- MODULE GameRoom -------------------------------
(***************************************************************************)
(* The rooms and sessions of digital_content_game: game_room.cpp, with the *)
(* parser (packet_parser.hpp) that its tasks run on the thread pool.       *)
(*                                                                         *)
(* One thread runs io_service::run() for every room (main.cpp), so one     *)
(* completion handler runs at a time. A handler with a packet enqueues a   *)
(* parsing task and blocks on its future; the worker that takes the task   *)
(* needs the room's mutex. The pool is the queue that ThreadPool is shown  *)
(* to implement. A socket is a stream of cells, two for a header (event    *)
(* and length), and as many for a body as the length says.                 *)
(***************************************************************************)
EXTENDS Naturals, Sequences, FiniteSets

CONSTANTS
  Rooms,
  Sessions,   \* one connection each
  RoomOf,     \* the room whose port each client connects to
  Workers,    \* the threads of the pool
  Messages,   \* what a client may send
  Testers,    \* those whose event is PACKET_EVENT::TESTER
  Parsable,   \* those whose body the archive can read
  BodyLen,    \* the packet_len of each
  MaxSends,   \* bound: the packets a client sends
  Io,         \* the thread that runs io_service::run()
  None        \* no session, no reply, nobody holds the mutex

ASSUME RoomAssumption ==
  /\ RoomOf \in [Sessions -> Rooms]
  /\ Testers \subseteq Messages
  /\ Parsable \subseteq Messages
  /\ BodyLen \in [Messages -> Nat]
  /\ \A m \in Parsable : BodyLen[m] > 0     \* an empty text holds no value
  /\ MaxSends \in Nat
  /\ Io \notin Workers
  /\ None \notin Sessions \cup Workers \cup {Io}

VARIABLES
  \* the clients and the network
  peer,       \* "none", "open" or "closed"
  program,    \* the packets each client has sent, in order
  stream,     \* the cells that the server has yet to read
  backlog,    \* the connections to each room's port that are not accepted yet
  \* game_room and game_session
  accepting,  \* an async_accept is outstanding
  users,      \* game_room::users
  mtx,        \* the holder of game_room::mtx
  rd,         \* the outstanding async_read of a session: "none", "header", "body"
  need,       \* the cells a body read waits for
  data,       \* the header in data_: the packet its event came from, and its length
  io,         \* what the io thread is doing, for which session
  \* the thread pool
  queue,      \* the tasks not started, each the packet it will parse
  worker,     \* what each worker is doing, on which packet
  future,     \* the outcome of the task that PassTask waits for
  \* history
  refused,    \* handle_accept was called with an error
  log,        \* the replies that each room has broadcast, in order
  joinedAt,   \* the length of the room's log when the session joined
  sent        \* the replies for which send() was called on each session, in order

clientVars == <<peer, program, backlog>>
poolVars == <<queue, worker, future>>
roomVars == <<accepting, users, mtx, refused, joinedAt>>
readVars == <<stream, rd, need, data>>
vars == <<clientVars, poolVars, roomVars, readVars, io, log, sent>>

-------------------------------------------------------------------------------
(* Packets *)

PacketIds == 1 .. MaxSends

\* data_ is an uninitialised array: the event that no packet has written.
Unwritten == 0

HeaderLen == 2

Lengths == {0} \cup {BodyLen[m] : m \in Messages}

Cells == {"event", "length", "body"} \X PacketIds

Body(n, len) == [i \in 1 .. len |-> <<"body", n>>]

\* A client's n-th packet on the wire.
Wire(n, m) == <<<<"event", n>>, <<"length", n>>>> \o Body(n, BodyLen[m])

\* The copy of data_ that a task parses.
Packets == [session : Sessions, event : {Unwritten} \cup PacketIds,
            len : Lengths, body : Seq(Cells)]

\* A reply is named by the packet whose value it carries.
Replies == Sessions \X PacketIds

Outcomes == [kind : {"none", "null", "throw"}, reply : {None}]
              \cup [kind : {"packet"}, reply : Replies]

NoOutcome == [kind |-> "none", reply |-> None]

Members(seq) == {seq[i] : i \in DOMAIN seq}

Init ==
  /\ peer = [s \in Sessions |-> "none"]
  /\ program = [s \in Sessions |-> <<>>]
  /\ stream = [s \in Sessions |-> <<>>]
  /\ backlog = [r \in Rooms |-> <<>>]
  /\ accepting = [r \in Rooms |-> TRUE]
  /\ users = [r \in Rooms |-> <<>>]
  /\ mtx = [r \in Rooms |-> None]
  /\ rd = [s \in Sessions |-> "none"]
  /\ need = [s \in Sessions |-> 0]
  /\ data \in [Sessions -> [event : {Unwritten}, len : Lengths]]
  /\ io = [at |-> "idle", session |-> None, next |-> 0]
  /\ queue = <<>>
  /\ worker = [w \in Workers |-> [at |-> "idle", packet |-> None]]
  /\ future = NoOutcome
  /\ refused = [r \in Rooms |-> FALSE]
  /\ log = [r \in Rooms |-> <<>>]
  /\ joinedAt = [s \in Sessions |-> 0]
  /\ sent = [s \in Sessions |-> <<>>]

IoAt(label) == io.at = label

IoGoto(label) == io' = [io EXCEPT !.at = label]

IoReturn == io' = [at |-> "idle", session |-> None, next |-> 0]

-------------------------------------------------------------------------------
(* The clients *)

Connect(s) ==
  /\ peer[s] = "none"
  /\ peer' = [peer EXCEPT ![s] = "open"]
  /\ backlog' = [backlog EXCEPT ![RoomOf[s]] = Append(@, s)]
  /\ UNCHANGED <<program, poolVars, roomVars, readVars, io, log, sent>>

Send(s, m) ==
  /\ peer[s] = "open"
  /\ Len(program[s]) < MaxSends
  /\ program' = [program EXCEPT ![s] = Append(@, m)]
  /\ stream' = [stream EXCEPT ![s] = @ \o Wire(Len(program[s]) + 1, m)]
  /\ UNCHANGED <<peer, backlog, rd, need, data, poolVars, roomVars, io, log, sent>>

\* The connection ends; a reset, or a client that stops half-way through a
\* packet, loses any suffix of what the server has not read.
Disconnect(s) ==
  /\ peer[s] = "open"
  /\ peer' = [peer EXCEPT ![s] = "closed"]
  /\ \E k \in 0 .. Len(stream[s]) : stream' = [stream EXCEPT ![s] = SubSeq(@, 1, k)]
  /\ UNCHANGED <<program, backlog, rd, need, data, poolVars, roomVars, io, log, sent>>

Client(s) == Connect(s) \/ (\E m \in Messages : Send(s, m)) \/ Disconnect(s)

-------------------------------------------------------------------------------
(* game_room::handle_accept *)

AcceptFails(r) ==
  /\ IoAt("idle")
  /\ accepting[r]
  /\ accepting' = [accepting EXCEPT ![r] = FALSE]
  /\ refused' = [refused EXCEPT ![r] = TRUE]
  /\ UNCHANGED <<users, mtx, joinedAt, clientVars, poolVars, readVars, io, log, sent>>

\* A connection is taken off the port's backlog; the handler asks for the mutex.
AcceptConnection(r) ==
  /\ IoAt("idle")
  /\ accepting[r]
  /\ backlog[r] # <<>>
  /\ accepting' = [accepting EXCEPT ![r] = FALSE]
  /\ backlog' = [backlog EXCEPT ![r] = Tail(@)]
  /\ io' = [at |-> "accept", session |-> Head(backlog[r]), next |-> 0]
  /\ UNCHANGED <<peer, program, users, mtx, refused, joinedAt, poolVars, readVars, log, sent>>

AcceptLock ==
  /\ IoAt("accept")
  /\ mtx[RoomOf[io.session]] = None
  /\ mtx' = [mtx EXCEPT ![RoomOf[io.session]] = Io]
  /\ IoGoto("join")
  /\ UNCHANGED <<accepting, users, refused, joinedAt, clientVars, poolVars, readVars, log, sent>>

\* start_accept(): the next async_accept is issued before the handler returns.
StartAccept(r) == [accepting EXCEPT ![r] = TRUE]

\* Mutant: the session replaces the users.
OnlyUser(r, s) == <<s>>

WithUser(r, s) == Append(users[r], s)

\* push_back, start() and start_accept(), the mutex held to the end of the block.
AcceptJoin ==
  LET s == io.session
      r == RoomOf[s]
  IN /\ IoAt("join")
     /\ users' = [users EXCEPT ![r] = WithUser(r, s)]
     /\ joinedAt' = [joinedAt EXCEPT ![s] = Len(log[r])]
     /\ rd' = [rd EXCEPT ![s] = "header"]
     /\ accepting' = StartAccept(r)
     /\ mtx' = [mtx EXCEPT ![r] = None]
     /\ IoReturn
     /\ UNCHANGED <<refused, stream, need, data, clientVars, poolVars, log, sent>>

-------------------------------------------------------------------------------
(* game_session::read_header and handle_read_body *)

\* What the transfer left of the header in data_: both fields, the event alone
\* (the connection ended in between), or nothing new.
ReceivedHeader(s) ==
  CASE Len(stream[s]) >= HeaderLen ->
         LET n == stream[s][2][2]
         IN [event |-> stream[s][1][2], len |-> BodyLen[program[s][n]]]
    [] Len(stream[s]) = 1 -> [data[s] EXCEPT !.event = stream[s][1][2]]
    [] OTHER -> data[s]

HeaderCells(s) == IF Len(stream[s]) >= HeaderLen THEN HeaderLen ELSE Len(stream[s])

\* Mutant: the header is taken off the length.
BodyOnlyLen(header) == header.len - HeaderLen

\* Mutant: packet_len counts the header too, as its comment says.
WholePacketLen(header) ==
  IF header.len < HeaderLen THEN 0 ELSE header.len - HeaderLen

BodyCells(header) == header.len

\* The handler ignores its error: at the end of the stream it goes on with the
\* header that data_ held already.
ReadHeader(s) ==
  /\ IoAt("idle")
  /\ rd[s] = "header"
  /\ Len(stream[s]) >= HeaderLen \/ peer[s] = "closed"
  /\ data' = [data EXCEPT ![s] = ReceivedHeader(s)]
  /\ stream' = [stream EXCEPT ![s] = SubSeq(@, HeaderCells(s) + 1, Len(@))]
  /\ need' = [need EXCEPT ![s] = BodyCells(ReceivedHeader(s))]
  /\ rd' = [rd EXCEPT ![s] = "body"]
  /\ UNCHANGED <<clientVars, poolVars, roomVars, io, log, sent>>

\* An async_read of no bytes succeeds, even on a connection that has ended.
ReadBody(s) ==
  /\ IoAt("idle")
  /\ rd[s] = "body"
  /\ Len(stream[s]) >= need[s]
  /\ rd' = [rd EXCEPT ![s] = "none"]
  /\ stream' = [stream EXCEPT ![s] = SubSeq(@, need[s] + 1, Len(@))]
  /\ io' = [at |-> "wait", session |-> s, next |-> 0]
  /\ queue' = Append(queue, [session |-> s, event |-> data[s].event, len |-> data[s].len,
                             body |-> SubSeq(stream[s], 1, need[s])])
  /\ UNCHANGED <<need, data, worker, future, clientVars, roomVars, log, sent>>

\* Nobody reads from the session any more; it stays in users.
ReadBodyFails(s) ==
  /\ IoAt("idle")
  /\ rd[s] = "body"
  /\ peer[s] = "closed"
  /\ Len(stream[s]) < need[s]
  /\ rd' = [rd EXCEPT ![s] = "none"]
  /\ UNCHANGED <<stream, need, data, clientVars, poolVars, roomVars, io, log, sent>>

-------------------------------------------------------------------------------
(* The task: Packet::Parse on a worker of the pool *)

TakeTask(w) ==
  /\ worker[w].at = "idle"
  /\ queue # <<>>
  /\ worker' = [worker EXCEPT ![w] = [at |-> "lock", packet |-> Head(queue)]]
  /\ queue' = Tail(queue)
  /\ UNCHANGED <<future, clientVars, roomVars, readVars, io, log, sent>>

RoomOfTask(w) == RoomOf[worker[w].packet.session]

ParseLock(w) ==
  /\ worker[w].at = "lock"
  /\ mtx[RoomOfTask(w)] = None
  /\ mtx' = [mtx EXCEPT ![RoomOfTask(w)] = w]
  /\ worker' = [worker EXCEPT ![w].at = "parse"]
  /\ UNCHANGED <<queue, future, accepting, users, refused, joinedAt, clientVars, readVars,
                 io, log, sent>>

\* The packets whose body the archive reads: one whole body, of a message it knows.
CarriesValue(p) ==
  /\ p.body # <<>>
  /\ LET n == p.body[1][2]
         m == program[p.session][n]
     IN m \in Parsable /\ p.body = Body(n, BodyLen[m])

\* Mutants: every event is taken for TESTER; none is.
AnyEvent(p) == TRUE
NoEvent(p) == FALSE

IsTester(p) == program[p.session][p.event] \in Testers

Throws == [kind |-> "throw", reply |-> None]
NoReply == [kind |-> "null", reply |-> None]
ReplyTo(p) == [kind |-> "packet", reply |-> <<p.session, p.body[1][2]>>]

\* What Parse may return or throw; the event of an unwritten header is anything.
ParseResults(p) ==
  LET tester == IF CarriesValue(p) THEN ReplyTo(p) ELSE Throws
  IN IF p.event = Unwritten THEN {tester, NoReply}
     ELSE IF IsTester(p) THEN {tester} ELSE {NoReply}

\* Mutant: the mutex is not released when the archive throws.
MutexKeptByThrow(w, outcome) == IF outcome = Throws THEN w ELSE None

\* The lock_guard is destroyed however Parse is left.
MutexAfterParse(w, outcome) == None

\* Parse ends and the packaged task stores its outcome.
ParseDone(w) ==
  /\ worker[w].at = "parse"
  /\ \E outcome \in ParseResults(worker[w].packet) :
       /\ mtx' = [mtx EXCEPT ![RoomOfTask(w)] = MutexAfterParse(w, outcome)]
       /\ future' = outcome
  /\ worker' = [worker EXCEPT ![w] = [at |-> "idle", packet |-> None]]
  /\ UNCHANGED <<queue, accepting, users, refused, joinedAt, clientVars, readVars, io, log, sent>>

-------------------------------------------------------------------------------
(* game_room::PassTask, from future::wait on, and the end of handle_read_body *)

PassTaskBroadcast ==
  /\ IoAt("wait")
  /\ future.kind = "packet"
  /\ io' = [io EXCEPT !.at = "broadcast", !.next = 1]
  /\ log' = [log EXCEPT ![RoomOf[io.session]] = Append(@, future.reply)]
  /\ UNCHANGED <<clientVars, poolVars, roomVars, readVars, sent>>

NothingToBroadcast == future.kind \in {"null", "throw"}

\* A null packet, or the exception that PassTask catches.
PassTaskNothing ==
  /\ IoAt("wait")
  /\ NothingToBroadcast
  /\ future' = NoOutcome
  /\ IoGoto("rearm")
  /\ UNCHANGED <<queue, worker, clientVars, roomVars, readVars, log, sent>>

BroadcastTo == users[RoomOf[io.session]]

\* Mutant: the loop skips the session that the packet came from.
AllButSender == {i \in 1 .. Len(BroadcastTo) : BroadcastTo[i] # io.session}

Recipients == 1 .. Len(BroadcastTo)

\* One turn of the loop over users.
BroadcastSend ==
  /\ IoAt("broadcast")
  /\ io.next \in DOMAIN BroadcastTo
  /\ sent' = IF io.next \in Recipients
             THEN [sent EXCEPT ![BroadcastTo[io.next]] = Append(@, future.reply)]
             ELSE sent
  /\ io' = [io EXCEPT !.next = @ + 1]
  /\ UNCHANGED <<clientVars, poolVars, roomVars, readVars, log>>

BroadcastEnd ==
  /\ IoAt("broadcast")
  /\ io.next \notin DOMAIN BroadcastTo
  /\ future' = NoOutcome
  /\ IoGoto("rearm")
  /\ UNCHANGED <<queue, worker, clientVars, roomVars, readVars, log, sent>>

Rearm ==
  /\ IoAt("rearm")
  /\ rd' = [rd EXCEPT ![io.session] = "header"]
  /\ IoReturn
  /\ UNCHANGED <<stream, need, data, clientVars, poolVars, roomVars, log, sent>>

-------------------------------------------------------------------------------

IoHandler ==
  AcceptLock \/ AcceptJoin \/ PassTaskBroadcast \/ PassTaskNothing
    \/ BroadcastSend \/ BroadcastEnd \/ Rearm

Worker(w) == TakeTask(w) \/ ParseLock(w) \/ ParseDone(w)

Next ==
  \/ \E s \in Sessions : Client(s)
  \/ \E r \in Rooms : AcceptFails(r) \/ AcceptConnection(r)
  \/ \E s \in Sessions : ReadHeader(s) \/ ReadBody(s) \/ ReadBodyFails(s)
  \/ IoHandler
  \/ \E w \in Workers : Worker(w)

Spec == Init /\ [][Next]_vars

(***************************************************************************)
(* The io_service hands completions to its thread in the order they arrive,*)
(* so a ready handler is not passed over for ever; a handler that has      *)
(* begun, and a worker with something to do, go on. Clients owe nothing.   *)
(***************************************************************************)
Fairness ==
  /\ WF_vars(IoHandler)
  /\ \A w \in Workers : WF_vars(Worker(w))
  /\ \A r \in Rooms : SF_vars(AcceptConnection(r))
  /\ \A s \in Sessions : SF_vars(ReadHeader(s)) /\ SF_vars(ReadBody(s) \/ ReadBodyFails(s))

FairSpec == Spec /\ Fairness

-------------------------------------------------------------------------------
(* Properties *)

IoStates == [at : {"idle", "accept", "join", "wait", "broadcast", "rearm"},
             session : Sessions \cup {None}, next : Nat]

\* A task, a reply and a read are each of a packet that a client has sent.
TypeOK ==
  /\ peer \in [Sessions -> {"none", "open", "closed"}]
  /\ program \in [Sessions -> Seq(Messages)]
  /\ stream \in [Sessions -> Seq(Cells)]
  /\ backlog \in [Rooms -> Seq(Sessions)]
  /\ accepting \in [Rooms -> BOOLEAN]
  /\ users \in [Rooms -> Seq(Sessions)]
  /\ mtx \in [Rooms -> Workers \cup {Io, None}]
  /\ rd \in [Sessions -> {"none", "header", "body"}]
  /\ need \in [Sessions -> Nat]
  /\ data \in [Sessions -> [event : {Unwritten} \cup PacketIds, len : Lengths]]
  /\ io \in IoStates
  /\ queue \in Seq(Packets)
  /\ worker \in [Workers -> [at : {"idle", "lock", "parse"}, packet : Packets \cup {None}]]
  /\ future \in Outcomes
  /\ refused \in [Rooms -> BOOLEAN]
  /\ log \in [Rooms -> Seq(Replies)]
  /\ joinedAt \in [Sessions -> Nat]
  /\ sent \in [Sessions -> Seq(Replies)]

\* The replies of r that session s has still to be sent: the one that the
\* broadcast loop is at, when the loop has not come to s.
Behind(r, i) ==
  IF IoAt("broadcast") /\ RoomOf[io.session] = r /\ io.next <= i THEN 1 ELSE 0

\* Every user of a room is sent the same replies in the same order, from its
\* own handle_accept on, nothing skipped and nothing repeated.
SameOrderForAll ==
  \A r \in Rooms : \A i \in DOMAIN users[r] :
    LET s == users[r][i]
    IN sent[s] = SubSeq(log[r], joinedAt[s] + 1, Len(log[r]) - Behind(r, i))

\* The n-th packet of s is one that is to be answered; its header is still to be read.
Answerable(s, n) == program[s][n] \in Testers \cap Parsable

Unread(s, n) == \E i \in DOMAIN stream[s] : stream[s][i] = <<"event", n>>

\* A client's packets are answered once each, in the order it sent them: when
\* the next header is awaited, all those that were read have been.
AnsweredOnceInOrder ==
  \A s \in Sessions :
    LET answers == log[RoomOf[s]]
        own == {i \in DOMAIN answers : answers[i][1] = s}
    IN /\ \A i, j \in own : i < j => answers[i][2] < answers[j][2]
       /\ rd[s] = "header" /\ peer[s] = "open" =>
            {answers[i][2] : i \in own}
              = {n \in DOMAIN program[s] : Answerable(s, n) /\ ~Unread(s, n)}

\* The reads stay in step with the packets: what is awaited as a header starts
\* with one, and a task with a body has the header that was sent with it.
ReadsStayFramed ==
  /\ \A s \in Sessions : rd[s] = "header" /\ stream[s] # <<>> => stream[s][1][1] = "event"
  /\ \A p \in Members(queue) : p.len > 0 => p.body = Body(p.event, p.len)

\* The io thread never waits for the pool while it holds a room's mutex, nor for
\* a mutex while a worker may hold it: the two cannot wait for each other.
IoNeverBlocksParser ==
  /\ IoAt("wait") => \A r \in Rooms : mtx[r] # Io
  /\ IoAt("accept") => mtx[RoomOf[io.session]] = None

\* A client in the backlog is let in, unless the room's accept chain has ended.
ConnectionsJoin ==
  \A s \in Sessions :
    s \in Members(backlog[RoomOf[s]]) ~>
      (s \in Members(users[RoomOf[s]]) \/ refused[RoomOf[s]])

\* A packet that can be answered is, if its sender has joined and stays.
PacketsAnswered ==
  \A s \in Sessions : \A n \in PacketIds :
    (n \in DOMAIN program[s] /\ Answerable(s, n) /\ rd[s] # "none")
      ~> (<<s, n>> \in Members(log[RoomOf[s]]) \/ peer[s] = "closed")

\* The reads of a connection that has ended come to an end, unless the last
\* header announced an empty body: that header is then taken up again for ever.
ReadsEnd ==
  \A s \in Sessions :
    (peer[s] = "closed" /\ rd[s] # "none") ~> ((rd[s] = "none" /\ io.session # s) \/ data[s].len = 0)

-------------------------------------------------------------------------------
(* The rooms implement OrderedBroadcast: sockets, threads, mutexes, tasks  *)
(* and handlers are hidden.                                                *)

Promise == INSTANCE OrderedBroadcast

\* Every behaviour of the rooms is one that OrderedBroadcast allows: users join once
\* and are never forgotten, no reply enters a log twice, none is skipped, and none is
\* broadcast before the one before it was handed to everybody.
ImplementsOrderedBroadcast == Promise!Spec

\* With fair scheduling the rooms also keep its promise of delivery: whoever sent the
\* packet, and whatever becomes of the other connections, each user is handed the reply.
KeepsBroadcastPromise == Promise!FairSpec

===============================================================================
