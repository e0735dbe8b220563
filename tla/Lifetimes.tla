------------------------------ MODULE Lifetimes ------------------------------
(***************************************************************************)
(* Who keeps what alive in the server of digital_content_game, from the    *)
(* start of main() to the end of the process (main.cpp, game_room.cpp,     *)
(* ThreadPool.h): the packets that outstanding writes point into, the      *)
(* sessions that outstanding handlers point to, and the room, the pool and *)
(* the io_service at the end of main().                                    *)
(*                                                                         *)
(* A packet is a block of the heap. Two shared pointers keep the block of  *)
(* a request (the io thread's `task` and the copy on the pool), one keeps  *)
(* that of a reply (the local `packet` of PassTask); async_write keeps a   *)
(* raw pointer. A block that has been freed may be given to the next       *)
(* packet, or be written over by its heap. One room stands for the ten: a  *)
(* room shares only the io thread and the pool with the others. Locks,     *)
(* parsing and the order of tasks are GameRoom's and ThreadPool's.         *)
(***************************************************************************)
EXTENDS Naturals, Sequences, SequencesExt, FiniteSets

CONSTANTS
  Sessions,   \* one connection each
  Workers,    \* the threads of the pool
  Blocks,     \* the heap, as far as packets use it
  MaxRounds,  \* bound: the packets the server reads
  Junk,       \* what the heap leaves in a block that was freed
  None        \* no session, no block, no outcome

ASSUME LifetimeAssumption ==
  /\ MaxRounds \in Nat
  /\ Cardinality(Blocks) > Cardinality(Workers)   \* no allocation ever fails
  /\ None \notin Sessions \cup Workers \cup Blocks
  /\ "null" \notin Blocks \cup {None}             \* the outcome of a task without a reply
  /\ Junk \notin 0 .. MaxRounds

VARIABLES
  \* the clients and the network
  peer,      \* "away", "open" or "closed"
  got,       \* what each client received: how many writes, and the last of them
  \* the heap
  memory,    \* the content of each block
  live,      \* the blocks that are allocated
  \* the objects of main()
  main,      \* what main() is at
  process,   \* "running", "exited" or "aborted"
  room,      \* the room exists
  pool,      \* the pool exists
  stop,      \* its destructor has begun
  io_service,\* the io_service exists
  \* outstanding operations, each with a handler that holds a raw `this`
  accepting, \* an async_accept
  users,     \* game_room::users, which keeps the sessions
  reading,   \* the async_read of each session
  length,    \* what has shown of the packet_len in its data_: "zero", "some", or nothing yet
  writes,    \* the async_writes of each session, oldest first
  written,   \* the number of finished ones whose handler is still to run
  \* the io thread and the workers
  io,        \* what the io thread is doing, with which request and reply
  queue,     \* the requests on the pool
  worker,    \* what each worker is doing, on which request
  outcome,   \* the future: None, "null" or the block of the reply
  \* history
  round,     \* the number of packets read
  log,       \* the rounds that ended in a broadcast, in order
  joinedAt,  \* the length of the log when a session joined
  kept       \* a worker held the room when main() let go of it

heapVars == <<memory, live>>
netVars == <<peer, got>>
mainVars == <<main, process, room, pool, stop, io_service, kept>>
roomVars == <<accepting, users, reading, length, joinedAt>>
writeVars == <<writes, written>>
taskVars == <<io, queue, worker, outcome, round, log>>
vars == <<netVars, heapVars, mainVars, roomVars, writeVars, taskVars>>

Contents == 0 .. MaxRounds \cup {Junk}

\* A write is late when PassTask has let go of the packet that it points into.
NothingGot == [count |-> 0, round |-> 0, bytes |-> 0, late |-> FALSE]

IoIdle == [at |-> "idle", session |-> None, request |-> None, reply |-> None, next |-> 0]

WorkerIdle == [at |-> "idle", request |-> None]

Init ==
  /\ peer = [s \in Sessions |-> "away"]
  /\ got = [s \in Sessions |-> NothingGot]
  /\ memory = [b \in Blocks |-> Junk]
  /\ live = {}
  /\ main = "start"
  /\ process = "running"
  /\ room = FALSE
  /\ pool = TRUE
  /\ stop = FALSE
  /\ io_service = TRUE
  /\ accepting = FALSE
  /\ users = <<>>
  /\ reading = [s \in Sessions |-> FALSE]
  /\ length = [s \in Sessions |-> "unknown"]
  /\ writes = [s \in Sessions |-> <<>>]
  /\ written = [s \in Sessions |-> 0]
  /\ io = [IoIdle EXCEPT !.at = "none"]
  /\ queue = <<>>
  /\ worker = [w \in Workers |-> WorkerIdle]
  /\ outcome = None
  /\ round = 0
  /\ log = <<>>
  /\ joinedAt = [s \in Sessions |-> 0]
  /\ kept = FALSE

Running == process = "running"

IoAt(label) == Running /\ io.at = label

Joined(s) == s \in ToSet(users)

-------------------------------------------------------------------------------
(* The heap *)

Allocate(b, content) ==
  /\ b \notin live
  /\ live' = live \cup {b}
  /\ memory' = [memory EXCEPT ![b] = content]

\* The heap may leave a freed block as it is or write over it; a block that no write
\* points into is read by nobody, so its content is dropped.
Free(b) ==
  /\ live' = live \ {b}
  /\ \/ memory' = [memory EXCEPT ![b] = Junk]
     \/ memory' = memory /\ \E s \in Sessions : \E i \in DOMAIN writes[s] : writes[s][i].block = b

KeepHeap == UNCHANGED heapVars

\* The tasks that hold a request: that of the io thread and those on the pool.
HoldersOf(b) ==
  {w \in Workers : worker[w].request = b} \cup {x \in {None} : io.request = b}

\* A request is freed by the last one that lets go of it.
Release(b, holder) == IF HoldersOf(b) = {holder} THEN Free(b) ELSE KeepHeap

-------------------------------------------------------------------------------
(* The clients and the network *)

\* The client ends the connection, and what it got goes with it.
Close(s) ==
  /\ Running
  /\ peer[s] = "open"
  /\ peer' = [peer EXCEPT ![s] = "closed"]
  /\ got' = [got EXCEPT ![s] = NothingGot]
  /\ UNCHANGED <<heapVars, mainVars, roomVars, writeVars, taskVars>>

\* The network takes the bytes of the oldest write, from where its pointer points to.
Transfer(s) ==
  /\ Running
  /\ peer[s] = "open"
  /\ writes[s] # <<>>
  /\ LET write == Head(writes[s])
     IN got' = [got EXCEPT ![s] = [count |-> @.count + 1, round |-> write.round,
                                   bytes |-> memory[write.block], late |-> write.late]]
  /\ writes' = [writes EXCEPT ![s] = Tail(@)]
  /\ written' = [written EXCEPT ![s] = @ + 1]
  /\ UNCHANGED <<peer, heapVars, mainVars, roomVars, taskVars>>

\* The writes to a connection that has ended fail.
WritesFail(s) ==
  /\ Running
  /\ peer[s] = "closed"
  /\ writes[s] # <<>>
  /\ writes' = [writes EXCEPT ![s] = <<>>]
  /\ written' = [written EXCEPT ![s] = @ + Len(writes[s])]
  /\ UNCHANGED <<netVars, heapVars, mainVars, roomVars, taskVars>>

-------------------------------------------------------------------------------
(* game_room::handle_accept and the reads of a session *)

\* A client that connects is let in. The mutex is free here (GameRoom's
\* IoNeverBlocksParser), so the handler is one step.
Accept(s) ==
  /\ IoAt("idle")
  /\ accepting
  /\ peer[s] = "away"
  /\ peer' = [peer EXCEPT ![s] = "open"]
  /\ users' = Append(users, s)
  /\ reading' = [reading EXCEPT ![s] = TRUE]
  /\ joinedAt' = [joinedAt EXCEPT ![s] = Len(log)]
  /\ UNCHANGED <<accepting, length, got, heapVars, mainVars, writeVars, taskVars>>

AcceptFails ==
  /\ IoAt("idle")
  /\ accepting
  /\ accepting' = FALSE
  /\ UNCHANGED <<users, reading, length, joinedAt, netVars, heapVars, mainVars, writeVars,
                 taskVars>>

\* handle_read_body copies the packet, binds it with the room into a task, enqueues.
HandleBody(s) ==
  /\ reading' = [reading EXCEPT ![s] = FALSE]
  /\ \E b \in Blocks :
       /\ Allocate(b, 0)
       /\ queue' = Append(queue, b)
       /\ io' = [at |-> "wait", session |-> s, request |-> b, reply |-> None, next |-> 0]
  /\ UNCHANGED <<accepting, users, joinedAt, netVars, mainVars, writeVars, worker, outcome, log>>

\* Header and body of a packet that the client has sent, maybe before it left. Whether
\* the body is empty is left open until it makes a difference.
ReadPacket(s) ==
  /\ IoAt("idle")
  /\ reading[s]
  /\ length[s] # "zero"
  /\ round < MaxRounds
  /\ round' = round + 1
  /\ length' = [length EXCEPT ![s] = "unknown"]
  /\ HandleBody(s)

\* read_header does not look at its error and takes up the length that data_ holds: that
\* of the last packet, or, before the first one, whatever the memory held.
MayBeZero(s) == length[s] # "some"

\* At the end of the connection: if the length is zero the read of no bytes succeeds,
\* and from then on each read of a header and of a body does.
ReadNothing(s) ==
  /\ IoAt("idle")
  /\ reading[s]
  /\ peer[s] = "closed"
  /\ MayBeZero(s)
  /\ length' = [length EXCEPT ![s] = "zero"]
  /\ HandleBody(s)
  /\ UNCHANGED round

\* Mutant: a session whose read has failed is taken out of users.
UsersWithout(s) == SelectSeq(users, LAMBDA u : u # s)

\* The handler only reports the error.
UsersAfterError(s) == users

\* Mutant: it starts the next read all the same.
ReadAgain == TRUE

ReadAfterError == FALSE

\* The body that data_ announces, or a last header that came without one, does not come.
ReadFails(s) ==
  /\ IoAt("idle")
  /\ reading[s]
  /\ peer[s] = "closed"
  /\ length[s] # "zero"
  /\ length' = [length EXCEPT ![s] = "some"]
  /\ reading' = [reading EXCEPT ![s] = ReadAfterError]
  /\ users' = UsersAfterError(s)
  /\ UNCHANGED <<accepting, joinedAt, netVars, heapVars, mainVars, writeVars, taskVars>>

HandleWrite(s) ==
  /\ IoAt("idle")
  /\ written[s] > 0
  /\ written' = [written EXCEPT ![s] = @ - 1]
  /\ UNCHANGED <<writes, netVars, heapVars, mainVars, roomVars, taskVars>>

-------------------------------------------------------------------------------
(* The task on the pool *)

TakeTask(w) ==
  /\ Running
  /\ worker[w].at = "idle"
  /\ queue # <<>>
  /\ worker' = [worker EXCEPT ![w] = [at |-> "run", request |-> Head(queue)]]
  /\ queue' = Tail(queue)
  /\ UNCHANGED <<io, outcome, round, log, netVars, heapVars, mainVars, roomVars, writeVars>>

\* Parse ends: without a reply, or with a packet that Make_packet allocated. The archive
\* reads no value from an empty body.
RunTask(w) ==
  /\ Running
  /\ worker[w].at = "run"
  /\ worker' = [worker EXCEPT ![w].at = "drop"]
  /\ \/ outcome' = "null" /\ KeepHeap /\ UNCHANGED length
     \/ /\ length[io.session] # "zero"
        /\ length' = [length EXCEPT ![io.session] = "some"]
        /\ \E b \in Blocks : Allocate(b, round) /\ outcome' = b
  /\ UNCHANGED <<accepting, users, reading, joinedAt, io, queue, round, log, netVars, mainVars,
                 writeVars>>

\* The room is held by main()'s vector and by each task.
RoomHeldWithout(w) ==
  \/ main \in {"start", "join", "rooms"}
  \/ queue # <<>>
  \/ \E v \in Workers \ {w} : worker[v].request # None

\* The destructor of a room whose tasks have all gone: its users go with it.
DestroyRoom ==
  /\ room' = FALSE
  /\ users' = <<>>

PoolHeldByMain == main \in {"start", "join", "rooms", "tp"}

\* The worker's local `task` is destroyed, after the future has been set. With it may
\* go the last pointer to the room, and with that the last one to the pool: its
\* destructor then joins the thread that it runs on, which throws out of a destructor.
\* The room's sockets cannot be closed when the io_service has gone.
DropTask(w) ==
  /\ Running
  /\ worker[w].at = "drop"
  /\ worker' = [worker EXCEPT ![w] = WorkerIdle]
  /\ Release(worker[w].request, w)
  /\ IF RoomHeldWithout(w) THEN UNCHANGED <<room, users, process>>
     ELSE /\ DestroyRoom
          /\ process' = IF PoolHeldByMain THEN "running" ELSE "aborted"
  /\ UNCHANGED <<main, pool, stop, io_service, kept, accepting, reading, length, joinedAt, io, queue,
                 outcome, round, log, netVars, writeVars>>

WorkerReturn(w) ==
  /\ Running
  /\ worker[w].at = "idle"
  /\ stop
  /\ queue = <<>>
  /\ worker' = [worker EXCEPT ![w].at = "exited"]
  /\ UNCHANGED <<io, queue, outcome, round, log, netVars, heapVars, mainVars, roomVars,
                 writeVars>>

-------------------------------------------------------------------------------
(* game_room::PassTask, broadcast and send *)

\* Mutant: only a raw pointer is kept of what the future held.
ReplyFreed == Free(outcome)

\* packet_fut.get() moves the pointer out of the future, into the local `packet`.
ReplyKept == KeepHeap

\* Mutant: a null packet is broadcast as well.
AnyOutcome == outcome # None

HasPacket == outcome \in Blocks

GetPacket ==
  /\ IoAt("wait")
  /\ HasPacket
  /\ io' = [io EXCEPT !.at = "broadcast", !.reply = outcome, !.next = 1]
  /\ outcome' = None
  /\ log' = Append(log, round)
  /\ ReplyKept
  /\ UNCHANGED <<queue, worker, round, netVars, mainVars, roomVars, writeVars>>

GetNothing ==
  /\ IoAt("wait")
  /\ outcome = "null"
  /\ io' = [io EXCEPT !.at = "rearm"]
  /\ outcome' = None
  /\ UNCHANGED <<queue, worker, round, log, netVars, heapVars, mainVars, roomVars, writeVars>>

\* Mutant: the newest write goes first.
QueuedFirst(s, b) == <<[round |-> round, block |-> b, late |-> FALSE]>> \o writes[s]

\* async_write is given the address of the packet's bytes.
QueuedWrite(s, b) == Append(writes[s], [round |-> round, block |-> b, late |-> FALSE])

Send ==
  /\ IoAt("broadcast")
  /\ io.next \in DOMAIN users
  /\ LET s == users[io.next]
     IN writes' = [writes EXCEPT ![s] = QueuedWrite(s, io.reply)]
  /\ io' = [io EXCEPT !.next = @ + 1]
  /\ UNCHANGED <<written, netVars, heapVars, mainVars, roomVars, queue, worker, outcome, round,
                 log>>

\* The writes that still point into the packet that PassTask lets go of.
Belated(s) == [i \in DOMAIN writes[s] |->
  [writes[s][i] EXCEPT !.late = @ \/ writes[s][i].round = round]]

BroadcastEnd ==
  /\ IoAt("broadcast")
  /\ io.next \notin DOMAIN users
  /\ Free(io.reply)
  /\ writes' = [s \in Sessions |-> Belated(s)]
  /\ io' = [io EXCEPT !.at = "rearm", !.reply = None]
  /\ UNCHANGED <<written, queue, worker, outcome, round, log, netVars, mainVars, roomVars>>

\* The next read is started and the handler returns; its `task` is destroyed.
Rearm ==
  /\ IoAt("rearm")
  /\ reading' = [reading EXCEPT ![io.session] = TRUE]
  /\ Release(io.request, None)
  /\ io' = IoIdle
  /\ UNCHANGED <<accepting, users, length, joinedAt, queue, worker, outcome, round, log, netVars,
                 mainVars, writeVars>>

-------------------------------------------------------------------------------
(* main() *)

\* The rooms begin to accept and the io thread starts; a port that is in use throws
\* out of main().
MainStart ==
  /\ Running
  /\ main = "start"
  /\ room' = TRUE
  /\ accepting' = TRUE
  /\ main' = "join"
  /\ io' = IoIdle
  /\ UNCHANGED <<process, pool, stop, io_service, kept, users, reading, length, joinedAt, queue,
                 worker, outcome, round, log, netVars, heapVars, writeVars>>

MainThrows ==
  /\ Running
  /\ main = "start"
  /\ process' = "aborted"
  /\ UNCHANGED <<main, room, pool, stop, io_service, kept, netVars, heapVars, roomVars, writeVars,
                 taskVars>>

\* Mutant: run() returns when nothing is read or accepted.
QuietEnough == ~accepting /\ \A s \in Sessions : ~reading[s]

\* io_service::run() has no operation outstanding and no handler to call.
NoWork ==
  /\ ~accepting
  /\ \A s \in Sessions : ~reading[s] /\ writes[s] = <<>> /\ written[s] = 0

RunReturns ==
  /\ IoAt("idle")
  /\ NoWork
  /\ io' = [io EXCEPT !.at = "returned"]
  /\ UNCHANGED <<queue, worker, outcome, round, log, netVars, heapVars, mainVars, roomVars,
                 writeVars>>

MainJoin ==
  /\ IoAt("returned")
  /\ main = "join"
  /\ main' = "rooms"
  /\ UNCHANGED <<process, room, pool, stop, io_service, kept, netVars, heapVars, roomVars,
                 writeVars, taskVars>>

TaskKeepsRoom == queue # <<>> \/ \E w \in Workers : worker[w].request # None

\* rooms is destroyed.
DestroyRooms ==
  /\ Running
  /\ main = "rooms"
  /\ main' = "tp"
  /\ kept' = TaskKeepsRoom
  /\ IF TaskKeepsRoom THEN UNCHANGED <<room, users>> ELSE DestroyRoom
  /\ UNCHANGED <<process, pool, stop, io_service, accepting, reading, length, joinedAt, netVars,
                 heapVars, writeVars, taskVars>>

\* tp is destroyed, and the pool with it unless a room still holds it.
DestroyTp ==
  /\ Running
  /\ main = "tp"
  /\ stop' = ~room
  /\ main' = IF room THEN "io_service" ELSE "pool"
  /\ UNCHANGED <<process, room, pool, io_service, kept, netVars, heapVars, roomVars, writeVars,
                 taskVars>>

\* Mutant: the destructor lets its threads go.
WorkersDetached == TRUE

\* The destructor of the pool joins its workers.
WorkersJoined == \A w \in Workers : worker[w].at = "exited"

PoolDestroyed ==
  /\ Running
  /\ main = "pool"
  /\ WorkersJoined
  /\ pool' = FALSE
  /\ main' = "io_service"
  /\ UNCHANGED <<process, room, stop, io_service, kept, netVars, heapVars, roomVars, writeVars,
                 taskVars>>

DestroyIoService ==
  /\ Running
  /\ main = "io_service"
  /\ io_service' = FALSE
  /\ main' = "logger"
  /\ UNCHANGED <<process, room, pool, stop, kept, netVars, heapVars, roomVars, writeVars, taskVars>>

\* The logger is destroyed and main() returns; the process ends with its threads.
MainReturns ==
  /\ Running
  /\ main = "logger"
  /\ process' = "exited"
  /\ UNCHANGED <<main, room, pool, stop, io_service, kept, netVars, heapVars, roomVars, writeVars,
                 taskVars>>

-------------------------------------------------------------------------------

Io ==
  \/ \E s \in Sessions : ReadNothing(s) \/ ReadFails(s) \/ HandleWrite(s)
  \/ GetPacket \/ GetNothing \/ Send \/ BroadcastEnd \/ Rearm \/ RunReturns

Worker(w) == TakeTask(w) \/ RunTask(w) \/ DropTask(w) \/ WorkerReturn(w)

Main ==
  MainStart \/ MainThrows \/ MainJoin \/ DestroyRooms \/ DestroyTp \/ PoolDestroyed
    \/ DestroyIoService \/ MainReturns

Next ==
  \/ \E s \in Sessions : Close(s) \/ Transfer(s) \/ WritesFail(s)
  \/ \E s \in Sessions : Accept(s) \/ ReadPacket(s)
  \/ AcceptFails
  \/ Io
  \/ \E w \in Workers : Worker(w)
  \/ Main

Spec == Init /\ [][Next]_vars

(***************************************************************************)
(* Threads that can go on do, and the writes to a connection that has      *)
(* ended are given up. Nobody has to connect, send, take bytes or close,   *)
(* and an accept need not fail.                                            *)
(***************************************************************************)
Fairness ==
  /\ WF_vars(Io)
  /\ WF_vars(Main)
  /\ \A w \in Workers : WF_vars(Worker(w))
  /\ \A s \in Sessions : WF_vars(WritesFail(s))

FairSpec == Spec /\ Fairness

-------------------------------------------------------------------------------
(* Properties *)

Rounds == 1 .. MaxRounds

Heaps == Blocks \cup {None}

\* Every pointer is null or points to an object of its type, and every count is in bounds.
TypeOK ==
  /\ peer \in [Sessions -> {"away", "open", "closed"}]
  /\ got \in [Sessions -> [count : Rounds \cup {0}, round : Rounds \cup {0},
                           bytes : Contents, late : BOOLEAN]]
  /\ memory \in [Blocks -> Contents]
  /\ live \subseteq Blocks
  /\ main \in {"start", "join", "rooms", "tp", "pool", "io_service", "logger"}
  /\ process \in {"running", "exited", "aborted"}
  /\ {room, pool, stop, io_service, accepting, kept} \subseteq BOOLEAN
  /\ users \in Seq(Sessions)
  /\ reading \in [Sessions -> BOOLEAN]
  /\ length \in [Sessions -> {"unknown", "some", "zero"}]
  /\ writes \in [Sessions -> Seq([round : Rounds, block : Blocks, late : BOOLEAN])]
  /\ written \in [Sessions -> Rounds \cup {0}]
  /\ io \in [at : {"none", "idle", "wait", "broadcast", "rearm", "returned"},
             session : Sessions \cup {None}, request : Heaps, reply : Heaps, next : Nat]
  /\ queue \in Seq(Blocks)
  /\ worker \in [Workers -> [at : {"idle", "run", "drop", "exited"}, request : Heaps]]
  /\ outcome \in Heaps \cup {"null"}
  /\ round \in Rounds \cup {0}
  /\ log \in Seq(Rounds)
  /\ joinedAt \in [Sessions -> 0 .. MaxRounds]

\* The broadcasts since session s has joined.
Due(s) == SubSeq(log, joinedAt[s] + 1, Len(log))

\* A client receives the broadcasts in order, each with what was broadcast, unless the
\* write was still outstanding when PassTask let go of its packet.
PromptBytesAreRight ==
  \A s \in Sessions :
    got[s].count > 0 =>
      /\ got[s].round = Due(s)[got[s].count]
      /\ got[s].bytes = got[s].round \/ got[s].late

\* What game_room.h says of broadcast(): every user gets the data. The code keeps the
\* packet of an asynchronous write only until all writes have been started.
ClientsGetTheData ==
  \A s \in Sessions : got[s].bytes = got[s].round

\* A handler holds a raw `this`: while one is outstanding or runs, its session and its
\* room exist, although connections end and main() may be on its way out; the pool that
\* a handler hands its task to is not stopping.
HandlersHaveTheirObjects ==
  /\ accepting => room
  /\ io.at \notin {"none", "returned"} => pool /\ ~stop /\ io_service
  /\ \A s \in Sessions :
       reading[s] \/ writes[s] # <<>> \/ written[s] > 0 \/ io.session = s => room /\ Joined(s)

\* The server that has started ends with all its threads and blocks gone, unless a
\* worker was still letting go of its last task when main() let go of the rooms.
CleanEndUnlessKept ==
  /\ process = "aborted" => kept \/ main = "start"
  /\ process = "exited" /\ ~kept =>
       ~pool /\ live = {} /\ \A w \in Workers : worker[w].at = "exited"

\* At the end of the connection of s its data_ held a header with an empty body: the
\* session's reads succeed for ever.
Spinning(s) == Joined(s) /\ length[s] = "zero"

\* Once its port accepts no more and every client has left, the process ends, whatever was
\* under way then. It does not if a connection has ended while data_ held a header with an
\* empty body: then run() never returns, and the process never ends.
ServerEnds ==
  (main # "start" /\ ~accepting /\ \A s \in Sessions : Joined(s) => peer[s] = "closed")
    ~> (process # "running" \/ [](process = "running" /\ \E s \in Sessions : Spinning(s)))

===============================================================================
