# A verification project for digital_content_game

`digital_content_game` is a small game server in C++ on Boost.Asio. Ten game rooms, one TCP
port each, share one io thread and one thread pool. A packet that a client sends to a room is
parsed by a task on the pool, answered by the game logic, and the answer is broadcast to all
members of the room. `DummyClient` is the client that goes with it. Beside these stand a logger,
a database manager for the table of the login server, and a few parts that nothing uses yet.

The TLA+ modules here model the parts that carry the program's logic. TLC checks them on small
instances. TLAPS proves all of the safety properties for every instance: any number of
workers, sessions, packets and calls, any size of a queue, a block or a buffer. `PROJECT.json` lists the runs, the theorems, the
hazards and, for each definition, the lines of code that it stands for.

## 1. The system

| part | state | operations | interacts with |
|---|---|---|---|
| `ThreadPool` (ThreadPool.h) | `tasks`, `stop`, a mutex, a condition variable, the workers | constructor, `enqueue`, worker loop, destructor | `PassTask` enqueues; `main` destroys |
| `game_room` (game_room.cpp) | the acceptor, `users`, `mtx`, the pool | `start_accept`, `handle_accept`, `PassTask`, `broadcast` | sessions, pool, io thread |
| `game_session` (game_room.cpp) | the socket, `data_` | `start`, `read_header`, `handle_read_body`, `send`, `handle_write` | its room, its client |
| `Packet::Parse` (packet_parser.hpp), `game_logic::do_work` | the room's `mtx` | run as a task, one packet to one reply or an exception | room, worker |
| packets (packet_structure.h, once for each program) | a packet's bytes; `data_` and `recv_buf`, which live as long as the connection | `Make_packet`, `Make_Body`, the constructor of `Packet` | session, client |
| `main` of the server (main.cpp) | the logger, the io_service, the pool, ten rooms | start, join, destruction in reverse order | everything |
| `DummyClient` (main.cpp, client.cpp) | the socket, `recv_buf`, an io thread and a main thread | `connect`, `send`, `read_header`, `handle_read_body`, `close` | a room |
| `Logger` (Logger.cpp) | `LogQueue`, `mtx`, the file stream | `L` in two forms, `WriteLog`, destructor | any thread |
| `DbManager` (dbmanage.cpp) on the sqlite wrapper (sqlite_modern_cpp.cpp) | the connection and its statements | `GetUser`, `Update`, close | the table of the login server |
| `CppSingleton` (singleton.hpp) | the instance and a flag | `Instance`, `destroyInstance` | nobody |
| `Login::DoLogin` (login.cpp), with cryptlite's sha256 | a socket, a buffer, a hash in progress | connect, hash, send, one read | the login server |

How a packet travels: `read_header` reads 8 bytes into `data_`, takes the length out of them and
starts the read of the body; `handle_read_body` copies `data_`, enqueues `Parse` on the pool and
**waits on the io thread** for the future; a worker takes the room's mutex, reads the number out
of the text, and `do_work` makes a new packet of it; the io thread sends that packet to every user
and asks for the next header. `handle_accept` takes the same mutex on the io thread while it adds
a session to `users`.

What is hard about it:

* *threads*: the pool's condition variable, its destructor, and the room's mutex between the io
  thread and the workers; the logger's lock, which covers the file but not the console;
* *callbacks*: one outstanding read per session and one accept per room, each re-armed by the
  handler before; a handler that does not re-arm ends its chain, and `read_header` never looks
  at its error;
* *stale state*: `data_` and `recv_buf` are never cleared, `users` never forgets, a database row
  is read and written back in two statements;
* *lifetimes*: handlers and writes hold raw pointers to sessions, rooms and packets that shared
  pointers elsewhere keep alive, or do not; a worker may be the last to hold a room;
* *partial failure*: the archive throws inside a task, a statement fails, the process dies with
  lines in the logger's queue;
* *numbers*: a length that one side counts in bytes and the other in characters.

What makes the parts correct:

* pool: every accepted task is started once, in order, and before the destructor returns; nobody
  sleeps while there is something to do;
* rooms: all users see the same replies in the same order; each packet is answered once, in its
  sender's order; reads stay in step with packets; no thread waits in a cycle;
* lifetimes: no handler outlives its objects, a client gets the bytes that were broadcast, and the
  server ends with its threads joined;
* DummyClient: what arrives is one run of its packets, and "end" ends it; the hash that the login
  build sends is that of the whole password, and its answer is the server's;
* codec: the number read is the number sent, unless a longer one went through the same buffer
  before; with one DummyClient, which counts upwards, that never happens, with two it does;
* logger: each line is in the file once, in the order of the calls; what can be lost is bounded;
* database manager: a copy of a user is as good as its row until somebody updates the session, no
  answer that is not in the table, and a row that holds what was last written.

## 2. Modules and plan

| module | what it is |
|---|---|
| `TaskPool` | the promise of the pool: tasks are accepted in a queue or refused, started in its order, finished; after a close none is accepted, and it is closed when all have finished |
| `ThreadPool` | the pool with its lock, wait set and notifications; implements `TaskPool` |
| `OrderedBroadcast` | the promise of a room: one log, nothing in it twice, each user handed the log from its joining on |
| `GameRoom` | clients, network, io thread, rooms, sessions, and tasks on a pool; implements `OrderedBroadcast` |
| `Lifetimes` | the memory of packets with outstanding writes, and the objects of `main` with their holders, to the end of the process |
| `PacketCodec` | what becomes of a number on the way to the server and back |
| `DummyClient` | the two threads of the test client, its connection, and the console |
| `Login` | the other build of DummyClient: `DoLogin` and the hash it sends |
| `DummyClientMain` | the two builds of DummyClient's `main` side by side |
| `Logger` | threads that log, the destructor, the end of the process |
| `DbManager` | game servers and the login server on one table |
| `ThreadPoolProofs`, `GameRoomProofs`, `LifetimesProofs`, `PacketCodecProofs`, `LoginProofs`, `DummyClientProofs`, `LoggerProofs`, `DbManagerProofs` | the theorems about each; those about `DummyClientMain` are in `DummyClientProofs`, which extends `LoginProofs` |
| `MC...` | the instances of each for TLC |

The server is modelled in three layers that rest on each other instead of in one product, whose
state space would be out of reach. `GameRoom` does not repeat the pool's internals: its tasks wait
in a queue and a worker takes the first, which is what `TaskPool` allows and `ThreadPool` is proved
to implement. `PacketCodec` takes from `GameRoom` that the io thread waits for each task before it
goes on and broadcasts in one order (`SameOrderForAll`), and makes one step of a packet's answer.
`Lifetimes` takes from `GameRoom` that the mutex is free when the io thread asks for it
(`IoNeverBlocksParser`), makes one step of each handler up to its blocking points, and adds what
`GameRoom` leaves out: writes that take their time, memory, and destruction. One step stands there
for the reads of header and body; whether the body was empty is kept (`length`), since the end of a
connection turns on it.

What the plan has left:

1. proofs: the step properties behind the liveness of `GameRoom`, such as that each packet in
   flight gets one outcome;
2. models: nothing that the programs run is left out except what section 6 lists.

A module with a theorem reaches no RECURSIVE operator; recursion is a recursive function or a fold.

## 3. The models

### ThreadPool and TaskPool

A worker is at a label of its loop (`lock`, `check`, `park`, `wait`, `run`, `drop`, `exited`), a caller
of `enqueue` and the destructor likewise; `queue_mutex` is the thread that holds the mutex. The wait of a condition variable is
split where the code can be interrupted: `Park` releases the lock and enters the wait set in one
step, as `wait` does, and the look at the predicate before it is a step of its own under the lock.
A notification wakes one member of the wait set, or nobody if it is empty; `SpuriousWakeup` wakes
anyone at any time, which is what the predicate is for. A woken worker must get the lock again.
`enqueue` notifies after it has released the lock, so other steps fall between.

`TaskPool` has the queue, the tasks that run, are done or were refused, and a phase. The refinement
mapping (`Phase`, `RunningTasks`, ... in `ThreadPool`) reads these off the detailed state.

### GameRoom

The io thread is idle or inside one handler, at one of its blocking points: before the mutex in
`handle_accept`, at the future in `PassTask`, in the broadcast loop, before the next read. A socket
is a sequence of cells, two for a header and `packet_len` for a body, each marked with the packet
it belongs to, so that a read that gets out of step shows. A client may connect, send any message,
and disconnect at any moment with any part of its last packets lost. `read_header` goes on after
an error, as in the code, with the header that `data_` held; before the first packet `data_` is
uninitialised, and its length and event are any that can be.

A message is one of three kinds: a TESTER packet with a number, a TESTER packet whose body the
archive cannot read (`Parse` throws, `PassTask` catches), and one whose event `Parse` does not know
(a null packet). The digits of a number are `PacketCodec`'s.

The strand of a session has no effect with one io thread and is left out. `broadcast` ends where
each session's `async_write` begins; `Lifetimes` goes on from there.

`ImplementsOrderedBroadcast` and `KeepsBroadcastPromise` map `users`, `log`, `joinedAt` and what each
session was handed onto `OrderedBroadcast`, which has no thread, mutex or socket. The mapping is the
identity on these four; the substance is that joins and broadcasts, taken apart into steps of the
io thread and the workers, still come to whole joins and whole broadcasts, one after the other.

### Lifetimes

A packet is a block of a small heap. The shared pointers to a request (in the io thread's `task`
and in the copy on the pool) and to a reply (in the future, then in the local `packet` of `PassTask`) are
followed; the last one that goes frees the block, and a freed block may be allocated again, be
written over, or stay as it is. An outstanding `async_write` has the block's number and takes the
content at the moment the network does. `late` marks a write that was still outstanding when
`PassTask` let go of its packet; `PromptBytesAreRight` speaks of the others, and the run
`life_write` shows what late ones may carry. A client that leaves takes what it got with it.

At the end of a connection `read_header` takes up the length that `data_` holds: that of the last
packet, of a last header without its body, or what the memory held before the first. `length` says
what has shown of it: a reply to the session's packet or a read that failed means that it is not zero
(`"some"`), a read of nothing that succeeded that it is (`"zero"`), and between the two it is either.
`ReadNothing` is that read, with the task that it enqueues and the wait for it, and it may be
repeated without bound; `ReadFails` is the one that ends the chain.

`main` is followed through its objects: `rooms`, `tp` and `_io_service` are destroyed in this order
once the io thread is joined. A room is held by `rooms` and by every task, the pool by `tp` and by
every room. The io thread can return while a worker has yet to drop its last task, since the
future is set before; that worker then destroys the room, and when `tp` has gone as well the pool, on
one of the pool's own threads, where the join of itself throws. `CleanEndUnlessKept` says that
this race is the only way to such an end.

### DummyClient, Login and DummyClientMain

The main thread makes the client, whose constructor starts the connect, sends its packets and then
reads words; the io thread calls the handlers. A write that is started before the connection is
up fails at once; one that is outstanding is taken, with its packet perhaps freed, or aborted by the
end of the connection or by `close()`. `close()` also aborts a pending connect, whose handler then
calls `exit(1)`. `read_header` goes on after an error with the header that `recv_buf` holds, as on
the server. What the server sends is whole packets with a body, as `GameRoom` shows.

`Login` has the addresses tried in turn, the bytes of the password fed to the hash one by one, the
padding in one block or two, the request, and the one read. Characters are named by their places
and a block's compression appends the block to those before: what is compared with the padding
rule of the SHA-256 standard is the sequence of blocks that is compressed. The compression's
arithmetic and base64 are taken to lose nothing. The size of a block, the bytes of the length and
the word are constants; in the run a block has 5 cells, 2 of them for the length, and a word 16
values, so that passwords of up to 11 characters end at every place of a block, need the
extra block, and carry into the high word.

`DummyClientMain` has the state of both and lets one of them run.

### PacketCodec

A body is a fixed text followed by digits. `Make_packet` stores the length of the body in bytes;
`Make_Body` copies that many *characters* out of a buffer that still holds the ends of longer
bodies, and reads digits until something else follows. On the server a terminator stands behind
the copy, on the client nothing does, and the copy may run on into the stack. A number over the
largest `UINT` makes the archive throw: the server then answers nothing, the client reports it and
goes on. The model does this with binary digits, a `UINT` of four of them and a prefix of one
character; as in the program the copy is long enough to reach all the stale digits for some
numbers and not for others.

### Logger

Each call shows its line on the console, takes the lock, pushes, and, when the queue is over
`QueueMax`, writes the queue line by line before it releases the lock. The file stream passes on
any part of what it was given; `Die` ends the process at any point and takes the rest. The
destructor takes no lock and starts only when no call is under way, as `main` guarantees.

### DbManager

SQLite runs each statement as a transaction, so a statement is one step, or a failure that changes
nothing. `GetUser` runs its callback for each row that matches and keeps the last; when none does,
its local user has an empty session and integers that nobody set. `Update` changes every row that
has the user's session; if there is none it changes nothing and does not complain. `seen` is the
history of what each manager's copy was when `GetUser` returned it. The login server, which the repository only
describes (dbmanage.h:13-32), gives rows fresh sessions and takes them away. `_extract` leaves its
statement prepared and `sqlite3_close_v2` then keeps the connection.

`ReadsStandUntilUpdated` says what the two statements of a read and a later write can miss: while
the session of a copy lasts and nobody has updated it since the copy was read, its row is as it was
then, whatever logins, logouts and updates of other sessions came between. That of two updates of one session the later
replaces the earlier is what the code does. `AnswerIsStored` has one exception: asked for the empty
session when no row has it, `GetUser` returns the local user that no row has filled. A copy that
was read with the empty session belongs to nobody, and its update goes to every row that is logged
out by then: `ReadsStandUntilUpdated` says nothing of such copies.

## 4. The runs

| run | instance | what it shows |
|---|---|---|
| `pool` | 3 workers, 2 callers, 3 tasks, the destructor at any time | order, at most once, draining, no stranded task, no worker asleep through the stop, refinement of `TaskPool` with its fairness |
| `room_order` | 1 room, 2 clients with 2 packets each of 3 kinds, 1 worker | same order for all, one answer per packet in order, framing, no cycle of waits, refinement of `OrderedBroadcast` |
| `room_progress` | 1 room, 2 clients with 1 packet each of 2 kinds, 1 worker | connections join, packets are answered, broadcasts reach everybody, reads of a closed connection end |
| `life` | 2 sessions, 2 packets, 2 blocks, 1 worker, `main` from start to end | prompt writes carry the right bytes in order, handlers have their objects, clean end, the server ends unless an empty header keeps it |
| `client` | 3 packets out, 2 in; 2 addresses, passwords of 0 to 11 characters | one run of packets, io thread lives with the connection, "end" ends the process; the hash is the password's, the answer the server's |
| `codec` | 2 clients, 2 numbers each of up to 4 digits, buffers with and without old digits | a buffer is the overlay of all it was given, exact unless an earlier body was longer |
| `logger` | 2 threads, 2 calls each of both forms of `L`, a queue of 1 | no line lost or repeated, order of calls, bound, complete after the destructor, every call returns |
| `db` | 2 managers with 2 calls each, 2 users, 2 sessions | answers are stored rows, a row is as it was read until its session is updated, the last update of a session stands |

Four runs show where the code and what it says of itself differ, each with a counterexample:
`life_write` (a client whose writes are slow gets bytes that were never broadcast), `logger_level`
(the level given to a log line appears nowhere), `db_columns` (PDefence is written into PAttack and
PDefence never) and `db_leak` (the statement of every `GetUser` stays prepared).

A run is repeated with `tlc -config <run>.cfg <module>.tla` in this directory (the .cfg has the
run's name, `PROJECT.json` the module), the proofs with `tlapm <component>Proofs.tla`.

Every run may stop: clients have no packets left, the pool is destroyed, calls are used up. So
deadlock is not reported, and that nobody is stuck is stated as liveness instead
(`KeepsTaskPoolPromise`, `PacketsAnswered`, `ServerEnds`, `EndIsTheEnd`, `EverythingReturns`).

**Bounds.** Three workers and two callers are enough for a notification to reach the wrong one of
two sleepers while a third is between its check and its wait. Two packets per client are enough
for a stale header to follow a good one, for a packet to be queued behind another, and for an
error to fall between header and body; two clients for a join between two broadcasts and for two
senders to interleave. The io thread waits for each task, so a second worker would never have
work before the first has its reply; what the first does afterwards, `Lifetimes` has with one worker
too: a second would only take the next task while the first lets go of its own. In `Lifetimes` two
blocks are one more than the workers, so that a request and its reply fill the heap and the next
packet reuses a block that a late write points into; two rounds are enough for that, and the reads
of nothing at the end of a connection are not counted as rounds. Rooms meet
in the io thread and in the pool only, and the io thread is in one handler at a time, so
one room stands for the ten. A queue of one lets a flush begin with the
second line, while the other thread shows a line or waits for the lock. In `client` three packets let one be lost before the connection is up, one arrive and one be lost
after its end. `MaxSends`, `MaxCalls` and the set of programs only bound how long the history gets.

**Fairness.** A thread that can go on does (weak fairness of workers, callers inside `enqueue`, a
destructor that has begun, a handler that has begun, threads inside `L`). Asio hands completions
to its thread in the order in which they arrive, so a handler that is ready again and again is
called: strong fairness of accepts and reads. Locks that are released again and again are
got in the end where the pool needs it; in `Logger` weak fairness is enough because the calls are
bounded. In `Lifetimes` writes to a connection that has ended fail in the end, as TCP sees to; in
`DummyClient` each kind of handler that is ready is called. Nobody is obliged to enqueue, destroy,
connect, send, take bytes, disconnect, type, log or die, and an accept need not fail.

**What the liveness of rooms says.** `ReadsEnd` has an exception on purpose: when a connection ends
after a packet with an empty body, `read_header` finds the length 0 in the old header, the read
of no bytes succeeds, and the two handlers follow each other for ever. `EndIsTheEnd` has the same
exception on the client's side. `ServerEnds` has it too, in full: once nobody can connect
and every client has left, the process ends, or some session reads nothing for ever and `run()`
never returns. That this is no escape from a case that ends after all is the theorem `EmptyHeaderNeverEnds`.

Other properties allow what the code does and say that nothing else happens: `ConnectionsJoin` an
accept that was refused, `IoOutlivesConnection` a `run()` that returned before the connect was posted,
`AnswerIsFromServer` a part of the answer, `PacketsFormOneRun` any bytes in a packet that
was dropped while it was being written.

## 5. The proofs

The theorems hold for all values of the constants that the assumption of the model allows:
`PoolAssumption`, `RoomAssumption`, `LifetimeAssumption`, `LoggerAssumption`, `DbAssumption`,
`LoginAssumption`, `ClientAssumption` and `CodecAssumption`. Most of what these say is that names are
distinct; the rest is one worker at least in the pool, more blocks of memory than workers (no allocation fails),
a body of at least one cell for a packet that the archive can read, a word of the length that is a
multiple of 8 greater than 8, and passwords short enough not to set `corrupted_`. They stand with the constants, and
TLC evaluates them in each run. The bounds of section 4 (`MaxSends`, `MaxCalls`, `MaxRounds`) are
constants too, so the theorems hold for histories of any length.

No property below is inductive alone. Each module begins with the parts of the inductive invariant
that the property needs. TLC checked each of these invariants on the instance of the run before
it was proved. Then there is a lemma for each part or each action, and the theorems at the
end follow from the invariant.

| module | proved for every instance |
|---|---|
| `ThreadPoolProofs` | `TypeOK`, `StartedInOrder`, `RunOnce`, `DrainedAtJoin`, `NoStrandedTask`, `NoSleepThroughStop`, `ImplementsTaskPool`, and `NoPushAfterStop` of every step |
| `GameRoomProofs` | `TypeOK`, `SameOrderForAll`, `AnsweredOnceInOrder`, `ReadsStayFramed`, `IoNeverBlocksParser`, `ImplementsOrderedBroadcast` |
| `LifetimesProofs` | `TypeOK`, `PromptBytesAreRight`, `HandlersHaveTheirObjects`, `CleanEndUnlessKept`, and that an empty header keeps `main` in `join()` (`EmptyHeaderNeverEnds`) |
| `DummyClientProofs`, `LoginProofs` | `TypeOK`, `PacketsFormOneRun`, `IoOutlivesConnection`, `HashIsOfPassword`, `AnswerIsFromServer` |
| `PacketCodecProofs` | `TypeOK`, `ExactUnlessShorter`, `BufferIsOverlay`, and that a number's text is read back as that number |
| `LoggerProofs` | `TypeOK`, `NothingLostOrRepeated`, `RealTimeOrder`, `ClosedIsComplete` |
| `DbManagerProofs` | `LastUpdateStands`, `ReadsStandUntilUpdated`, `AnswerIsStored` |

### ThreadPool

`IInv` adds to the properties:

* `Typed` and `Locking`: each label of a thread says whether it holds the lock, and the lock has one
  holder;
* `ParkInv`: a worker is in the wait set exactly when its label says so;
* `ExitInv`: a worker that has returned has seen `stop` with an empty queue, after which nothing is
  pushed;
* `Places` and `AcceptedInv`: each accepted task is in exactly one place, the queue, a worker's hands
  or the started ones.

`NoStrandedTask` is the heart of it: while the queue holds a task,
some worker is awake or the notification for it has still to come. It survives `Park` because a
worker parks only under the lock and only after it has seen the queue empty and `stop` unset, and
nothing can be pushed before it has released the lock. `PoolRefinement` then takes each step to the
step of `TaskPool` that it is, or to a stutter.

### GameRoom

* `Entry`: a session comes from the backlog through `handle_accept` into `users` once; before that
  nothing is read from it or sent to it, and the io thread's handler has a session of the kind it needs.
* `Framing`: behind the event of each packet in a stream stand its length, its body and the next
  event, as far as the stream goes (`StreamAt`), and the cells that the outstanding read takes are the
  ones that `data_` announces (`HeadAt`). A cut stream keeps this, which is why an ended
  connection can repeat an old header but cannot shift the reads.
* `TaskInv`: one task at most is queued, run or done, and only while the io thread waits for it. This is
  what the wait in `PassTask` gives, and the reason why `data_` and the pool's copy agree.
* `LogInv`: a log has replies to packets whose headers were read, and while a body is awaited
  that can still come, none to that packet (`Unanswered`). A repeated header must not produce a second reply.
* `MutexInv`: the io thread has a mutex only while it adds a session, a worker only while it parses.
  With `TaskInv` the two cannot happen at once, hence `IoNeverBlocksParser`.
* `BroadcastInv`: everybody has been sent the log from its joining on, but for the reply that
  the loop is at. `SameOrderForAll` and the refinement follow.

`AnswerInv` is a second invariant that rests on this one. While a client stays connected, the events in its
stream are exactly those behind the header in `data_` (`SentInv`), a task carries the whole of that
packet and its outcome is an answer exactly if the packet is to be answered (`FlightInv`), and the answers in the log are
those due (`AnsweredInv`). `AnsweredOnceInOrder` reads that off at the next header. It says nothing of the last
packets of a client that leaves, which may be lost, and neither does the code.

### Lifetimes

`MainInv` says how far `main` can be while the io thread does what it does, `IoInv` and `TaskInv` who
has the one request, `HeapInv` that the live blocks are exactly those with an owner (none leaks) and that
no request shares a block with a reply, `WriteInv` that a write that is not late points into the
packet that is being broadcast, `PositionInv` at which broadcast each client is, and `EndInv` who can still hold
the room when `main` has let go of it. `HandlersHaveTheirObjects` follows from the first: the
io thread returns only when no handler can be called any more, and `main` destroys nothing before.
`PromptBytesAreRight` needs `HeapInv`, `WriteInv` and `PositionInv`. `CleanEndUnlessKept` needs `EndInv`. `SpinInv` has that a session whose read of nothing has succeeded
is being read or handled, so `run()` has an operation outstanding at every moment after.

### DummyClient and Login

`ConnectionInv` follows the one connection: an io thread that has handled the connect has a read
outstanding until the connection ends, so it does not run out of work before. `RunInv` says that while the
connection is up, the packets that the server has, those outstanding and the one in hand are consecutive.

In `Login` the compressed blocks are shown to be the standard's padded message, cell by cell, for
passwords and blocks of every size. `HashInv` says which character is in which cell while bytes are fed
(`CellsInv`), that a block is never left full between two turns of the loop (`FedInv`), and that the two words
of the length hold the number of bits, carry included (`LengthInv`). The cases of `pad_message` (room for the length
in the last block, or not) are then arithmetic about the next multiple of a block.

### PacketCodec

`CodecInv` has that all on its way was made of numbers (`Shape`), that wherever a cell was reached at
all, some body was the last to reach it (`OverlayInv`), and that what was read so far was read
exactly unless a longer body came before (`ExactInv`). A body that is no shorter than all before it
leaves in front of it its own digits and behind them what the memory held at first, so the copy
ends there (`LeadingText`), on the server and on the client, whose copy is never all digits then.

The rest is arithmetic for every base and every `UINT`. `Digits` is a recursive function and
`ValueOf` a fold, of which TLA+ defines only that they are chosen. That the functions exist
(`DigitsExist`, `FoldExists`), that the value of a text with one digit more is the base times the
value before plus the digit (`ValueOfAppend`), that a text has its number's value
(`ValueOfDigits`) and that a larger number has no shorter text (`DigitsGrow`) are inductions. The library's
induction theorems have an operator as a parameter, which the provers cannot instantiate;
`InductionBySet` states induction for a set of numbers instead and follows from the well-foundedness of
`<` on `Nat`, so each proof defines the set of the numbers for which its fact holds. `MaxDigits` is
the length of the largest number's text, so that no text leaves the area.

### Logger

`PlacesInv` gives the place of every line: the file begins `pushed`, and behind it come those lines of the
queue that the loop has yet to write. `LoopInv` says that the loop is run by the holder of the lock or
by the destructor, `RoomInv` that the queue has room between calls, `GivenInv` which lines
`WriteLog` has taken, and `OrderInv` that a call under way already has in front of it all that
returned before it began.

### DbManager

`TokensAreGivenOut`: no session is in a row, a copy or the history that the login server has not given
out. So the row of a fresh session starts without an update of its own and no copy has been read in it, which is
what makes `LastUpdateStands` and `ReadsStandUntilUpdated` inductive. `OneRowEach`: no session is in two rows,
so an update of another session leaves the row alone. `AnswerIsStored` is a property of single steps and
needs only the types.

### What is only model-checked

* Liveness, since the prover does not handle ENABLED: `KeepsTaskPoolPromise`, `ConnectionsJoin`,
  `PacketsAnswered`, `ReadsEnd`, `KeepsBroadcastPromise`, `ServerEnds`, `EndIsTheEnd`, `EverythingReturns`.
* The four runs with a counterexample.

## 6. What is not modelled

* Undefined behaviour that has no set of outcomes: `enqueue` or a notification on a destroyed pool,
  a log call during the logger's destructor, lengths over the size of a buffer, the characters
  that the constructor of `Packet` reads behind its text.
* The rest of a request that `Login`'s one `socket.send` (login.cpp:36) leaves unsent: the login
  server's side of it is not in the repository. And `~database_binder` runs no statement while an
  exception is handled (sqlite_modern_cpp.cpp:87): no code here calls `Update` or `GetUser` in a `catch`.
* Wording, times, the output on the console other than the logger's, and memory that is leaked
  without a state to show it (the object that `Parse` allocates when the archive throws).
* The arithmetic of sha256's compression and of base64: pure functions without a state, taken from
  a library; base64's decoder is called by nobody.
* Code that is not built, not called or not the project's: the old `game_session.cpp`, the empty
  `manage_server` and `UnitTest1`, `CppSingleton`, which nothing instantiates, `sqxx`, which no project
  file compiles, and SQLite's headers. These are most of the repository by size: `sqlite3.h` and
  `sqlite3ext.h` have 9000 lines of declarations and `sqxx` 3700, of 16300. The map can cover little more than the
  2000 lines that the two programs are made of, and names those that have behaviour.
