---------------------------- MODULE LifetimesProofs ----------------------------
(***************************************************************************)
(* Proofs about Lifetimes, for every set of sessions, workers and blocks:  *)
(* handlers have the objects they point to, the process ends with nothing  *)
(* left behind unless a worker kept the room, and what a client is sent    *)
(* while PassTask holds the packet is what was broadcast.                  *)
(*                                                                         *)
(* The inductive invariant IInv says how far main() can be while the io    *)
(* thread does what it does, which task is under way, which blocks have an *)
(* owner, what the outstanding writes point to, and where in the sequence  *)
(* of broadcasts each client is.                                           *)
(***************************************************************************)
EXTENDS Lifetimes, SequenceTheorems, TLAPS

-------------------------------------------------------------------------------
(* The parts of the inductive invariant *)

\* main() starts the io thread and waits for it before it takes anything down, and the
\* io thread returns only when there is nothing left to do.
MainInv ==
  /\ main = "start" <=> io.at = "none"
  /\ main = "start" => ~accepting /\ users = <<>>
  /\ main \in {"start", "join"} => pool /\ ~stop /\ io_service
  /\ main \in {"join", "rooms"} => room
  /\ main \notin {"start", "join"} => io.at = "returned"
  /\ io.at = "returned" => NoWork
  /\ accepting => main = "join"

\* Only a session in users has anything outstanding, and it got there once.
SessionInv ==
  /\ \A s \in Sessions :
       reading[s] \/ writes[s] # <<>> \/ written[s] > 0 \/ io.session = s => Joined(s)
  /\ \A s \in Sessions : peer[s] = "away" => ~Joined(s) /\ got[s] = NothingGot
  /\ \A s \in Sessions : main \in {"start", "join"} /\ peer[s] # "away" => Joined(s)
  /\ \A i, j \in DOMAIN users : users[i] = users[j] => i = j

Handling == io.at \in {"wait", "broadcast", "rearm"}

\* What the io thread has in hand. A body was read in some round unless data_ was read
\* at the end of a connection.
IoInv ==
  /\ Handling => io.session \in Sessions /\ io.request \in Blocks
  /\ io.at = "wait" => round > 0 \/ length[io.session] = "zero"
  /\ io.at = "broadcast" => round > 0
  /\ ~Handling => io.session = None /\ io.request = None
  /\ IF io.at = "broadcast" THEN io.reply \in Blocks /\ io.next > 0 ELSE io.reply = None

\* One task is waited for: it is queued, run by one worker, or has an outcome.
TaskInv ==
  /\ queue # <<>> =>
       /\ queue = <<io.request>> /\ io.at = "wait" /\ outcome = None
       /\ \A w \in Workers : worker[w].at # "run"
  /\ \A w \in Workers :
       /\ worker[w].at \in {"run", "drop"} <=> worker[w].request # None
       /\ worker[w].at = "run" =>
            /\ worker[w].request = io.request /\ io.at = "wait" /\ outcome = None
            /\ \A v \in Workers : worker[v].at = "run" => v = w
       /\ worker[w].at = "exited" => stop
  /\ outcome # None => io.at = "wait"
  /\ outcome \in Blocks => length[io.session] # "zero"

\* The blocks that something of the program points to, besides the writes.
Owned ==
  {b \in Blocks : b \in {io.request, io.reply, outcome} \/ \E w \in Workers : worker[w].request = b}

\* No block leaks, and a reply shares none with a request.
HeapInv ==
  /\ live = Owned
  /\ \A b \in Blocks : b = io.reply \/ b = outcome =>
       /\ memory[b] = round
       /\ HoldersOf(b) = {}

\* The last reply in the log is the one that is being broadcast.
LogInv ==
  /\ Len(log) <= round
  /\ io.at = "wait" /\ length[io.session] # "zero" => Len(log) < round
  /\ io.at = "broadcast" => log # <<>> /\ log[Len(log)] = round

WriteRecord == [round : Rounds, block : Blocks, late : BOOLEAN]

\* A write that is not late points into the packet that is being broadcast.
WriteInv ==
  \A s \in Sessions : \A i \in DOMAIN writes[s] :
    ~writes[s][i].late =>
      io.at = "broadcast" /\ writes[s][i].block = io.reply /\ writes[s][i].round = round

\* The broadcast under way that s has still to be sent.
Behind(s) ==
  IF io.at = "broadcast" /\ \E i \in DOMAIN users : io.next <= i /\ users[i] = s THEN 1 ELSE 0

\* The broadcasts that s has been sent.
SentTo(s) == Len(log) - joinedAt[s] - Behind(s)

\* A client gets the broadcasts since its joining, in order, and those of them that it
\* has yet to get are in its outstanding writes while the connection lasts.
PositionAt(s) ==
  /\ joinedAt[s] <= Len(log)
  /\ written[s] + Len(writes[s]) <= SentTo(s)
  /\ got[s].count + Len(writes[s]) <= SentTo(s)
  /\ peer[s] = "open" =>
       /\ got[s].count + Len(writes[s]) = SentTo(s)
       /\ \A i \in DOMAIN writes[s] : writes[s][i].round = log[joinedAt[s] + got[s].count + i]
  /\ got[s].count > 0 => got[s].round = log[joinedAt[s] + got[s].count]
  /\ got[s].count > 0 => got[s].bytes = got[s].round \/ got[s].late

PositionInv == \A s \in Sessions : peer[s] # "away" => PositionAt(s)

\* When main() lets go of the rooms and no task holds one, nobody does.
EndInv ==
  /\ main \notin {"start", "join", "rooms"} /\ ~kept =>
       ~room /\ queue = <<>> /\ \A w \in Workers : worker[w].request = None
  /\ stop => ~room
  /\ main = "pool" => stop
  /\ main \in {"io_service", "logger"} /\ ~kept => ~pool /\ \A w \in Workers : worker[w].at = "exited"
  /\ process = "exited" => main = "logger"
  /\ process = "aborted" => kept \/ main = "start"

\* A session whose data_ held an empty body at the end reads on or has its task on the pool.
SpinInv ==
  /\ \A s \in Sessions : length[s] = "zero" => reading[s] \/ io.session = s
  /\ kept => main \notin {"start", "join"}

IInv ==
  /\ TypeOK
  /\ MainInv
  /\ SessionInv
  /\ IoInv
  /\ TaskInv
  /\ HeapInv
  /\ LogInv
  /\ WriteInv
  /\ PositionInv
  /\ EndInv
  /\ SpinInv

-------------------------------------------------------------------------------
(* main(), the io thread and the task *)

\* main() waits for the io thread in every step.
LEMMA MainStep ==
  ASSUME TypeOK, MainInv, IoInv, [Next]_vars
  PROVE  MainInv'
<1> USE LifetimeAssumption DEF heapVars, netVars, mainVars, roomVars, writeVars, taskVars,
     KeepHeap, Running, IoAt, IoIdle, WorkerIdle, MainInv, NoWork
<1>1. ASSUME NEW s \in Sessions, Close(s) PROVE MainInv'
  BY <1>1 DEF Close
<1>2. ASSUME NEW s \in Sessions, Transfer(s) PROVE MainInv'
  BY <1>2 DEF Transfer
<1>3. ASSUME NEW s \in Sessions, WritesFail(s) PROVE MainInv'
  BY <1>3 DEF WritesFail
<1>4. ASSUME NEW s \in Sessions, Accept(s) PROVE MainInv'
  BY <1>4 DEF Accept
<1>5. ASSUME NEW s \in Sessions, ReadPacket(s) PROVE MainInv'
  BY <1>5 DEF ReadPacket, HandleBody
<1>6. CASE AcceptFails
  BY <1>6 DEF AcceptFails
<1>7. ASSUME NEW s \in Sessions, ReadFails(s) PROVE MainInv'
  BY <1>7 DEF ReadFails
<1>8. ASSUME NEW s \in Sessions, HandleWrite(s) PROVE MainInv'
  BY <1>8 DEF HandleWrite
<1>9. CASE GetPacket
  BY <1>9 DEF GetPacket
<1>10. CASE GetNothing
  BY <1>10 DEF GetNothing
<1>11. CASE Send
  BY <1>11 DEF Send
<1>12. CASE BroadcastEnd
  BY <1>12 DEF BroadcastEnd
<1>13. CASE Rearm
  BY <1>13 DEF Rearm
<1>14. CASE RunReturns
  BY <1>14 DEF RunReturns
<1>15. ASSUME NEW w \in Workers, TakeTask(w) PROVE MainInv'
  BY <1>15 DEF TakeTask
<1>16. ASSUME NEW w \in Workers, RunTask(w) PROVE MainInv'
  BY <1>16 DEF RunTask
<1>17. ASSUME NEW w \in Workers, DropTask(w) PROVE MainInv'
  BY <1>17 DEF DropTask, RoomHeldWithout, DestroyRoom
<1>18. ASSUME NEW w \in Workers, WorkerReturn(w) PROVE MainInv'
  BY <1>18 DEF WorkerReturn
<1>19. CASE MainStart
  BY <1>19 DEF MainStart
<1>20. CASE MainThrows
  BY <1>20 DEF MainThrows
<1>21. CASE MainJoin
  BY <1>21 DEF MainJoin
<1>22. CASE DestroyRooms
  BY <1>22 DEF DestroyRooms
<1>23. CASE DestroyTp
  BY <1>23 DEF DestroyTp
<1>24. CASE PoolDestroyed
  BY <1>24 DEF PoolDestroyed
<1>25. CASE DestroyIoService
  BY <1>25 DEF DestroyIoService
<1>26. CASE MainReturns
  BY <1>26 DEF MainReturns
<1>27. CASE UNCHANGED vars
  BY <1>27 DEF vars
<1>28. ASSUME NEW s \in Sessions, ReadNothing(s) PROVE MainInv'
  BY <1>28 DEF ReadNothing, HandleBody
<1> QED
  BY <1>1, <1>2, <1>3, <1>4, <1>5, <1>6, <1>7, <1>8, <1>9, <1>10,
     <1>11, <1>12, <1>13, <1>14, <1>15, <1>16, <1>17, <1>18, <1>19, <1>20,
     <1>21, <1>22, <1>23, <1>24, <1>25, <1>26, <1>27, <1>28
  DEF Next, Io, Worker, Main

\* Each read of nothing is followed by the next.
LEMMA SpinStep ==
  ASSUME TypeOK, MainInv, IoInv, SpinInv, [Next]_vars
  PROVE  SpinInv'
<1> USE LifetimeAssumption DEF heapVars, netVars, mainVars, roomVars, writeVars, taskVars,
     KeepHeap, Running, IoAt, IoIdle, WorkerIdle, TypeOK, SpinInv
<1>1. ASSUME NEW s \in Sessions, Close(s) PROVE SpinInv'
  BY <1>1 DEF Close
<1>2. ASSUME NEW s \in Sessions, Transfer(s) PROVE SpinInv'
  BY <1>2 DEF Transfer
<1>3. ASSUME NEW s \in Sessions, WritesFail(s) PROVE SpinInv'
  BY <1>3 DEF WritesFail
<1>4. ASSUME NEW s \in Sessions, Accept(s) PROVE SpinInv'
  BY <1>4 DEF Accept
<1>5. ASSUME NEW s \in Sessions, ReadPacket(s) PROVE SpinInv'
  BY <1>5 DEF ReadPacket, HandleBody, IoInv, Handling
<1>6. CASE AcceptFails
  BY <1>6 DEF AcceptFails
<1>7. ASSUME NEW s \in Sessions, ReadFails(s) PROVE SpinInv'
  BY <1>7 DEF ReadFails, ReadAfterError
<1>8. ASSUME NEW s \in Sessions, HandleWrite(s) PROVE SpinInv'
  BY <1>8 DEF HandleWrite
<1>9. CASE GetPacket
  BY <1>9 DEF GetPacket
<1>10. CASE GetNothing
  BY <1>10 DEF GetNothing
<1>11. CASE Send
  BY <1>11 DEF Send
<1>12. CASE BroadcastEnd
  BY <1>12 DEF BroadcastEnd
<1>13. CASE Rearm
  BY <1>13 DEF Rearm, IoInv, Handling
<1>14. CASE RunReturns
  BY <1>14 DEF RunReturns
<1>15. ASSUME NEW w \in Workers, TakeTask(w) PROVE SpinInv'
  BY <1>15 DEF TakeTask
<1>16. ASSUME NEW w \in Workers, RunTask(w) PROVE SpinInv'
  BY <1>16 DEF RunTask
<1>17. ASSUME NEW w \in Workers, DropTask(w) PROVE SpinInv'
  BY <1>17 DEF DropTask, RoomHeldWithout, DestroyRoom
<1>18. ASSUME NEW w \in Workers, WorkerReturn(w) PROVE SpinInv'
  BY <1>18 DEF WorkerReturn
<1>19. CASE MainStart
  BY <1>19 DEF MainStart, MainInv, IoInv, Handling
<1>20. CASE MainThrows
  BY <1>20 DEF MainThrows
<1>21. CASE MainJoin
  BY <1>21 DEF MainJoin
<1>22. CASE DestroyRooms
  BY <1>22 DEF DestroyRooms
<1>23. CASE DestroyTp
  BY <1>23 DEF DestroyTp
<1>24. CASE PoolDestroyed
  BY <1>24 DEF PoolDestroyed
<1>25. CASE DestroyIoService
  BY <1>25 DEF DestroyIoService
<1>26. CASE MainReturns
  BY <1>26 DEF MainReturns
<1>27. CASE UNCHANGED vars
  BY <1>27 DEF vars
<1>28. ASSUME NEW s \in Sessions, ReadNothing(s) PROVE SpinInv'
  BY <1>28 DEF ReadNothing, HandleBody, IoInv, Handling
<1> QED
  BY <1>1, <1>2, <1>3, <1>4, <1>5, <1>6, <1>7, <1>8, <1>9, <1>10,
     <1>11, <1>12, <1>13, <1>14, <1>15, <1>16, <1>17, <1>18, <1>19, <1>20,
     <1>21, <1>22, <1>23, <1>24, <1>25, <1>26, <1>27, <1>28
  DEF Next, Io, Worker, Main

\* A handler at work has its session and its request, and only a broadcast has a reply.
LEMMA IoStep ==
  ASSUME TypeOK, MainInv, IoInv, TaskInv, [Next]_vars
  PROVE  IoInv'
<1> USE LifetimeAssumption DEF heapVars, netVars, mainVars, roomVars, writeVars, taskVars,
     KeepHeap, Running, IoAt, IoIdle, WorkerIdle, TypeOK, IoInv, Handling, HasPacket, Allocate, ReplyKept
<1>1. ASSUME NEW s \in Sessions, Close(s) PROVE IoInv'
  BY <1>1 DEF Close
<1>2. ASSUME NEW s \in Sessions, Transfer(s) PROVE IoInv'
  BY <1>2 DEF Transfer
<1>3. ASSUME NEW s \in Sessions, WritesFail(s) PROVE IoInv'
  BY <1>3 DEF WritesFail
<1>4. ASSUME NEW s \in Sessions, Accept(s) PROVE IoInv'
  BY <1>4 DEF Accept
<1>5. ASSUME NEW s \in Sessions, ReadPacket(s) PROVE IoInv'
  <2>1. PICK b \in Blocks :
          io' = [at |-> "wait", session |-> s, request |-> b, reply |-> None, next |-> 0]
    BY <1>5 DEF ReadPacket, HandleBody
  <2>2. round \in Nat /\ round' = round + 1
    BY <1>5 DEF ReadPacket, HandleBody, Rounds
  <2> QED
    BY <2>1, <2>2
<1>6. CASE AcceptFails
  BY <1>6 DEF AcceptFails
<1>7. ASSUME NEW s \in Sessions, ReadFails(s) PROVE IoInv'
  BY <1>7 DEF ReadFails
<1>8. ASSUME NEW s \in Sessions, HandleWrite(s) PROVE IoInv'
  BY <1>8 DEF HandleWrite
<1>9. CASE GetPacket
  <2>1. length[io.session] # "zero"
    BY <1>9 DEF GetPacket, TaskInv
  <2> QED
    BY <1>9, <2>1 DEF GetPacket
<1>10. CASE GetNothing
  BY <1>10 DEF GetNothing
<1>11. CASE Send
  BY <1>11 DEF Send
<1>12. CASE BroadcastEnd
  BY <1>12 DEF BroadcastEnd
<1>13. CASE Rearm
  BY <1>13 DEF Rearm
<1>14. CASE RunReturns
  BY <1>14 DEF RunReturns
<1>15. ASSUME NEW w \in Workers, TakeTask(w) PROVE IoInv'
  BY <1>15 DEF TakeTask
<1>16. ASSUME NEW w \in Workers, RunTask(w) PROVE IoInv'
  BY <1>16 DEF RunTask
<1>17. ASSUME NEW w \in Workers, DropTask(w) PROVE IoInv'
  BY <1>17 DEF DropTask
<1>18. ASSUME NEW w \in Workers, WorkerReturn(w) PROVE IoInv'
  BY <1>18 DEF WorkerReturn
<1>19. CASE MainStart
  BY <1>19 DEF MainStart
<1>20. CASE MainThrows
  BY <1>20 DEF MainThrows
<1>21. CASE MainJoin
  BY <1>21 DEF MainJoin
<1>22. CASE DestroyRooms
  BY <1>22 DEF DestroyRooms
<1>23. CASE DestroyTp
  BY <1>23 DEF DestroyTp
<1>24. CASE PoolDestroyed
  BY <1>24 DEF PoolDestroyed
<1>25. CASE DestroyIoService
  BY <1>25 DEF DestroyIoService
<1>26. CASE MainReturns
  BY <1>26 DEF MainReturns
<1>27. CASE UNCHANGED vars
  BY <1>27 DEF vars
<1>28. ASSUME NEW s \in Sessions, ReadNothing(s) PROVE IoInv'
  <2>1. PICK b \in Blocks :
          io' = [at |-> "wait", session |-> s, request |-> b, reply |-> None, next |-> 0]
    BY <1>28 DEF ReadNothing, HandleBody
  <2>2. length'[s] = "zero"
    BY <1>28 DEF ReadNothing
  <2> QED
    BY <2>1, <2>2
<1> QED
  BY <1>1, <1>2, <1>3, <1>4, <1>5, <1>6, <1>7, <1>8, <1>9, <1>10,
     <1>11, <1>12, <1>13, <1>14, <1>15, <1>16, <1>17, <1>18, <1>19, <1>20,
     <1>21, <1>22, <1>23, <1>24, <1>25, <1>26, <1>27, <1>28
  DEF Next, Io, Worker, Main

\* The destructors run in their order, and leave a room only to a worker that kept it.
LEMMA EndStep ==
  ASSUME TypeOK, MainInv, TaskInv, EndInv, [Next]_vars
  PROVE  EndInv'
<1> USE LifetimeAssumption DEF heapVars, netVars, mainVars, roomVars, writeVars, taskVars,
     KeepHeap, Running, IoAt, IoIdle, WorkerIdle, TypeOK, EndInv, MainInv, TaskInv
<1>1. ASSUME NEW s \in Sessions, Close(s) PROVE EndInv'
  BY <1>1 DEF Close
<1>2. ASSUME NEW s \in Sessions, Transfer(s) PROVE EndInv'
  BY <1>2 DEF Transfer
<1>3. ASSUME NEW s \in Sessions, WritesFail(s) PROVE EndInv'
  BY <1>3 DEF WritesFail
<1>4. ASSUME NEW s \in Sessions, Accept(s) PROVE EndInv'
  BY <1>4 DEF Accept
<1>5. ASSUME NEW s \in Sessions, ReadPacket(s) PROVE EndInv'
  BY <1>5 DEF ReadPacket, HandleBody
<1>6. CASE AcceptFails
  BY <1>6 DEF AcceptFails
<1>7. ASSUME NEW s \in Sessions, ReadFails(s) PROVE EndInv'
  BY <1>7 DEF ReadFails
<1>8. ASSUME NEW s \in Sessions, HandleWrite(s) PROVE EndInv'
  BY <1>8 DEF HandleWrite
<1>9. CASE GetPacket
  BY <1>9 DEF GetPacket
<1>10. CASE GetNothing
  BY <1>10 DEF GetNothing
<1>11. CASE Send
  BY <1>11 DEF Send
<1>12. CASE BroadcastEnd
  BY <1>12 DEF BroadcastEnd
<1>13. CASE Rearm
  BY <1>13 DEF Rearm
<1>14. CASE RunReturns
  BY <1>14 DEF RunReturns
<1>15. ASSUME NEW w \in Workers, TakeTask(w) PROVE EndInv'
  BY <1>15 DEF TakeTask
<1>16. ASSUME NEW w \in Workers, RunTask(w) PROVE EndInv'
  BY <1>16 DEF RunTask
<1>17. ASSUME NEW w \in Workers, DropTask(w) PROVE EndInv'
  BY <1>17 DEF DropTask, RoomHeldWithout, DestroyRoom, PoolHeldByMain
<1>18. ASSUME NEW w \in Workers, WorkerReturn(w) PROVE EndInv'
  BY <1>18 DEF WorkerReturn
<1>19. CASE MainStart
  BY <1>19 DEF MainStart
<1>20. CASE MainThrows
  BY <1>20 DEF MainThrows
<1>21. CASE MainJoin
  BY <1>21 DEF MainJoin
<1>22. CASE DestroyRooms
  BY <1>22 DEF DestroyRooms, TaskKeepsRoom, DestroyRoom
<1>23. CASE DestroyTp
  BY <1>23 DEF DestroyTp
<1>24. CASE PoolDestroyed
  BY <1>24 DEF PoolDestroyed, WorkersJoined
<1>25. CASE DestroyIoService
  BY <1>25 DEF DestroyIoService
<1>26. CASE MainReturns
  BY <1>26 DEF MainReturns
<1>27. CASE UNCHANGED vars
  BY <1>27 DEF vars
<1>28. ASSUME NEW s \in Sessions, ReadNothing(s) PROVE EndInv'
  BY <1>28 DEF ReadNothing, HandleBody
<1> QED
  BY <1>1, <1>2, <1>3, <1>4, <1>5, <1>6, <1>7, <1>8, <1>9, <1>10,
     <1>11, <1>12, <1>13, <1>14, <1>15, <1>16, <1>17, <1>18, <1>19, <1>20,
     <1>21, <1>22, <1>23, <1>24, <1>25, <1>26, <1>27, <1>28
  DEF Next, Io, Worker, Main

\* There is never more than one task, and it is in one place.
LEMMA TaskStep ==
  ASSUME TypeOK, MainInv, IoInv, TaskInv, EndInv, [Next]_vars
  PROVE  TaskInv'
<1> USE LifetimeAssumption DEF heapVars, netVars, mainVars, roomVars, writeVars, taskVars,
     KeepHeap, Running, IoAt, IoIdle, WorkerIdle, TypeOK, TaskInv, IoInv, Handling
<1>1. ASSUME NEW s \in Sessions, Close(s) PROVE TaskInv'
  BY <1>1 DEF Close
<1>2. ASSUME NEW s \in Sessions, Transfer(s) PROVE TaskInv'
  BY <1>2 DEF Transfer
<1>3. ASSUME NEW s \in Sessions, WritesFail(s) PROVE TaskInv'
  BY <1>3 DEF WritesFail
<1>4. ASSUME NEW s \in Sessions, Accept(s) PROVE TaskInv'
  BY <1>4 DEF Accept
<1>5. ASSUME NEW s \in Sessions, ReadPacket(s) PROVE TaskInv'
  <2>1. queue = <<>> /\ outcome = None /\ \A w \in Workers : worker[w].at # "run"
    BY <1>5 DEF ReadPacket, HandleBody
  <2>2. PICK b \in Blocks :
          /\ queue' = Append(queue, b)
          /\ io' = [at |-> "wait", session |-> s, request |-> b, reply |-> None, next |-> 0]
    BY <1>5 DEF ReadPacket, HandleBody
  <2>3. queue' = <<b>>
    BY <2>1, <2>2
  <2> QED
    BY <1>5, <2>1, <2>2, <2>3 DEF ReadPacket, HandleBody
<1>6. CASE AcceptFails
  BY <1>6 DEF AcceptFails
<1>7. ASSUME NEW s \in Sessions, ReadFails(s) PROVE TaskInv'
  BY <1>7 DEF ReadFails
<1>8. ASSUME NEW s \in Sessions, HandleWrite(s) PROVE TaskInv'
  BY <1>8 DEF HandleWrite
<1>9. CASE GetPacket
  <2>1. queue = <<>> /\ \A w \in Workers : worker[w].at # "run"
    BY <1>9 DEF GetPacket, HasPacket
  <2> QED
    BY <1>9, <2>1 DEF GetPacket
<1>10. CASE GetNothing
  BY <1>10 DEF GetNothing
<1>11. CASE Send
  BY <1>11 DEF Send
<1>12. CASE BroadcastEnd
  BY <1>12 DEF BroadcastEnd
<1>13. CASE Rearm
  BY <1>13 DEF Rearm
<1>14. CASE RunReturns
  BY <1>14 DEF RunReturns
<1>15. ASSUME NEW w \in Workers, TakeTask(w) PROVE TaskInv'
  <2>1. queue = <<io.request>> /\ io.at = "wait" /\ outcome = None
        /\ \A v \in Workers : worker[v].at # "run"
    BY <1>15 DEF TakeTask
  <2>2. Head(queue) = io.request /\ Tail(queue) = <<>>
    BY <2>1
  <2>3. queue' = <<>> /\ worker' = [worker EXCEPT ![w] = [at |-> "run", request |-> io.request]]
        /\ io' = io /\ outcome' = outcome /\ stop' = stop
    BY <1>15, <2>2 DEF TakeTask
  <2>4. io.request # None
    BY <2>1
  <2> QED
    BY <2>1, <2>3, <2>4
<1>16. ASSUME NEW w \in Workers, RunTask(w) PROVE TaskInv'
  BY <1>16 DEF RunTask
<1>17. ASSUME NEW w \in Workers, DropTask(w) PROVE TaskInv'
  BY <1>17 DEF DropTask
<1>18. ASSUME NEW w \in Workers, WorkerReturn(w) PROVE TaskInv'
  BY <1>18 DEF WorkerReturn
<1>19. CASE MainStart
  <2>1. queue = <<>> /\ outcome = None /\ \A w \in Workers : worker[w].at # "run"
    BY <1>19 DEF MainStart, MainInv
  <2> QED
    BY <1>19, <2>1 DEF MainStart
<1>20. CASE MainThrows
  BY <1>20 DEF MainThrows
<1>21. CASE MainJoin
  BY <1>21 DEF MainJoin
<1>22. CASE DestroyRooms
  BY <1>22 DEF DestroyRooms
<1>23. CASE DestroyTp
  BY <1>23 DEF DestroyTp, EndInv
<1>24. CASE PoolDestroyed
  BY <1>24 DEF PoolDestroyed
<1>25. CASE DestroyIoService
  BY <1>25 DEF DestroyIoService
<1>26. CASE MainReturns
  BY <1>26 DEF MainReturns
<1>27. CASE UNCHANGED vars
  BY <1>27 DEF vars
<1>28. ASSUME NEW s \in Sessions, ReadNothing(s) PROVE TaskInv'
  <2>1. queue = <<>> /\ outcome = None /\ \A w \in Workers : worker[w].at # "run"
    BY <1>28 DEF ReadNothing, HandleBody
  <2>2. PICK b \in Blocks :
          /\ queue' = Append(queue, b)
          /\ io' = [at |-> "wait", session |-> s, request |-> b, reply |-> None, next |-> 0]
    BY <1>28 DEF ReadNothing, HandleBody
  <2>3. queue' = <<b>>
    BY <2>1, <2>2
  <2> QED
    BY <1>28, <2>1, <2>2, <2>3 DEF ReadNothing, HandleBody
<1> QED
  BY <1>1, <1>2, <1>3, <1>4, <1>5, <1>6, <1>7, <1>8, <1>9, <1>10,
     <1>11, <1>12, <1>13, <1>14, <1>15, <1>16, <1>17, <1>18, <1>19, <1>20,
     <1>21, <1>22, <1>23, <1>24, <1>25, <1>26, <1>27, <1>28
  DEF Next, Io, Worker, Main

\* A round is logged once, when its broadcast starts.
LEMMA LogStep ==
  ASSUME TypeOK, MainInv, IoInv, TaskInv, LogInv, [Next]_vars
  PROVE  LogInv'
<1>b. log \in Seq(Rounds)
  BY DEF TypeOK
<1>a. round \in Rounds => LET q == Append(log, round)
                          IN  q # <<>> /\ Len(q) = Len(log) + 1 /\ q[Len(log) + 1] = round
  BY <1>b, AppendProperties
<1> USE LifetimeAssumption DEF heapVars, netVars, mainVars, roomVars, writeVars, taskVars,
     KeepHeap, Running, IoAt, IoIdle, WorkerIdle, TypeOK, LogInv, IoInv, Handling
<1> DEFINE n == Len(log)
<1>0. n \in Nat /\ round \in Nat /\ round + 1 \in Nat /\ (n <= round => n < round + 1)
      /\ (n < round => n <= round)
  BY DEF Rounds
<1>1. ASSUME NEW s \in Sessions, Close(s) PROVE LogInv'
  BY <1>1 DEF Close
<1>2. ASSUME NEW s \in Sessions, Transfer(s) PROVE LogInv'
  BY <1>2 DEF Transfer
<1>3. ASSUME NEW s \in Sessions, WritesFail(s) PROVE LogInv'
  BY <1>3 DEF WritesFail
<1>4. ASSUME NEW s \in Sessions, Accept(s) PROVE LogInv'
  BY <1>4 DEF Accept
<1>5. ASSUME NEW s \in Sessions, ReadPacket(s) PROVE LogInv'
  <2>1. n <= round /\ round' = round + 1 /\ io'.at = "wait" /\ log' = log
    BY <1>5 DEF ReadPacket, HandleBody
  <2> QED
    BY <1>0, <2>1
<1>6. CASE AcceptFails
  BY <1>6 DEF AcceptFails
<1>7. ASSUME NEW s \in Sessions, ReadFails(s) PROVE LogInv'
  BY <1>7 DEF ReadFails
<1>8. ASSUME NEW s \in Sessions, HandleWrite(s) PROVE LogInv'
  BY <1>8 DEF HandleWrite
<1>9. CASE GetPacket
  <2>0. length[io.session] # "zero"
    BY <1>9 DEF GetPacket, HasPacket, TaskInv
  <2>1. log' = Append(log, round) /\ round' = round /\ io'.at = "broadcast" /\ n < round
    BY <1>9, <2>0 DEF GetPacket
  <2>2. round \in Rounds /\ log \in Seq(Rounds)
    BY <1>9, <2>0 DEF GetPacket, Rounds
  <2>4. Len(log') = n + 1 /\ log'[n + 1] = round /\ log' # <<>>
    BY <1>a, <2>1, <2>2
  <2>5. n + 1 <= round
    BY <1>0, <2>1
  <2> QED
    BY <2>1, <2>4, <2>5
<1>10. CASE GetNothing
  BY <1>10, <1>0 DEF GetNothing
<1>11. CASE Send
  BY <1>11 DEF Send
<1>12. CASE BroadcastEnd
  BY <1>12 DEF BroadcastEnd
<1>13. CASE Rearm
  BY <1>13 DEF Rearm
<1>14. CASE RunReturns
  BY <1>14 DEF RunReturns
<1>15. ASSUME NEW w \in Workers, TakeTask(w) PROVE LogInv'
  BY <1>15 DEF TakeTask
<1>16. ASSUME NEW w \in Workers, RunTask(w) PROVE LogInv'
  BY <1>16 DEF RunTask
<1>17. ASSUME NEW w \in Workers, DropTask(w) PROVE LogInv'
  BY <1>17 DEF DropTask
<1>18. ASSUME NEW w \in Workers, WorkerReturn(w) PROVE LogInv'
  BY <1>18 DEF WorkerReturn
<1>19. CASE MainStart
  BY <1>19 DEF MainStart, MainInv
<1>20. CASE MainThrows
  BY <1>20 DEF MainThrows
<1>21. CASE MainJoin
  BY <1>21 DEF MainJoin
<1>22. CASE DestroyRooms
  BY <1>22 DEF DestroyRooms
<1>23. CASE DestroyTp
  BY <1>23 DEF DestroyTp
<1>24. CASE PoolDestroyed
  BY <1>24 DEF PoolDestroyed
<1>25. CASE DestroyIoService
  BY <1>25 DEF DestroyIoService
<1>26. CASE MainReturns
  BY <1>26 DEF MainReturns
<1>27. CASE UNCHANGED vars
  BY <1>27 DEF vars
<1>28. ASSUME NEW s \in Sessions, ReadNothing(s) PROVE LogInv'
  <2>1. /\ n <= round /\ round' = round /\ log' = log
        /\ io'.at = "wait" /\ io'.session = s /\ length'[s] = "zero"
    BY <1>28 DEF ReadNothing, HandleBody
  <2> QED
    BY <2>1
<1> QED
  BY <1>1, <1>2, <1>3, <1>4, <1>5, <1>6, <1>7, <1>8, <1>9, <1>10,
     <1>11, <1>12, <1>13, <1>14, <1>15, <1>16, <1>17, <1>18, <1>19, <1>20,
     <1>21, <1>22, <1>23, <1>24, <1>25, <1>26, <1>27, <1>28
  DEF Next, Io, Worker, Main

-------------------------------------------------------------------------------
(* Sessions and the users of the room *)

\* A session that has anything outstanding stays in users, where it is once.
LEMMA SessionStep ==
  ASSUME TypeOK, MainInv, IoInv, SessionInv, [Next]_vars
  PROVE  SessionInv'
<1>a. users \in Seq(Sessions) /\ writes \in [Sessions -> Seq([round : Rounds, block : Blocks, late : BOOLEAN])]
  BY DEF TypeOK
<1>b. ASSUME NEW s \in Sessions
      PROVE  /\ Len(Append(users, s)) = Len(users) + 1
             /\ \A i \in 1 .. Len(users) : Append(users, s)[i] = users[i]
             /\ Append(users, s)[Len(users) + 1] = s
             /\ Append(users, s) \in Seq(Sessions)
  BY <1>a, AppendProperties
<1>c. \A s \in Sessions : writes[s] = <<>> => Belated(s) = <<>>
  BY DEF Belated
<1> USE LifetimeAssumption DEF heapVars, netVars, mainVars, roomVars, writeVars, taskVars,
     KeepHeap, Running, IoAt, IoIdle, WorkerIdle, TypeOK, SessionInv, Joined, ToSet
<1>1. ASSUME NEW s \in Sessions, Close(s) PROVE SessionInv'
  BY <1>1 DEF Close
<1>2. ASSUME NEW s \in Sessions, Transfer(s) PROVE SessionInv'
  BY <1>2, SMTT(30) DEF Transfer
<1>3. ASSUME NEW s \in Sessions, WritesFail(s) PROVE SessionInv'
  BY <1>3, SMTT(30) DEF WritesFail
<1>4. ASSUME NEW s \in Sessions, Accept(s) PROVE SessionInv'
  <2>1. io' = io /\ main' = main /\ writes' = writes /\ written' = written /\ got' = got
        /\ users' = Append(users, s) /\ peer' = [peer EXCEPT ![s] = "open"]
        /\ reading' = [reading EXCEPT ![s] = TRUE]
    BY <1>4 DEF Accept
  <2>2. ~Joined(s)
    BY <1>4 DEF Accept
  <2>3. DOMAIN users = 1 .. Len(users) /\ DOMAIN users' = 1 .. Len(users) + 1
        /\ Len(users) \in Nat
    BY <1>a, <1>b, <2>1
  <2>4. \A u \in Sessions : Joined(u)' <=> Joined(u) \/ u = s
    <3>1. \A k \in DOMAIN users : users'[k] = users[k] /\ k \in DOMAIN users'
      BY <1>b, <2>1, <2>3
    <3>2. users'[Len(users) + 1] = s /\ Len(users) + 1 \in DOMAIN users'
      BY <1>b, <2>1, <2>3
    <3>3. \A k \in DOMAIN users' : k \in DOMAIN users \/ k = Len(users) + 1
      BY <2>3
    <3>4. \A k \in DOMAIN users : users'[k] = users[k]
      BY <3>1
    <3>5. \A u \in Sessions : Joined(u) => Joined(u)'
      BY <3>1
    <3>6. Joined(s)'
      BY <3>2
    <3>7. ASSUME NEW u \in Sessions, Joined(u)' PROVE Joined(u) \/ u = s
      <4>1. PICK k \in DOMAIN users' : users'[k] = u
        BY <3>7
      <4>2. CASE k \in DOMAIN users
        BY <3>4, <4>1, <4>2
      <4> QED
        BY <3>2, <3>3, <4>1, <4>2
    <3> QED
      BY <3>5, <3>6, <3>7
  <2>5. \A i, j \in DOMAIN users' : users'[i] = users'[j] => i = j
    <3> SUFFICES ASSUME NEW i \in DOMAIN users', NEW j \in DOMAIN users', users'[i] = users'[j]
                 PROVE  i = j
      OBVIOUS
    <3>1. \A k \in DOMAIN users' : k \in DOMAIN users \/ k = Len(users) + 1
      BY <2>3
    <3>2. \A k \in DOMAIN users : users[k] # s /\ users'[k] = users[k]
      BY <1>b, <2>1, <2>2, <2>3
    <3>3. users'[Len(users) + 1] = s
      BY <1>b, <2>1
    <3> QED
      BY <3>1, <3>2, <3>3
  <2>6. \A u \in Sessions \ {s} : peer'[u] = peer[u] /\ reading'[u] = reading[u]
    BY <2>1
  <2>7. peer'[s] = "open" /\ Joined(s)'
    BY <2>1, <2>4
  <2>8. ASSUME NEW u \in Sessions,
               reading'[u] \/ writes'[u] # <<>> \/ written'[u] > 0 \/ io'.session = u
        PROVE  Joined(u)'
    BY <2>1, <2>4, <2>6, <2>7, <2>8
  <2>9. ASSUME NEW u \in Sessions
        PROVE  /\ peer'[u] = "away" => ~Joined(u)' /\ got'[u] = NothingGot
               /\ main' \in {"start", "join"} /\ peer'[u] # "away" => Joined(u)'
    BY <2>1, <2>4, <2>6, <2>7
  <2> HIDE DEF Joined, TypeOK
  <2> QED
    BY <2>5, <2>8, <2>9
<1>5. ASSUME NEW s \in Sessions, ReadPacket(s) PROVE SessionInv'
  BY <1>5 DEF ReadPacket, HandleBody
<1>6. CASE AcceptFails
  BY <1>6 DEF AcceptFails
<1>7. ASSUME NEW s \in Sessions, ReadFails(s) PROVE SessionInv'
  BY <1>7, SMTT(30) DEF ReadFails, UsersAfterError, ReadAfterError
<1>8. ASSUME NEW s \in Sessions, HandleWrite(s) PROVE SessionInv'
  BY <1>8 DEF HandleWrite
<1>9. CASE GetPacket
  BY <1>9 DEF GetPacket
<1>10. CASE GetNothing
  BY <1>10 DEF GetNothing
<1>11. CASE Send
  BY <1>11, <1>a, SMTT(30) DEF Send
<1>12. CASE BroadcastEnd
  BY <1>12, <1>c DEF BroadcastEnd
<1>13. CASE Rearm
  BY <1>13 DEF Rearm, IoInv, Handling
<1>14. CASE RunReturns
  BY <1>14 DEF RunReturns
<1>15. ASSUME NEW w \in Workers, TakeTask(w) PROVE SessionInv'
  BY <1>15 DEF TakeTask
<1>16. ASSUME NEW w \in Workers, RunTask(w) PROVE SessionInv'
  BY <1>16 DEF RunTask
<1>17. ASSUME NEW w \in Workers, DropTask(w) PROVE SessionInv'
  BY <1>17 DEF DropTask, RoomHeldWithout, DestroyRoom, MainInv, NoWork, IoInv, Handling
<1>18. ASSUME NEW w \in Workers, WorkerReturn(w) PROVE SessionInv'
  BY <1>18 DEF WorkerReturn
<1>19. CASE MainStart
  BY <1>19 DEF MainStart
<1>20. CASE MainThrows
  BY <1>20 DEF MainThrows
<1>21. CASE MainJoin
  BY <1>21 DEF MainJoin
<1>22. CASE DestroyRooms
  <2>1. io.session = None /\ \A s \in Sessions : ~reading[s] /\ writes[s] = <<>> /\ written[s] = 0
    BY <1>22 DEF DestroyRooms, MainInv, NoWork, IoInv, Handling
  <2>2. users' = users \/ users' = <<>>
    BY <1>22 DEF DestroyRooms, DestroyRoom
  <2>3. peer' = peer /\ got' = got /\ io' = io /\ reading' = reading /\ writes' = writes
        /\ written' = written /\ main' = "tp"
    BY <1>22 DEF DestroyRooms
  <2> QED
    BY <2>1, <2>2, <2>3
<1>23. CASE DestroyTp
  BY <1>23 DEF DestroyTp
<1>24. CASE PoolDestroyed
  BY <1>24 DEF PoolDestroyed
<1>25. CASE DestroyIoService
  BY <1>25 DEF DestroyIoService
<1>26. CASE MainReturns
  BY <1>26 DEF MainReturns
<1>27. CASE UNCHANGED vars
  BY <1>27 DEF vars
<1>28. ASSUME NEW s \in Sessions, ReadNothing(s) PROVE SessionInv'
  BY <1>28 DEF ReadNothing, HandleBody
<1> QED
  BY <1>1, <1>2, <1>3, <1>4, <1>5, <1>6, <1>7, <1>8, <1>9, <1>10,
     <1>11, <1>12, <1>13, <1>14, <1>15, <1>16, <1>17, <1>18, <1>19, <1>20,
     <1>21, <1>22, <1>23, <1>24, <1>25, <1>26, <1>27, <1>28
  DEF Next, Io, Worker, Main

-------------------------------------------------------------------------------
(* The heap *)

\* Every block that is allocated has an owner, and a reply is held by nobody else.
LEMMA HeapStep ==
  ASSUME TypeOK, MainInv, IoInv, TaskInv, HeapInv, [Next]_vars
  PROVE  HeapInv'
<1> USE LifetimeAssumption DEF heapVars, netVars, mainVars, roomVars, writeVars, taskVars,
     KeepHeap, Running, IoAt, IoIdle, WorkerIdle, TypeOK, HeapInv, Owned, HoldersOf, IoInv, Handling
<1>1. ASSUME NEW s \in Sessions, Close(s) PROVE HeapInv'
  BY <1>1 DEF Close
<1>2. ASSUME NEW s \in Sessions, Transfer(s) PROVE HeapInv'
  BY <1>2 DEF Transfer
<1>3. ASSUME NEW s \in Sessions, WritesFail(s) PROVE HeapInv'
  BY <1>3 DEF WritesFail
<1>4. ASSUME NEW s \in Sessions, Accept(s) PROVE HeapInv'
  BY <1>4 DEF Accept
<1>5. ASSUME NEW s \in Sessions, ReadPacket(s) PROVE HeapInv'
  <2>1. PICK b \in Blocks :
          /\ b \notin live
          /\ live' = live \cup {b}
          /\ io' = [at |-> "wait", session |-> s, request |-> b, reply |-> None, next |-> 0]
    BY <1>5 DEF ReadPacket, HandleBody, Allocate
  <2>2. outcome = None /\ io.request = None /\ io.reply = None
    BY <1>5 DEF ReadPacket, HandleBody, TaskInv
  <2>3. worker' = worker /\ outcome' = outcome
    BY <1>5 DEF ReadPacket, HandleBody
  <2> QED
    BY <2>1, <2>2, <2>3
<1>6. CASE AcceptFails
  BY <1>6 DEF AcceptFails
<1>7. ASSUME NEW s \in Sessions, ReadFails(s) PROVE HeapInv'
  BY <1>7 DEF ReadFails
<1>8. ASSUME NEW s \in Sessions, HandleWrite(s) PROVE HeapInv'
  BY <1>8 DEF HandleWrite
<1>9. CASE GetPacket
  BY <1>9 DEF GetPacket, HasPacket, ReplyKept, TaskInv
<1>10. CASE GetNothing
  BY <1>10 DEF GetNothing, TaskInv
<1>11. CASE Send
  BY <1>11 DEF Send
<1>12. CASE BroadcastEnd
  <2>1. live' = live \ {io.reply} /\ io' = [io EXCEPT !.at = "rearm", !.reply = None]
        /\ worker' = worker /\ outcome' = outcome
    BY <1>12 DEF BroadcastEnd, Free
  <2>2. outcome = None /\ HoldersOf(io.reply) = {} /\ io.reply \in Blocks
    BY <1>12 DEF BroadcastEnd, TaskInv
  <2> QED
    BY <2>1, <2>2
<1>13. CASE Rearm
  <2> DEFINE r == io.request
  <2>1. r \in Blocks /\ io.reply = None /\ outcome = None
        /\ io' = [at |-> "idle", session |-> None, request |-> None, reply |-> None, next |-> 0]
        /\ worker' = worker /\ outcome' = outcome
    BY <1>13 DEF Rearm, TaskInv
  <2>3. CASE HoldersOf(r) = {None}
    <3>1. live' = live \ {r}
      BY <1>13, <2>3 DEF Rearm, Release, Free
    <3>2. \A v \in Workers : worker[v].request # r
      BY <2>3
    <3> QED
      BY <2>1, <3>1, <3>2
  <2>4. CASE HoldersOf(r) # {None}
    <3>1. live' = live
      BY <1>13, <2>4 DEF Rearm, Release
    <3>2. \E v \in Workers : worker[v].request = r
      BY <2>1, <2>4
    <3> QED
      BY <2>1, <3>1, <3>2
  <2> QED
    BY <2>3, <2>4
<1>14. CASE RunReturns
  BY <1>14 DEF RunReturns
<1>15. ASSUME NEW w \in Workers, TakeTask(w) PROVE HeapInv'
  <2>1. queue = <<io.request>> /\ outcome = None /\ io.reply = None
    BY <1>15 DEF TakeTask, TaskInv
  <2>2. worker[w].request = None
    BY <1>15 DEF TakeTask, TaskInv
  <2>3. worker' = [worker EXCEPT ![w] = [at |-> "run", request |-> io.request]]
        /\ io' = io /\ outcome' = outcome /\ live' = live
    BY <1>15, <2>1 DEF TakeTask
  <2> QED
    BY <2>1, <2>2, <2>3
<1>16. ASSUME NEW w \in Workers, RunTask(w) PROVE HeapInv'
  <2>1. outcome = None /\ io.reply = None
    BY <1>16 DEF RunTask, TaskInv
  <2>2. io' = io /\ round' = round /\ \A v \in Workers : worker'[v].request = worker[v].request
    BY <1>16 DEF RunTask
  <2> HIDE DEF TypeOK, HeapInv, IoInv
  <2>a. \A b : HoldersOf(b)' = HoldersOf(b)
    BY <2>2
  <2>3. CASE outcome' = "null" /\ KeepHeap
    <3>1. Owned' = Owned
      BY <2>1, <2>2, <2>3
    <3>2. \A b \in Blocks : b # io'.reply /\ b # outcome'
      BY <2>1, <2>2, <2>3
    <3> QED
      BY <2>3, <3>1, <3>2 DEF HeapInv
  <2>4. ASSUME NEW b \in Blocks, Allocate(b, round), outcome' = b
        PROVE  HeapInv'
    <3>1. b \notin live /\ live' = live \cup {b} /\ memory' = [memory EXCEPT ![b] = round]
      BY <2>4 DEF Allocate
    <3>2. Owned' = Owned \cup {b}
      BY <2>1, <2>2, <2>4
    <3>3. b \notin Owned
      BY <3>1 DEF HeapInv
    <3>4. HoldersOf(b)' = {}
      <4>1. HoldersOf(b) = {}
        BY <3>3
      <4> QED
        BY <2>a, <4>1
    <3>5. memory'[b] = round'
      BY <2>2, <3>1 DEF TypeOK
    <3>6. \A c \in Blocks : c = io'.reply \/ c = outcome' => c = b
      BY <2>1, <2>2, <2>4
    <3> QED
      BY <3>1, <3>2, <3>4, <3>5, <3>6 DEF HeapInv
  <2> QED
    BY <1>16, <2>3, <2>4 DEF RunTask
<1>17. ASSUME NEW w \in Workers, DropTask(w) PROVE HeapInv'
  <2> DEFINE r == worker[w].request
  <2>a. r # None
    BY <1>17 DEF DropTask, TaskInv
  <2>b. r \in Blocks
    BY <2>a DEF Heaps
  <2>c. io' = io /\ outcome' = outcome /\ round' = round
        /\ worker' = [worker EXCEPT ![w] = [at |-> "idle", request |-> None]]
    BY <1>17 DEF DropTask
  <2>1. r # None /\ r \in Blocks /\ io' = io /\ outcome' = outcome /\ round' = round
        /\ worker' = [worker EXCEPT ![w] = [at |-> "idle", request |-> None]]
    BY <2>a, <2>b, <2>c
  <2>2. r # io.reply /\ r # outcome
    BY <2>1
  <2>3. CASE HoldersOf(r) = {w}
    <3>1. live' = live \ {r} /\ \A b \in Blocks \ {r} : memory'[b] = memory[b]
      BY <1>17, <2>3 DEF DropTask, Release, Free
    <3>2. io.request # r /\ \A v \in Workers \ {w} : worker[v].request # r
      BY <2>3
    <3> QED
      BY <2>1, <2>2, <3>1, <3>2
  <2>4. CASE HoldersOf(r) # {w}
    <3>1. live' = live /\ memory' = memory
      BY <1>17, <2>4 DEF DropTask, Release
    <3>2. io.request = r \/ \E v \in Workers \ {w} : worker[v].request = r
      BY <2>1, <2>4
    <3> QED
      BY <2>1, <2>2, <3>1, <3>2
  <2> QED
    BY <2>3, <2>4
<1>18. ASSUME NEW w \in Workers, WorkerReturn(w) PROVE HeapInv'
  BY <1>18 DEF WorkerReturn
<1>19. CASE MainStart
  BY <1>19 DEF MainStart, MainInv, TaskInv
<1>20. CASE MainThrows
  BY <1>20 DEF MainThrows
<1>21. CASE MainJoin
  BY <1>21 DEF MainJoin
<1>22. CASE DestroyRooms
  BY <1>22 DEF DestroyRooms
<1>23. CASE DestroyTp
  BY <1>23 DEF DestroyTp
<1>24. CASE PoolDestroyed
  BY <1>24 DEF PoolDestroyed
<1>25. CASE DestroyIoService
  BY <1>25 DEF DestroyIoService
<1>26. CASE MainReturns
  BY <1>26 DEF MainReturns
<1>27. CASE UNCHANGED vars
  BY <1>27 DEF vars
<1>28. ASSUME NEW s \in Sessions, ReadNothing(s) PROVE HeapInv'
  <2>1. PICK b \in Blocks :
          /\ b \notin live
          /\ live' = live \cup {b}
          /\ io' = [at |-> "wait", session |-> s, request |-> b, reply |-> None, next |-> 0]
    BY <1>28 DEF ReadNothing, HandleBody, Allocate
  <2>2. outcome = None /\ io.request = None /\ io.reply = None
    BY <1>28 DEF ReadNothing, HandleBody, TaskInv
  <2>3. worker' = worker /\ outcome' = outcome
    BY <1>28 DEF ReadNothing, HandleBody
  <2> QED
    BY <2>1, <2>2, <2>3
<1> QED
  BY <1>1, <1>2, <1>3, <1>4, <1>5, <1>6, <1>7, <1>8, <1>9, <1>10,
     <1>11, <1>12, <1>13, <1>14, <1>15, <1>16, <1>17, <1>18, <1>19, <1>20,
     <1>21, <1>22, <1>23, <1>24, <1>25, <1>26, <1>27, <1>28
  DEF Next, Io, Worker, Main

\* A write turns late in the step that frees its packet.
LEMMA WriteStep ==
  ASSUME TypeOK, MainInv, IoInv, SessionInv, WriteInv, [Next]_vars
  PROVE  WriteInv'
<1>a. writes \in [Sessions -> Seq([round : Rounds, block : Blocks, late : BOOLEAN])]
  BY DEF TypeOK
<1>t. round > 0 => round \in Rounds
  BY DEF TypeOK, Rounds
<1>b. ASSUME NEW s \in Sessions, NEW b \in Blocks, round > 0
      PROVE  LET q == QueuedWrite(s, b)
             IN  /\ DOMAIN q = DOMAIN writes[s] \cup {Len(writes[s]) + 1}
                 /\ \A i \in DOMAIN writes[s] : q[i] = writes[s][i]
                 /\ q[Len(writes[s]) + 1] = [round |-> round, block |-> b, late |-> FALSE]
  <2>1. writes[s] \in Seq([round : Rounds, block : Blocks, late : BOOLEAN])
        /\ [round |-> round, block |-> b, late |-> FALSE] \in [round : Rounds, block : Blocks, late : BOOLEAN]
    BY <1>a, <1>b, <1>t
  <2> HIDE <1>a, <1>t
  <2> QED
    BY <2>1, AppendProperties DEF QueuedWrite
<1>c. ASSUME NEW s \in Sessions, writes[s] # <<>>
      PROVE  \A i \in DOMAIN Tail(writes[s]) :
               i + 1 \in DOMAIN writes[s] /\ Tail(writes[s])[i] = writes[s][i + 1]
  <2>1. writes[s] \in Seq([round : Rounds, block : Blocks, late : BOOLEAN])
    BY <1>a
  <2> QED
    BY <1>c, <2>1, HeadTailProperties
<1> USE LifetimeAssumption DEF heapVars, netVars, mainVars, roomVars, writeVars, taskVars,
     KeepHeap, Running, IoAt, IoIdle, WorkerIdle, TypeOK, WriteInv, IoInv, Handling
<1>1. ASSUME NEW s \in Sessions, Close(s) PROVE WriteInv'
  BY <1>1 DEF Close
<1>2. ASSUME NEW s \in Sessions, Transfer(s) PROVE WriteInv'
  BY <1>2, <1>a, <1>c DEF Transfer
<1>3. ASSUME NEW s \in Sessions, WritesFail(s) PROVE WriteInv'
  BY <1>3, <1>a DEF WritesFail
<1>4. ASSUME NEW s \in Sessions, Accept(s) PROVE WriteInv'
  BY <1>4 DEF Accept
<1>5. ASSUME NEW s \in Sessions, ReadPacket(s) PROVE WriteInv'
  BY <1>5, <1>a DEF ReadPacket, HandleBody, Allocate
<1>6. CASE AcceptFails
  BY <1>6 DEF AcceptFails
<1>7. ASSUME NEW s \in Sessions, ReadFails(s) PROVE WriteInv'
  BY <1>7 DEF ReadFails
<1>8. ASSUME NEW s \in Sessions, HandleWrite(s) PROVE WriteInv'
  BY <1>8 DEF HandleWrite
<1>9. CASE GetPacket
  BY <1>9 DEF GetPacket, ReplyKept
<1>10. CASE GetNothing
  BY <1>10 DEF GetNothing
<1>11. CASE Send
  <2>1. PICK s : s = users[io.next]
    OBVIOUS
  <2>2. s \in Sessions /\ io.reply \in Blocks
    BY <1>11, <2>1 DEF Send
  <2>3. writes' = [writes EXCEPT ![s] = QueuedWrite(s, io.reply)] /\ io'.at = "broadcast"
        /\ io'.reply = io.reply /\ round' = round
    BY <1>11, <2>1 DEF Send
  <2>4. round > 0
    BY <1>11 DEF Send
  <2>5. PICK q : q = QueuedWrite(s, io.reply)
    OBVIOUS
  <2>6. /\ DOMAIN q = DOMAIN writes[s] \cup {Len(writes[s]) + 1}
        /\ \A i \in DOMAIN writes[s] : q[i] = writes[s][i]
        /\ q[Len(writes[s]) + 1] = [round |-> round, block |-> io.reply, late |-> FALSE]
    <3> HIDE DEF TypeOK, IoInv, WriteInv
    <3> QED
      BY <1>b, <2>2, <2>4, <2>5
  <2>7. writes'[s] = q /\ \A u \in Sessions \ {s} : writes'[u] = writes[u]
    BY <1>a, <2>2, <2>3, <2>5
  <2>8. ASSUME NEW i \in DOMAIN writes'[s], ~writes'[s][i].late
        PROVE  writes'[s][i].block = io'.reply /\ writes'[s][i].round = round'
    <3>1. CASE i \in DOMAIN writes[s]
      BY <2>2, <2>3, <2>6, <2>7, <2>8, <3>1
    <3>2. CASE i = Len(writes[s]) + 1
      BY <2>2, <2>3, <2>6, <2>7, <2>8, <3>2
    <3> QED
      BY <2>6, <2>7, <3>1, <3>2
  <2>9. ASSUME NEW u \in Sessions \ {s}
        PROVE  \A i \in DOMAIN writes'[u] : ~writes'[u][i].late =>
                 writes'[u][i].block = io'.reply /\ writes'[u][i].round = round'
    BY <2>3, <2>7
  <2> QED
    BY <2>3, <2>8, <2>9
<1>12. CASE BroadcastEnd
  <2>1. ASSUME NEW s \in Sessions, NEW i \in DOMAIN writes'[s]
        PROVE  writes'[s][i].late
    <3>1. writes'[s] = [j \in DOMAIN writes[s] |->
            [writes[s][j] EXCEPT !.late = @ \/ writes[s][j].round = round]]
      BY <1>12 DEF BroadcastEnd, Belated
    <3>2. i \in DOMAIN writes[s]
      BY <2>1, <3>1
    <3>3. writes[s][i] \in [round : Rounds, block : Blocks, late : BOOLEAN]
      <4>1. writes[s] \in Seq([round : Rounds, block : Blocks, late : BOOLEAN])
        BY <1>a
      <4> HIDE DEF TypeOK, IoInv, WriteInv
      <4>2. i \in 1 .. Len(writes[s])
        BY <3>2, <4>1
      <4> QED
        BY <4>1, <4>2, ElementOfSeq
    <3>4. writes'[s][i].late = (writes[s][i].late \/ writes[s][i].round = round)
      BY <3>1, <3>2, <3>3
    <3> QED
      BY <3>2, <3>4
  <2> QED
    BY <2>1
<1>13. CASE Rearm
  BY <1>13 DEF Rearm
<1>14. CASE RunReturns
  BY <1>14 DEF RunReturns
<1>15. ASSUME NEW w \in Workers, TakeTask(w) PROVE WriteInv'
  BY <1>15 DEF TakeTask
<1>16. ASSUME NEW w \in Workers, RunTask(w) PROVE WriteInv'
  BY <1>16 DEF RunTask
<1>17. ASSUME NEW w \in Workers, DropTask(w) PROVE WriteInv'
  BY <1>17 DEF DropTask
<1>18. ASSUME NEW w \in Workers, WorkerReturn(w) PROVE WriteInv'
  BY <1>18 DEF WorkerReturn
<1>19. CASE MainStart
  BY <1>19 DEF MainStart, MainInv
<1>20. CASE MainThrows
  BY <1>20 DEF MainThrows
<1>21. CASE MainJoin
  BY <1>21 DEF MainJoin
<1>22. CASE DestroyRooms
  BY <1>22 DEF DestroyRooms
<1>23. CASE DestroyTp
  BY <1>23 DEF DestroyTp
<1>24. CASE PoolDestroyed
  BY <1>24 DEF PoolDestroyed
<1>25. CASE DestroyIoService
  BY <1>25 DEF DestroyIoService
<1>26. CASE MainReturns
  BY <1>26 DEF MainReturns
<1>27. CASE UNCHANGED vars
  BY <1>27 DEF vars
<1>28. ASSUME NEW s \in Sessions, ReadNothing(s) PROVE WriteInv'
  BY <1>28, <1>a DEF ReadNothing, HandleBody, Allocate
<1> QED
  BY <1>1, <1>2, <1>3, <1>4, <1>5, <1>6, <1>7, <1>8, <1>9, <1>10,
     <1>11, <1>12, <1>13, <1>14, <1>15, <1>16, <1>17, <1>18, <1>19, <1>20,
     <1>21, <1>22, <1>23, <1>24, <1>25, <1>26, <1>27, <1>28
  DEF Next, Io, Worker, Main

-------------------------------------------------------------------------------
(* Where each client is in the sequence of broadcasts *)

\* The types of what says where a client is.
LEMMA PositionTypes ==
  ASSUME TypeOK, NEW s \in Sessions
  PROVE  /\ writes[s] \in Seq(WriteRecord)
         /\ Len(writes[s]) \in Nat
         /\ DOMAIN writes[s] = 1 .. Len(writes[s])
         /\ written[s] \in Nat
         /\ got[s] \in [count : Rounds \cup {0}, round : Rounds \cup {0}, bytes : Contents, late : BOOLEAN]
         /\ got[s].count \in Nat
         /\ joinedAt[s] \in Nat
         /\ log \in Seq(Rounds)
         /\ Len(log) \in Nat
         /\ Behind(s) \in {0, 1}
<1>1. writes[s] \in Seq(WriteRecord) /\ log \in Seq(Rounds)
  BY DEF TypeOK, WriteRecord
<1>2. \A n \in Rounds \cup {0} : n \in Nat
  BY DEF Rounds
<1>3. got[s] \in [count : Rounds \cup {0}, round : Rounds \cup {0}, bytes : Contents, late : BOOLEAN]
  BY DEF TypeOK
<1>4. got[s].count \in Nat
  BY <1>2, <1>3
<1>5. written[s] \in Nat
  BY <1>2 DEF TypeOK
<1>6. joinedAt[s] \in Nat
  BY LifetimeAssumption DEF TypeOK, LifetimeAssumption
<1>7. Behind(s) \in {0, 1}
  BY DEF Behind
<1> QED
  BY <1>1, <1>3, <1>4, <1>5, <1>6, <1>7, LenProperties

\* A step that changes nothing but the connection or the finished writes of s.
LEMMA PositionSame ==
  ASSUME TypeOK, NEW s \in Sessions, PositionAt(s),
         peer'[s] \in {peer[s], "closed"}, got'[s] = got[s], joinedAt'[s] = joinedAt[s],
         DOMAIN writes'[s] = DOMAIN writes[s], Len(writes'[s]) = Len(writes[s]),
         \A i \in DOMAIN writes[s] : writes'[s][i].round = writes[s][i].round,
         written'[s] \in Nat, written'[s] <= written[s],
         log' = log, Behind(s)' = Behind(s)
  PROVE  PositionAt(s)'
<1>1. SentTo(s)' = SentTo(s)
  BY DEF SentTo
<1>2. written'[s] + Len(writes'[s]) <= written[s] + Len(writes[s])
  BY PositionTypes
<1>3. written[s] + Len(writes[s]) <= SentTo(s)
  BY DEF PositionAt
<1>4. SentTo(s) \in Int /\ written[s] \in Nat /\ Len(writes[s]) \in Nat
  BY PositionTypes DEF SentTo
<1>5. written'[s] + Len(writes'[s]) <= SentTo(s)'
  BY <1>1, <1>2, <1>3, <1>4
<1>6. joinedAt'[s] <= Len(log') /\ got'[s].count + Len(writes'[s]) <= SentTo(s)'
  BY <1>1 DEF PositionAt
<1>7. ASSUME peer'[s] = "open"
      PROVE  /\ got'[s].count + Len(writes'[s]) = SentTo(s)'
             /\ \A i \in DOMAIN writes'[s] : writes'[s][i].round = log'[joinedAt'[s] + got'[s].count + i]
  BY <1>1, <1>7 DEF PositionAt
<1>8. got'[s].count > 0 => /\ got'[s].round = log'[joinedAt'[s] + got'[s].count]
                          /\ (got'[s].bytes = got'[s].round \/ got'[s].late)
  BY DEF PositionAt
<1> QED
  BY <1>5, <1>6, <1>7, <1>8 DEF PositionAt

\* The network takes the oldest write of s.
LEMMA PositionTransfer ==
  ASSUME TypeOK, IoInv, HeapInv, WriteInv, NEW s \in Sessions, PositionAt(s), Transfer(s)
  PROVE  PositionAt(s)'
<1> DEFINE w == writes[s]
           c == got[s].count
<1>1. PICK h : h = Head(w)
  OBVIOUS
<1>2. w \in Seq(WriteRecord) /\ w # <<>> /\ Len(w) \in Nat /\ peer[s] = "open"
  BY PositionTypes DEF Transfer
<1>3. /\ h = w[1] /\ 1 \in DOMAIN w /\ h \in WriteRecord
      /\ Len(Tail(w)) = Len(w) - 1
      /\ DOMAIN Tail(w) = 1 .. Len(w) - 1
      /\ \A i \in 1 .. Len(w) - 1 : Tail(w)[i] = w[i + 1] /\ i + 1 \in DOMAIN w
  <2> HIDE DEF w
  <2>1. Len(w) > 0 /\ DOMAIN w = 1 .. Len(w)
    BY <1>2
  <2>2. h = w[1] /\ Tail(w) \in Seq(WriteRecord) /\ Len(Tail(w)) = Len(w) - 1
    BY <1>1, <1>2, HeadTailProperties
  <2>3. DOMAIN Tail(w) = 1 .. Len(w) - 1
    BY <2>2
  <2>4. \A i \in 1 .. Len(w) - 1 : Tail(w)[i] = w[i + 1] /\ i + 1 \in DOMAIN w
    BY <1>2, <2>1
  <2> QED
    BY <1>2, <2>1, <2>2, <2>3, <2>4, ElementOfSeq
<1>4. /\ got'[s] = [count |-> c + 1, round |-> h.round, bytes |-> memory[h.block], late |-> h.late]
      /\ writes'[s] = Tail(w) /\ written'[s] = written[s] + 1
      /\ peer' = peer /\ log' = log /\ joinedAt' = joinedAt
  BY <1>1 DEF Transfer, TypeOK, netVars, heapVars, mainVars, roomVars, taskVars
<1>5. Behind(s)' = Behind(s)
  BY DEF Transfer, Behind, roomVars, taskVars
<1>6. SentTo(s)' = SentTo(s)
  BY <1>4, <1>5 DEF SentTo
<1>7. h.late \/ memory[h.block] = h.round
  BY <1>3 DEF WriteInv, HeapInv, IoInv, Handling, WriteRecord
<1>8. h.round = log[joinedAt[s] + c + 1] /\ c + Len(w) = SentTo(s) /\ written[s] + Len(w) <= SentTo(s)
      /\ joinedAt[s] <= Len(log)
  BY <1>2, <1>3 DEF PositionAt
<1>9. c \in Nat /\ joinedAt[s] \in Nat /\ written[s] \in Nat /\ SentTo(s) \in Int
  BY PositionTypes DEF SentTo
<1>10. /\ joinedAt[s] + c + 1 = joinedAt[s] + (c + 1)
       /\ (c + 1) + (Len(w) - 1) = c + Len(w)
       /\ (written[s] + 1) + (Len(w) - 1) = written[s] + Len(w)
       /\ \A i \in 1 .. Len(w) - 1 : joinedAt[s] + c + (i + 1) = joinedAt[s] + (c + 1) + i
  <2> HIDE DEF w, c
  <2> QED
    BY <1>2, <1>9, SMTT(30)
<1>11. \A i \in 1 .. Len(w) - 1 : Tail(w)[i].round = log[joinedAt[s] + (c + 1) + i]
  <2> SUFFICES ASSUME NEW i \in 1 .. Len(w) - 1
               PROVE  Tail(w)[i].round = log[joinedAt[s] + (c + 1) + i]
    OBVIOUS
  <2>1. w[i + 1].round = log[joinedAt[s] + c + (i + 1)]
    BY <1>2, <1>3 DEF PositionAt
  <2> QED
    BY <1>3, <1>10, <2>1
<1> HIDE DEF w, c
<1>12. got'[s].count = c + 1 /\ got'[s].round = h.round /\ got'[s].bytes = memory[h.block]
       /\ got'[s].late = h.late
  BY <1>4
<1>13. /\ written'[s] + Len(writes'[s]) <= SentTo(s)'
       /\ got'[s].count + Len(writes'[s]) = SentTo(s)'
       /\ got'[s].count + Len(writes'[s]) <= SentTo(s)'
       /\ joinedAt'[s] <= Len(log')
  BY <1>3, <1>4, <1>6, <1>8, <1>9, <1>10, <1>12, SMTT(30)
<1>14. \A i \in DOMAIN writes'[s] : writes'[s][i].round = log'[joinedAt'[s] + got'[s].count + i]
  BY <1>3, <1>4, <1>11, <1>12
<1>15. /\ got'[s].round = log'[joinedAt'[s] + got'[s].count]
       /\ (got'[s].bytes = got'[s].round \/ got'[s].late)
  BY <1>4, <1>7, <1>8, <1>10, <1>12
<1> QED
  BY <1>13, <1>14, <1>15 DEF PositionAt

\* PassTask starts with a broadcast: everyone has one more to be sent.
LEMMA PositionGetPacket ==
  ASSUME TypeOK, MainInv, SessionInv, IoInv, TaskInv, NEW s \in Sessions, peer[s] # "away",
         PositionAt(s), GetPacket
  PROVE  PositionAt(s)'
<1> DEFINE w == writes[s]
           c == got[s].count
           n == Len(log)
           j == joinedAt[s]
<1>1. /\ io.at = "wait" /\ io' = [io EXCEPT !.at = "broadcast", !.reply = outcome, !.next = 1]
      /\ log' = Append(log, round)
      /\ writes' = writes /\ written' = written /\ got' = got /\ peer' = peer
      /\ joinedAt' = joinedAt /\ users' = users
  BY DEF GetPacket, IoAt, netVars, roomVars, writeVars
<1>2. round \in Rounds
  <2>1. length[io.session] # "zero"
    BY DEF GetPacket, HasPacket, TaskInv
  <2> QED
    BY <1>1, <2>1 DEF TypeOK, IoInv, Rounds
<1>3. log \in Seq(Rounds)
  BY DEF TypeOK
<1>4. Len(log') = n + 1 /\ \A k \in 1 .. n : log'[k] = log[k]
  BY <1>1, <1>2, <1>3, AppendProperties
<1>5. Behind(s) = 0
  BY <1>1 DEF Behind
<1>6. io'.at = "broadcast" /\ io'.next = 1
  BY <1>1 DEF TypeOK
<1>7. Behind(s)' = 1
  <2>1. Joined(s)
    BY <1>1 DEF SessionInv, MainInv
  <2>2. PICK i \in DOMAIN users : users[i] = s
    BY <2>1 DEF Joined, ToSet
  <2>3. DOMAIN users = 1 .. Len(users) /\ Len(users) \in Nat
    BY DEF TypeOK
  <2>4. 1 <= i
    BY <2>3
  <2> QED
    BY <1>1, <1>6, <2>2, <2>4 DEF Behind
<1>8. n \in Nat /\ j \in Nat /\ c \in Nat /\ Len(w) \in Nat /\ DOMAIN w = 1 .. Len(w)
  BY PositionTypes
<1>9. SentTo(s) = n - j
  BY <1>5, <1>8 DEF SentTo
<1>10. SentTo(s)' = n - j
  <2>1. SentTo(s)' = (n + 1) - j - 1
    BY <1>1, <1>4, <1>7 DEF SentTo
  <2> HIDE DEF n, j
  <2> QED
    BY <1>8, <2>1
<1>11. /\ j <= n /\ written[s] + Len(w) <= SentTo(s) /\ c + Len(w) <= SentTo(s)
       /\ peer[s] = "open" =>
            /\ c + Len(w) = SentTo(s)
            /\ \A i \in DOMAIN w : w[i].round = log[j + c + i]
       /\ c > 0 => got[s].round = log[j + c] /\ (got[s].bytes = got[s].round \/ got[s].late)
  BY DEF PositionAt
<1>12. j <= Len(log')
  <2> HIDE DEF j, n
  <2> QED
    BY <1>4, <1>8, <1>11
<1>13. /\ c > 0 => log'[j + c] = log[j + c]
       /\ \A i \in DOMAIN w : log'[j + c + i] = log[j + c + i]
  <2> HIDE DEF j, n, c, w
  <2>1. c > 0 => j + c \in 1 .. n
    BY <1>8, <1>9, <1>11
  <2>2. \A i \in DOMAIN w : j + c + i \in 1 .. n
    BY <1>8, <1>9, <1>11
  <2> QED
    BY <1>4, <2>1, <2>2
<1> QED
  BY <1>1, <1>9, <1>10, <1>11, <1>12, <1>13 DEF PositionAt

\* broadcast sends to s: what it was behind is now an outstanding write.
LEMMA PositionSend ==
  ASSUME TypeOK, SessionInv, IoInv, LogInv, NEW s \in Sessions, PositionAt(s),
         Send, s = users[io.next]
  PROVE  PositionAt(s)'
<1> DEFINE w == writes[s]
           c == got[s].count
           n == Len(log)
           j == joinedAt[s]
           x == [round |-> round, block |-> io.reply, late |-> FALSE]
<1>1. /\ io.at = "broadcast" /\ io.next \in DOMAIN users /\ io' = [io EXCEPT !.next = @ + 1]
      /\ log' = log /\ written' = written /\ got' = got /\ peer' = peer
      /\ joinedAt' = joinedAt /\ users' = users
  BY DEF Send, IoAt, netVars, roomVars
<1>2. writes'[s] = Append(w, x)
  BY DEF Send, QueuedWrite, TypeOK
<1>3. x \in WriteRecord
  BY <1>1 DEF TypeOK, IoInv, Handling, Rounds, WriteRecord
<1>4. n \in Nat /\ j \in Nat /\ c \in Nat /\ Len(w) \in Nat /\ DOMAIN w = 1 .. Len(w)
      /\ w \in Seq(WriteRecord) /\ written[s] \in Nat
  BY PositionTypes
<1>5. /\ Len(writes'[s]) = Len(w) + 1
      /\ DOMAIN writes'[s] = 1 .. Len(w) + 1
      /\ \A i \in 1 .. Len(w) : writes'[s][i] = w[i]
      /\ writes'[s][Len(w) + 1] = x
  <2> HIDE DEF w, x
  <2>1. Append(w, x) \in Seq(WriteRecord) /\ Len(Append(w, x)) = Len(w) + 1
        /\ (\A i \in 1 .. Len(w) : Append(w, x)[i] = w[i]) /\ Append(w, x)[Len(w) + 1] = x
    BY <1>3, <1>4, AppendProperties
  <2>2. DOMAIN Append(w, x) = 1 .. Len(w) + 1
    BY <2>1, LenProperties
  <2> QED
    BY <1>2, <2>1, <2>2
<1>6. io.next \in Nat /\ io'.at = "broadcast" /\ io'.next = io.next + 1
      /\ DOMAIN users = 1 .. Len(users) /\ Len(users) \in Nat
  BY <1>1 DEF TypeOK
<1>7. Behind(s) = 1
  BY <1>1, <1>6 DEF Behind
<1>8. Behind(s)' = 0
  <2>1. \A i \in DOMAIN users : users[i] = s => i = io.next
    BY <1>1 DEF SessionInv
  <2>2. \A i \in DOMAIN users : io.next + 1 <= i => i # io.next
    BY <1>6
  <2> QED
    BY <1>1, <1>6, <2>1, <2>2 DEF Behind
<1>9. SentTo(s) = n - j - 1 /\ SentTo(s)' = n - j - 0
  BY <1>1, <1>7, <1>8 DEF SentTo
<1>10. /\ j <= n /\ written[s] + Len(w) <= SentTo(s) /\ c + Len(w) <= SentTo(s)
       /\ peer[s] = "open" =>
            /\ c + Len(w) = SentTo(s)
            /\ \A i \in DOMAIN w : w[i].round = log[j + c + i]
       /\ c > 0 => got[s].round = log[j + c] /\ (got[s].bytes = got[s].round \/ got[s].late)
  BY DEF PositionAt
<1>11. x.round = log[n]
  BY <1>1 DEF LogInv
<1>12. /\ written[s] + (Len(w) + 1) <= SentTo(s)'
       /\ c + (Len(w) + 1) <= SentTo(s)'
       /\ peer[s] = "open" => c + (Len(w) + 1) = SentTo(s)' /\ j + c + (Len(w) + 1) = n
  <2> HIDE DEF w, c, n, j
  <2> QED
    BY <1>4, <1>9, <1>10
<1>13. ASSUME peer[s] = "open", NEW i \in 1 .. Len(w) + 1
       PROVE  writes'[s][i].round = log[j + c + i]
  <2> HIDE DEF w, c, n, j, x
  <2>1. CASE i \in 1 .. Len(w)
    BY <1>4, <1>5, <1>10, <1>13, <2>1
  <2>2. CASE i = Len(w) + 1
    BY <1>5, <1>11, <1>12, <1>13, <2>2
  <2> QED
    BY <1>4, <2>1, <2>2
<1>14. got' = got /\ joinedAt' = joinedAt /\ log' = log /\ peer' = peer /\ written' = written
  BY <1>1
<1> QED
  BY <1>5, <1>10, <1>12, <1>13, <1>14 DEF PositionAt

\* A client starts with nothing, at the end of what has been broadcast.
LEMMA PositionAccept ==
  ASSUME TypeOK, SessionInv, NEW s \in Sessions, Accept(s)
  PROVE  PositionAt(s)'
<1>1. /\ io.at = "idle" /\ io' = io /\ log' = log /\ writes' = writes /\ written' = written
      /\ got' = got /\ joinedAt' = [joinedAt EXCEPT ![s] = Len(log)]
  BY DEF Accept, IoAt, taskVars, writeVars
<1>2. writes[s] = <<>> /\ written[s] = 0 /\ got[s] = NothingGot
  <2>1. ~Joined(s) /\ got[s] = NothingGot
    BY DEF Accept, SessionInv
  <2>2. ~(written[s] > 0) /\ writes[s] = <<>>
    BY <2>1 DEF SessionInv
  <2>3. written[s] \in Nat
    BY PositionTypes
  <2> QED
    BY <2>1, <2>2, <2>3
<1>3. got[s].count = 0
  BY <1>2 DEF NothingGot
<1>4. Behind(s)' = 0
  BY <1>1 DEF Behind
<1>5. Len(log) \in Nat
  BY PositionTypes
<1>6. joinedAt'[s] = Len(log)
  BY <1>1 DEF TypeOK
<1>7. SentTo(s)' = 0
  BY <1>1, <1>4, <1>5, <1>6 DEF SentTo
<1> QED
  BY <1>1, <1>2, <1>3, <1>5, <1>6, <1>7 DEF PositionAt

\* While the io thread broadcasts, only Send and BroadcastEnd change who is behind.
LEMMA BehindSame ==
  ASSUME MainInv, NEW s,
         \/ io.at # "broadcast" /\ io'.at # "broadcast"
         \/ io.at = "broadcast" /\ io' = io /\ users' = users
  PROVE  Behind(s)' = Behind(s)
BY DEF Behind

\* At the end of a broadcast everybody stands behind its reply.
LEMMA PositionBroadcastEnd ==
  ASSUME TypeOK, IoInv, NEW s \in Sessions, PositionAt(s), BroadcastEnd
  PROVE  PositionAt(s)'
<1>1. /\ io.at = "broadcast" /\ io.next \notin DOMAIN users /\ log' = log /\ written' = written
      /\ io' = [io EXCEPT !.at = "rearm", !.reply = None]
      /\ got' = got /\ peer' = peer /\ joinedAt' = joinedAt /\ users' = users
  BY DEF BroadcastEnd, IoAt, netVars, roomVars
<1>2. writes[s] \in Seq(WriteRecord) /\ DOMAIN writes[s] = 1 .. Len(writes[s])
      /\ Len(writes[s]) \in Nat
  BY PositionTypes
<1>3. writes'[s] = [i \in 1 .. Len(writes[s]) |->
                      [writes[s][i] EXCEPT !.late = @ \/ writes[s][i].round = round]]
  BY <1>2 DEF BroadcastEnd, Belated
<1>4. DOMAIN writes'[s] = DOMAIN writes[s] /\ Len(writes'[s]) = Len(writes[s])
  BY <1>2, <1>3
<1>5. \A i \in DOMAIN writes[s] : writes[s][i] \in WriteRecord
  BY <1>2, ElementOfSeq
<1>6. \A i \in DOMAIN writes[s] : writes'[s][i].round = writes[s][i].round
  BY <1>2, <1>3, <1>5 DEF WriteRecord
<1>7. Behind(s) = 0
  <2>1. DOMAIN users = 1 .. Len(users) /\ Len(users) \in Nat /\ io.next \in Nat /\ io.next > 0
    BY <1>1 DEF TypeOK, IoInv
  <2>2. \A i \in DOMAIN users : ~(io.next <= i)
    BY <1>1, <2>1
  <2> QED
    BY <2>2 DEF Behind
<1>8. Behind(s)' = 0
  <2>1. io'.at = "rearm"
    BY <1>1 DEF TypeOK
  <2> QED
    BY <2>1 DEF Behind
<1>9. written[s] \in Nat
  BY PositionTypes
<1> QED
  BY <1>1, <1>4, <1>6, <1>7, <1>8, <1>9, PositionSame

\* The writes of a connection that has ended fail.
LEMMA PositionWritesFail ==
  ASSUME TypeOK, NEW s \in Sessions, PositionAt(s), WritesFail(s)
  PROVE  PositionAt(s)'
<1>1. /\ peer[s] = "closed" /\ writes'[s] = <<>> /\ written'[s] = written[s] + Len(writes[s])
      /\ got' = got /\ peer' = peer /\ joinedAt' = joinedAt /\ log' = log
      /\ io' = io /\ users' = users
  BY DEF WritesFail, TypeOK, netVars, roomVars, taskVars
<1>2. SentTo(s)' = SentTo(s)
  BY <1>1 DEF SentTo, Behind
<1>3. SentTo(s) \in Int /\ got[s].count \in Nat /\ written[s] \in Nat /\ Len(writes[s]) \in Nat
  BY PositionTypes DEF SentTo
<1>4. written[s] + Len(writes[s]) <= SentTo(s) /\ got[s].count + Len(writes[s]) <= SentTo(s)
  BY DEF PositionAt
<1>5. Len(writes'[s]) = 0
  BY <1>1
<1>6. /\ written'[s] + Len(writes'[s]) <= SentTo(s)'
      /\ got'[s].count + Len(writes'[s]) <= SentTo(s)'
  BY <1>1, <1>2, <1>3, <1>4, <1>5
<1>7. joinedAt'[s] <= Len(log') /\ peer'[s] # "open"
  BY <1>1 DEF PositionAt
<1>8. got'[s].count > 0 => /\ got'[s].round = log'[joinedAt'[s] + got'[s].count]
                          /\ (got'[s].bytes = got'[s].round \/ got'[s].late)
  BY <1>1 DEF PositionAt
<1> QED
  BY <1>6, <1>7, <1>8 DEF PositionAt

\* A step that starts or finishes no write leaves a client where it is.
LEMMA PositionFrame ==
  ASSUME TypeOK, MainInv, NEW s \in Sessions, PositionAt(s),
         peer'[s] \in {peer[s], "closed"}, got'[s] = got[s], joinedAt'[s] = joinedAt[s],
         writes'[s] = writes[s], written'[s] = written[s], log' = log,
         \/ io.at # "broadcast" /\ io'.at # "broadcast"
         \/ io.at = "broadcast" /\ io' = io /\ users' = users
  PROVE  PositionAt(s)'
<1>1. Behind(s)' = Behind(s)
  BY BehindSame
<1>2. written[s] \in Nat
  BY PositionTypes
<1> QED
  BY <1>1, <1>2, PositionSame

\* A client that leaves has nothing, and its writes stay behind what was sent.
LEMMA PositionClose ==
  ASSUME TypeOK, NEW s \in Sessions, PositionAt(s), Close(s)
  PROVE  PositionAt(s)'
<1>1. /\ peer'[s] = "closed" /\ got'[s] = NothingGot
      /\ joinedAt' = joinedAt /\ log' = log /\ io' = io /\ users' = users
      /\ writes' = writes /\ written' = written
  BY DEF Close, TypeOK, heapVars, mainVars, roomVars, writeVars, taskVars
<1>2. SentTo(s)' = SentTo(s)
  BY <1>1 DEF SentTo, Behind
<1>3. SentTo(s) \in Int /\ got[s].count \in Nat /\ Len(writes[s]) \in Nat
  BY PositionTypes DEF SentTo
<1>4. got'[s].count = 0
  BY <1>1 DEF NothingGot
<1>5. got'[s].count + Len(writes'[s]) <= SentTo(s)'
  BY <1>1, <1>2, <1>3, <1>4 DEF PositionAt
<1> QED
  BY <1>1, <1>2, <1>4, <1>5 DEF PositionAt

\* Every client stays where it should be in the sequence of broadcasts.
LEMMA PositionStep ==
  ASSUME TypeOK, MainInv, SessionInv, IoInv, TaskInv, HeapInv, LogInv, WriteInv, PositionInv,
         [Next]_vars
  PROVE  PositionInv'
<1> SUFFICES ASSUME NEW c \in Sessions, peer'[c] # "away"
             PROVE  PositionAt(c)'
  BY DEF PositionInv
<1>a. peer[c] # "away" => PositionAt(c)
  BY DEF PositionInv
<1> USE PositionFrame DEF heapVars, netVars, mainVars, roomVars, writeVars, taskVars, KeepHeap,
     Running, IoAt, IoIdle
<1>1. ASSUME NEW s \in Sessions, Close(s) PROVE PositionAt(c)'
  <2>1. CASE c = s
    BY <1>1, <1>a, <2>1, PositionClose DEF Close
  <2>2. CASE c # s
    BY <1>1, <1>a, <2>2 DEF Close, TypeOK
  <2> QED
    BY <2>1, <2>2
<1>2. ASSUME NEW s \in Sessions, Transfer(s) PROVE PositionAt(c)'
  <2>1. CASE c = s
    BY <1>2, <1>a, <2>1, PositionTransfer DEF Transfer
  <2>2. CASE c # s
    BY <1>2, <1>a, <2>2, BehindSame DEF Transfer, TypeOK
  <2> QED
    BY <2>1, <2>2
<1>3. ASSUME NEW s \in Sessions, WritesFail(s) PROVE PositionAt(c)'
  <2>1. CASE c = s
    BY <1>3, <1>a, <2>1, PositionWritesFail DEF WritesFail
  <2>2. CASE c # s
    BY <1>3, <1>a, <2>2 DEF WritesFail, TypeOK
  <2> QED
    BY <2>1, <2>2
<1>4. ASSUME NEW s \in Sessions, Accept(s) PROVE PositionAt(c)'
  <2>1. CASE c = s
    BY <1>4, <2>1, PositionAccept
  <2>2. CASE c # s
    BY <1>4, <1>a, <2>2 DEF Accept, TypeOK
  <2> QED
    BY <2>1, <2>2
<1>5. ASSUME NEW s \in Sessions, ReadPacket(s) PROVE PositionAt(c)'
  <2>1. io.at = "idle" /\ io'.at = "wait"
    BY <1>5 DEF ReadPacket, HandleBody
  <2> QED
    BY <1>5, <1>a, <2>1 DEF ReadPacket, HandleBody
<1>6. CASE AcceptFails
  BY <1>6, <1>a DEF AcceptFails, TypeOK
<1>7. ASSUME NEW s \in Sessions, ReadFails(s) PROVE PositionAt(c)'
  BY <1>7, <1>a DEF ReadFails, TypeOK
<1>8. ASSUME NEW s \in Sessions, HandleWrite(s) PROVE PositionAt(c)'
  <2>0. peer[c] # "away" /\ PositionAt(c)
    BY <1>8, <1>a DEF HandleWrite
  <2>1. written[c] \in Nat /\ written[s] \in Nat
    BY PositionTypes
  <2>2. written'[c] \in Nat /\ written'[c] <= written[c]
    BY <1>8, <2>1, SMTT(30) DEF HandleWrite, TypeOK
  <2>3. Behind(c)' = Behind(c)
    BY <1>8 DEF HandleWrite, Behind
  <2> QED
    BY <1>8, <2>0, <2>2, <2>3, PositionSame DEF HandleWrite
<1>9. CASE GetPacket
  BY <1>9, <1>a, PositionGetPacket DEF GetPacket, GetPacket
<1>10. CASE GetNothing
  BY <1>10, <1>a DEF GetNothing, TypeOK
<1>11. CASE Send
  <2>0. peer[c] # "away" /\ PositionAt(c)
    BY <1>11, <1>a DEF Send
  <2>1. CASE c = users[io.next]
    BY <1>11, <2>0, <2>1, PositionSend
  <2>2. CASE c # users[io.next]
    <3>1. /\ io.at = "broadcast" /\ io'.at = "broadcast" /\ io'.next = io.next + 1 /\ users' = users
          /\ io.next \in Nat /\ DOMAIN users = 1 .. Len(users) /\ Len(users) \in Nat
      BY <1>11 DEF Send, TypeOK
    <3>2. \A i \in DOMAIN users : users[i] = c => (io.next <= i <=> io.next + 1 <= i)
      BY <2>2, <3>1
    <3>3. Behind(c)' = Behind(c)
      BY <3>1, <3>2 DEF Behind
    <3>4. writes'[c] = writes[c]
      BY <1>11, <2>2 DEF Send, TypeOK
    <3>5. written[c] \in Nat
      BY PositionTypes
    <3> QED
      BY <1>11, <2>0, <3>3, <3>4, <3>5, PositionSame DEF Send
  <2> QED
    BY <2>1, <2>2
<1>12. CASE BroadcastEnd
  BY <1>12, <1>a, PositionBroadcastEnd DEF BroadcastEnd
<1>13. CASE Rearm
  BY <1>13, <1>a DEF Rearm, TypeOK
<1>14. CASE RunReturns
  BY <1>14, <1>a DEF RunReturns, TypeOK
<1>15. ASSUME NEW w \in Workers, TakeTask(w) PROVE PositionAt(c)'
  BY <1>15, <1>a DEF TakeTask
<1>16. ASSUME NEW w \in Workers, RunTask(w) PROVE PositionAt(c)'
  BY <1>16, <1>a DEF RunTask
<1>17. ASSUME NEW w \in Workers, DropTask(w) PROVE PositionAt(c)'
  <2>1. RoomHeldWithout(w) \/ io.at = "returned"
    BY <1>17 DEF RoomHeldWithout, MainInv
  <2> QED
    BY <1>17, <1>a, <2>1 DEF DropTask
<1>18. ASSUME NEW w \in Workers, WorkerReturn(w) PROVE PositionAt(c)'
  BY <1>18, <1>a DEF WorkerReturn
<1>19. CASE MainStart
  BY <1>19, <1>a DEF MainStart, MainInv
<1>20. CASE MainThrows
  BY <1>20, <1>a DEF MainThrows
<1>21. CASE MainJoin
  BY <1>21, <1>a DEF MainJoin
<1>22. CASE DestroyRooms
  BY <1>22, <1>a DEF DestroyRooms, MainInv
<1>23. CASE DestroyTp
  BY <1>23, <1>a DEF DestroyTp
<1>24. CASE PoolDestroyed
  BY <1>24, <1>a DEF PoolDestroyed
<1>25. CASE DestroyIoService
  BY <1>25, <1>a DEF DestroyIoService
<1>26. CASE MainReturns
  BY <1>26, <1>a DEF MainReturns
<1>27. CASE UNCHANGED vars
  BY <1>a, <1>27 DEF vars
<1>28. ASSUME NEW s \in Sessions, ReadNothing(s) PROVE PositionAt(c)'
  <2>1. io.at = "idle" /\ io'.at = "wait"
    BY <1>28 DEF ReadNothing, HandleBody
  <2> QED
    BY <1>28, <1>a, <2>1 DEF ReadNothing, HandleBody
<1> QED
  BY <1>1, <1>2, <1>3, <1>4, <1>5, <1>6, <1>7, <1>8, <1>9, <1>10,
     <1>11, <1>12, <1>13, <1>14, <1>15, <1>16, <1>17, <1>18, <1>19, <1>20,
     <1>21, <1>22, <1>23, <1>24, <1>25, <1>26, <1>27, <1>28
  DEF Next, Io, Worker, Main

-------------------------------------------------------------------------------
(* Types *)

\* What a client has been sent is among the packets read so far.
LEMMA SentBound ==
  ASSUME TypeOK, LogInv, NEW s \in Sessions, PositionAt(s)
  PROVE  /\ written[s] + Len(writes[s]) \in Rounds \cup {0}
         /\ got[s].count + Len(writes[s]) \in Rounds \cup {0}
         /\ Len(log) \in 0 .. MaxRounds
<1>1. /\ Len(log) \in Nat /\ joinedAt[s] \in Nat /\ Behind(s) \in {0, 1}
      /\ written[s] \in Nat /\ Len(writes[s]) \in Nat /\ got[s].count \in Nat
  BY PositionTypes
<1>2. MaxRounds \in Nat /\ round \in Nat /\ round <= MaxRounds
  BY LifetimeAssumption DEF LifetimeAssumption, TypeOK, Rounds
<1>3. Len(log) <= round
  BY <1>1, <1>2 DEF LogInv
<1>4. SentTo(s) = Len(log) - joinedAt[s] - Behind(s)
  BY DEF SentTo
<1>5. SentTo(s) \in Int /\ SentTo(s) <= MaxRounds
  BY <1>1, <1>2, <1>3, <1>4
<1>6. written[s] + Len(writes[s]) <= SentTo(s) /\ got[s].count + Len(writes[s]) <= SentTo(s)
  BY DEF PositionAt
<1>7. \A n \in Nat : n <= MaxRounds => n \in Rounds \cup {0} /\ n \in 0 .. MaxRounds
  BY <1>2 DEF Rounds
<1>8. \A n \in Nat : n <= SentTo(s) => n <= MaxRounds
  BY <1>2, <1>5
<1>9. written[s] + Len(writes[s]) \in Nat /\ got[s].count + Len(writes[s]) \in Nat
  BY <1>1
<1>10. Len(log) <= MaxRounds
  BY <1>1, <1>2, <1>3
<1> QED
  BY <1>1, <1>6, <1>7, <1>8, <1>9, <1>10

\* Types are kept; the counts are, because a client is sent no more than was read.
LEMMA TypeStep ==
  ASSUME TypeOK, MainInv, SessionInv, IoInv, TaskInv, HeapInv, LogInv, PositionInv, [Next]_vars
  PROVE  TypeOK'
<1>m. MaxRounds \in Nat /\ 0 \in Contents /\ Junk \in Contents /\ \A n \in Rounds \cup {0} : n \in Contents
  BY LifetimeAssumption DEF LifetimeAssumption, Contents, Rounds
<1>r. round \in Rounds \cup {0} /\ round \in Nat /\ (io.at = "broadcast" => round \in Rounds)
  BY <1>m DEF TypeOK, IoInv, Rounds
<1>w. writes \in [Sessions -> Seq(WriteRecord)]
  BY DEF TypeOK, WriteRecord
<1>n. None \in Heaps /\ "null" \in Heaps \cup {"null"} /\ Blocks \subseteq Heaps
  BY DEF Heaps
<1>g. \A s \in Sessions : \A n \in Rounds \cup {0}, o \in Rounds \cup {0}, x \in Contents, l \in BOOLEAN :
        [got EXCEPT ![s] = [count |-> n, round |-> o, bytes |-> x, late |-> l]]
          \in [Sessions -> [count : Rounds \cup {0}, round : Rounds \cup {0},
                            bytes : Contents, late : BOOLEAN]]
  BY DEF TypeOK
<1>b. ASSUME NEW s \in Sessions, NEW b \in Blocks, io.at = "broadcast"
      PROVE  QueuedWrite(s, b) \in Seq(WriteRecord)
  <2>1. writes[s] \in Seq(WriteRecord) /\ [round |-> round, block |-> b, late |-> FALSE] \in WriteRecord
    BY <1>b, <1>r, <1>w DEF WriteRecord
  <2> QED
    BY <2>1, AppendProperties DEF QueuedWrite
<1>t. ASSUME NEW s \in Sessions, writes[s] # <<>>
      PROVE  Head(writes[s]) \in WriteRecord /\ Tail(writes[s]) \in Seq(WriteRecord)
             /\ Len(writes[s]) \in Nat \ {0}
  <2>1. writes[s] \in Seq(WriteRecord)
    BY <1>w
  <2> QED
    BY <1>t, <2>1, HeadTailProperties, LenProperties, EmptySeq
<1>y. memory \in [Blocks -> Contents] /\ live \subseteq Blocks
  BY DEF TypeOK
<1>z. {room, kept} \subseteq BOOLEAN /\ users \in Seq(Sessions) /\ <<>> \in Seq(Sessions)
  BY DEF TypeOK
<1>f. \A b : Free(b) => live' \subseteq Blocks /\ memory' \in [Blocks -> Contents]
  BY <1>m, <1>y DEF Free
<1>s. \A a \in Rounds \cup {0} : a > 0 => a - 1 \in Rounds \cup {0}
  BY <1>m DEF Rounds
<1>p. \A a \in Nat : \A l \in Nat \ {0} : a + l <= MaxRounds => a + 1 \in Rounds \cup {0}
  BY <1>m DEF Rounds
<1>l. \A b, h : Release(b, h) => live' \subseteq Blocks /\ memory' \in [Blocks -> Contents]
  BY <1>f DEF Release, KeepHeap, heapVars, TypeOK
<1>k. \A b \in Blocks : \A x \in Contents :
        Allocate(b, x) => live' \subseteq Blocks /\ memory' \in [Blocks -> Contents]
  BY DEF Allocate, TypeOK
<1>i. \A s \in Sessions \cup {None}, b \in Heaps, q \in Heaps, n \in Nat,
         a \in {"none", "idle", "wait", "broadcast", "rearm", "returned"} :
        [at |-> a, session |-> s, request |-> b, reply |-> q, next |-> n] \in
          [at : {"none", "idle", "wait", "broadcast", "rearm", "returned"},
           session : Sessions \cup {None}, request : Heaps, reply : Heaps, next : Nat]
  OBVIOUS
<1> USE DEF TypeOK, heapVars, netVars, mainVars, roomVars, writeVars, taskVars, KeepHeap,
     Running, IoAt, IoIdle, WorkerIdle, WriteRecord
<1>1. ASSUME NEW s \in Sessions, Close(s) PROVE TypeOK'
  <2>1. /\ got' = [got EXCEPT ![s] = [count |-> 0, round |-> 0, bytes |-> 0, late |-> FALSE]]
        /\ 0 \in Rounds \cup {0}
    BY <1>1 DEF Close, NothingGot
  <2>2. got' \in [Sessions -> [count : Rounds \cup {0}, round : Rounds \cup {0},
                              bytes : Contents, late : BOOLEAN]]
    BY <1>g, <1>m, <2>1
  <2> QED
    BY <1>1, <2>2 DEF Close
<1>2. ASSUME NEW s \in Sessions, Transfer(s) PROVE TypeOK'
  <2>1. PICK h : h = Head(writes[s])
    OBVIOUS
  <2>2. h \in WriteRecord /\ Tail(writes[s]) \in Seq(WriteRecord) /\ Len(writes[s]) \in Nat \ {0}
    BY <1>2, <1>t, <2>1 DEF Transfer
  <2>3. PositionAt(s)
    BY <1>2 DEF Transfer, PositionInv
  <2>4. written[s] + 1 \in Rounds \cup {0} /\ got[s].count + 1 \in Rounds \cup {0}
    <3> HIDE DEF TypeOK
    <3>1. written[s] + Len(writes[s]) <= MaxRounds /\ got[s].count + Len(writes[s]) <= MaxRounds
      BY <1>m, <2>3, SentBound DEF Rounds
    <3>2. written[s] \in Nat /\ got[s].count \in Nat
      BY PositionTypes
    <3> QED
      BY <1>p, <2>2, <3>1, <3>2
  <2>5. memory[h.block] \in Contents /\ h.round \in Rounds /\ h.late \in BOOLEAN
    BY <2>2
  <2>6. got' \in [Sessions -> [count : Rounds \cup {0}, round : Rounds \cup {0},
                              bytes : Contents, late : BOOLEAN]]
    <3>1. got' = [got EXCEPT ![s] = [count |-> got[s].count + 1, round |-> h.round,
                                     bytes |-> memory[h.block], late |-> h.late]]
      BY <1>2, <2>1 DEF Transfer
    <3> HIDE DEF TypeOK
    <3> QED
      BY <1>g, <2>4, <2>5, <3>1
  <2>7. writes' \in [Sessions -> Seq(WriteRecord)] /\ written' \in [Sessions -> Rounds \cup {0}]
    BY <1>2, <1>w, <2>2, <2>4 DEF Transfer
  <2> QED
    BY <1>2, <2>6, <2>7 DEF Transfer
<1>3. ASSUME NEW s \in Sessions, WritesFail(s) PROVE TypeOK'
  <2>1. PositionAt(s)
    BY <1>3 DEF WritesFail, PositionInv
  <2>2. written[s] + Len(writes[s]) \in Rounds \cup {0}
    BY <2>1, SentBound
  <2>3. writes' \in [Sessions -> Seq(WriteRecord)] /\ written' \in [Sessions -> Rounds \cup {0}]
    <3>1. <<>> \in Seq(WriteRecord)
      BY EmptySeq
    <3>2. writes' = [writes EXCEPT ![s] = <<>>] /\ written' = [written EXCEPT ![s] = written[s] + Len(writes[s])]
      BY <1>3 DEF WritesFail
    <3> QED
      BY <1>w, <2>2, <3>1, <3>2
  <2> QED
    BY <1>3, <2>3 DEF WritesFail
<1>4. ASSUME NEW s \in Sessions, Accept(s) PROVE TypeOK'
  <2>1. users' \in Seq(Sessions)
    BY <1>4, AppendProperties DEF Accept
  <2>2. Len(log) \in 0 .. MaxRounds
    <3>1. Len(log) \in Nat
      OBVIOUS
    <3>2. Len(log) <= round /\ round <= MaxRounds
      BY <1>m, <1>r, <3>1 DEF LogInv, Rounds
    <3> QED
      BY <1>m, <1>r, <3>1, <3>2
  <2> QED
    BY <1>4, <2>1, <2>2 DEF Accept
<1>5. ASSUME NEW s \in Sessions, ReadPacket(s) PROVE TypeOK'
  <2>1. PICK b \in Blocks : Allocate(b, 0) /\ queue' = Append(queue, b)
          /\ io' = [at |-> "wait", session |-> s, request |-> b, reply |-> None, next |-> 0]
    BY <1>5 DEF ReadPacket, HandleBody
  <2>2. live' \subseteq Blocks /\ memory' \in [Blocks -> Contents]
    BY <1>m, <1>k, <2>1
  <2>3. queue' \in Seq(Blocks)
    BY <2>1, AppendProperties
  <2>4. round' \in Rounds \cup {0}
    BY <1>5, <1>m, <1>r DEF ReadPacket, HandleBody, Rounds
  <2>5. io' \in [at : {"none", "idle", "wait", "broadcast", "rearm", "returned"},
                session : Sessions \cup {None}, request : Heaps, reply : Heaps, next : Nat]
    BY <1>i, <1>n, <2>1
  <2> QED
    BY <1>5, <2>2, <2>3, <2>4, <2>5 DEF ReadPacket, HandleBody
<1>6. CASE AcceptFails
  BY <1>6 DEF AcceptFails
<1>7. ASSUME NEW s \in Sessions, ReadFails(s) PROVE TypeOK'
  BY <1>7 DEF ReadFails, ReadAfterError, UsersAfterError
<1>8. ASSUME NEW s \in Sessions, HandleWrite(s) PROVE TypeOK'
  <2>1. written[s] - 1 \in Rounds \cup {0}
    BY <1>8, <1>s DEF HandleWrite
  <2> QED
    BY <1>8, <2>1 DEF HandleWrite
<1>9. CASE GetPacket
  <2>0. round \in Rounds
    BY <1>9, <1>r DEF GetPacket, HasPacket, TaskInv, IoInv, Rounds
  <2>1. log' \in Seq(Rounds)
    BY <1>9, <2>0, AppendProperties DEF GetPacket
  <2> QED
    BY <1>9, <1>n, <2>1 DEF GetPacket, HasPacket, ReplyKept
<1>10. CASE GetNothing
  BY <1>10, <1>n DEF GetNothing
<1>11. CASE Send
  <2>1. users[io.next] \in Sessions /\ io.at = "broadcast" /\ io.reply \in Blocks
    BY <1>11 DEF Send, IoInv
  <2>2. QueuedWrite(users[io.next], io.reply) \in Seq(WriteRecord)
    BY <1>b, <2>1
  <2>3. writes' \in [Sessions -> Seq(WriteRecord)]
    BY <1>11, <1>w, <2>2 DEF Send
  <2>4. io' \in [at : {"none", "idle", "wait", "broadcast", "rearm", "returned"},
                session : Sessions \cup {None}, request : Heaps, reply : Heaps, next : Nat]
    <3>1. io' = [io EXCEPT !.next = io.next + 1] /\ io.next \in Nat
      BY <1>11 DEF Send
    <3>2. io.next + 1 \in Nat
      BY <3>1
    <3> HIDE DEF WriteRecord
    <3> QED
      BY <3>1, <3>2
  <2> QED
    BY <1>11, <2>3, <2>4 DEF Send
<1>12. CASE BroadcastEnd
  <2>1. ASSUME NEW s \in Sessions PROVE Belated(s) \in Seq(WriteRecord)
    <3>1. writes[s] \in Seq(WriteRecord) /\ Len(writes[s]) \in Nat
          /\ DOMAIN writes[s] = 1 .. Len(writes[s])
      BY PositionTypes
    <3>2. \A j \in 1 .. Len(writes[s]) : writes[s][j] \in WriteRecord
      BY <3>1, ElementOfSeq
    <3>3. \A j \in 1 .. Len(writes[s]) :
            [writes[s][j] EXCEPT !.late = @ \/ writes[s][j].round = round] \in WriteRecord
      <4> HIDE DEF TypeOK
      <4> QED
        BY ONLY <3>2 DEF WriteRecord
    <3>4. Belated(s) = [j \in 1 .. Len(writes[s]) |->
            [writes[s][j] EXCEPT !.late = @ \/ writes[s][j].round = round]]
      BY <3>1 DEF Belated
    <3> HIDE DEF TypeOK, WriteRecord
    <3> QED
      BY <3>1, <3>3, <3>4
  <2>2. writes' \in [Sessions -> Seq(WriteRecord)]
    BY <1>12, <2>1 DEF BroadcastEnd
  <2>3. io' \in [at : {"none", "idle", "wait", "broadcast", "rearm", "returned"},
                session : Sessions \cup {None}, request : Heaps, reply : Heaps, next : Nat]
    BY <1>12, <1>n DEF BroadcastEnd
  <2> QED
    BY <1>12, <1>f, <2>2, <2>3 DEF BroadcastEnd
<1>13. CASE Rearm
  <2>1. reading' \in [Sessions -> BOOLEAN] /\ live' \subseteq Blocks /\ memory' \in [Blocks -> Contents]
    BY <1>13, <1>l DEF Rearm
  <2> QED
    BY <1>13, <1>n, <2>1 DEF Rearm
<1>14. CASE RunReturns
  BY <1>14 DEF RunReturns
<1>15. ASSUME NEW w \in Workers, TakeTask(w) PROVE TypeOK'
  <2>1. Head(queue) \in Blocks /\ Tail(queue) \in Seq(Blocks)
    BY <1>15, HeadTailProperties DEF TakeTask
  <2> QED
    BY <1>15, <1>n, <2>1 DEF TakeTask
<1>16. ASSUME NEW w \in Workers, RunTask(w) PROVE TypeOK'
  <2>1. outcome' \in Heaps \cup {"null"} /\ live' \subseteq Blocks /\ memory' \in [Blocks -> Contents]
    BY <1>16, <1>m, <1>n, <1>r, <1>k DEF RunTask
  <2>2. length' \in [Sessions -> {"unknown", "some", "zero"}]
    BY <1>16 DEF RunTask
  <2>3. worker' \in [Workers -> [at : {"idle", "run", "drop", "exited"}, request : Heaps]]
    <3>1. worker' = [worker EXCEPT ![w].at = "drop"]
      BY <1>16 DEF RunTask
    <3>2. worker \in [Workers -> [at : {"idle", "run", "drop", "exited"}, request : Heaps]]
      OBVIOUS
    <3> QED
      BY ONLY <3>1, <3>2, w \in Workers
  <2> QED
    BY <1>16, <2>1, <2>2, <2>3 DEF RunTask
<1>17. ASSUME NEW w \in Workers, DropTask(w) PROVE TypeOK'
  <2>1. live' \subseteq Blocks /\ memory' \in [Blocks -> Contents]
    BY <1>17, <1>l DEF DropTask
  <2>2. room' \in BOOLEAN /\ users' \in Seq(Sessions) /\ process' \in {"running", "exited", "aborted"}
    <3>1. room' \in {room, FALSE} /\ users' \in {users, <<>>} /\ process' \in {process, "running", "aborted"}
      BY <1>17 DEF DropTask, DestroyRoom
    <3> QED
      BY <1>z, <3>1
  <2> QED
    BY <1>17, <1>n, <2>1, <2>2, ZenonT(30) DEF DropTask
<1>18. ASSUME NEW w \in Workers, WorkerReturn(w) PROVE TypeOK'
  BY <1>18 DEF WorkerReturn
<1>19. CASE MainStart
  BY <1>19, <1>n DEF MainStart
<1>20. CASE MainThrows
  BY <1>20 DEF MainThrows
<1>21. CASE MainJoin
  BY <1>21 DEF MainJoin
<1>22. CASE DestroyRooms
  <2>1. room' \in {room, FALSE} /\ users' \in {users, <<>>} /\ kept' \in BOOLEAN
    BY <1>22 DEF DestroyRooms, DestroyRoom, TaskKeepsRoom
  <2>2. room' \in BOOLEAN /\ users' \in Seq(Sessions)
    BY <1>z, <2>1
  <2> QED
    BY <1>22, <2>1, <2>2 DEF DestroyRooms
<1>23. CASE DestroyTp
  BY <1>23 DEF DestroyTp
<1>24. CASE PoolDestroyed
  BY <1>24 DEF PoolDestroyed
<1>25. CASE DestroyIoService
  BY <1>25 DEF DestroyIoService
<1>26. CASE MainReturns
  BY <1>26 DEF MainReturns
<1>27. CASE UNCHANGED vars
  BY <1>27, ZenonT(30) DEF vars
<1>28. ASSUME NEW s \in Sessions, ReadNothing(s) PROVE TypeOK'
  <2>1. PICK b \in Blocks : Allocate(b, 0) /\ queue' = Append(queue, b)
          /\ io' = [at |-> "wait", session |-> s, request |-> b, reply |-> None, next |-> 0]
    BY <1>28 DEF ReadNothing, HandleBody
  <2>2. live' \subseteq Blocks /\ memory' \in [Blocks -> Contents]
    BY <1>m, <1>k, <2>1
  <2>3. queue' \in Seq(Blocks)
    BY <2>1, AppendProperties
  <2>4. round' \in Rounds \cup {0}
    BY <1>28, <1>m, <1>r DEF ReadNothing, HandleBody, Rounds
  <2>5. io' \in [at : {"none", "idle", "wait", "broadcast", "rearm", "returned"},
                session : Sessions \cup {None}, request : Heaps, reply : Heaps, next : Nat]
    BY <1>i, <1>n, <2>1
  <2> QED
    BY <1>28, <2>2, <2>3, <2>4, <2>5 DEF ReadNothing, HandleBody
<1> QED
  BY <1>1, <1>2, <1>3, <1>4, <1>5, <1>6, <1>7, <1>8, <1>9, <1>10,
     <1>11, <1>12, <1>13, <1>14, <1>15, <1>16, <1>17, <1>18, <1>19, <1>20,
     <1>21, <1>22, <1>23, <1>24, <1>25, <1>26, <1>27, <1>28
  DEF Next, Io, Worker, Main

-------------------------------------------------------------------------------
(* The theorems *)

\* The invariant holds before main() starts.
LEMMA InitHolds == Init => IInv
<1> SUFFICES ASSUME Init PROVE IInv
  OBVIOUS
<1> USE LifetimeAssumption DEF Init, IoIdle, WorkerIdle, NothingGot
<1>1. TypeOK
  <2>1. 0 \in 0 .. MaxRounds /\ 0 \in Rounds \cup {0}
    BY DEF LifetimeAssumption, Rounds
  <2>2. None \in Heaps /\ 0 \in Contents /\ Junk \in Contents
    BY <2>1 DEF Heaps, Contents
  <2>3. <<>> \in Seq(Sessions) /\ <<>> \in Seq([round : Rounds, block : Blocks, late : BOOLEAN])
        /\ <<>> \in Seq(Blocks) /\ <<>> \in Seq(Rounds)
    BY EmptySeq
  <2> QED
    BY <2>1, <2>2, <2>3 DEF TypeOK
<1>2. MainInv
  BY DEF MainInv
<1>3. SessionInv
  BY DEF SessionInv, LifetimeAssumption, Joined, ToSet
<1>4. IoInv /\ TaskInv /\ LogInv /\ WriteInv /\ PositionInv
  BY DEF IoInv, TaskInv, LogInv, WriteInv, PositionInv, Handling
<1>5. HeapInv
  BY DEF HeapInv, Owned, LifetimeAssumption
<1>6. EndInv /\ SpinInv
  BY DEF EndInv, SpinInv
<1> QED
  BY <1>1, <1>2, <1>3, <1>4, <1>5, <1>6 DEF IInv

\* Every step keeps the invariant.
LEMMA InvStep == IInv /\ [Next]_vars => IInv'
<1> SUFFICES ASSUME IInv, [Next]_vars PROVE IInv'
  OBVIOUS
<1>0. TypeOK /\ MainInv /\ SessionInv /\ IoInv /\ TaskInv /\ HeapInv /\ LogInv /\ WriteInv
      /\ PositionInv /\ EndInv /\ SpinInv
  BY DEF IInv
<1>1. TypeOK' /\ MainInv' /\ SessionInv' /\ IoInv' /\ TaskInv'
  BY <1>0, TypeStep, MainStep, SessionStep, IoStep, TaskStep
<1>2. HeapInv' /\ LogInv' /\ WriteInv' /\ PositionInv' /\ EndInv' /\ SpinInv'
  BY <1>0, HeapStep, LogStep, WriteStep, PositionStep, EndStep, SpinStep
<1> QED
  BY <1>1, <1>2 DEF IInv

(***************************************************************************)
(* Every part of the inductive invariant holds in every state, whatever    *)
(* the clients, the network, the heap and the workers do.                  *)
(***************************************************************************)
THEOREM LifetimesInvariance == Spec => []IInv
<1>1. Init => IInv
  BY InitHolds
<1>2. IInv /\ [Next]_vars => IInv'
  BY InvStep
<1> QED
  BY <1>1, <1>2, PTL DEF Spec

\* Pointers are null or point to objects of their type, and no count leaves its bounds.
THEOREM TypeCorrect == Spec => []TypeOK
<1>1. IInv => TypeOK
  BY DEF IInv
<1> QED
  BY <1>1, LifetimesInvariance, PTL

\* A client receives the broadcasts since it joined, in order and none twice, and each
\* with the bytes that were broadcast, unless its write outlived the packet of PassTask.
THEOREM PromptBytes == Spec => []PromptBytesAreRight
<1>1. IInv => PromptBytesAreRight
  <2> SUFFICES ASSUME IInv, NEW s \in Sessions, got[s].count > 0
               PROVE  /\ got[s].round = Due(s)[got[s].count]
                      /\ (got[s].bytes = got[s].round \/ got[s].late)
    BY DEF PromptBytesAreRight
  <2>1. TypeOK /\ SessionInv /\ PositionInv
    BY DEF IInv
  <2>2. PositionAt(s)
    <3>1. peer[s] # "away"
      BY <2>1 DEF SessionInv, NothingGot
    <3> QED
      BY <2>1, <3>1 DEF PositionInv
  <2>3. /\ Len(log) \in Nat /\ joinedAt[s] \in Nat /\ got[s].count \in Nat
        /\ log \in Seq(Rounds) /\ Len(writes[s]) \in Nat /\ Behind(s) \in {0, 1}
    BY <2>1, PositionTypes
  <2>4. got[s].count + Len(writes[s]) <= SentTo(s) /\ joinedAt[s] <= Len(log)
    BY <2>2 DEF PositionAt
  <2>5. SentTo(s) = Len(log) - joinedAt[s] - Behind(s)
    BY DEF SentTo
  <2> DEFINE n == Len(log)
             j == joinedAt[s]
             c == got[s].count
  <2>6. c \in 1 .. n - j /\ j + 1 \in 1 .. n + 1 /\ n \in Nat /\ j \in Nat
    <3>1. /\ n \in Nat /\ j \in Nat /\ c \in Nat /\ c > 0 /\ Len(writes[s]) \in Nat
          /\ Behind(s) \in {0, 1} /\ c + Len(writes[s]) <= n - j - Behind(s) /\ j <= n
      BY <2>3, <2>4, <2>5
    <3> HIDE DEF n, j, c
    <3> QED
      BY <3>1
  <2>7. SubSeq(log, j + 1, n)[c] = log[j + c]
    <3>a. log \in Seq(Rounds) /\ n = Len(log)
      BY <2>3
    <3> HIDE DEF n, j, c
    <3>b. j + 1 \in 1 .. Len(log) + 1 /\ n \in j + 1 - 1 .. Len(log)
          /\ (j + 1 <= n \/ n = j)
      BY <2>6, <3>a
    <3>1. \A i \in 1 .. n - j : SubSeq(log, j + 1, n)[i] = log[j + i]
      BY <2>6, <3>a, <3>b, SubSeqProperties
    <3> QED
      BY <2>6, <3>1
  <2>8. got[s].round = log[j + c] /\ (got[s].bytes = got[s].round \/ got[s].late)
    BY <2>2 DEF PositionAt
  <2> QED
    BY <2>7, <2>8 DEF Due
<1> QED
  BY <1>1, LifetimesInvariance, PTL

\* The raw `this` of a handler is valid whenever the handler is outstanding or runs, and
\* no handler hands a task to a pool that stops.
THEOREM HandlersAreSafe == Spec => []HandlersHaveTheirObjects
<1>1. IInv => HandlersHaveTheirObjects
  <2> SUFFICES ASSUME IInv PROVE HandlersHaveTheirObjects
    OBVIOUS
  <2>1. TypeOK /\ MainInv /\ SessionInv /\ IoInv
    BY DEF IInv
  <2>2. accepting => room
    BY <2>1 DEF MainInv
  <2>3. io.at \notin {"none", "returned"} => pool /\ ~stop /\ io_service
    BY <2>1 DEF MainInv
  <2>4. ASSUME NEW s \in Sessions,
               reading[s] \/ writes[s] # <<>> \/ written[s] > 0 \/ io.session = s
        PROVE  room /\ Joined(s)
    <3>1. Joined(s)
      BY <2>1, <2>4 DEF SessionInv
    <3>2. main # "start"
      BY <2>1, <3>1 DEF MainInv, Joined, ToSet
    <3>3. main \in {"join", "rooms"}
      <4> SUFFICES ASSUME main \notin {"start", "join", "rooms"} PROVE FALSE
        BY <3>2
      <4>1. io.at = "returned" /\ ~reading[s] /\ writes[s] = <<>> /\ written[s] = 0
        BY <2>1 DEF MainInv, NoWork
      <4>2. io.session = None
        BY <2>1, <4>1 DEF IoInv, Handling
      <4> QED
        BY <2>4, <4>1, <4>2, LifetimeAssumption DEF LifetimeAssumption
    <3> QED
      BY <2>1, <3>1, <3>3 DEF MainInv
  <2> QED
    BY <2>2, <2>3, <2>4 DEF HandlersHaveTheirObjects
<1> QED
  BY <1>1, LifetimesInvariance, PTL

\* Unless a worker was letting go of its last task when main() let go of the rooms, a
\* server that has started ends with its pool, its threads and its blocks gone.
THEOREM CleanEnd == Spec => []CleanEndUnlessKept
<1>1. IInv => CleanEndUnlessKept
  <2> SUFFICES ASSUME IInv PROVE CleanEndUnlessKept
    OBVIOUS
  <2>1. TypeOK /\ MainInv /\ IoInv /\ TaskInv /\ HeapInv /\ EndInv
    BY DEF IInv
  <2>2. process = "aborted" => kept \/ main = "start"
    BY <2>1 DEF EndInv
  <2>3. ASSUME process = "exited", ~kept
        PROVE  ~pool /\ live = {} /\ \A w \in Workers : worker[w].at = "exited"
    <3>1. main = "logger" /\ ~pool /\ \A w \in Workers : worker[w].at = "exited"
      BY <2>1, <2>3 DEF EndInv
    <3>2. io.at = "returned"
      BY <2>1, <3>1 DEF MainInv
    <3>3. io.request = None /\ io.reply = None /\ outcome = None
      BY <2>1, <3>2 DEF IoInv, TaskInv, Handling
    <3>4. \A w \in Workers : worker[w].request = None
      BY <2>1, <3>1 DEF TaskInv
    <3>5. Owned = {}
      BY <3>3, <3>4, LifetimeAssumption DEF Owned, LifetimeAssumption
    <3> QED
      BY <2>1, <3>1, <3>5 DEF HeapInv
  <2> QED
    BY <2>2, <2>3 DEF CleanEndUnlessKept
<1> QED
  BY <1>1, LifetimesInvariance, PTL

\* The exception that ServerEnds makes is no more than it has to be: once a connection has
\* ended with an empty header in data_, main() waits for the io thread for ever.
THEOREM EmptyHeaderNeverEnds ==
  Spec => [](\A s \in Sessions : Spinning(s) => main = "join" /\ process = "running")
<1> DEFINE Waits == \A s \in Sessions : Spinning(s) => main = "join" /\ process = "running"
<1>1. IInv => Waits
  <2> SUFFICES ASSUME IInv, NEW s \in Sessions, Spinning(s)
               PROVE  main = "join" /\ process = "running"
    OBVIOUS
  <2>1. reading[s] \/ io.session = s
    BY DEF Spinning, IInv, SpinInv
  <2>2. io.at # "returned"
    BY <2>1, LifetimeAssumption DEF IInv, MainInv, NoWork, IoInv, Handling, LifetimeAssumption
  <2>3. main # "start"
    BY DEF Spinning, Joined, ToSet, IInv, MainInv
  <2>4. main = "join"
    BY <2>2, <2>3 DEF IInv, MainInv
  <2> QED
    BY <2>4 DEF IInv, TypeOK, SpinInv, EndInv
<1> QED
  BY <1>1, LifetimesInvariance, PTL

===============================================================================
