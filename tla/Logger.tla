-------------------------------- MODULE Logger --------------------------------
(***************************************************************************)
(* The logger of digital_content_game (Logger.h, Logger.cpp), called by    *)
(* several threads: a line goes to the console at once and outside the     *)
(* lock, to a queue under the lock, and from there to the file when the    *)
(* queue is over QueueMax or the logger is destroyed. The process may die  *)
(* at any point; what the file stream has buffered is lost with it.        *)
(***************************************************************************)
EXTENDS Naturals, Sequences, FiniteSets, SequencesExt

CONSTANTS
  Threads,
  Levels,    \* the levels given to L(msg, LogLevel)
  QueueMax,
  MaxCalls,  \* bound: the calls of L that a thread makes
  None       \* no level, no thread

ASSUME LoggerAssumption ==
  /\ QueueMax \in Nat
  /\ MaxCalls \in Nat
  /\ None \notin Levels \cup Threads \cup Nat

VARIABLES
  pc,       \* where each thread is in L
  calls,    \* the calls of L that each thread has begun
  console,  \* the lines on std::cout
  queue,    \* LogQueue
  mtx,      \* the holder of mtx
  next,     \* the position of the loop that writes the queue to the file
  file,     \* the lines given to the file stream
  onDisk,   \* how many of them have left the stream's buffer
  phase,    \* "open", "destroying", "closed" or "dead"
  pushed,   \* history: the lines that WriteLog has taken, in order
  before    \* history: the lines whose calls had returned when a call began

vars == <<pc, calls, console, queue, mtx, next, file, onDisk, phase, pushed, before>>

-------------------------------------------------------------------------------
(* A line is named by its thread and the number of its call. Level 0 is the *)
(* one that L(msg) writes in front of its message.                          *)

Lines == Threads \X (1 .. MaxCalls)

Outputs == [line : Lines, level : {None, 0} \cup Levels]

\* What L(msg) shows on the console; the level is part of the text.
ConsoleDefault(l) == [line |-> l, level |-> 0]

\* What L(msg, LogLevel) shows: the text with the level is built and dropped.
ConsoleLevelled(l, level) == [line |-> l, level |-> None]

\* Both pass the bare message to WriteLog.
FileOutput(l) == [line |-> l, level |-> None]

\* Mutant: the number of the call is one ahead.
LineAhead(t) == <<t, Len(calls[t]) + 1>>

Line(t) == <<t, Len(calls[t])>>

LinesOf(outputs) == [i \in DOMAIN outputs |-> outputs[i].line]

Returned == {l \in Lines : l[2] < Len(calls[l[1]])
                             \/ (l[2] = Len(calls[l[1]]) /\ pc[l[1]] = "idle")}

Init ==
  /\ pc = [t \in Threads |-> "idle"]
  /\ calls = [t \in Threads |-> <<>>]
  /\ console = <<>>
  /\ queue = <<>>
  /\ mtx = None
  /\ next = 0
  /\ file = <<>>
  /\ onDisk = 0
  /\ phase = "open"
  /\ pushed = <<>>
  /\ before = [l \in Lines |-> {}]

-------------------------------------------------------------------------------
(* Logger::L *)

\* A call of L(msg), level None, or of L(msg, level).
Call(t, level) ==
  /\ phase = "open"
  /\ pc[t] = "idle"
  /\ Len(calls[t]) < MaxCalls
  /\ calls' = [calls EXCEPT ![t] = Append(@, level)]
  /\ pc' = [pc EXCEPT ![t] = "show"]
  /\ before' = [before EXCEPT ![<<t, Len(calls[t]) + 1>>] = Returned]
  /\ UNCHANGED <<console, queue, mtx, next, file, onDisk, phase, pushed>>

AfterShow == "lock"

Show(t) ==
  LET level == Last(calls[t])
      output == IF level = None THEN ConsoleDefault(Line(t)) ELSE ConsoleLevelled(Line(t), level)
  IN /\ phase = "open"
     /\ pc[t] = "show"
     /\ console' = Append(console, output)
     /\ pc' = [pc EXCEPT ![t] = AfterShow]
     /\ UNCHANGED <<calls, queue, mtx, next, file, onDisk, phase, pushed, before>>

-------------------------------------------------------------------------------
(* Logger::WriteLog *)

FlushDue(q) == Len(q) > QueueMax

\* Mutant: the newest line is written first.
Newest(q, output) == <<output>> \o q

Queued(q, output) == Append(q, output)

\* The lock, the push, and the check of the size.
Push(t) ==
  LET q == Queued(queue, FileOutput(Line(t)))
  IN /\ phase = "open"
     /\ pc[t] = "lock"
     /\ mtx = None
     /\ queue' = q
     /\ pushed' = Append(pushed, Line(t))
     /\ IF FlushDue(q)
        THEN mtx' = t /\ next' = 1 /\ pc' = [pc EXCEPT ![t] = "flush"]
        ELSE UNCHANGED <<mtx, next>> /\ pc' = [pc EXCEPT ![t] = "idle"]
     /\ UNCHANGED <<calls, console, file, onDisk, phase, before>>

\* One turn of "of << msg"; the stream passes on as much of its buffer as it likes.
WriteLine ==
  /\ next \in DOMAIN queue
  /\ file' = Append(file, queue[next])
  /\ onDisk' \in onDisk .. Len(file')
  /\ next' = next + 1

FlushLine(t) ==
  /\ phase = "open"
  /\ pc[t] = "flush"
  /\ WriteLine
  /\ UNCHANGED <<pc, calls, console, queue, mtx, phase, pushed, before>>

\* Mutant: the queue is not cleared.
Kept == queue

Cleared == <<>>

\* Mutant: the lock is kept.
KeptLock(t) == t

\* The lock_guard ends with WriteLog.
HolderAfter(t) == None

FlushEnd(t) ==
  /\ phase = "open"
  /\ pc[t] = "flush"
  /\ next \notin DOMAIN queue
  /\ queue' = Cleared
  /\ next' = 0
  /\ mtx' = HolderAfter(t)
  /\ pc' = [pc EXCEPT ![t] = "idle"]
  /\ UNCHANGED <<calls, console, file, onDisk, phase, pushed, before>>

-------------------------------------------------------------------------------
(* Logger::~Logger, which takes no lock: no call may be under way *)

Destroy ==
  /\ phase = "open"
  /\ \A t \in Threads : pc[t] = "idle"
  /\ phase' = "destroying"
  /\ next' = 1
  /\ UNCHANGED <<pc, calls, console, queue, mtx, file, onDisk, pushed, before>>

DestroyLine ==
  /\ phase = "destroying"
  /\ WriteLine
  /\ UNCHANGED <<pc, calls, console, queue, mtx, phase, pushed, before>>

\* Mutant: the destructor leaves the queue to itself.
AtOnce == TRUE

AllWritten == next \notin DOMAIN queue

\* close() writes the rest of the stream's buffer.
DestroyEnd ==
  /\ phase = "destroying"
  /\ AllWritten
  /\ queue' = <<>>
  /\ next' = 0
  /\ onDisk' = Len(file)
  /\ phase' = "closed"
  /\ UNCHANGED <<pc, calls, console, mtx, file, pushed, before>>

\* The end of the process, by a signal or a crash: the stream's buffer is lost.
Die ==
  /\ phase \in {"open", "destroying"}
  /\ phase' = "dead"
  /\ file' = SubSeq(file, 1, onDisk)
  /\ queue' = <<>>
  /\ UNCHANGED <<pc, calls, console, mtx, next, onDisk, pushed, before>>

-------------------------------------------------------------------------------

InL(t) == Show(t) \/ Push(t) \/ FlushLine(t) \/ FlushEnd(t)

Destructor == DestroyLine \/ DestroyEnd

Next ==
  \/ \E t \in Threads : (\E level \in Levels \cup {None} : Call(t, level)) \/ InL(t)
  \/ Destroy \/ Destructor
  \/ Die

Spec == Init /\ [][Next]_vars

\* Threads inside L and the destructor go on. Weak fairness is enough for the mutex
\* because the calls are bounded: in the end it is free for good.
FairSpec == Spec /\ WF_vars(Destructor) /\ \A t \in Threads : WF_vars(InL(t))

-------------------------------------------------------------------------------
(* Properties *)

\* Every line that is shown, queued or written is one that a thread may have logged.
TypeOK ==
  /\ pc \in [Threads -> {"idle", "show", "lock", "flush"}]
  /\ calls \in [Threads -> Seq(Levels \cup {None})]
  /\ console \in Seq(Outputs)
  /\ queue \in Seq(Outputs)
  /\ mtx \in Threads \cup {None}
  /\ next \in Nat
  /\ file \in Seq(Outputs)
  /\ onDisk \in 0 .. Len(file)
  /\ phase \in {"open", "destroying", "closed", "dead"}
  /\ pushed \in Seq(Lines)
  /\ before \in [Lines -> SUBSET Lines]

\* The lines of the queue that the loop has not come to yet.
Waiting == IF next = 0 THEN queue ELSE SubSeq(queue, next, Len(queue))

\* The file, followed by what waits for it, is what WriteLog was given, once each
\* and in its order, in the middle of a flush too; a dead process leaves a prefix.
\* What its death can take from the queue is bounded: between calls QueueMax lines,
\* and one more while the file is written.
NothingLostOrRepeated ==
  IF phase = "dead" THEN IsPrefix(LinesOf(file), pushed)
  ELSE /\ LinesOf(file \o Waiting) = pushed
       /\ Len(queue) <= QueueMax + 1
       /\ mtx = None /\ phase # "destroying" => Len(queue) <= QueueMax

PositionIn(s, l) == CHOOSE i \in DOMAIN s : s[i] = l

\* The file keeps the order of calls that did not overlap, although the threads
\* reach the console and the lock in any order: a line stands behind all those
\* whose calls had returned when its own began.
RealTimeOrder ==
  LET written == LinesOf(file \o Waiting)
  IN \A i \in DOMAIN written : \A l \in before[written[i]] :
       phase # "dead" => \E j \in 1 .. i - 1 : written[j] = l

\* After the destructor every line of every call is on the disk.
ClosedIsComplete ==
  phase = "closed" =>
    /\ onDisk = Len(file)
    /\ ToSet(LinesOf(file)) = {l \in Lines : l[2] <= Len(calls[l[1]])}

\* Every call of L returns and a destructor that has begun closes the file, unless
\* the process dies: the lock is never kept and the loops over the queue end.
EverythingReturns ==
  /\ \A t \in Threads : pc[t] # "idle" ~> (pc[t] = "idle" \/ phase = "dead")
  /\ phase = "destroying" ~> phase \in {"closed", "dead"}

\* "A logger whose LogLevel can be given" (Logger.cpp): the level of a call that has
\* returned can be read on the console or in the file.
LevelIsLogged ==
  phase = "open" => \A l \in Returned :
    LET level == calls[l[1]][l[2]]
    IN level # None => \E o \in ToSet(console \o file \o queue) : o = [line |-> l, level |-> level]

===============================================================================
