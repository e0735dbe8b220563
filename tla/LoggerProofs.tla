----------------------------- MODULE LoggerProofs -----------------------------
(***************************************************************************)
(* Proofs about Logger, for any number of threads, calls, levels and any   *)
(* size of the queue: the file and what waits for it are what WriteLog was *)
(* given, once each and in its order, the order respects calls that did    *)
(* not overlap, and a destroyed logger has written everything.             *)
(*                                                                         *)
(* None of the three is inductive: whether a line is lost depends on how   *)
(* far the loop over the queue has come and on who may be in that loop.    *)
(* The inductive invariant IInv says the place of every line that is       *)
(* written or waits (PlacesInv), that the loop is run by the holder of mtx *)
(* or by the destructor and is in the queue (LoopInv), which lines were    *)
(* given to WriteLog (GivenInv), and that a call under way already has all *)
(* that returned before it in front of it (OrderInv).                      *)
(***************************************************************************)
EXTENDS Logger, Integers, SequenceTheorems, TLAPS

-------------------------------------------------------------------------------
(* The inductive invariant *)

\* mtx is held by the thread that is in the loop, the loop's position is in the queue or
\* just behind it, and the destructor meets no call.
LoopInv ==
  /\ \A t \in Threads : pc[t] = "flush" <=> mtx = t
  /\ phase = "open" /\ mtx = None => next = 0
  /\ phase = "open" /\ mtx # None => next \in 1 .. Len(queue) + 1
  /\ phase = "destroying" => next \in 1 .. Len(queue) + 1
  /\ phase = "closed" => next = 0 /\ queue = <<>> /\ onDisk = Len(file)
  /\ phase \in {"destroying", "closed"} => \A t \in Threads : pc[t] = "idle"

\* Between calls the queue has room, and no more than one line is over it.
RoomInv ==
  /\ Len(queue) <= QueueMax + 1
  /\ mtx = None /\ phase # "destroying" => Len(queue) <= QueueMax

\* How many lines of the queue the loop has written.
Done == IF next = 0 THEN 0 ELSE next - 1

\* The file begins pushed.
Beginning ==
  /\ Len(file) <= Len(pushed)
  /\ \A i \in 1 .. Len(file) : file[i].line = pushed[i]

\* Behind the file come the lines of the queue that the loop has yet to write.
PlacesInv ==
  /\ Beginning
  /\ phase # "dead" =>
       /\ Len(pushed) = Len(file) + (Len(queue) - Done)
       /\ \A j \in Done + 1 .. Len(queue) : queue[j].line = pushed[Len(file) + (j - Done)]

\* WriteLog has taken the line l.
Given(l) ==
  \/ l[2] < Len(calls[l[1]])
  \/ l[2] = Len(calls[l[1]]) /\ pc[l[1]] \in {"idle", "flush"}

\* A thread in L works on its last call, and pushed has the lines that were taken.
GivenInv ==
  /\ \A t \in Threads : Len(calls[t]) <= MaxCalls /\ (pc[t] # "idle" => Len(calls[t]) > 0)
  /\ ToSet(pushed) = {l \in Lines : Given(l)}

\* What had returned when a call began is in pushed before the call's line is.
OrderInv ==
  /\ \A i \in DOMAIN pushed : \A l \in before[pushed[i]] : \E j \in 1 .. i - 1 : pushed[j] = l
  /\ \A t \in Threads : pc[t] \in {"show", "lock"} => before[Line(t)] \subseteq ToSet(pushed)

IInv == TypeOK /\ LoopInv /\ RoomInv /\ PlacesInv /\ GivenInv /\ OrderInv

-------------------------------------------------------------------------------
(* The sequences of the model *)

\* What TypeOK says, by the lengths and places of the sequences.
LEMMA LogTypes ==
  ASSUME TypeOK
  PROVE  /\ Len(queue) \in Nat /\ DOMAIN queue = 1 .. Len(queue)
         /\ Len(file) \in Nat /\ DOMAIN file = 1 .. Len(file)
         /\ Len(pushed) \in Nat /\ DOMAIN pushed = 1 .. Len(pushed)
         /\ \A i \in DOMAIN queue : queue[i] \in Outputs
         /\ \A i \in DOMAIN file : file[i] \in Outputs
         /\ \A i \in DOMAIN pushed : pushed[i] \in Lines
         /\ \A t \in Threads : calls[t] \in Seq(Levels \cup {None}) /\ Len(calls[t]) \in Nat
<1>1. queue \in Seq(Outputs) /\ file \in Seq(Outputs) /\ pushed \in Seq(Lines)
      /\ \A t \in Threads : calls[t] \in Seq(Levels \cup {None})
  BY DEF TypeOK
<1> QED
  BY <1>1, LenProperties, ElementOfSeq

\* A thread that is in L names a line.
LEMMA LineOfCall ==
  ASSUME TypeOK, GivenInv, NEW t \in Threads, pc[t] # "idle"
  PROVE  Line(t) \in Lines
<1>1. Len(calls[t]) \in Nat /\ Len(calls[t]) > 0 /\ Len(calls[t]) <= MaxCalls
  BY LogTypes DEF GivenInv
<1> QED
  BY <1>1, LoggerAssumption DEF Line, Lines, LoggerAssumption

\* What is queued for a line is an output of that line.
LEMMA QueuedOutput ==
  ASSUME NEW l \in Lines
  PROVE  FileOutput(l) \in Outputs /\ FileOutput(l).line = l
BY DEF Outputs, FileOutput

\* A push puts its line behind everything.
LEMMA PushAppends ==
  ASSUME TypeOK, GivenInv, NEW t \in Threads, Push(t)
  PROVE  /\ queue' \in Seq(Outputs) /\ Len(queue') = Len(queue) + 1
         /\ \A j \in 1 .. Len(queue) : queue'[j] = queue[j]
         /\ queue'[Len(queue) + 1].line = Line(t)
         /\ pushed' \in Seq(Lines) /\ Len(pushed') = Len(pushed) + 1
         /\ \A j \in 1 .. Len(pushed) : pushed'[j] = pushed[j]
         /\ pushed'[Len(pushed) + 1] = Line(t)
         /\ DOMAIN pushed' = 1 .. Len(pushed) + 1
<1>1. Line(t) \in Lines
  BY LineOfCall DEF Push
<1>2. PICK x, l : x = FileOutput(Line(t)) /\ l = Line(t)
  OBVIOUS
<1>3. x \in Outputs /\ x.line = l /\ l \in Lines
  BY <1>1, <1>2, QueuedOutput
<1>4. queue' = Append(queue, x) /\ pushed' = Append(pushed, l)
  BY <1>2 DEF Push, Queued
<1>5. queue \in Seq(Outputs) /\ pushed \in Seq(Lines)
  BY DEF TypeOK
<1>6. /\ queue' \in Seq(Outputs) /\ Len(queue') = Len(queue) + 1
      /\ \A j \in 1 .. Len(queue) : queue'[j] = queue[j]
      /\ queue'[Len(queue) + 1] = x
  BY <1>3, <1>4, <1>5, AppendProperties
<1>7. /\ pushed' \in Seq(Lines) /\ Len(pushed') = Len(pushed) + 1
      /\ \A j \in 1 .. Len(pushed) : pushed'[j] = pushed[j]
      /\ pushed'[Len(pushed) + 1] = l
  BY <1>3, <1>4, <1>5, AppendProperties
<1>8. DOMAIN pushed' = 1 .. Len(pushed')
  BY <1>7, LenProperties
<1> QED
  BY <1>2, <1>3, <1>6, <1>7, <1>8

\* One turn of the loop puts the next line of the queue behind the file.
LEMMA TurnAppends ==
  ASSUME TypeOK, WriteLine
  PROVE  /\ file' \in Seq(Outputs) /\ Len(file') = Len(file) + 1
         /\ \A j \in 1 .. Len(file) : file'[j] = file[j]
         /\ file'[Len(file) + 1] = queue[next]
         /\ onDisk' \in 0 .. Len(file') /\ next \in 1 .. Len(queue) /\ next' = next + 1
<1>1. next \in 1 .. Len(queue) /\ queue[next] \in Outputs
  BY LogTypes DEF WriteLine
<1>2. PICK x : x = queue[next]
  OBVIOUS
<1>3. file' = Append(file, x) /\ x \in Outputs /\ file \in Seq(Outputs)
  BY <1>1, <1>2 DEF WriteLine, TypeOK
<1>4. /\ file' \in Seq(Outputs) /\ Len(file') = Len(file) + 1
      /\ \A j \in 1 .. Len(file) : file'[j] = file[j]
      /\ file'[Len(file) + 1] = x
  BY <1>3, AppendProperties
<1>5. onDisk' \in 0 .. Len(file')
  BY <1>4, LogTypes DEF WriteLine, TypeOK
<1> QED
  BY <1>1, <1>2, <1>4, <1>5 DEF WriteLine

\* The death of the process leaves the part of the file that is on the disk.
LEMMA DeathCuts ==
  ASSUME TypeOK, Die
  PROVE  /\ file' \in Seq(Outputs) /\ Len(file') = onDisk /\ onDisk \in 0 .. Len(file)
         /\ \A j \in 1 .. onDisk : file'[j] = file[j]
<1>1. file \in Seq(Outputs) /\ onDisk \in 0 .. Len(file) /\ Len(file) \in Nat
  BY LogTypes DEF TypeOK
<1>2. file' = SubSeq(file, 1, onDisk)
  BY DEF Die
<1>3. PICK k : k = onDisk
  OBVIOUS
<1> QED
  BY <1>1, <1>2, <1>3

-------------------------------------------------------------------------------
(* Every step keeps the invariant *)

\* The types.
LEMMA TypeStep ==
  ASSUME TypeOK, GivenInv, [Next]_vars
  PROVE  TypeOK'
<1>a. /\ calls \in [Threads -> Seq(Levels \cup {None})] /\ console \in Seq(Outputs)
      /\ <<>> \in Seq(Outputs)
  BY EmptySeq DEF TypeOK
<1>b. next \in Nat /\ next + 1 \in Nat
  BY DEF TypeOK
<1>c. Len(file) \in Nat /\ 0 \in Nat /\ 1 \in Nat
  BY LogTypes
<1>d. \A t \in Threads : \A level \in Levels \cup {None} :
        Append(calls[t], level) \in Seq(Levels \cup {None})
  BY <1>a, AppendProperties
<1>1. ASSUME NEW t \in Threads, NEW level \in Levels \cup {None}, Call(t, level) PROVE TypeOK'
  <2>1. calls' \in [Threads -> Seq(Levels \cup {None})]
    BY <1>1, <1>a, <1>d DEF Call
  <2>2. before' \in [Lines -> SUBSET Lines] /\ pc' \in [Threads -> {"idle", "show", "lock", "flush"}]
    BY <1>1 DEF Call, Returned, TypeOK
  <2> QED
    BY <1>1, <2>1, <2>2 DEF Call, TypeOK
<1>2. ASSUME NEW t \in Threads, Show(t) PROVE TypeOK'
  <2>1. Line(t) \in Lines /\ Last(calls[t]) \in Levels \cup {None}
    <3>1. Len(calls[t]) \in Nat /\ Len(calls[t]) > 0 /\ calls[t] \in Seq(Levels \cup {None})
      BY <1>2, LogTypes DEF Show, GivenInv
    <3> QED
      BY <1>2, <3>1, LineOfCall, ElementOfSeq DEF Show, Last
  <2>2. PICK x : x = (IF Last(calls[t]) = None THEN ConsoleDefault(Line(t))
                      ELSE ConsoleLevelled(Line(t), Last(calls[t])))
    OBVIOUS
  <2>3. x \in Outputs
    BY <2>1, <2>2 DEF Outputs, ConsoleDefault, ConsoleLevelled
  <2>4. console' = Append(console, x)
    BY <1>2, <2>2 DEF Show
  <2>5. console' \in Seq(Outputs)
    BY <1>a, <2>3, <2>4, AppendProperties
  <2> QED
    BY <1>2, <2>5 DEF Show, AfterShow, TypeOK
<1>3. ASSUME NEW t \in Threads, Push(t) PROVE TypeOK'
  <2>1. queue' \in Seq(Outputs) /\ pushed' \in Seq(Lines)
    BY <1>3, PushAppends
  <2>2. /\ mtx' \in Threads \cup {None} /\ next' \in Nat
        /\ pc' \in [Threads -> {"idle", "show", "lock", "flush"}]
    BY <1>3, <1>c DEF Push, TypeOK
  <2> QED
    BY <1>3, <2>1, <2>2 DEF Push, TypeOK
<1>4. ASSUME NEW t \in Threads, FlushLine(t) PROVE TypeOK'
  <2>1. file' \in Seq(Outputs) /\ onDisk' \in 0 .. Len(file') /\ next' \in Nat
    BY <1>4, <1>b, TurnAppends DEF FlushLine
  <2> QED
    BY <1>4, <2>1 DEF FlushLine, TypeOK
<1>5. ASSUME NEW t \in Threads, FlushEnd(t) PROVE TypeOK'
  BY <1>5, <1>a DEF FlushEnd, Cleared, HolderAfter, TypeOK
<1>6. CASE Destroy
  BY <1>6 DEF Destroy, TypeOK
<1>7. CASE DestroyLine
  <2>1. file' \in Seq(Outputs) /\ onDisk' \in 0 .. Len(file') /\ next' \in Nat
    BY <1>7, <1>b, TurnAppends DEF DestroyLine
  <2> QED
    BY <1>7, <2>1 DEF DestroyLine, TypeOK
<1>8. CASE DestroyEnd
  BY <1>8, <1>a, <1>c DEF DestroyEnd, TypeOK
<1>9. CASE Die
  <2>1. file' \in Seq(Outputs) /\ Len(file') = onDisk /\ onDisk \in Nat
    BY <1>9, <1>c, DeathCuts
  <2>2. onDisk \in 0 .. Len(file')
    BY <2>1
  <2> QED
    BY <1>9, <1>a, <2>1, <2>2 DEF Die, TypeOK
<1>10. CASE UNCHANGED vars
  BY <1>10 DEF vars, TypeOK
<1> QED
  BY <1>1, <1>2, <1>3, <1>4, <1>5, <1>6, <1>7, <1>8, <1>9, <1>10
  DEF Next, InL, Destructor

\* The loop has one runner, and its position stays in the queue.
LEMMA LoopStep ==
  ASSUME TypeOK, LoopInv, GivenInv, [Next]_vars
  PROVE  LoopInv'
<1>a. /\ Len(queue) \in Nat /\ DOMAIN queue = 1 .. Len(queue) /\ None \notin Threads
      /\ pc \in [Threads -> {"idle", "show", "lock", "flush"}] /\ mtx \in Threads \cup {None}
      /\ next \in Nat /\ phase \in {"open", "destroying", "closed", "dead"}
  BY LogTypes, LoggerAssumption DEF LoggerAssumption, TypeOK
<1>1. ASSUME NEW t \in Threads, NEW level \in Levels \cup {None}, Call(t, level) PROVE LoopInv'
  BY <1>1, <1>a DEF Call, LoopInv
<1>2. ASSUME NEW t \in Threads, Show(t) PROVE LoopInv'
  BY <1>2, <1>a DEF Show, LoopInv, AfterShow
<1>3. ASSUME NEW t \in Threads, Push(t) PROVE LoopInv'
  <2>1. Len(queue') = Len(queue) + 1
    BY <1>3, PushAppends
  <2>2. 1 \in 1 .. Len(queue') + 1
    BY <1>a, <2>1
  <2> QED
    BY <1>3, <1>a, <2>2 DEF Push, LoopInv
<1>4. ASSUME NEW t \in Threads, FlushLine(t) PROVE LoopInv'
  <2>1. next \in 1 .. Len(queue) /\ next' = next + 1 /\ queue' = queue
    BY <1>4, TurnAppends DEF FlushLine
  <2>2. next' \in 1 .. Len(queue') + 1
    BY <1>a, <2>1
  <2> QED
    BY <1>4, <1>a, <2>2 DEF FlushLine, LoopInv
<1>5. ASSUME NEW t \in Threads, FlushEnd(t) PROVE LoopInv'
  BY <1>5, <1>a DEF FlushEnd, LoopInv, HolderAfter, Cleared
<1>6. CASE Destroy
  BY <1>6, <1>a DEF Destroy, LoopInv
<1>7. CASE DestroyLine
  <2>1. next \in 1 .. Len(queue) /\ next' = next + 1 /\ queue' = queue
    BY <1>7, TurnAppends DEF DestroyLine
  <2>2. next' \in 1 .. Len(queue') + 1
    BY <1>a, <2>1
  <2> QED
    BY <1>7, <1>a, <2>2 DEF DestroyLine, LoopInv
<1>8. CASE DestroyEnd
  BY <1>8, <1>a DEF DestroyEnd, LoopInv
<1>9. CASE Die
  BY <1>9, <1>a DEF Die, LoopInv
<1>10. CASE UNCHANGED vars
  BY <1>10, <1>a DEF vars, LoopInv
<1> QED
  BY <1>1, <1>2, <1>3, <1>4, <1>5, <1>6, <1>7, <1>8, <1>9, <1>10
  DEF Next, InL, Destructor

\* The queue is emptied as soon as it is over its limit.
LEMMA RoomStep ==
  ASSUME TypeOK, LoopInv, RoomInv, GivenInv, [Next]_vars
  PROVE  RoomInv'
<1>a. Len(queue) \in Nat /\ QueueMax \in Nat /\ Len(<<>>) = 0
  BY LogTypes, LoggerAssumption DEF LoggerAssumption
<1>b. 0 <= QueueMax /\ 0 <= QueueMax + 1
  BY <1>a
<1>1. ASSUME NEW t \in Threads, NEW level \in Levels \cup {None}, Call(t, level) PROVE RoomInv'
  BY <1>1, <1>a DEF Call, RoomInv
<1>2. ASSUME NEW t \in Threads, Show(t) PROVE RoomInv'
  BY <1>2, <1>a DEF Show, RoomInv
<1>3. ASSUME NEW t \in Threads, Push(t) PROVE RoomInv'
  <2>1. Len(queue') = Len(queue) + 1
    BY <1>3, PushAppends
  <2>2. Len(queue) <= QueueMax /\ phase' = "open"
    BY <1>3 DEF Push, RoomInv
  <2>3. mtx' = None => ~(Len(queue') > QueueMax)
    BY <1>3, LoggerAssumption DEF Push, FlushDue, Queued, LoggerAssumption
  <2> QED
    BY <1>a, <2>1, <2>2, <2>3 DEF RoomInv
<1>4. ASSUME NEW t \in Threads, FlushLine(t) PROVE RoomInv'
  BY <1>4, <1>a DEF FlushLine, RoomInv
<1>5. ASSUME NEW t \in Threads, FlushEnd(t) PROVE RoomInv'
  BY <1>5, <1>a, <1>b DEF FlushEnd, RoomInv, Cleared
<1>6. CASE Destroy
  BY <1>6, <1>a DEF Destroy, RoomInv
<1>7. CASE DestroyLine
  BY <1>7, <1>a DEF DestroyLine, RoomInv
<1>8. CASE DestroyEnd
  BY <1>8, <1>a, <1>b DEF DestroyEnd, RoomInv
<1>9. CASE Die
  BY <1>9, <1>a, <1>b DEF Die, RoomInv
<1>10. CASE UNCHANGED vars
  BY <1>10, <1>a DEF vars, RoomInv
<1> QED
  BY <1>1, <1>2, <1>3, <1>4, <1>5, <1>6, <1>7, <1>8, <1>9, <1>10
  DEF Next, InL, Destructor

\* A turn of the loop moves one line from the queue to the file.
LEMMA TurnKeepsPlaces ==
  ASSUME TypeOK, PlacesInv, WriteLine, phase # "dead", UNCHANGED <<queue, pushed>>
  PROVE  PlacesInv'
<1>1. PICK v, f, q, k : v = file' /\ f = Len(file) /\ q = Len(queue) /\ k = next
  OBVIOUS
<1>2. /\ f \in Nat /\ q \in Nat /\ k \in 1 .. q /\ next' = k + 1 /\ Len(v) = f + 1
      /\ (\A j \in 1 .. f : v[j] = file[j]) /\ v[f + 1] = queue[k]
  BY <1>1, LogTypes, TurnAppends
<1>3. Done = k - 1 /\ Done' = k
  BY <1>1, <1>2 DEF Done
<1>4. /\ \A i \in 1 .. f : file[i].line = pushed[i]
      /\ Len(pushed) = f + (q - (k - 1))
      /\ \A j \in (k - 1) + 1 .. q : queue[j].line = pushed[f + (j - (k - 1))]
  BY <1>1, <1>3 DEF PlacesInv, Beginning
<1>5. \A j \in k .. q : j \in (k - 1) + 1 .. q /\ f + (j - (k - 1)) = (f + 1) + (j - k)
  BY <1>2
<1>6. \A j \in k .. q : queue[j].line = pushed[(f + 1) + (j - k)]
  BY <1>4, <1>5
<1>7. v[f + 1].line = pushed[f + 1]
  <2>1. k \in k .. q /\ (f + 1) + (k - k) = f + 1
    BY <1>2
  <2> QED
    BY <1>2, <1>6, <2>1
<1>8. \A i \in 1 .. f + 1 : v[i].line = pushed[i]
  <2>1. \A i \in 1 .. f + 1 : i \in 1 .. f \/ i = f + 1
    BY <1>2
  <2> QED
    BY <1>2, <1>4, <1>7, <2>1
<1>9. Len(pushed) = (f + 1) + (q - k) /\ f + 1 <= Len(pushed)
  BY <1>2, <1>4
<1>10. \A j \in k + 1 .. q : queue[j].line = pushed[(f + 1) + (j - k)]
  <2>1. \A j \in k + 1 .. q : j \in k .. q
    BY <1>2
  <2> QED
    BY <1>6, <2>1
<1>11. Beginning'
  BY <1>1, <1>2, <1>8, <1>9 DEF Beginning
<1> QED
  BY <1>1, <1>2, <1>3, <1>9, <1>10, <1>11 DEF PlacesInv

\* At the end of the loop nothing waits: the queue may be cleared.
LEMMA EndKeepsPlaces ==
  ASSUME TypeOK, PlacesInv, phase # "dead", next = Len(queue) + 1,
         queue' = <<>>, next' = 0, UNCHANGED <<file, pushed>>
  PROVE  PlacesInv'
<1>1. Len(queue) \in Nat /\ Len(file) \in Nat
  BY LogTypes
<1>2. Done = Len(queue) /\ Done' = 0
  BY <1>1 DEF Done
<1>3. Len(pushed) = Len(file)
  <2>1. Len(pushed) = Len(file) + (Len(queue) - Len(queue))
    BY <1>2 DEF PlacesInv
  <2> QED
    BY <1>1, <2>1
<1>4. Len(queue') = 0
  OBVIOUS
<1> QED
  BY <1>1, <1>2, <1>3, <1>4 DEF PlacesInv, Beginning

\* Every line that is not lost stays at its place.
LEMMA PlacesStep ==
  ASSUME TypeOK, LoopInv, PlacesInv, GivenInv, [Next]_vars
  PROVE  PlacesInv'
<1>a. /\ Len(queue) \in Nat /\ Len(file) \in Nat /\ Len(pushed) \in Nat /\ next \in Nat
      /\ DOMAIN queue = 1 .. Len(queue) /\ Len(<<>>) = 0
  BY LogTypes DEF TypeOK
<1>1. ASSUME NEW t \in Threads, NEW level \in Levels \cup {None}, Call(t, level) PROVE PlacesInv'
  BY <1>1 DEF Call, PlacesInv, Beginning, Done
<1>2. ASSUME NEW t \in Threads, Show(t) PROVE PlacesInv'
  BY <1>2 DEF Show, PlacesInv, Beginning, Done
<1>3. ASSUME NEW t \in Threads, Push(t) PROVE PlacesInv'
  <2>1. next = 0 /\ phase = "open" /\ phase' = "open" /\ file' = file /\ next' \in {0, 1}
    BY <1>3 DEF Push, LoopInv
  <2>2. Done = 0 /\ Done' = 0
    BY <2>1 DEF Done
  <2>3. /\ Len(queue') = Len(queue) + 1
        /\ \A j \in 1 .. Len(queue) : queue'[j] = queue[j]
        /\ queue'[Len(queue) + 1].line = Line(t)
        /\ Len(pushed') = Len(pushed) + 1
        /\ \A j \in 1 .. Len(pushed) : pushed'[j] = pushed[j]
        /\ pushed'[Len(pushed) + 1] = Line(t)
    BY <1>3, PushAppends
  <2>4. PICK q, p, l, f, g : q = queue' /\ p = pushed' /\ l = Line(t) /\ f = Len(file) /\ g = Len(queue)
    OBVIOUS
  <2>5. /\ Len(pushed) = f + g /\ f \in Nat /\ g \in Nat
        /\ \A j \in 1 .. g : queue[j].line = pushed[f + j]
        /\ \A i \in 1 .. f : file[i].line = pushed[i]
    <3>1. Len(pushed) = f + (g - 0) /\ \A j \in 0 + 1 .. g : queue[j].line = pushed[f + (j - 0)]
      BY <2>1, <2>2, <2>4 DEF PlacesInv
    <3> QED
      BY <1>a, <2>4, <3>1 DEF PlacesInv, Beginning
  <2>6. Len(p) = f + (g + 1) /\ Len(q) = g + 1
    BY <2>3, <2>4, <2>5
  <2>7. \A i \in 1 .. f : file[i].line = p[i]
    BY <2>3, <2>4, <2>5
  <2>8. ASSUME NEW j \in 1 .. g + 1 PROVE q[j].line = p[f + j]
    <3>1. CASE j \in 1 .. g
      BY <2>3, <2>4, <2>5, <3>1
    <3>2. CASE j = g + 1
      BY <2>3, <2>4, <2>5, <3>2
    <3> QED
      BY <2>5, <3>1, <3>2
  <2>9. Beginning'
    BY <2>1, <2>4, <2>5, <2>6, <2>7 DEF Beginning
  <2>10. /\ Len(pushed') = Len(file') + (Len(queue') - Done')
         /\ \A j \in Done' + 1 .. Len(queue') : queue'[j].line = pushed'[Len(file') + (j - Done')]
    BY <2>1, <2>2, <2>4, <2>5, <2>6, <2>8
  <2> QED
    BY <2>9, <2>10 DEF PlacesInv
<1>4. ASSUME NEW t \in Threads, FlushLine(t) PROVE PlacesInv'
  <2>1. WriteLine /\ phase # "dead" /\ UNCHANGED <<queue, pushed>>
    BY <1>4 DEF FlushLine
  <2> QED
    BY <2>1, TurnKeepsPlaces
<1>5. ASSUME NEW t \in Threads, FlushEnd(t) PROVE PlacesInv'
  <2>1. mtx = t /\ mtx # None
    BY <1>5, LoggerAssumption DEF FlushEnd, LoopInv, LoggerAssumption
  <2>2. next = Len(queue) + 1
    BY <1>5, <1>a, <2>1 DEF FlushEnd, LoopInv
  <2>3. queue' = <<>> /\ next' = 0 /\ phase # "dead" /\ UNCHANGED <<file, pushed>>
    BY <1>5 DEF FlushEnd, Cleared
  <2> QED
    BY <2>2, <2>3, EndKeepsPlaces
<1>6. CASE Destroy
  <2>1. mtx = None
    BY <1>6 DEF Destroy, LoopInv, TypeOK
  <2>2. next = 0 /\ next' = 1 /\ Done = 0 /\ Done' = 0
    BY <1>6, <2>1 DEF Destroy, LoopInv, Done
  <2> QED
    BY <1>6, <2>2 DEF Destroy, PlacesInv, Beginning
<1>7. CASE DestroyLine
  <2>1. WriteLine /\ phase # "dead" /\ UNCHANGED <<queue, pushed>>
    BY <1>7 DEF DestroyLine
  <2> QED
    BY <2>1, TurnKeepsPlaces
<1>8. CASE DestroyEnd
  <2>1. next = Len(queue) + 1
    BY <1>8, <1>a DEF DestroyEnd, AllWritten, LoopInv
  <2>2. queue' = <<>> /\ next' = 0 /\ phase # "dead" /\ UNCHANGED <<file, pushed>>
    BY <1>8 DEF DestroyEnd
  <2> QED
    BY <2>1, <2>2, EndKeepsPlaces
<1>9. CASE Die
  <2>1. /\ Len(file') = onDisk /\ onDisk \in 0 .. Len(file)
        /\ \A j \in 1 .. onDisk : file'[j] = file[j]
    BY <1>9, DeathCuts
  <2>2. pushed' = pushed /\ phase' = "dead"
    BY <1>9 DEF Die
  <2>3. Beginning'
    BY <1>a, <2>1, <2>2 DEF PlacesInv, Beginning
  <2> QED
    BY <2>2, <2>3 DEF PlacesInv
<1>10. CASE UNCHANGED vars
  BY <1>10 DEF vars, PlacesInv, Beginning, Done
<1> QED
  BY <1>1, <1>2, <1>3, <1>4, <1>5, <1>6, <1>7, <1>8, <1>9, <1>10
  DEF Next, InL, Destructor

\* `pushed` has the lines that WriteLog has taken.
LEMMA GivenStep ==
  ASSUME TypeOK, LoopInv, GivenInv, [Next]_vars
  PROVE  GivenInv'
<1>a. /\ \A t \in Threads : calls[t] \in Seq(Levels \cup {None}) /\ Len(calls[t]) \in Nat
      /\ MaxCalls \in Nat /\ Len(pushed) \in Nat /\ DOMAIN pushed = 1 .. Len(pushed)
      /\ pc \in [Threads -> {"idle", "show", "lock", "flush"}]
      /\ calls \in [Threads -> Seq(Levels \cup {None})]
  BY LogTypes, LoggerAssumption DEF LoggerAssumption, TypeOK
<1>b. \A l \in Lines : l = <<l[1], l[2]>> /\ l[1] \in Threads /\ l[2] \in 1 .. MaxCalls
  BY DEF Lines
<1>1. ASSUME NEW t \in Threads, NEW level \in Levels \cup {None}, Call(t, level) PROVE GivenInv'
  <2>1. PICK q : q = Append(calls[t], level)
    OBVIOUS
  <2>2. Len(q) = Len(calls[t]) + 1
    BY <1>1, <1>a, <2>1, AppendProperties
  <2>3. calls' = [calls EXCEPT ![t] = q] /\ pc' = [pc EXCEPT ![t] = "show"] /\ pushed' = pushed
        /\ pc[t] = "idle" /\ Len(calls[t]) < MaxCalls
    BY <1>1, <2>1 DEF Call
  <2>4. ASSUME NEW l \in Lines PROVE Given(l)' <=> Given(l)
    BY <1>a, <1>b, <2>2, <2>3 DEF Given
  <2>5. \A u \in Threads : Len(calls'[u]) <= MaxCalls /\ (pc'[u] # "idle" => Len(calls'[u]) > 0)
    BY <1>a, <2>2, <2>3 DEF GivenInv
  <2> QED
    BY <2>3, <2>4, <2>5 DEF GivenInv
<1>2. ASSUME NEW t \in Threads, Show(t) PROVE GivenInv'
  <2>1. UNCHANGED <<pushed, calls>> /\ pc' = [pc EXCEPT ![t] = "lock"] /\ pc[t] = "show"
    BY <1>2 DEF Show, AfterShow
  <2>2. ASSUME NEW l \in Lines PROVE Given(l)' <=> Given(l)
    BY <1>a, <1>b, <2>1 DEF Given
  <2> QED
    BY <1>a, <2>1, <2>2 DEF GivenInv
<1>3. ASSUME NEW t \in Threads, Push(t) PROVE GivenInv'
  <2>1. /\ Line(t) \in Lines
        /\ \A j \in 1 .. Len(pushed) : pushed'[j] = pushed[j]
        /\ pushed'[Len(pushed) + 1] = Line(t)
        /\ DOMAIN pushed' = 1 .. Len(pushed) + 1
    BY <1>3, PushAppends, LineOfCall DEF Push
  <2>2. ToSet(pushed') = ToSet(pushed) \cup {Line(t)}
    <3>1. PICK n, p : n = Len(pushed) /\ p = pushed'
      OBVIOUS
    <3>2. n \in Nat /\ 1 .. n + 1 = 1 .. n \cup {n + 1} /\ DOMAIN p = 1 .. n + 1 /\ DOMAIN pushed = 1 .. n
      BY <1>a, <2>1, <3>1
    <3>3. {p[i] : i \in 1 .. n + 1} = {p[i] : i \in 1 .. n} \cup {p[n + 1]}
      BY <3>2
    <3>4. {p[i] : i \in 1 .. n} = {pushed[i] : i \in 1 .. n}
      BY <2>1, <3>1
    <3> QED
      BY <2>1, <3>1, <3>2, <3>3, <3>4 DEF ToSet
  <2>3. UNCHANGED calls /\ pc[t] = "lock" /\ pc' \in {[pc EXCEPT ![t] = "flush"], [pc EXCEPT ![t] = "idle"]}
    BY <1>3 DEF Push
  <2>4. ASSUME NEW l \in Lines PROVE Given(l)' <=> Given(l) \/ l = Line(t)
    BY <1>a, <1>b, <2>3 DEF Given, Line
  <2> QED
    BY <1>a, <2>1, <2>2, <2>3, <2>4 DEF GivenInv
<1>4. ASSUME NEW t \in Threads, FlushLine(t) PROVE GivenInv'
  BY <1>4 DEF FlushLine, GivenInv, Given
<1>5. ASSUME NEW t \in Threads, FlushEnd(t) PROVE GivenInv'
  <2>1. UNCHANGED <<pushed, calls>> /\ pc' = [pc EXCEPT ![t] = "idle"] /\ pc[t] = "flush"
    BY <1>5 DEF FlushEnd
  <2>2. ASSUME NEW l \in Lines PROVE Given(l)' <=> Given(l)
    BY <1>a, <1>b, <2>1 DEF Given
  <2> QED
    BY <1>a, <2>1, <2>2 DEF GivenInv
<1>6. CASE Destroy
  BY <1>6 DEF Destroy, GivenInv, Given
<1>7. CASE DestroyLine
  BY <1>7 DEF DestroyLine, GivenInv, Given
<1>8. CASE DestroyEnd
  BY <1>8 DEF DestroyEnd, GivenInv, Given
<1>9. CASE Die
  BY <1>9 DEF Die, GivenInv, Given
<1>10. CASE UNCHANGED vars
  BY <1>10 DEF vars, GivenInv, Given
<1> QED
  BY <1>1, <1>2, <1>3, <1>4, <1>5, <1>6, <1>7, <1>8, <1>9, <1>10
  DEF Next, InL, Destructor

\* No call overtakes one that had returned before it began.
LEMMA OrderStep ==
  ASSUME TypeOK, LoopInv, GivenInv, OrderInv, [Next]_vars
  PROVE  OrderInv'
<1>a. /\ \A t \in Threads : calls[t] \in Seq(Levels \cup {None}) /\ Len(calls[t]) \in Nat
      /\ Len(pushed) \in Nat /\ DOMAIN pushed = 1 .. Len(pushed)
      /\ \A i \in DOMAIN pushed : pushed[i] \in Lines
      /\ pc \in [Threads -> {"idle", "show", "lock", "flush"}]
      /\ calls \in [Threads -> Seq(Levels \cup {None})] /\ before \in [Lines -> SUBSET Lines]
      /\ MaxCalls \in Nat
  BY LogTypes, LoggerAssumption DEF LoggerAssumption, TypeOK
<1>1. ASSUME NEW t \in Threads, NEW level \in Levels \cup {None}, Call(t, level) PROVE OrderInv'
  <2>1. PICK q, new : q = Append(calls[t], level) /\ new = <<t, Len(calls[t]) + 1>>
    OBVIOUS
  <2>2. Len(q) = Len(calls[t]) + 1
    BY <1>1, <1>a, <2>1, AppendProperties
  <2>3. /\ calls' = [calls EXCEPT ![t] = q] /\ pc' = [pc EXCEPT ![t] = "show"] /\ pushed' = pushed
        /\ pc[t] = "idle" /\ Len(calls[t]) < MaxCalls
        /\ before' = [before EXCEPT ![new] = Returned]
    BY <1>1, <2>1 DEF Call
  <2>4. new \in Lines /\ ~Given(new)
    BY <1>a, <2>1, <2>3 DEF Lines, Given
  <2>5. new \notin ToSet(pushed)
    BY <2>4 DEF GivenInv
  <2>6. \A i \in DOMAIN pushed : before'[pushed[i]] = before[pushed[i]]
    BY <1>a, <2>3, <2>5 DEF ToSet
  <2>7. Returned \subseteq ToSet(pushed)
    BY DEF GivenInv, Returned, Given
  <2>8. ASSUME NEW u \in Threads, pc'[u] \in {"show", "lock"}
        PROVE  before'[Line(u)'] \subseteq ToSet(pushed)
    <3>1. CASE u = t
      <4>1. Line(u)' = new
        BY <1>a, <2>1, <2>2, <2>3, <3>1 DEF Line
      <4> QED
        BY <1>a, <2>3, <2>4, <2>7, <4>1
    <3>2. CASE u # t
      <4>1. Line(u)' = Line(u) /\ Line(u) # new /\ pc[u] \in {"show", "lock"}
        BY <1>a, <2>1, <2>3, <2>8, <3>2 DEF Line
      <4>2. Line(u) \in Lines
        BY <4>1, LineOfCall
      <4> QED
        BY <1>a, <2>3, <4>1, <4>2 DEF OrderInv
    <3> QED
      BY <3>1, <3>2
  <2> QED
    BY <2>3, <2>6, <2>8 DEF OrderInv
<1>2. ASSUME NEW t \in Threads, Show(t) PROVE OrderInv'
  <2>1. UNCHANGED <<pushed, calls, before>> /\ pc' = [pc EXCEPT ![t] = "lock"] /\ pc[t] = "show"
    BY <1>2 DEF Show, AfterShow
  <2>2. \A u \in Threads : pc'[u] \in {"show", "lock"} => pc[u] \in {"show", "lock"} /\ Line(u)' = Line(u)
    BY <1>a, <2>1 DEF Line
  <2> QED
    BY <2>1, <2>2 DEF OrderInv
<1>3. ASSUME NEW t \in Threads, Push(t) PROVE OrderInv'
  <2>1. /\ \A j \in 1 .. Len(pushed) : pushed'[j] = pushed[j]
        /\ pushed'[Len(pushed) + 1] = Line(t)
        /\ DOMAIN pushed' = 1 .. Len(pushed) + 1
    BY <1>3, PushAppends
  <2>2. before' = before /\ calls' = calls /\ pc[t] = "lock"
        /\ pc' \in {[pc EXCEPT ![t] = "flush"], [pc EXCEPT ![t] = "idle"]}
    BY <1>3 DEF Push
  <2>3. ToSet(pushed) \subseteq ToSet(pushed')
    BY <1>a, <2>1 DEF ToSet
  <2>4. before[Line(t)] \subseteq ToSet(pushed)
    BY <2>2 DEF OrderInv
  <2>5. ASSUME NEW i \in 1 .. Len(pushed) + 1, NEW l \in before[pushed'[i]]
        PROVE  \E j \in 1 .. i - 1 : pushed'[j] = l
    <3>1. CASE i \in 1 .. Len(pushed)
      <4>1. PICK j \in 1 .. i - 1 : pushed[j] = l
        BY <1>a, <2>1, <3>1 DEF OrderInv
      <4>2. j \in 1 .. Len(pushed)
        BY <1>a, <3>1
      <4> QED
        BY <2>1, <4>1, <4>2
    <3>2. CASE i = Len(pushed) + 1
      <4>1. l \in ToSet(pushed)
        BY <2>1, <2>4, <3>2
      <4>2. PICK j \in 1 .. Len(pushed) : pushed[j] = l
        BY <1>a, <4>1 DEF ToSet
      <4>3. j \in 1 .. i - 1
        BY <1>a, <3>2
      <4> QED
        BY <2>1, <4>2, <4>3
    <3>3. Len(pushed) \in Nat
      BY <1>a
    <3>4. i \in 1 .. Len(pushed) \/ i = Len(pushed) + 1
      BY <3>3
    <3> QED
      BY <3>1, <3>2, <3>4
  <2>6. \A u \in Threads : pc'[u] \in {"show", "lock"} => pc[u] \in {"show", "lock"} /\ Line(u)' = Line(u)
    BY <1>a, <2>2 DEF Line
  <2> QED
    BY <2>1, <2>2, <2>3, <2>5, <2>6 DEF OrderInv
<1>4. ASSUME NEW t \in Threads, FlushLine(t) PROVE OrderInv'
  BY <1>4 DEF FlushLine, OrderInv, Line
<1>5. ASSUME NEW t \in Threads, FlushEnd(t) PROVE OrderInv'
  BY <1>5, <1>a DEF FlushEnd, OrderInv, Line
<1>6. CASE Destroy
  BY <1>6 DEF Destroy, OrderInv, Line
<1>7. CASE DestroyLine
  BY <1>7 DEF DestroyLine, OrderInv, Line
<1>8. CASE DestroyEnd
  BY <1>8 DEF DestroyEnd, OrderInv, Line
<1>9. CASE Die
  BY <1>9 DEF Die, OrderInv, Line
<1>10. CASE UNCHANGED vars
  BY <1>10 DEF vars, OrderInv, Line
<1> QED
  BY <1>1, <1>2, <1>3, <1>4, <1>5, <1>6, <1>7, <1>8, <1>9, <1>10
  DEF Next, InL, Destructor

\* The invariant holds before the first call.
LEMMA InvInit == Init => IInv
<1> SUFFICES ASSUME Init PROVE IInv
  OBVIOUS
<1>1. (\A S : <<>> \in Seq(S)) /\ Len(<<>>) = 0 /\ DOMAIN <<>> = {}
  OBVIOUS
<1>2. QueueMax \in Nat /\ MaxCalls \in Nat /\ None \notin Threads
  BY LoggerAssumption DEF LoggerAssumption
<1>3. TypeOK
  BY <1>1 DEF Init, TypeOK
<1>4. LoopInv /\ RoomInv
  BY <1>1, <1>2 DEF Init, LoopInv, RoomInv
<1>5. PlacesInv
  BY <1>1 DEF Init, PlacesInv, Beginning, Done
<1>6. GivenInv
  BY <1>1, <1>2 DEF Init, GivenInv, Given, ToSet, Lines
<1>7. OrderInv
  BY <1>1 DEF Init, OrderInv
<1> QED
  BY <1>3, <1>4, <1>5, <1>6, <1>7 DEF IInv

\* Every step of a thread, of the destructor and of the end of the process keeps it.
LEMMA InvStep == IInv /\ [Next]_vars => IInv'
BY TypeStep, LoopStep, RoomStep, PlacesStep, GivenStep, OrderStep DEF IInv

-------------------------------------------------------------------------------
(* The places of the lines and the sequence of them *)

\* What waits behind the file, by places.
LEMMA WaitingPlaces ==
  ASSUME TypeOK, LoopInv, phase # "dead"
  PROVE  /\ Waiting \in Seq(Outputs) /\ Len(Waiting) = Len(queue) - Done /\ Done \in 0 .. Len(queue)
         /\ \A j \in 1 .. Len(queue) - Done : Waiting[j] = queue[j + Done]
<1>1. queue \in Seq(Outputs) /\ Len(queue) \in Nat /\ next \in Nat
  BY LogTypes DEF TypeOK
<1>2. next = 0 \/ next \in 1 .. Len(queue) + 1
  BY DEF LoopInv, TypeOK
<1>3. CASE next = 0
  BY <1>1, <1>3 DEF Waiting, Done
<1>4. CASE next \in 1 .. Len(queue) + 1
  <2>1. PICK k, q, w : k = next /\ q = Len(queue) /\ w = SubSeq(queue, k, q)
    OBVIOUS
  <2>2. k \in 1 .. q + 1 /\ q \in Nat /\ Waiting = w /\ Done = k - 1
    BY <1>1, <1>4, <2>1 DEF Waiting, Done
  <2>3. \A i \in k .. q : queue[i] \in Outputs
    BY <1>1, <2>1, <2>2, LogTypes
  <2>4. w \in Seq(Outputs) /\ Len(w) = (IF k <= q THEN q - k + 1 ELSE 0)
        /\ \A j \in 1 .. q - k + 1 : w[j] = queue[k + j - 1]
    BY <1>1, <2>1, <2>2, <2>3, SubSeqProperties
  <2> QED
    BY <2>1, <2>2, <2>4
<1> QED
  BY <1>2, <1>3, <1>4

\* The file and what waits, in one: the lines of pushed.
LEMMA LinesArePushed ==
  ASSUME TypeOK, LoopInv, PlacesInv, phase # "dead"
  PROVE  LinesOf(file \o Waiting) = pushed
<1>1. PICK a, b, s, p, f, d : a = file /\ b = Waiting /\ s = a \o b /\ p = pushed /\ f = Len(file) /\ d = Done
  OBVIOUS
<1>2. /\ a \in Seq(Outputs) /\ b \in Seq(Outputs) /\ f \in Nat /\ Len(queue) \in Nat /\ d \in 0 .. Len(queue)
      /\ Len(a) = f /\ Len(b) = Len(queue) - d /\ p \in Seq(Lines)
  BY <1>1, LogTypes, WaitingPlaces DEF TypeOK
<1>3. s \in Seq(Outputs) /\ Len(s) = f + (Len(queue) - d) /\ DOMAIN s = 1 .. Len(s)
  BY <1>1, <1>2, ConcatProperties, LenProperties, ZenonT(30)
<1>4. \A i \in 1 .. Len(s) : s[i] = IF i <= f THEN a[i] ELSE b[i - f]
  BY <1>1, <1>2, ConcatProperties
<1>5. Len(p) = Len(s) /\ DOMAIN p = 1 .. Len(p)
  BY <1>1, <1>2, <1>3, LogTypes DEF PlacesInv
<1>6. ASSUME NEW i \in 1 .. Len(s) PROVE s[i].line = p[i]
  <2>1. CASE i <= f
    BY <1>1, <1>2, <1>3, <1>4, <2>1 DEF PlacesInv, Beginning
  <2>2. CASE i > f
    <3>1. PICK j : j = (i - f) + d
      OBVIOUS
    <3>2. /\ j \in d + 1 .. Len(queue) /\ i = f + (j - d) /\ i - f \in 1 .. Len(queue) - d
          /\ (i - f) + d = j /\ ~(i <= f)
      BY <1>2, <1>3, <2>2, <3>1
    <3>3. b[i - f] = queue[j]
      BY <1>1, <3>2, WaitingPlaces
    <3>4. queue[j].line = pushed[f + (j - d)]
      BY <1>1, <3>2 DEF PlacesInv
    <3> QED
      BY <1>1, <1>4, <3>2, <3>3, <3>4
  <2> QED
    BY <1>2, <1>3, <2>1, <2>2
<1>7. LinesOf(s) = [i \in 1 .. Len(s) |-> s[i].line]
  BY <1>3 DEF LinesOf
<1>8. p = [i \in 1 .. Len(s) |-> p[i]]
  BY <1>2, <1>5, LenProperties
<1>9. LinesOf(s) = p
  BY <1>6, <1>7, <1>8
<1> QED
  BY <1>1, <1>9

\* A file that begins pushed is a prefix of it.
LEMMA BeginningIsPrefix ==
  ASSUME TypeOK, Beginning
  PROVE  IsPrefix(LinesOf(file), pushed)
<1>1. PICK s, f : s = LinesOf(file) /\ f = Len(file)
  OBVIOUS
<1>2. /\ f \in Nat /\ DOMAIN file = 1 .. f /\ pushed \in Seq(Lines) /\ Len(pushed) \in Nat /\ f <= Len(pushed)
      /\ \A i \in 1 .. f : file[i].line = pushed[i] /\ pushed[i] \in Lines
  BY <1>1, LogTypes DEF TypeOK, Beginning
<1>3. s = [i \in 1 .. f |-> pushed[i]]
  BY <1>1, <1>2 DEF LinesOf
<1>4. s \in Seq(Lines) /\ Len(s) = f /\ \A i \in 1 .. f : s[i] = pushed[i]
  BY <1>2, <1>3
<1>5. PICK u, v : u = SubSeq(s, 1, f) /\ v = SubSeq(pushed, 1, f)
  OBVIOUS
<1>6. u \in Seq(Lines) /\ Len(u) = f /\ \A i \in 1 .. f : u[i] = s[i]
  BY <1>2, <1>4, <1>5
<1>7. v \in Seq(Lines) /\ Len(v) = f /\ \A i \in 1 .. f : v[i] = pushed[i]
  BY <1>2, <1>5
<1>8. u = v
  BY <1>4, <1>6, <1>7, SeqEqual
<1> QED
  BY <1>1, <1>2, <1>4, <1>5, <1>8 DEF IsPrefix

-------------------------------------------------------------------------------
(* The theorems *)

\* What the threads, the destructor and the end of the process keep.
THEOREM LoggerInvariance == Spec => []IInv
BY InvInit, InvStep, PTL DEF Spec

\* Every line on the console, in the queue and in the file is one that a thread logged.
THEOREM TypeCorrect == Spec => []TypeOK
<1>1. IInv => TypeOK
  BY DEF IInv
<1> QED
  BY <1>1, LoggerInvariance, PTL

\* WriteLog and ~Logger lose and repeat nothing, whatever the size of the queue, and the
\* death of the process leaves the beginning.
THEOREM NothingLost == Spec => []NothingLostOrRepeated
<1>1. IInv => NothingLostOrRepeated
  <2> SUFFICES ASSUME IInv PROVE NothingLostOrRepeated
    OBVIOUS
  <2>1. phase = "dead" => IsPrefix(LinesOf(file), pushed)
    BY BeginningIsPrefix DEF IInv, PlacesInv
  <2>2. phase # "dead" => LinesOf(file \o Waiting) = pushed
    BY LinesArePushed DEF IInv
  <2> QED
    BY <2>1, <2>2 DEF IInv, RoomInv, NothingLostOrRepeated
<1> QED
  BY <1>1, LoggerInvariance, PTL

\* The file has the lines of calls that did not overlap in the order of the calls,
\* although the console is written outside the lock.
THEOREM RealTime == Spec => []RealTimeOrder
<1>1. IInv => RealTimeOrder
  <2> SUFFICES ASSUME IInv, phase # "dead" PROVE RealTimeOrder
    BY DEF RealTimeOrder
  <2>1. LinesOf(file \o Waiting) = pushed
    BY LinesArePushed DEF IInv
  <2> QED
    BY <2>1 DEF IInv, OrderInv, RealTimeOrder
<1> QED
  BY <1>1, LoggerInvariance, PTL

\* A destroyed logger has put every line of every call on the disk.
THEOREM DestroyedIsComplete == Spec => []ClosedIsComplete
<1>1. IInv => ClosedIsComplete
  <2> SUFFICES ASSUME IInv, phase = "closed" PROVE ClosedIsComplete
    BY DEF ClosedIsComplete
  <2>1. /\ onDisk = Len(file) /\ queue = <<>> /\ next = 0
        /\ \A t \in Threads : pc[t] = "idle"
    BY DEF IInv, LoopInv
  <2>2. LinesOf(file \o <<>>) = pushed
    BY <2>1, LinesArePushed DEF IInv, Waiting
  <2>3. file \o <<>> = file
    BY DEF IInv, TypeOK
  <2>4. \A l \in Lines : Given(l) <=> l[2] <= Len(calls[l[1]])
    <3>1. \A l \in Lines : l[1] \in Threads /\ l[2] \in Nat
      BY DEF Lines
    <3> QED
      BY <2>1, <3>1, LogTypes DEF IInv, Given
  <2> QED
    BY <2>1, <2>2, <2>3, <2>4 DEF IInv, GivenInv, ClosedIsComplete
<1> QED
  BY <1>1, LoggerInvariance, PTL

===============================================================================
