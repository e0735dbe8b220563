---------------------------- MODULE GameRoomProofs ----------------------------
(***************************************************************************)
(* Proofs about GameRoom, for every set of rooms, sessions, workers and    *)
(* messages: the reads stay in step with the packets, the io thread and    *)
(* the workers never wait for each other, each packet is answered once,    *)
(* everybody is sent the same replies, and the rooms implement             *)
(* OrderedBroadcast.                                                       *)
(*                                                                         *)
(* The inductive invariant IInv has a part for each of these: where a      *)
(* session is on its way into the room, what its stream looks like from    *)
(* the cell that is read next, where the one packet in flight is, which    *)
(* replies the logs can hold already, and who holds the mutexes.           *)
(***************************************************************************)
EXTENDS GameRoom, SequenceTheorems, TLAPS

-------------------------------------------------------------------------------
(* The parts of the inductive invariant *)

Joined(s) == \E i \in DOMAIN users[RoomOf[s]] : users[RoomOf[s]][i] = s

\* No read of the session has been started.
Untouched(s) == rd[s] = "none" /\ need[s] = 0 /\ data[s].event = Unwritten

\* Before it is in users, nothing is read from a session and nothing sent to it.
OutsideInv == \A s \in Sessions : ~Joined(s) => Untouched(s) /\ sent[s] = <<>>

UnconnectedInv ==
  \A s \in Sessions : peer[s] = "none" =>
    /\ ~Joined(s) /\ io.session # s
    /\ program[s] = <<>> /\ stream[s] = <<>>

\* A session gets into users once, by way of the backlog and handle_accept.
UsersInv ==
  \A r \in Rooms : \A i \in DOMAIN users[r] :
    /\ RoomOf[users[r][i]] = r
    /\ \A j \in DOMAIN users[r] : users[r][i] = users[r][j] => i = j

BacklogInv ==
  \A r \in Rooms : \A i \in DOMAIN backlog[r] :
    /\ RoomOf[backlog[r][i]] = r
    /\ ~Joined(backlog[r][i]) /\ peer[backlog[r][i]] # "none"
    /\ io.session # backlog[r][i]
    /\ \A j \in DOMAIN backlog[r] : backlog[r][i] = backlog[r][j] => i = j

EntryInv == OutsideInv /\ UnconnectedInv /\ UsersInv /\ BacklogInv

\* The io thread's handler is for a session, which awaits nothing meanwhile.
HandlerInv ==
  /\ io.at \in {"accept", "join"} => io.session \in Sessions /\ ~Joined(io.session)
  /\ io.at \in {"wait", "broadcast", "rearm"} =>
       io.session \in Sessions /\ Joined(io.session) /\ rd[io.session] = "none"
  /\ io.at = "idle" => io.session = None
  /\ io.at = "broadcast" => io.next > 0

\* What the stream of s holds behind the event of its n-th packet, at place i: the rest
\* of that packet and the event of the next one, as far as the stream goes.
PacketOf(s, i, n, len) ==
  /\ n \in 1 .. Len(program[s])
  /\ i + 1 \in DOMAIN stream[s] => stream[s][i + 1] = <<"length", n>>
  /\ \A j \in 1 .. len : i + 1 + j \in DOMAIN stream[s] => stream[s][i + 1 + j] = <<"body", n>>
  /\ i + 2 + len \in DOMAIN stream[s] => stream[s][i + 2 + len] = <<"event", n + 1>>
  /\ peer[s] = "open" =>
       /\ i + 1 + len <= Len(stream[s])
       /\ i + 1 + len = Len(stream[s]) => n = Len(program[s])

PacketAt(s, i) ==
  LET n == stream[s][i][2] IN PacketOf(s, i, n, BodyLen[program[s][n]])

StreamAt(s) == \A i \in DOMAIN stream[s] : stream[s][i][1] = "event" => PacketAt(s, i)

\* The cells that the outstanding read of a body takes first.
Ahead(s) == IF rd[s] = "body" THEN need[s] ELSE 0

\* The session is still read from, or will be; it is not when a body has failed.
InStep(s) == rd[s] # "none" \/ io.session = s \/ Untouched(s)

\* The cells read next are the body that the header in data_ announced, and then
\* comes the header of the packet after that one.
HeadAt(s) ==
  /\ rd[s] = "body" => need[s] = data[s].len
  /\ InStep(s) =>
       /\ \A j \in 1 .. Ahead(s) :
            j \in DOMAIN stream[s] => stream[s][j] = <<"body", data[s].event>>
       /\ Ahead(s) + 1 \in DOMAIN stream[s] =>
            stream[s][Ahead(s) + 1] = <<"event", data[s].event + 1>>
       /\ peer[s] = "open" =>
            /\ Ahead(s) <= Len(stream[s])
            /\ Ahead(s) = Len(stream[s]) => data[s].event = Len(program[s])

\* No reply to the packet whose header is in data_ is in the room's log.
Unanswered(s) ==
  \A i \in DOMAIN log[RoomOf[s]] :
    LET reply == log[RoomOf[s]][i] IN reply[1] = s => reply[2] < data[s].event

\* The task that the io thread waits for parses a packet of its session.
InFlight(p) ==
  /\ io.at = "wait"
  /\ future = NoOutcome
  /\ p.session = io.session
  /\ p.body # <<>> => p.body[1] = <<"body", data[io.session].event>> /\ Unanswered(io.session)
  /\ p.len > 0 => p.body = Body(p.event, p.len)

\* One task at most is queued or run, and only while the io thread waits for it.
QueueInv ==
  queue # <<>> =>
    /\ Len(queue) = 1 /\ InFlight(queue[1])
    /\ \A w \in Workers : worker[w].at = "idle"

WorkerInv ==
  \A w \in Workers : worker[w].at # "idle" =>
    /\ worker[w].packet \in Packets /\ InFlight(worker[w].packet)
    /\ \A v \in Workers : v # w => worker[v].at = "idle"

FutureInv ==
  /\ io.at \in {"idle", "accept", "join", "rearm"} => future = NoOutcome
  /\ io.at = "broadcast" => future.kind = "packet"
  /\ io.at = "wait" /\ future.kind = "packet" =>
       future.reply = <<io.session, data[io.session].event>> /\ Unanswered(io.session)

TaskInv == QueueInv /\ WorkerInv /\ FutureInv

\* The replies in the log are to packets whose headers have been read, and while a body
\* that can still come is awaited, not to that one.
LoggedInv ==
  \A r \in Rooms : \A i \in DOMAIN log[r] :
    RoomOf[log[r][i][1]] = r /\ log[r][i][2] <= data[log[r][i][1]].event

AwaitedInv ==
  \A s \in Sessions :
    rd[s] = "body" /\ (peer[s] = "open" \/ stream[s] # <<>>) => Unanswered(s)

LogInv == LoggedInv /\ AwaitedInv

MutexInv ==
  \A r \in Rooms :
    /\ mtx[r] = Io => io.at = "join" /\ RoomOf[io.session] = r
    /\ mtx[r] \in Workers => worker[mtx[r]].at = "parse" /\ RoomOfTask(mtx[r]) = r

\* While a reply is broadcast it is the last in the log.
LastInv ==
  io.at = "broadcast" =>
    LET r == RoomOf[io.session] IN log[r] # <<>> /\ log[r][Len(log[r])] = future.reply

\* Everybody has been sent the log from its joining on, which was before the reply that
\* is being broadcast.
UserAt(r, i) ==
  LET s == users[r][i]
      end == Len(log[r]) - Behind(r, i)
  IN joinedAt[s] <= end /\ sent[s] = SubSeq(log[r], joinedAt[s] + 1, end)

BroadcastInv ==
  /\ LastInv
  /\ \A r \in Rooms : \A i \in DOMAIN users[r] : UserAt(r, i)

Entry == EntryInv /\ HandlerInv

Framing == \A s \in Sessions : StreamAt(s) /\ HeadAt(s)

IInv ==
  /\ TypeOK
  /\ Entry
  /\ Framing
  /\ TaskInv
  /\ LogInv
  /\ MutexInv
  /\ BroadcastInv

-------------------------------------------------------------------------------
(* Sequences *)

\* What is left of a sequence is one of the same elements.
LEMMA RestIsSeq ==
  ASSUME NEW S, NEW q \in Seq(S), NEW k \in Nat
  PROVE  SubSeq(q, k + 1, Len(q)) \in Seq(S)
<1>1. \A i \in k + 1 .. Len(q) : i \in 1 .. Len(q)
  OBVIOUS
<1> QED
  BY <1>1, SubSeqProperties

\* Where the elements of the rest were before.
LEMMA RestAt ==
  ASSUME NEW S, NEW q \in Seq(S), NEW k \in 0 .. Len(q)
  PROVE  /\ Len(SubSeq(q, k + 1, Len(q))) = Len(q) - k
         /\ DOMAIN SubSeq(q, k + 1, Len(q)) = 1 .. Len(q) - k
         /\ \A i \in 1 .. Len(q) - k : SubSeq(q, k + 1, Len(q))[i] = q[i + k]
<1> DEFINE rest == SubSeq(q, k + 1, Len(q))
<1>1. Len(q) \in Nat /\ k \in Nat /\ k <= Len(q)
  OBVIOUS
<1>2. \A i \in k + 1 .. Len(q) : i \in 1 .. Len(q)
  BY <1>1
<1>3. /\ rest \in Seq(S)
      /\ Len(rest) = IF k + 1 <= Len(q) THEN Len(q) - (k + 1) + 1 ELSE 0
      /\ \A i \in 1 .. Len(q) - (k + 1) + 1 : rest[i] = q[(k + 1) + i - 1]
  BY <1>2, SubSeqProperties
<1>4. /\ Len(q) - (k + 1) + 1 = Len(q) - k
      /\ ~(k + 1 <= Len(q)) => Len(q) - k = 0
      /\ \A i \in 1 .. Len(q) - k : (k + 1) + i - 1 = i + k
  BY <1>1
<1> HIDE DEF rest
<1>5. Len(rest) = Len(q) - k /\ \A i \in 1 .. Len(q) - k : rest[i] = q[i + k]
  BY <1>3, <1>4
<1>6. DOMAIN rest = 1 .. Len(q) - k
  BY <1>3, <1>5
<1> QED
  BY <1>5, <1>6 DEF rest

\* Where the elements of two sequences are in their concatenation.
LEMMA ConcatAt ==
  ASSUME NEW S, NEW a \in Seq(S), NEW b \in Seq(S)
  PROVE  /\ a \o b \in Seq(S) /\ Len(a \o b) = Len(a) + Len(b)
         /\ DOMAIN (a \o b) = 1 .. Len(a) + Len(b)
         /\ \A i \in 1 .. Len(a) : (a \o b)[i] = a[i]
         /\ \A i \in 1 .. Len(b) : (a \o b)[Len(a) + i] = b[i]
<1>1. /\ a \o b \in Seq(S) /\ Len(a \o b) = Len(a) + Len(b)
      /\ \A i \in 1 .. Len(a) + Len(b) :
           (a \o b)[i] = IF i <= Len(a) THEN a[i] ELSE b[i - Len(a)]
  BY ConcatProperties
<1>2. DOMAIN (a \o b) = 1 .. Len(a) + Len(b)
  BY <1>1
<1>3. Len(a) \in Nat /\ Len(b) \in Nat
  OBVIOUS
<1>4. /\ \A i \in 1 .. Len(a) : i \in 1 .. Len(a) + Len(b) /\ i <= Len(a)
      /\ \A i \in 1 .. Len(b) : /\ Len(a) + i \in 1 .. Len(a) + Len(b)
                              /\ ~(Len(a) + i <= Len(a)) /\ (Len(a) + i) - Len(a) = i
  BY <1>3
<1> QED
  BY <1>1, <1>2, <1>4

\* What a sequence holds when something is appended.
LEMMA MembersOfAppend ==
  ASSUME NEW S, NEW q \in Seq(S), NEW x
  PROVE  \A y : y \in Members(Append(q, x)) <=> y \in Members(q) \/ y = x
<1>1. /\ DOMAIN Append(q, x) = 1 .. Len(q) + 1 /\ DOMAIN q = 1 .. Len(q) /\ Len(q) \in Nat
      /\ \A i \in 1 .. Len(q) : Append(q, x)[i] = q[i]
      /\ Append(q, x)[Len(q) + 1] = x
  OBVIOUS
<1>2. \A i \in 1 .. Len(q) + 1 : i \in 1 .. Len(q) \/ i = Len(q) + 1
  BY <1>1
<1>3. 1 .. Len(q) \subseteq 1 .. Len(q) + 1 /\ Len(q) + 1 \in 1 .. Len(q) + 1
  BY <1>1
<1> QED
  BY <1>1, <1>2, <1>3 DEF Members

\* A sequence of one element is empty without it.
LEMMA SequenceOfOne ==
  ASSUME NEW S, NEW q \in Seq(S), Len(q) = 1
  PROVE  Head(q) = q[1] /\ Tail(q) = <<>>
<1>1. q # <<>> /\ Head(q) = q[1]
  OBVIOUS
<1>2. Tail(q) \in Seq(S) /\ Len(Tail(q)) = 0
  BY <1>1, HeadTailProperties
<1> QED
  BY <1>1, <1>2, EmptySeq

-------------------------------------------------------------------------------
(* Packets and cells *)

\* What a packet looks like on the wire.
LEMMA WireCells ==
  ASSUME NEW n \in PacketIds, NEW m \in Messages
  PROVE  /\ Wire(n, m) \in Seq(Cells)
         /\ Len(Wire(n, m)) = HeaderLen + BodyLen[m]
         /\ Wire(n, m)[1] = <<"event", n>>
         /\ Wire(n, m)[2] = <<"length", n>>
         /\ \A j \in 1 .. BodyLen[m] : Wire(n, m)[HeaderLen + j] = <<"body", n>>
<1> DEFINE header == <<<<"event", n>>, <<"length", n>>>>
<1>1. header \in Seq(Cells) /\ Len(header) = 2
  BY DEF Cells
<1>2. BodyLen[m] \in Nat
  BY RoomAssumption
<1>3. Body(n, BodyLen[m]) \in Seq(Cells) /\ Len(Body(n, BodyLen[m])) = BodyLen[m]
  BY <1>2 DEF Body, Cells
<1> HIDE DEF header
<1>4. /\ Wire(n, m) \in Seq(Cells)
      /\ Len(Wire(n, m)) = 2 + BodyLen[m]
      /\ \A i \in 1 .. 2 + BodyLen[m] :
           Wire(n, m)[i] = IF i <= 2 THEN header[i] ELSE Body(n, BodyLen[m])[i - 2]
  BY <1>1, <1>3, ConcatProperties DEF Wire, header
<1>5. \A j \in 1 .. BodyLen[m] : Body(n, BodyLen[m])[j] = <<"body", n>>
  BY DEF Body
<1>6. header[1] = <<"event", n>> /\ header[2] = <<"length", n>>
  BY DEF header
<1>7. Wire(n, m)[1] = header[1] /\ Wire(n, m)[2] = header[2]
  BY <1>2, <1>4
<1>8. ASSUME NEW j \in 1 .. BodyLen[m] PROVE Wire(n, m)[2 + j] = <<"body", n>>
  <2>1. 2 + j \in 1 .. 2 + BodyLen[m] /\ ~(2 + j <= 2) /\ (2 + j) - 2 = j
    BY <1>2
  <2> QED
    BY <2>1, <1>4, <1>5
<1> QED
  BY <1>4, <1>6, <1>7, <1>8 DEF HeaderLen

\* What Parse returns is a reply to the task's session, or no reply.
LEMMA ResultsAreOutcomes ==
  ASSUME NEW p \in Packets
  PROVE  /\ ParseResults(p) \subseteq Outcomes
         /\ \A x \in ParseResults(p) :
              /\ x # NoOutcome
              /\ x.kind = "packet" => p.body # <<>> /\ x.reply = <<p.session, p.body[1][2]>>
<1>1. Throws \in Outcomes /\ NoReply \in Outcomes
  BY DEF Throws, NoReply, Outcomes
<1>2. CarriesValue(p) => ReplyTo(p) \in Outcomes
  <2> SUFFICES ASSUME CarriesValue(p) PROVE ReplyTo(p) \in Outcomes
    OBVIOUS
  <2>1. p.body \in Seq(Cells) /\ p.body # <<>> /\ p.session \in Sessions
    BY DEF CarriesValue, Packets
  <2>2. p.body[1] \in Cells
    BY <2>1, EmptySeq, ElementOfSeq
  <2>3. p.body[1][2] \in PacketIds
    BY <2>2 DEF Cells
  <2> QED
    BY <2>1, <2>3 DEF ReplyTo, Outcomes, Replies
<1>3. \A x \in ParseResults(p) : x \in {Throws, NoReply} \/ (CarriesValue(p) /\ x = ReplyTo(p))
  BY DEF ParseResults
<1>4. /\ Throws # NoOutcome /\ Throws.kind # "packet"
      /\ NoReply # NoOutcome /\ NoReply.kind # "packet"
  BY DEF Throws, NoReply, NoOutcome
<1>5. /\ ReplyTo(p) # NoOutcome
      /\ ReplyTo(p).reply = <<p.session, p.body[1][2]>>
  BY DEF ReplyTo, NoOutcome
<1>6. CarriesValue(p) => p.body # <<>>
  BY DEF CarriesValue
<1> QED
  BY <1>1, <1>2, <1>3, <1>4, <1>5, <1>6

\* A header that is read is that of a packet that its client sent.
LEMMA HeaderIsOfPacket ==
  ASSUME TypeOK, Framing, NEW s \in Sessions, rd[s] = "header"
  PROVE  /\ ReceivedHeader(s) \in [event : {Unwritten} \cup PacketIds, len : Lengths]
         /\ stream[s] # <<>> => ReceivedHeader(s).event = data[s].event + 1
         /\ stream[s] = <<>> => ReceivedHeader(s) = data[s]
         /\ Len(stream[s]) >= HeaderLen =>
              /\ data[s].event + 1 \in 1 .. Len(program[s])
              /\ ReceivedHeader(s).len = BodyLen[program[s][data[s].event + 1]]
<1>1. stream[s] \in Seq(Cells) /\ Len(stream[s]) \in Nat /\ DOMAIN stream[s] = 1 .. Len(stream[s])
  BY LenProperties DEF TypeOK
<1>2. data[s] \in [event : {Unwritten} \cup PacketIds, len : Lengths]
  BY DEF TypeOK
<1>3. ASSUME Len(stream[s]) > 0
      PROVE  /\ stream[s][1] = <<"event", data[s].event + 1>>
             /\ stream[s][1][2] = data[s].event + 1
             /\ data[s].event + 1 \in PacketIds
  <2>1. stream[s][1] = <<"event", data[s].event + 1>>
    BY <1>1, <1>3 DEF Framing, HeadAt, InStep, Ahead
  <2>2. stream[s][1] \in Cells
    BY <1>1, <1>3
  <2> QED
    BY <2>1, <2>2 DEF Cells
<1>4. ASSUME Len(stream[s]) >= 2
      PROVE  /\ stream[s][2][2] = data[s].event + 1
             /\ data[s].event + 1 \in 1 .. Len(program[s])
             /\ BodyLen[program[s][data[s].event + 1]] \in Lengths
  <2>1. PICK n, len : n = data[s].event + 1 /\ len = BodyLen[program[s][n]]
    OBVIOUS
  <2>2. PacketOf(s, 1, n, len)
    BY <1>1, <1>3, <1>4, <2>1 DEF Framing, StreamAt, PacketAt
  <2>3. 1 + 1 = 2 /\ 2 \in DOMAIN stream[s]
    BY <1>1, <1>4
  <2>4. stream[s][2] = <<"length", data[s].event + 1>> /\ data[s].event + 1 \in 1 .. Len(program[s])
    BY <2>1, <2>2, <2>3 DEF PacketOf
  <2>5. program[s][data[s].event + 1] \in Messages
    BY <2>4 DEF TypeOK
  <2> QED
    BY <2>4, <2>5 DEF Lengths
<1>5. stream[s] = <<>> <=> Len(stream[s]) = 0
  BY <1>1
<1>6. CASE Len(stream[s]) >= 2
  BY <1>1, <1>2, <1>3, <1>4, <1>5, <1>6 DEF ReceivedHeader, HeaderLen
<1>7. CASE Len(stream[s]) = 1
  BY <1>1, <1>2, <1>3, <1>5, <1>7 DEF ReceivedHeader, HeaderLen
<1>8. CASE Len(stream[s]) = 0
  BY <1>1, <1>2, <1>5, <1>8 DEF ReceivedHeader, HeaderLen
<1>9. \A n \in Nat : n >= 2 \/ n = 1 \/ n = 0
  OBVIOUS
<1> QED
  BY <1>1, <1>6, <1>7, <1>8, <1>9

-------------------------------------------------------------------------------
(* Typing *)

\* The first states have the types.
LEMMA TypeInit == Init => TypeOK
  BY RoomAssumption DEF Init, TypeOK, IoStates, NoOutcome, Outcomes, Lengths

\* Every step keeps the types.
LEMMA TypeStep ==
  ASSUME TypeOK, HandlerInv, Framing, TaskInv, [Next]_vars
  PROVE  TypeOK'
<1> USE RoomAssumption DEF TypeOK, IoStates, clientVars, poolVars, roomVars, readVars,
     IoAt, IoGoto, IoReturn
<1>1. ASSUME NEW s \in Sessions, Connect(s) PROVE TypeOK'
  <2>1. backlog' \in [Rooms -> Seq(Sessions)]
    BY <1>1, AppendProperties DEF Connect
  <2> QED
    BY <1>1, <2>1 DEF Connect
<1>2. ASSUME NEW s \in Sessions, NEW m \in Messages, Send(s, m) PROVE TypeOK'
  <2>1. program' \in [Sessions -> Seq(Messages)]
    BY <1>2, AppendProperties DEF Send
  <2>2. Wire(Len(program[s]) + 1, m) \in Seq(Cells)
    BY <1>2, WireCells DEF Send, PacketIds
  <2>3. stream' \in [Sessions -> Seq(Cells)]
    BY <1>2, <2>2, ConcatProperties DEF Send
  <2> QED
    BY <1>2, <2>1, <2>3 DEF Send
<1>3. ASSUME NEW s \in Sessions, Disconnect(s) PROVE TypeOK'
  <2>1. stream' \in [Sessions -> Seq(Cells)]
    <3>1. PICK k \in 0 .. Len(stream[s]) : stream' = [stream EXCEPT ![s] = SubSeq(@, 1, k)]
      BY <1>3 DEF Disconnect
    <3>2. SubSeq(stream[s], 1, k) \in Seq(Cells)
      BY SubSeqProperties
    <3> QED
      BY <3>1, <3>2
  <2> QED
    BY <1>3, <2>1 DEF Disconnect
<1>4. ASSUME NEW r \in Rooms, AcceptFails(r) PROVE TypeOK'
  BY <1>4 DEF AcceptFails
<1>5. ASSUME NEW r \in Rooms, AcceptConnection(r) PROVE TypeOK'
  <2>1. Head(backlog[r]) \in Sessions /\ Tail(backlog[r]) \in Seq(Sessions)
    BY <1>5, HeadTailProperties DEF AcceptConnection
  <2> QED
    BY <1>5, <2>1 DEF AcceptConnection
<1>6. ASSUME NEW s \in Sessions, ReadHeader(s) PROVE TypeOK'
  <2>1. ReceivedHeader(s) \in [event : {Unwritten} \cup PacketIds, len : Lengths]
    BY <1>6, HeaderIsOfPacket DEF ReadHeader
  <2>2. stream' \in [Sessions -> Seq(Cells)]
    <3>1. HeaderCells(s) \in Nat
      BY DEF HeaderCells, HeaderLen
    <3>2. stream[s] \in Seq(Cells)
      OBVIOUS
    <3>3. SubSeq(stream[s], HeaderCells(s) + 1, Len(stream[s])) \in Seq(Cells)
      BY ONLY <3>1, <3>2, RestIsSeq
    <3> QED
      BY <1>6, <3>3 DEF ReadHeader
  <2>3. BodyCells(ReceivedHeader(s)) \in Nat
    BY <2>1, SMTT(30) DEF BodyCells, Lengths
  <2> QED
    BY <1>6, <2>1, <2>2, <2>3 DEF ReadHeader
<1>7. ASSUME NEW s \in Sessions, ReadBody(s) PROVE TypeOK'
  <2>1. stream' \in [Sessions -> Seq(Cells)]
    BY <1>7, SubSeqProperties DEF ReadBody
  <2>2. SubSeq(stream[s], 1, need[s]) \in Seq(Cells)
    BY <1>7, SubSeqProperties DEF ReadBody
  <2>3. queue' \in Seq(Packets)
    BY <1>7, <2>2, AppendProperties DEF ReadBody, Packets
  <2> QED
    BY <1>7, <2>1, <2>3 DEF ReadBody
<1>8. ASSUME NEW s \in Sessions, ReadBodyFails(s) PROVE TypeOK'
  BY <1>8 DEF ReadBodyFails
<1>9. CASE AcceptLock
  BY <1>9 DEF AcceptLock
<1>10. CASE AcceptJoin
  <2>1. io.session \in Sessions /\ RoomOf[io.session] \in Rooms
    BY <1>10 DEF AcceptJoin, HandlerInv
  <2>2. users' \in [Rooms -> Seq(Sessions)]
    BY <1>10, <2>1, AppendProperties DEF AcceptJoin, WithUser
  <2>3. Len(log[RoomOf[io.session]]) \in Nat
    BY <2>1, LenProperties
  <2> QED
    BY <1>10, <2>1, <2>2, <2>3 DEF AcceptJoin, StartAccept
<1>11. CASE PassTaskBroadcast
  <2>1. future.reply \in Replies
    BY <1>11 DEF PassTaskBroadcast, Outcomes
  <2>2. log' \in [Rooms -> Seq(Replies)]
    BY <1>11, <2>1, AppendProperties DEF PassTaskBroadcast, HandlerInv
  <2> QED
    BY <1>11, <2>2 DEF PassTaskBroadcast
<1>12. CASE PassTaskNothing
  BY <1>12 DEF PassTaskNothing, NoOutcome, Outcomes
<1>13. CASE BroadcastSend
  <2>1. io.session \in Sessions /\ RoomOf[io.session] \in Rooms
    BY <1>13 DEF BroadcastSend, HandlerInv
  <2>2. BroadcastTo \in Seq(Sessions)
    BY <2>1 DEF BroadcastTo
  <2>3. BroadcastTo[io.next] \in Sessions
    BY <1>13, <2>2 DEF BroadcastSend
  <2>4. future.reply \in Replies
    BY <1>13 DEF BroadcastSend, TaskInv, FutureInv, Outcomes
  <2>5. sent' \in [Sessions -> Seq(Replies)]
    BY <1>13, <2>3, <2>4, AppendProperties DEF BroadcastSend
  <2>6. io' \in IoStates
    <3>1. io \in IoStates /\ io.next \in Nat
      OBVIOUS
    <3>2. io' = [io EXCEPT !.next = io.next + 1]
      BY <1>13 DEF BroadcastSend
    <3>3. io.next + 1 \in Nat
      BY <3>1
    <3> QED
      BY <3>1, <3>2, <3>3
  <2> QED
    BY <1>13, <2>5, <2>6 DEF BroadcastSend
<1>14. CASE BroadcastEnd
  BY <1>14 DEF BroadcastEnd, NoOutcome, Outcomes
<1>15. CASE Rearm
  BY <1>15 DEF Rearm
<1>16. ASSUME NEW w \in Workers, TakeTask(w) PROVE TypeOK'
  BY <1>16, SMTT(30) DEF TakeTask
<1>17. ASSUME NEW w \in Workers, ParseLock(w) PROVE TypeOK'
  BY <1>17, ZenonT(30) DEF ParseLock
<1>18. ASSUME NEW w \in Workers, ParseDone(w) PROVE TypeOK'
  <2>1. worker[w].packet \in Packets
    BY <1>18 DEF ParseDone, TaskInv, WorkerInv
  <2>2. ParseResults(worker[w].packet) \subseteq Outcomes
    BY <2>1, ResultsAreOutcomes
  <2>3. RoomOfTask(w) \in Rooms
    BY <2>1 DEF RoomOfTask, Packets
  <2> QED
    BY <1>18, <2>2, <2>3 DEF ParseDone, MutexAfterParse
<1>19. CASE UNCHANGED vars
  BY <1>19 DEF vars
<1> QED
  BY <1>1, <1>2, <1>3, <1>4, <1>5, <1>6, <1>7, <1>8, <1>9,
     <1>10, <1>11, <1>12, <1>13, <1>14, <1>15, <1>16, <1>17, <1>18, <1>19
  DEF Next, Client, IoHandler, Worker

-------------------------------------------------------------------------------
(* What a step can do to one variable *)

\* Which actions change the variables that most steps leave alone.
LEMMA WhoChanges ==
  ASSUME [Next]_vars
  PROVE  /\ UNCHANGED <<users, joinedAt>> \/ AcceptJoin
         /\ \/ backlog' = backlog
            \/ \E s \in Sessions : Connect(s)
            \/ \E r \in Rooms : AcceptConnection(r)
         /\ peer' = peer \/ \E s \in Sessions : Connect(s) \/ Disconnect(s)
         /\ program' = program \/ \E s \in Sessions, m \in Messages : Send(s, m)
         /\ \/ stream' = stream
            \/ \E s \in Sessions, m \in Messages : Send(s, m)
            \/ \E s \in Sessions : Disconnect(s) \/ ReadHeader(s) \/ ReadBody(s)
         /\ \/ UNCHANGED <<rd, need, data>>
            \/ \E s \in Sessions : ReadHeader(s) \/ ReadBody(s) \/ ReadBodyFails(s)
            \/ AcceptJoin \/ Rearm
         /\ log' = log \/ PassTaskBroadcast
         /\ sent' = sent \/ BroadcastSend
<1> USE DEF Next, Client, IoHandler, Worker, vars, clientVars, poolVars, roomVars, readVars,
       AcceptFails, AcceptLock, PassTaskNothing, BroadcastEnd, TakeTask, ParseLock, ParseDone
<1>1. UNCHANGED <<users, joinedAt>> \/ AcceptJoin
  BY DEF Connect, Send, Disconnect, AcceptConnection, ReadHeader, ReadBody, ReadBodyFails, PassTaskBroadcast, BroadcastSend, Rearm
<1>2. \/ backlog' = backlog
      \/ \E s \in Sessions : Connect(s)
      \/ \E r \in Rooms : AcceptConnection(r)
  BY DEF Send, Disconnect, ReadHeader, ReadBody, ReadBodyFails, AcceptJoin, PassTaskBroadcast, BroadcastSend, Rearm
<1>3. peer' = peer \/ \E s \in Sessions : Connect(s) \/ Disconnect(s)
  BY DEF Send, AcceptConnection, ReadHeader, ReadBody, ReadBodyFails, AcceptJoin, PassTaskBroadcast, BroadcastSend, Rearm
<1>4. program' = program \/ \E s \in Sessions, m \in Messages : Send(s, m)
  BY DEF Connect, Disconnect, AcceptConnection, ReadHeader, ReadBody, ReadBodyFails, AcceptJoin, PassTaskBroadcast, BroadcastSend, Rearm
<1>5. \/ stream' = stream
      \/ \E s \in Sessions, m \in Messages : Send(s, m)
      \/ \E s \in Sessions : Disconnect(s) \/ ReadHeader(s) \/ ReadBody(s)
  BY DEF Connect, AcceptConnection, ReadBodyFails, AcceptJoin, PassTaskBroadcast, BroadcastSend, Rearm
<1>6. \/ UNCHANGED <<rd, need, data>>
      \/ \E s \in Sessions : ReadHeader(s) \/ ReadBody(s) \/ ReadBodyFails(s)
      \/ AcceptJoin \/ Rearm
  BY DEF Connect, Send, Disconnect, AcceptConnection, PassTaskBroadcast, BroadcastSend
<1>7. log' = log \/ PassTaskBroadcast
  BY DEF Connect, Send, Disconnect, AcceptConnection, ReadHeader, ReadBody, ReadBodyFails, AcceptJoin, BroadcastSend, Rearm
<1>8. sent' = sent \/ BroadcastSend
  BY DEF Connect, Send, Disconnect, AcceptConnection, ReadHeader, ReadBody, ReadBodyFails, AcceptJoin, PassTaskBroadcast, Rearm
<1> HIDE DEF Next
<1> QED
  BY <1>1, <1>2, <1>3, <1>4, <1>5, <1>6, <1>7, <1>8

\* Which actions give the io thread another session.
LEMMA SessionOfIo ==
  ASSUME TypeOK, [Next]_vars
  PROVE  \/ io'.session = io.session
         \/ AcceptJoin \/ Rearm
         \/ \E r \in Rooms : AcceptConnection(r)
         \/ \E s \in Sessions : ReadBody(s)
  BY DEF Next, Client, IoHandler, Worker, vars, TypeOK, IoStates, IoGoto,
       Connect, Send, Disconnect, AcceptFails, AcceptConnection, ReadHeader, ReadBody, ReadBodyFails,
       AcceptLock, AcceptJoin, PassTaskBroadcast, PassTaskNothing, BroadcastSend, BroadcastEnd, Rearm,
       TakeTask, ParseLock, ParseDone

\* A session joins in AcceptJoin, and no session leaves.
LEMMA JoinedStep ==
  ASSUME TypeOK, HandlerInv, [Next]_vars, NEW s \in Sessions
  PROVE  /\ Joined(s)' <=> Joined(s) \/ (AcceptJoin /\ s = io.session)
<1>1. CASE users' = users /\ ~AcceptJoin
  BY <1>1 DEF Joined
<1>2. CASE AcceptJoin
  <2>1. io.session \in Sessions /\ RoomOf[io.session] \in Rooms
    BY <1>2, RoomAssumption DEF AcceptJoin, IoAt, HandlerInv
  <2>2. CASE RoomOf[s] = RoomOf[io.session]
    <3> DEFINE u == users[RoomOf[s]]
    <3>1. u \in Seq(Sessions) /\ users'[RoomOf[s]] = Append(u, io.session)
      BY <1>2, <2>1, <2>2, RoomAssumption DEF AcceptJoin, WithUser, TypeOK
    <3>2. /\ DOMAIN Append(u, io.session) = 1 .. Len(u) + 1
          /\ DOMAIN u = 1 .. Len(u)
          /\ Len(u) \in Nat
          /\ \A i \in 1 .. Len(u) : Append(u, io.session)[i] = u[i]
          /\ Append(u, io.session)[Len(u) + 1] = io.session
      BY <2>1, <3>1
    <3> HIDE DEF u
    <3>3. Joined(s)' <=> \E i \in 1 .. Len(u) + 1 : Append(u, io.session)[i] = s
      BY <3>1, <3>2 DEF Joined
    <3>4. Joined(s) <=> \E i \in 1 .. Len(u) : u[i] = s
      BY <3>2 DEF Joined, u
    <3> QED
      BY <1>2, <3>2, <3>3, <3>4
  <2>3. CASE RoomOf[s] # RoomOf[io.session]
    <3>1. users'[RoomOf[s]] = users[RoomOf[s]]
      BY <1>2, <2>1, <2>3, RoomAssumption DEF AcceptJoin, TypeOK
    <3> QED
      BY <3>1, <2>3 DEF Joined
  <2> QED
    BY <2>2, <2>3
<1> QED
  BY <1>1, <1>2, WhoChanges

-------------------------------------------------------------------------------
(* The way into a room *)

\* The handler that is running still has a session of the kind it works on.
LEMMA HandlerStep ==
  ASSUME TypeOK, Entry, TaskInv, [Next]_vars
  PROVE  HandlerInv'
<1> USE RoomAssumption DEF TypeOK, IoStates, clientVars, poolVars, roomVars, readVars,
     IoAt, IoGoto, IoReturn, HandlerInv, Joined, Entry
<1>1. ASSUME NEW s \in Sessions, Connect(s) PROVE HandlerInv'
  BY <1>1 DEF Connect
<1>2. ASSUME NEW s \in Sessions, NEW m \in Messages, Send(s, m) PROVE HandlerInv'
  BY <1>2 DEF Send
<1>3. ASSUME NEW s \in Sessions, Disconnect(s) PROVE HandlerInv'
  BY <1>3 DEF Disconnect
<1>4. ASSUME NEW r \in Rooms, AcceptFails(r) PROVE HandlerInv'
  BY <1>4 DEF AcceptFails
<1>5. ASSUME NEW r \in Rooms, AcceptConnection(r) PROVE HandlerInv'
  <2>1. 1 \in DOMAIN backlog[r] /\ Head(backlog[r]) = backlog[r][1]
    BY <1>5 DEF AcceptConnection
  <2>2. Head(backlog[r]) \in Sessions /\ ~Joined(Head(backlog[r]))
    BY <2>1 DEF EntryInv, BacklogInv
  <2> QED
    BY <1>5, <2>2 DEF AcceptConnection
<1>6. ASSUME NEW s \in Sessions, ReadHeader(s) PROVE HandlerInv'
  BY <1>6 DEF ReadHeader
<1>7. ASSUME NEW s \in Sessions, ReadBody(s) PROVE HandlerInv'
  <2>1. Joined(s)
    BY <1>7 DEF ReadBody, EntryInv, OutsideInv, Untouched
  <2> QED
    BY <1>7, <2>1 DEF ReadBody
<1>8. ASSUME NEW s \in Sessions, ReadBodyFails(s) PROVE HandlerInv'
  BY <1>8 DEF ReadBodyFails
<1>9. CASE AcceptLock
  BY <1>9 DEF AcceptLock
<1>10. CASE AcceptJoin
  BY <1>10 DEF AcceptJoin
<1>11. CASE PassTaskBroadcast
  BY <1>11 DEF PassTaskBroadcast
<1>12. CASE PassTaskNothing
  BY <1>12 DEF PassTaskNothing
<1>13. CASE BroadcastSend
  <2>1. io.next \in Nat /\ io.next + 1 > 0
    OBVIOUS
  <2>2. io'.next > 0 /\ io'.at = io.at /\ io'.session = io.session
    BY <1>13, <2>1 DEF BroadcastSend
  <2> QED
    BY <1>13, <2>2 DEF BroadcastSend
<1>14. CASE BroadcastEnd
  BY <1>14 DEF BroadcastEnd
<1>15. CASE Rearm
  BY <1>15 DEF Rearm
<1>16. ASSUME NEW w \in Workers, TakeTask(w) PROVE HandlerInv'
  BY <1>16 DEF TakeTask
<1>17. ASSUME NEW w \in Workers, ParseLock(w) PROVE HandlerInv'
  BY <1>17 DEF ParseLock
<1>18. ASSUME NEW w \in Workers, ParseDone(w) PROVE HandlerInv'
  BY <1>18 DEF ParseDone
<1>19. CASE UNCHANGED vars
  BY <1>19 DEF vars
<1> QED
  BY <1>1, <1>2, <1>3, <1>4, <1>5, <1>6, <1>7, <1>8, <1>9,
     <1>10, <1>11, <1>12, <1>13, <1>14, <1>15, <1>16, <1>17, <1>18, <1>19
  DEF Next, Client, IoHandler, Worker

\* A session outside users is still unread and was sent nothing.
LEMMA OutsideStep ==
  ASSUME TypeOK, Entry, TaskInv, [Next]_vars
  PROVE  OutsideInv'
<1> SUFFICES ASSUME NEW t \in Sessions, ~Joined(t)' PROVE Untouched(t)' /\ sent'[t] = <<>>
  BY DEF OutsideInv
<1>1. ~Joined(t) /\ Untouched(t) /\ sent[t] = <<>>
  BY JoinedStep DEF Entry, EntryInv, OutsideInv
<1>2. AcceptJoin => t # io.session
  BY JoinedStep DEF Entry
<1>3. Untouched(t)'
  <2>1. CASE UNCHANGED <<rd, need, data>>
    BY <2>1, <1>1 DEF Untouched
  <2>2. ASSUME NEW s \in Sessions, ReadHeader(s) \/ ReadBody(s) \/ ReadBodyFails(s) PROVE Untouched(t)'
    <3>1. s # t
      BY <2>2, <1>1 DEF Untouched, ReadHeader, ReadBody, ReadBodyFails
    <3> QED
      BY <2>2, <3>1, <1>1 DEF Untouched, ReadHeader, ReadBody, ReadBodyFails, TypeOK
  <2>3. CASE AcceptJoin
    BY <2>3, <1>1, <1>2 DEF AcceptJoin, Untouched, TypeOK
  <2>4. CASE Rearm
    <3>1. io.session # t
      BY <2>4, <1>1 DEF Rearm, IoAt, Entry, HandlerInv
    <3> QED
      BY <2>4, <3>1, <1>1 DEF Rearm, Untouched, TypeOK
  <2> QED
    BY <2>1, <2>2, <2>3, <2>4, WhoChanges
<1>4. sent'[t] = <<>>
  <2>1. CASE sent' = sent
    BY <2>1, <1>1
  <2>2. CASE BroadcastSend
    <3>1. BroadcastTo[io.next] # t
      <4>1. io.session \in Sessions /\ RoomOf[io.session] \in Rooms
        BY <2>2, RoomAssumption DEF BroadcastSend, IoAt, Entry, HandlerInv
      <4>2. RoomOf[BroadcastTo[io.next]] = RoomOf[io.session]
        BY <2>2, <4>1 DEF BroadcastSend, BroadcastTo, Entry, EntryInv, UsersInv
      <4> QED
        BY <2>2, <4>2, <1>1 DEF BroadcastSend, BroadcastTo, Joined
    <3> QED
      BY <2>2, <3>1, <1>1 DEF BroadcastSend, TypeOK
  <2> QED
    BY <2>1, <2>2, WhoChanges
<1> QED
  BY <1>3, <1>4

\* A client that has not connected has sent nothing and is nowhere in its room.
LEMMA UnconnectedStep ==
  ASSUME TypeOK, Entry, [Next]_vars
  PROVE  UnconnectedInv'
<1> SUFFICES ASSUME NEW t \in Sessions, peer'[t] = "none"
             PROVE  ~Joined(t)' /\ io'.session # t /\ program'[t] = <<>> /\ stream'[t] = <<>>
  BY DEF UnconnectedInv
<1>1. peer[t] = "none"
  <2>1. CASE peer' = peer
    BY <2>1
  <2>2. ASSUME NEW s \in Sessions, Connect(s) \/ Disconnect(s) PROVE peer[t] = "none"
    BY <2>2 DEF Connect, Disconnect, TypeOK
  <2> QED
    BY <2>1, <2>2, WhoChanges
<1>2. ~Joined(t) /\ io.session # t /\ program[t] = <<>> /\ stream[t] = <<>> /\ rd[t] = "none"
  BY <1>1 DEF Entry, EntryInv, UnconnectedInv, OutsideInv, Untouched
<1>3. ~Joined(t)'
  BY <1>2, JoinedStep DEF Entry
<1>4. io'.session # t
  <2>1. CASE io'.session = io.session
    BY <2>1, <1>2
  <2>2. CASE AcceptJoin \/ Rearm
    BY <2>2, RoomAssumption DEF AcceptJoin, Rearm, IoReturn
  <2>3. ASSUME NEW r \in Rooms, AcceptConnection(r) PROVE io'.session # t
    <3>1. 1 \in DOMAIN backlog[r] /\ Head(backlog[r]) = backlog[r][1]
      BY <2>3 DEF AcceptConnection, TypeOK
    <3>2. peer[Head(backlog[r])] # "none"
      BY <3>1 DEF Entry, EntryInv, BacklogInv
    <3> QED
      BY <2>3, <3>2, <1>1 DEF AcceptConnection
  <2>4. ASSUME NEW s \in Sessions, ReadBody(s) PROVE io'.session # t
    BY <2>4, <1>2 DEF ReadBody
  <2> QED
    BY <2>1, <2>2, <2>3, <2>4, SessionOfIo
<1>5. ASSUME NEW s \in Sessions, NEW m \in Messages, Send(s, m) PROVE s # t
  BY <1>1, <1>5 DEF Send
<1>6. program'[t] = <<>>
  <2>1. ASSUME NEW s \in Sessions, NEW m \in Messages, Send(s, m) PROVE program'[t] = <<>>
    BY <2>1, <1>2, <1>5 DEF Send, TypeOK
  <2> QED
    BY <2>1, <1>2, WhoChanges
<1>7. stream'[t] = <<>>
  <2>1. ASSUME NEW s \in Sessions, NEW m \in Messages, Send(s, m) PROVE stream'[t] = <<>>
    BY <2>1, <1>2, <1>5 DEF Send, TypeOK
  <2>2. ASSUME NEW s \in Sessions, Disconnect(s) \/ ReadHeader(s) \/ ReadBody(s)
        PROVE  stream'[t] = <<>>
    <3>1. s # t
      BY <2>2, <1>1, <1>2 DEF Disconnect, ReadHeader, ReadBody
    <3> QED
      BY <2>2, <3>1, <1>2 DEF Disconnect, ReadHeader, ReadBody, TypeOK
  <2> QED
    BY <2>1, <2>2, <1>2, WhoChanges
<1> QED
  BY <1>3, <1>4, <1>6, <1>7

\* The users of a room joined it.
LEMMA UsersStep ==
  ASSUME TypeOK, Entry, [Next]_vars
  PROVE  UsersInv'
<1>1. CASE users' = users
  BY <1>1 DEF Entry, EntryInv, UsersInv
<1>2. CASE AcceptJoin
  <2> DEFINE q == RoomOf[io.session]
             u == users[q]
  <2>1. io.session \in Sessions /\ q \in Rooms /\ ~Joined(io.session)
    BY <1>2, RoomAssumption DEF AcceptJoin, IoAt, Entry, HandlerInv
  <2>2. u \in Seq(Sessions) /\ users' = [users EXCEPT ![q] = Append(u, io.session)]
    BY <1>2, <2>1 DEF AcceptJoin, WithUser, TypeOK
  <2>3. /\ DOMAIN Append(u, io.session) = 1 .. Len(u) + 1
        /\ DOMAIN u = 1 .. Len(u)
        /\ Len(u) \in Nat
        /\ \A i \in 1 .. Len(u) : Append(u, io.session)[i] = u[i]
        /\ Append(u, io.session)[Len(u) + 1] = io.session
    BY <2>1, <2>2
  <2>4. \A i \in DOMAIN u : u[i] # io.session
    BY <2>1 DEF Joined
  <2>5. \A r \in Rooms : r # q => users'[r] = users[r]
    BY <2>2 DEF TypeOK
  <2>6. users'[q] = Append(u, io.session)
    BY <2>1, <2>2 DEF TypeOK
  <2>7. \A i \in DOMAIN u : RoomOf[u[i]] = q /\ \A j \in DOMAIN u : u[i] = u[j] => i = j
    BY <2>1 DEF Entry, EntryInv, UsersInv
  <2> HIDE DEF u
  <2>8. \A i \in 1 .. Len(u) + 1 : i \in 1 .. Len(u) \/ i = Len(u) + 1
    BY <2>3
  <2>9. ASSUME NEW i \in DOMAIN users'[q]
        PROVE  /\ RoomOf[users'[q][i]] = q
               /\ \A j \in DOMAIN users'[q] : users'[q][i] = users'[q][j] => i = j
    BY <2>3, <2>4, <2>6, <2>7, <2>8
  <2> HIDE DEF q
  <2> QED
    BY <2>5, <2>9 DEF Entry, EntryInv, UsersInv
<1> QED
  BY <1>1, <1>2, WhoChanges

\* The connections that wait for an accept are distinct and have no session.
LEMMA BacklogStep ==
  ASSUME TypeOK, Entry, [Next]_vars
  PROVE  BacklogInv'
<1> DEFINE Waits(r, i) ==
      /\ RoomOf[backlog[r][i]] = r
      /\ ~Joined(backlog[r][i]) /\ peer[backlog[r][i]] # "none"
      /\ io.session # backlog[r][i]
      /\ \A j \in DOMAIN backlog[r] : backlog[r][i] = backlog[r][j] => i = j
<1>1. ASSUME NEW t \in Sessions, ~Joined(t), peer[t] # "none", io.session # t
      PROVE  /\ ~Joined(t)' /\ peer'[t] # "none"
             /\ \/ io'.session # t
                \/ \E r \in Rooms : AcceptConnection(r) /\ t = Head(backlog[r])
  <2>1. ~Joined(t)'
    BY <1>1, JoinedStep DEF Entry
  <2>2. peer'[t] # "none"
    <3>1. ASSUME NEW s \in Sessions, Connect(s) \/ Disconnect(s) PROVE peer'[t] # "none"
      BY <3>1, <1>1 DEF Connect, Disconnect, TypeOK
    <3> QED
      BY <3>1, <1>1, WhoChanges
  <2>3. CASE AcceptJoin \/ Rearm
    BY <2>1, <2>2, <2>3, RoomAssumption DEF AcceptJoin, Rearm, IoReturn
  <2>4. ASSUME NEW s \in Sessions, ReadBody(s) PROVE io'.session # t
    BY <2>4, <1>1 DEF ReadBody, Entry, EntryInv, OutsideInv, Untouched
  <2>5. ASSUME NEW r \in Rooms, AcceptConnection(r) PROVE io'.session = Head(backlog[r])
    BY <2>5 DEF AcceptConnection
  <2> QED
    BY <2>1, <2>2, <2>3, <2>4, <2>5, <1>1, SessionOfIo
<1>2. ASSUME NEW r \in Rooms, NEW i \in DOMAIN backlog[r]
      PROVE  /\ backlog[r][i] \in Sessions /\ RoomOf[backlog[r][i]] = r
             /\ ~Joined(backlog[r][i]) /\ peer[backlog[r][i]] # "none"
             /\ io.session # backlog[r][i]
             /\ \A j \in DOMAIN backlog[r] : backlog[r][i] = backlog[r][j] => i = j
  BY <1>2 DEF Entry, EntryInv, BacklogInv, TypeOK
<1>3. CASE backlog' = backlog /\ \A r \in Rooms : ~AcceptConnection(r)
  BY <1>1, <1>2, <1>3 DEF BacklogInv
<1>4. ASSUME NEW s \in Sessions, Connect(s) PROVE BacklogInv'
  <2> DEFINE q == RoomOf[s]
             b == backlog[q]
  <2>1. q \in Rooms /\ b \in Seq(Sessions)
    BY RoomAssumption DEF TypeOK
  <2>2. backlog'[q] = Append(b, s) /\ \A r \in Rooms : r # q => backlog'[r] = backlog[r]
    BY <1>4, <2>1 DEF Connect, TypeOK
  <2>3. /\ DOMAIN Append(b, s) = 1 .. Len(b) + 1
        /\ DOMAIN b = 1 .. Len(b)
        /\ Len(b) \in Nat
        /\ \A i \in 1 .. Len(b) : Append(b, s)[i] = b[i]
        /\ Append(b, s)[Len(b) + 1] = s
    BY <2>1
  <2>4. ~Joined(s)' /\ peer'[s] # "none" /\ io' = io /\ io.session # s
    <3>1. peer[s] = "none" /\ io' = io /\ users' = users /\ peer'[s] = "open"
      BY <1>4 DEF Connect, roomVars, TypeOK
    <3> QED
      BY <3>1 DEF Entry, EntryInv, UnconnectedInv, Joined
  <2>5. \A r \in Rooms : \A i \in DOMAIN backlog[r] :
          /\ backlog[r][i] # s
          /\ ~Joined(backlog[r][i])' /\ peer'[backlog[r][i]] # "none"
    BY <1>1, <1>2, <1>4 DEF Connect
  <2>6. ASSUME NEW r \in Rooms, NEW i \in DOMAIN backlog'[r], r # q
        PROVE  Waits(r, i)'
    BY <1>2, <2>2, <2>4, <2>5, <2>6
  <2>7. ASSUME NEW i \in DOMAIN backlog'[q]
        PROVE  Waits(q, i)'
    <3> HIDE DEF b
    <3>1. \A j \in 1 .. Len(b) + 1 : j \in 1 .. Len(b) \/ j = Len(b) + 1
      BY <2>3
    <3>2. \A j \in DOMAIN backlog'[q] :
            \/ j \in DOMAIN b /\ backlog'[q][j] = b[j]
            \/ j = Len(b) + 1 /\ backlog'[q][j] = s
      BY <2>2, <2>3, <3>1
    <3> USE DEF b
    <3> QED
      BY <3>2, <1>2, <2>1, <2>4, <2>5
  <2> QED
    BY <2>6, <2>7 DEF BacklogInv
<1>5. ASSUME NEW q \in Rooms, AcceptConnection(q) PROVE BacklogInv'
  <2> DEFINE b == backlog[q]
  <2>1. b \in Seq(Sessions) /\ b # <<>> /\ backlog'[q] = Tail(b)
        /\ \A r \in Rooms : r # q => backlog'[r] = backlog[r]
    BY <1>5 DEF AcceptConnection, TypeOK
  <2>2. /\ DOMAIN Tail(b) = 1 .. Len(b) - 1
        /\ DOMAIN b = 1 .. Len(b)
        /\ Len(b) \in Nat /\ Len(b) > 0
        /\ \A i \in 1 .. Len(b) - 1 : Tail(b)[i] = b[i + 1]
        /\ Head(b) = b[1]
    BY <2>1
  <2>3. io'.session = b[1] /\ peer' = peer /\ users' = users
    BY <1>5, <2>2 DEF AcceptConnection
  <2>4. 1 \in DOMAIN b
    BY <2>2
  <2>5. ASSUME NEW r \in Rooms, NEW i \in DOMAIN backlog'[r], r # q
        PROVE  Waits(r, i)'
    <3>1. io'.session # backlog[r][i]
      BY <1>2, <2>1, <2>3, <2>4, <2>5
    <3> QED
      BY <3>1, <1>2, <2>1, <2>3, <2>5 DEF Joined
  <2>6. ASSUME NEW i \in DOMAIN backlog'[q]
        PROVE  Waits(q, i)'
    <3> HIDE DEF b
    <3>1. \A j \in DOMAIN backlog'[q] : j + 1 \in DOMAIN b /\ backlog'[q][j] = b[j + 1]
            /\ j \in Nat /\ j + 1 # 1
      BY <2>1, <2>2
    <3>2. \A j, k \in Nat : j + 1 = k + 1 => j = k
      OBVIOUS
    <3> USE DEF b
    <3>3. io'.session # backlog'[q][i]
      BY <1>2, <2>3, <2>4, <3>1
    <3> QED
      BY <3>1, <3>2, <3>3, <1>2, <2>3 DEF Joined
  <2> QED
    BY <2>5, <2>6 DEF BacklogInv
<1> QED
  BY <1>3, <1>4, <1>5, WhoChanges


-------------------------------------------------------------------------------
(* The stream *)

\* Nothing of a session's packets changes in a step that is not about them.
LEMMA StreamFrame ==
  ASSUME NEW t \in Sessions, StreamAt(t),
         peer'[t] = peer[t], program'[t] = program[t], stream'[t] = stream[t]
  PROVE  StreamAt(t)'
<1> SUFFICES ASSUME NEW i \in DOMAIN stream[t], stream[t][i][1] = "event" PROVE PacketAt(t, i)'
  BY DEF StreamAt
<1>1. PICK n, len : n = stream[t][i][2] /\ len = BodyLen[program[t][n]]
  OBVIOUS
<1>2. PacketOf(t, i, n, len)
  BY <1>1 DEF StreamAt, PacketAt
<1>3. PacketOf(t, i, n, len)'
  BY <1>2 DEF PacketOf
<1> QED
  BY <1>1, <1>3 DEF PacketAt

\* A step that leaves a connection and its reads alone keeps the framing of it.
LEMMA FramingFrame ==
  ASSUME Framing, NEW t \in Sessions,
         peer'[t] = peer[t], program'[t] = program[t], stream'[t] = stream[t],
         rd'[t] = rd[t], need'[t] = need[t], data'[t] = data[t],
         InStep(t)' => InStep(t)
  PROVE  StreamAt(t)' /\ HeadAt(t)'
<1>1. StreamAt(t) /\ HeadAt(t)
  BY DEF Framing
<1>2. StreamAt(t)'
  BY <1>1, StreamFrame
<1>3. Ahead(t)' = Ahead(t)
  BY DEF Ahead
<1>4. HeadAt(t)'
  BY <1>1, <1>3 DEF HeadAt
<1> QED
  BY <1>2, <1>4

\* What is left when the first k cells have been read still has its packets.
LEMMA StreamRest ==
  ASSUME TypeOK, NEW s \in Sessions, StreamAt(s), NEW k \in 0 .. Len(stream[s]),
         peer'[s] = peer[s], program'[s] = program[s],
         stream'[s] = SubSeq(stream[s], k + 1, Len(stream[s]))
  PROVE  /\ Len(stream'[s]) = Len(stream[s]) - k
         /\ DOMAIN stream'[s] = 1 .. Len(stream[s]) - k
         /\ \A i \in 1 .. Len(stream[s]) - k : stream'[s][i] = stream[s][i + k]
         /\ StreamAt(s)'
<1> DEFINE n == Len(stream[s])
<1>1. stream[s] \in Seq(Cells) /\ n \in Nat /\ DOMAIN stream[s] = 1 .. n /\ k \in 0 .. n
  BY DEF TypeOK
<1>2. /\ Len(stream'[s]) = n - k
      /\ DOMAIN stream'[s] = 1 .. n - k
      /\ \A i \in 1 .. n - k : stream'[s][i] = stream[s][i + k]
  BY <1>1, RestAt
<1> HIDE DEF n
<1>3. ASSUME NEW i \in DOMAIN stream'[s], stream'[s][i][1] = "event" PROVE PacketAt(s, i)'
  <2>1. i + k \in DOMAIN stream[s] /\ stream'[s][i] = stream[s][i + k]
    BY <1>1, <1>2
  <2>2. PacketAt(s, i + k)
    BY <1>3, <2>1 DEF StreamAt
  <2>3. PICK p : p = stream[s][i + k][2]
    OBVIOUS
  <2>4. PICK len : len = BodyLen[program[s][p]]
    OBVIOUS
  <2>5. PacketOf(s, i + k, p, len)
    BY <2>2, <2>3, <2>4 DEF PacketAt
  <2>6. p \in 1 .. Len(program[s]) /\ len \in Nat
    <3>1. p \in 1 .. Len(program[s])
      BY <2>5 DEF PacketOf
    <3>2. program[s][p] \in Messages
      BY <3>1 DEF TypeOK
    <3> QED
      BY <2>4, <3>1, <3>2, RoomAssumption
  <2>7. i \in Nat /\ i > 0 /\ k \in Nat /\ n \in Nat
    BY <1>1, <1>2
  <2>8. \A x \in DOMAIN stream'[s] :
          x \in Nat /\ x + k \in DOMAIN stream[s] /\ stream'[s][x] = stream[s][x + k]
    <3>1. \A x \in 1 .. n - k : x \in Nat /\ x + k \in 1 .. n
      BY <2>7
    <3> QED
      BY <1>1, <1>2, <3>1
  <2>9. /\ (i + 1) + k = (i + k) + 1
        /\ (i + 2 + len) + k = (i + k) + 2 + len
        /\ \A j \in 1 .. len : (i + 1 + j) + k = (i + k) + 1 + j
    BY <2>6, <2>7
  <2>10. i + 1 \in DOMAIN stream'[s] => stream'[s][i + 1] = <<"length", p>>
    BY <2>5, <2>8, <2>9 DEF PacketOf
  <2>11. ASSUME NEW j \in 1 .. len, i + 1 + j \in DOMAIN stream'[s]
         PROVE  stream'[s][i + 1 + j] = <<"body", p>>
    BY <2>5, <2>8, <2>9, <2>11 DEF PacketOf
  <2>12. i + 2 + len \in DOMAIN stream'[s] => stream'[s][i + 2 + len] = <<"event", p + 1>>
    BY <2>5, <2>8, <2>9 DEF PacketOf
  <2>13. peer'[s] = "open" =>
          /\ i + 1 + len <= Len(stream'[s])
          /\ i + 1 + len = Len(stream'[s]) => p = Len(program'[s])
    <3>1. peer[s] = "open" =>
            /\ i + k + 1 + len <= n
            /\ i + k + 1 + len = n => p = Len(program[s])
      BY <2>5 DEF PacketOf, n
    <3>2. /\ i + k + 1 + len <= n => i + 1 + len <= n - k
          /\ i + 1 + len = n - k => i + k + 1 + len = n
      BY <2>6, <2>7
    <3> QED
      BY <1>2, <3>1, <3>2
  <2>14. PacketOf(s, i, p, len)'
    BY <2>6, <2>10, <2>11, <2>12, <2>13 DEF PacketOf
  <2>15. stream'[s][i][2] = p /\ BodyLen[program'[s][p]] = len
    BY <2>1, <2>3, <2>4
  <2> QED
    BY <2>14, <2>15 DEF PacketAt, PacketOf
<1> QED
  BY <1>2, <1>3 DEF StreamAt, n

\* A disconnect cuts the stream short: what is left is still framed.
LEMMA FramingStepDisconnect ==
  ASSUME TypeOK, Framing, NEW s \in Sessions, Disconnect(s)
  PROVE  StreamAt(s)' /\ HeadAt(s)'
<1>1. PICK k \in 0 .. Len(stream[s]) : stream'[s] = SubSeq(stream[s], 1, k)
  BY DEF Disconnect, TypeOK
<1>2. /\ stream[s] \in Seq(Cells) /\ Len(stream[s]) \in Nat
      /\ DOMAIN stream[s] = 1 .. Len(stream[s])
  BY DEF TypeOK
<1>3. /\ DOMAIN stream'[s] = 1 .. k
      /\ \A i \in 1 .. k : i \in DOMAIN stream[s] /\ stream'[s][i] = stream[s][i]
  BY <1>1, <1>2, SubSeqProperties
<1>4. StreamAt(s) /\ HeadAt(s)
  BY DEF Framing
<1>5. peer'[s] = "closed" /\ program' = program
  BY DEF Disconnect, TypeOK
<1>6. ASSUME NEW i \in DOMAIN stream'[s], stream'[s][i][1] = "event" PROVE PacketAt(s, i)'
  <2>1. PICK n : n = stream[s][i][2]
    OBVIOUS
  <2>2. PICK len : len = BodyLen[program[s][n]]
    OBVIOUS
  <2>3. PacketOf(s, i, n, len)
    BY <1>3, <1>4, <1>6, <2>1, <2>2 DEF StreamAt, PacketAt
  <2>4. stream'[s][i] = stream[s][i]
    BY <1>3, <1>6
  <2>5. \A j \in DOMAIN stream'[s] : j \in DOMAIN stream[s] /\ stream'[s][j] = stream[s][j]
    BY <1>3
  <2>6. PacketOf(s, i, n, len)'
    BY <1>5, <2>3, <2>5 DEF PacketOf
  <2> QED
    BY <1>5, <2>1, <2>2, <2>4, <2>6 DEF PacketAt
<1>7. rd' = rd /\ need' = need /\ data' = data /\ io' = io
  BY DEF Disconnect
<1>8. Ahead(s)' = Ahead(s) /\ (InStep(s)' => InStep(s))
  BY <1>7 DEF Ahead, InStep, Untouched
<1>9. HeadAt(s)'
  BY <1>3, <1>4, <1>5, <1>7, <1>8 DEF HeadAt
<1> QED
  BY <1>6, <1>9 DEF StreamAt

\* A packet that is sent comes whole, behind what is there.
LEMMA FramingStepSend ==
  ASSUME TypeOK, Framing, NEW s \in Sessions, NEW m \in Messages, Send(s, m)
  PROVE  StreamAt(s)' /\ HeadAt(s)'
<1> DEFINE k == Len(stream[s])
           q == Len(program[s])
           new == Wire(q + 1, m)
<1>1. /\ stream[s] \in Seq(Cells) /\ k \in Nat /\ DOMAIN stream[s] = 1 .. k
      /\ program[s] \in Seq(Messages) /\ q \in Nat /\ q + 1 \in PacketIds
      /\ BodyLen[m] \in Nat
  BY RoomAssumption DEF TypeOK, Send, PacketIds
<1>2. /\ new \in Seq(Cells) /\ Len(new) = 2 + BodyLen[m]
      /\ new[1] = <<"event", q + 1>> /\ new[2] = <<"length", q + 1>>
      /\ \A j \in 1 .. BodyLen[m] : new[2 + j] = <<"body", q + 1>>
  BY <1>1, WireCells DEF HeaderLen
<1>3. stream'[s] = stream[s] \o new /\ program'[s] = Append(program[s], m)
  BY DEF Send, TypeOK
<1>4. peer[s] = "open" /\ peer' = peer /\ rd' = rd /\ need' = need /\ data' = data /\ io' = io
  BY DEF Send
<1> HIDE DEF new, k, q
<1>5. /\ Len(stream'[s]) = k + 2 + BodyLen[m]
      /\ DOMAIN stream'[s] = 1 .. k + 2 + BodyLen[m]
      /\ \A i \in 1 .. k : stream'[s][i] = stream[s][i]
      /\ \A i \in 1 .. 2 + BodyLen[m] : stream'[s][k + i] = new[i]
  <2>1. /\ Len(stream'[s]) = k + Len(new)
        /\ DOMAIN stream'[s] = 1 .. k + Len(new)
        /\ \A i \in 1 .. k : stream'[s][i] = stream[s][i]
        /\ \A i \in 1 .. Len(new) : stream'[s][k + i] = new[i]
    <3>1. stream[s] \in Seq(Cells) /\ new \in Seq(Cells) /\ k = Len(stream[s])
      BY <1>1, <1>2 DEF k
    <3>2. stream'[s] = stream[s] \o new
      BY <1>3
    <3> QED
      BY ONLY <3>1, <3>2, ConcatAt
  <2>2. k + (2 + BodyLen[m]) = k + 2 + BodyLen[m]
    BY <1>1, SMTT(30)
  <2> QED
    BY <1>2, <2>1, <2>2
<1>6. /\ program'[s] \in Seq(Messages) /\ Len(program'[s]) = q + 1
      /\ \A i \in 1 .. q : program'[s][i] = program[s][i]
      /\ program'[s][q + 1] = m
  BY <1>1, <1>3, AppendProperties DEF q
<1>7. /\ stream'[s][k + 1] = <<"event", q + 1>> /\ stream'[s][k + 2] = <<"length", q + 1>>
      /\ \A j \in 1 .. BodyLen[m] : stream'[s][k + 2 + j] = <<"body", q + 1>>
  <2>1. 1 \in 1 .. 2 + BodyLen[m] /\ 2 \in 1 .. 2 + BodyLen[m]
    BY <1>1
  <2>2. \A j \in 1 .. BodyLen[m] : 2 + j \in 1 .. 2 + BodyLen[m] /\ k + (2 + j) = k + 2 + j
    BY <1>1
  <2> QED
    BY <1>2, <1>5, <2>1, <2>2
<1>8. StreamAt(s) /\ HeadAt(s)
  BY DEF Framing
<1>9. ASSUME NEW i \in 1 .. k, stream'[s][i][1] = "event" PROVE PacketAt(s, i)'
  <2>1. PICK n : n = stream[s][i][2]
    OBVIOUS
  <2>2. PICK len : len = BodyLen[program[s][n]]
    OBVIOUS
  <2>3. PacketOf(s, i, n, len)
    BY <1>1, <1>5, <1>8, <1>9, <2>1, <2>2 DEF StreamAt, PacketAt
  <2>4. n \in 1 .. q
    BY <2>3 DEF PacketOf, q
  <2>5. program[s][n] \in Messages /\ len \in Nat
    BY <1>1, <2>2, <2>4, RoomAssumption DEF q
  <2>6. i + 1 + len <= k /\ (i + 1 + len = k => n = q)
    BY <1>4, <2>3 DEF PacketOf, k, q
  <2>7. i + 1 \in 1 .. k /\ \A j \in 1 .. len : i + 1 + j \in 1 .. k
    BY <1>1, <2>5, <2>6
  <2>8. stream'[s][i + 1] = <<"length", n>>
        /\ \A j \in 1 .. len : stream'[s][i + 1 + j] = <<"body", n>>
    BY <1>1, <1>5, <2>3, <2>7 DEF PacketOf
  <2>9. stream'[s][i + 2 + len] = <<"event", n + 1>>
    <3>1. CASE i + 1 + len = k
      <4>1. i + 2 + len = k + 1
        BY <1>1, <2>5, <3>1
      <4> QED
        BY <1>7, <2>6, <3>1, <4>1
    <3>2. CASE i + 1 + len < k
      <4>1. i + 2 + len \in 1 .. k
        BY <1>1, <2>5, <3>2
      <4> QED
        BY <1>1, <1>5, <2>3, <4>1 DEF PacketOf
    <3> QED
      BY <1>1, <2>5, <2>6, <3>1, <3>2
  <2>10. i + 1 + len < k + 2 + BodyLen[m] /\ n \in 1 .. q + 1
    BY <1>1, <2>4, <2>5, <2>6
  <2>11. PacketOf(s, i, n, len)'
    <3>1. i + 1 + len <= Len(stream'[s]) /\ i + 1 + len # Len(stream'[s])
      BY <1>1, <1>5, <2>5, <2>10
    <3> QED
      BY <1>6, <2>8, <2>9, <2>10, <3>1 DEF PacketOf
  <2>12. stream'[s][i][2] = n /\ BodyLen[program'[s][n]] = len
    BY <1>5, <1>6, <2>1, <2>2, <2>4
  <2> QED
    BY <2>11, <2>12 DEF PacketAt, PacketOf
<1>10. ASSUME NEW i \in 1 .. k + 2 + BodyLen[m], i \notin 1 .. k, stream'[s][i][1] = "event"
       PROVE  PacketAt(s, i)'
  <2>1. i = k + 1
    <3>1. i = k + 1 \/ i = k + 2 \/ i - (k + 2) \in 1 .. BodyLen[m]
      BY <1>1, <1>10
    <3>2. i # k + 2
      BY <1>7, <1>10
    <3>3. i - (k + 2) \notin 1 .. BodyLen[m]
      <4>1. k + 2 + (i - (k + 2)) = i
        BY <1>1
      <4> QED
        BY <1>7, <1>10, <4>1
    <3> QED
      BY <3>1, <3>2, <3>3
  <2>2. PICK n, len : n = q + 1 /\ len = BodyLen[m]
    OBVIOUS
  <2>3. /\ i + 1 = k + 2
        /\ \A x \in 1 .. len : i + 1 + x = k + 2 + x
        /\ i + 2 + len \notin 1 .. k + 2 + BodyLen[m]
        /\ i + 1 + len = k + 2 + BodyLen[m]
        /\ k + 2 + BodyLen[m] <= k + 2 + BodyLen[m]
        /\ n \in 1 .. q + 1
    BY <1>1, <2>1, <2>2
  <2>4. PacketOf(s, i, n, len)'
    <3>1. /\ stream'[s][i + 1] = <<"length", n>>
          /\ \A x \in 1 .. len : stream'[s][i + 1 + x] = <<"body", n>>
      BY <1>7, <2>2, <2>3
    <3>2. n \in 1 .. Len(program'[s]) /\ n = Len(program'[s])
      BY <1>6, <2>2, <2>3
    <3>3. i + 2 + len \notin DOMAIN stream'[s] /\ i + 1 + len <= Len(stream'[s])
      BY <1>5, <2>3
    <3> QED
      BY <3>1, <3>2, <3>3 DEF PacketOf
  <2>5. stream'[s][i][2] = n /\ BodyLen[program'[s][n]] = len
    BY <1>6, <1>7, <2>1, <2>2
  <2> QED
    BY <2>4, <2>5 DEF PacketAt, PacketOf
<1>11. StreamAt(s)'
  <2>1. \A i \in DOMAIN stream'[s] : i \in 1 .. k \/ (i \in 1 .. k + 2 + BodyLen[m] /\ i \notin 1 .. k)
    BY <1>5
  <2> QED
    BY <1>9, <1>10, <2>1 DEF StreamAt
<1>12. HeadAt(s)'
  <2>1. Ahead(s)' = Ahead(s) /\ (InStep(s)' => InStep(s)) /\ rd'[s] = rd[s] /\ need'[s] = need[s]
        /\ data'[s] = data[s] /\ peer'[s] = peer[s]
    BY <1>4 DEF Ahead, InStep, Untouched
  <2>2. PICK a : a = Ahead(s)
    OBVIOUS
  <2>3. a \in Nat
    BY <2>2 DEF Ahead, TypeOK
  <2>4. CASE InStep(s)
    <3>1. /\ \A j \in 1 .. a : j \in 1 .. k => stream[s][j] = <<"body", data[s].event>>
          /\ a + 1 \in 1 .. k => stream[s][a + 1] = <<"event", data[s].event + 1>>
          /\ a <= k /\ (a = k => data[s].event = q)
      BY <1>1, <1>4, <1>8, <2>2, <2>4 DEF HeadAt, k, q
    <3>2. \A j \in 1 .. a : j \in 1 .. k
      BY <1>1, <2>3, <3>1
    <3>3. \A j \in 1 .. a : stream'[s][j] = <<"body", data[s].event>>
      BY <1>5, <3>1, <3>2
    <3>4. stream'[s][a + 1] = <<"event", data[s].event + 1>>
      <4>1. a + 1 \in 1 .. k \/ a = k
        BY <1>1, <2>3, <3>1
      <4> QED
        BY <1>5, <1>7, <3>1, <4>1
    <3>5. a <= k + 2 + BodyLen[m] /\ a # k + 2 + BodyLen[m]
      BY <1>1, <2>3, <3>1
    <3>6. /\ \A j \in 1 .. Ahead(s)' : stream'[s][j] = <<"body", data'[s].event>>
          /\ stream'[s][Ahead(s)' + 1] = <<"event", data'[s].event + 1>>
          /\ Ahead(s)' <= Len(stream'[s]) /\ Ahead(s)' # Len(stream'[s])
      BY <1>5, <2>1, <2>2, <3>3, <3>4, <3>5
    <3> QED
      BY <1>8, <2>1, <3>6 DEF HeadAt
  <2>5. CASE ~InStep(s)
    BY <1>8, <2>1, <2>5 DEF HeadAt
  <2> QED
    BY <2>4, <2>5
<1> QED
  BY <1>11, <1>12

\* The header that is read announces the bytes of its own body.
LEMMA FramingStepReadHeader ==
  ASSUME TypeOK, Framing, NEW s \in Sessions, ReadHeader(s)
  PROVE  StreamAt(s)' /\ HeadAt(s)'
<1>1. /\ stream[s] \in Seq(Cells) /\ Len(stream[s]) \in Nat /\ DOMAIN stream[s] = 1 .. Len(stream[s])
      /\ HeaderCells(s) \in 0 .. Len(stream[s])
  BY DEF TypeOK, HeaderCells, HeaderLen
<1>2. /\ rd[s] = "header" /\ rd'[s] = "body" /\ peer' = peer /\ program' = program
      /\ data'[s] = ReceivedHeader(s) /\ need'[s] = ReceivedHeader(s).len
      /\ stream'[s] = SubSeq(stream[s], HeaderCells(s) + 1, Len(stream[s]))
      /\ Len(stream[s]) >= HeaderLen \/ peer[s] = "closed"
  BY DEF ReadHeader, BodyCells, clientVars, TypeOK
<1>3. StreamAt(s) /\ HeadAt(s)
  BY DEF Framing
<1>4. PICK k \in 0 .. Len(stream[s]) : k = HeaderCells(s)
  BY <1>1
<1>5. /\ Len(stream'[s]) = Len(stream[s]) - k
      /\ DOMAIN stream'[s] = 1 .. Len(stream[s]) - k
      /\ \A i \in 1 .. Len(stream[s]) - k : stream'[s][i] = stream[s][i + k]
      /\ StreamAt(s)'
  BY <1>2, <1>3, <1>4, StreamRest
<1>6. Ahead(s)' = ReceivedHeader(s).len
  BY <1>2 DEF Ahead
<1>7. CASE Len(stream[s]) < 2
  <2>1. k = Len(stream[s])
    BY <1>1, <1>4, <1>7 DEF HeaderCells, HeaderLen
  <2>2. DOMAIN stream'[s] = {} /\ peer'[s] # "open"
    <3>1. 1 .. Len(stream[s]) - k = {}
      BY <1>1, <2>1
    <3>2. ~(Len(stream[s]) >= HeaderLen)
      BY <1>1, <1>7 DEF HeaderLen
    <3> QED
      BY <1>2, <1>5, <3>1, <3>2
  <2> QED
    BY <1>2, <1>5, <2>2 DEF HeadAt
<1>8. CASE Len(stream[s]) >= 2
  <2>1. PICK n, len : n = data[s].event + 1 /\ len = BodyLen[program[s][n]]
    OBVIOUS
  <2>2. /\ ReceivedHeader(s).event = n /\ ReceivedHeader(s).len = len
        /\ n \in 1 .. Len(program[s])
    BY <1>1, <1>2, <1>8, <2>1, HeaderIsOfPacket, SMTT(30) DEF HeaderLen
  <2>3. len \in Nat
    <3>1. program[s][n] \in Messages
      BY <2>2 DEF TypeOK
    <3> QED
      BY <2>1, <3>1, RoomAssumption
  <2>4. stream[s][1] = <<"event", n>> /\ 1 \in DOMAIN stream[s]
    <3>1. Ahead(s) = 0 /\ InStep(s)
      BY <1>2 DEF Ahead, InStep
    <3> QED
      BY <1>1, <1>3, <1>8, <2>1, <3>1 DEF HeadAt
  <2>5. PacketOf(s, 1, n, len)
    BY <1>3, <2>1, <2>4 DEF StreamAt, PacketAt
  <2>6. k = 2
    BY <1>1, <1>4, <1>8 DEF HeaderCells, HeaderLen
  <2>7. \A i \in DOMAIN stream'[s] : i + 2 \in DOMAIN stream[s] /\ stream'[s][i] = stream[s][i + 2]
    <3>1. \A i \in 1 .. Len(stream[s]) - 2 : i + 2 \in 1 .. Len(stream[s])
      BY <1>1
    <3> QED
      BY <1>1, <1>5, <2>6, <3>1
  <2>8. \A j \in 1 .. len : j \in DOMAIN stream'[s] => stream'[s][j] = <<"body", n>>
    <3>1. \A j \in 1 .. len : j + 2 = 1 + 1 + j
      BY <2>3
    <3> QED
      BY <2>5, <2>7, <3>1 DEF PacketOf
  <2>9. len + 1 \in DOMAIN stream'[s] => stream'[s][len + 1] = <<"event", n + 1>>
    <3>1. (len + 1) + 2 = 1 + 2 + len
      BY <2>3
    <3> QED
      BY <2>5, <2>7, <3>1 DEF PacketOf
  <2>10. peer[s] = "open" =>
           /\ len <= Len(stream[s]) - 2
           /\ len = Len(stream[s]) - 2 => n = Len(program[s])
    <3>1. peer[s] = "open" =>
            /\ 1 + 1 + len <= Len(stream[s])
            /\ 1 + 1 + len = Len(stream[s]) => n = Len(program[s])
      BY <2>5 DEF PacketOf
    <3>2. /\ 1 + 1 + len <= Len(stream[s]) => len <= Len(stream[s]) - 2
          /\ len = Len(stream[s]) - 2 => 1 + 1 + len = Len(stream[s])
      BY <1>1, <2>3
    <3> QED
      BY <3>1, <3>2
  <2>11. Ahead(s)' = len /\ data'[s].event = n /\ need'[s] = data'[s].len
    BY <1>2, <1>6, <2>2
  <2>12. HeadAt(s)'
    BY <1>2, <1>5, <2>6, <2>8, <2>9, <2>10, <2>11 DEF HeadAt
  <2> QED
    BY <1>5, <2>12
<1> QED
  BY <1>1, <1>7, <1>8

\* Behind a body the next header begins.
LEMMA FramingStepReadBody ==
  ASSUME TypeOK, Framing, NEW s \in Sessions, ReadBody(s)
  PROVE  StreamAt(s)' /\ HeadAt(s)'
<1>1. /\ stream[s] \in Seq(Cells) /\ Len(stream[s]) \in Nat /\ DOMAIN stream[s] = 1 .. Len(stream[s])
      /\ need[s] \in Nat /\ need[s] <= Len(stream[s])
  BY DEF TypeOK, ReadBody
<1>2. /\ rd[s] = "body" /\ rd'[s] = "none" /\ peer' = peer /\ program' = program /\ data' = data
      /\ stream'[s] = SubSeq(stream[s], need[s] + 1, Len(stream[s]))
  BY DEF ReadBody, clientVars, TypeOK
<1>3. StreamAt(s) /\ HeadAt(s)
  BY DEF Framing
<1>4. PICK k \in 0 .. Len(stream[s]) : k = need[s]
  BY <1>1
<1>5. /\ Len(stream'[s]) = Len(stream[s]) - k
      /\ DOMAIN stream'[s] = 1 .. Len(stream[s]) - k
      /\ \A i \in 1 .. Len(stream[s]) - k : stream'[s][i] = stream[s][i + k]
      /\ StreamAt(s)'
  BY <1>2, <1>3, <1>4, StreamRest
<1>6. Ahead(s) = k /\ Ahead(s)' = 0 /\ InStep(s)
  BY <1>2, <1>4 DEF Ahead, InStep
<1>7. /\ k + 1 \in DOMAIN stream[s] => stream[s][k + 1] = <<"event", data[s].event + 1>>
      /\ peer[s] = "open" => (k = Len(stream[s]) => data[s].event = Len(program[s]))
  BY <1>3, <1>6 DEF HeadAt
<1>8. 0 + 1 \in DOMAIN stream'[s] => stream'[s][0 + 1] = <<"event", data[s].event + 1>>
  <2>1. 1 \in 1 .. Len(stream[s]) - k => k + 1 \in 1 .. Len(stream[s])
    BY <1>1
  <2>2. 0 + 1 = 1 /\ 1 + k = k + 1
    OBVIOUS
  <2> QED
    BY <1>1, <1>5, <1>7, <2>1, <2>2
<1>9. 0 <= Len(stream'[s]) /\ (0 = Len(stream'[s]) => k = Len(stream[s]))
  BY <1>1, <1>5
<1>10. \A j \in 1 .. 0 : FALSE
  OBVIOUS
<1>11. HeadAt(s)'
  BY <1>2, <1>6, <1>7, <1>8, <1>9, <1>10 DEF HeadAt
<1> QED
  BY <1>5, <1>11

\* Every step keeps the framing of every connection.
LEMMA FramingStep ==
  ASSUME TypeOK, Entry, Framing, [Next]_vars
  PROVE  Framing'
<1> SUFFICES ASSUME NEW t \in Sessions PROVE StreamAt(t)' /\ HeadAt(t)'
  BY DEF Framing
<1> USE DEF clientVars, poolVars, roomVars, readVars
<1>1. StreamAt(t) /\ HeadAt(t)
  BY DEF Framing
<1>2. ASSUME NEW s \in Sessions, Connect(s) PROVE StreamAt(t)' /\ HeadAt(t)'
  <2>1. CASE s # t
    <3>1. peer'[t] = peer[t]
      BY <1>2, <2>1 DEF Connect, TypeOK
    <3> QED
      BY <1>2, <3>1, FramingFrame DEF Connect, InStep, Untouched
  <2>2. CASE s = t
    <3>1. stream[t] = <<>> /\ program[t] = <<>> /\ rd[t] = "none" /\ Untouched(t)
      BY <1>2, <2>2 DEF Connect, Entry, EntryInv, UnconnectedInv, OutsideInv, Untouched
    <3>2. /\ stream'[t] = <<>> /\ program'[t] = <<>> /\ rd'[t] = "none" /\ data'[t].event = Unwritten
      BY <1>2, <3>1 DEF Connect, Untouched
    <3>3. Ahead(t)' = 0 /\ \A j \in 1 .. 0 : FALSE
      BY <3>2 DEF Ahead
    <3>4. DOMAIN stream'[t] = {} /\ Len(stream'[t]) = 0 /\ Len(program'[t]) = 0
      BY <3>2
    <3> QED
      BY <3>2, <3>3, <3>4 DEF StreamAt, HeadAt, Unwritten
  <2> QED
    BY <2>1, <2>2
<1>3. ASSUME NEW s \in Sessions, NEW m \in Messages, Send(s, m) PROVE StreamAt(t)' /\ HeadAt(t)'
  <2>1. CASE s # t
    <3>1. stream'[t] = stream[t] /\ program'[t] = program[t]
      BY <1>3, <2>1 DEF Send, TypeOK
    <3> QED
      BY <1>3, <3>1, FramingFrame DEF Send, InStep, Untouched
  <2> QED
    BY <1>3, <2>1, FramingStepSend
<1>4. ASSUME NEW s \in Sessions, Disconnect(s) PROVE StreamAt(t)' /\ HeadAt(t)'
  <2>1. CASE s # t
    <3>1. stream'[t] = stream[t] /\ peer'[t] = peer[t]
      BY <1>4, <2>1 DEF Disconnect, TypeOK
    <3> QED
      BY <1>4, <3>1, FramingFrame DEF Disconnect, InStep, Untouched
  <2> QED
    BY <1>4, <2>1, FramingStepDisconnect
<1>5. ASSUME NEW s \in Sessions, ReadHeader(s) PROVE StreamAt(t)' /\ HeadAt(t)'
  <2>1. CASE s # t
    <3>1. stream'[t] = stream[t] /\ data'[t] = data[t] /\ need'[t] = need[t] /\ rd'[t] = rd[t]
      BY <1>5, <2>1 DEF ReadHeader, TypeOK
    <3> QED
      BY <1>5, <3>1, FramingFrame DEF ReadHeader, InStep, Untouched
  <2> QED
    BY <1>5, <2>1, FramingStepReadHeader
<1>6. ASSUME NEW s \in Sessions, ReadBody(s) PROVE StreamAt(t)' /\ HeadAt(t)'
  <2>1. CASE s # t
    <3>1. stream'[t] = stream[t] /\ rd'[t] = rd[t] /\ io'.session # t
      BY <1>6, <2>1 DEF ReadBody, TypeOK
    <3> QED
      BY <1>6, <3>1, FramingFrame DEF ReadBody, InStep, Untouched
  <2> QED
    BY <1>6, <2>1, FramingStepReadBody
<1>7. ASSUME NEW s \in Sessions, ReadBodyFails(s) PROVE StreamAt(t)' /\ HeadAt(t)'
  <2>1. CASE s # t
    <3>1. rd'[t] = rd[t]
      BY <1>7, <2>1 DEF ReadBodyFails, TypeOK
    <3> QED
      BY <1>7, <3>1, FramingFrame DEF ReadBodyFails, InStep, Untouched
  <2>2. CASE s = t
    <3>1. rd'[t] = "none" /\ io'.session = None /\ need'[t] # 0
      <4>1. Len(stream[t]) \in Nat /\ need[t] \in Nat /\ Len(stream[t]) < need[t]
        BY <1>7, <2>2 DEF ReadBodyFails, TypeOK
      <4>2. need[t] # 0
        BY <4>1
      <4> QED
        BY <1>7, <2>2, <4>2 DEF ReadBodyFails, TypeOK, IoAt, Entry, HandlerInv
    <3>2. ~InStep(t)'
      BY <3>1, RoomAssumption DEF InStep, Untouched
    <3>3. StreamAt(t)'
      BY <1>1, <1>7, StreamFrame DEF ReadBodyFails
    <3> QED
      BY <3>1, <3>2, <3>3 DEF HeadAt
  <2> QED
    BY <2>1, <2>2
<1>8. CASE AcceptJoin
  <2>1. CASE t # io.session
    <3>1. rd'[t] = rd[t]
      BY <1>8, <2>1 DEF AcceptJoin, TypeOK
    <3> QED
      BY <1>8, <3>1, FramingFrame, RoomAssumption DEF AcceptJoin, IoReturn, InStep, Untouched
  <2>2. CASE t = io.session
    <3>1. rd[t] = "none" /\ rd'[t] = "header" /\ InStep(t)
      BY <1>8, <2>2 DEF AcceptJoin, TypeOK, IoAt, Entry, EntryInv, HandlerInv, OutsideInv, Untouched, InStep
    <3>2. peer' = peer /\ program' = program /\ stream' = stream /\ data' = data
      BY <1>8 DEF AcceptJoin
    <3>3. Ahead(t) = 0 /\ Ahead(t)' = 0
      BY <3>1 DEF Ahead
    <3>4. StreamAt(t)'
      BY <1>1, <3>2, StreamFrame
    <3> QED
      BY <1>1, <3>1, <3>2, <3>3, <3>4 DEF HeadAt
  <2> QED
    BY <2>1, <2>2
<1>9. CASE Rearm
  <2>1. CASE t # io.session
    <3>1. rd'[t] = rd[t]
      BY <1>9, <2>1 DEF Rearm, TypeOK
    <3> QED
      BY <1>9, <3>1, FramingFrame, RoomAssumption DEF Rearm, IoReturn, InStep, Untouched
  <2>2. CASE t = io.session
    <3>1. rd[t] = "none" /\ rd'[t] = "header" /\ InStep(t)
      BY <1>9, <2>2 DEF Rearm, TypeOK, IoAt, Entry, EntryInv, HandlerInv, OutsideInv, Untouched, InStep
    <3>2. peer' = peer /\ program' = program /\ stream' = stream /\ data' = data
      BY <1>9 DEF Rearm
    <3>3. Ahead(t) = 0 /\ Ahead(t)' = 0
      BY <3>1 DEF Ahead
    <3>4. StreamAt(t)'
      BY <1>1, <3>2, StreamFrame
    <3> QED
      BY <1>1, <3>1, <3>2, <3>3, <3>4 DEF HeadAt
  <2> QED
    BY <2>1, <2>2
<1>10. ASSUME NEW r \in Rooms, AcceptConnection(r) PROVE StreamAt(t)' /\ HeadAt(t)'
  <2>1. CASE t # Head(backlog[r])
    BY <1>10, <2>1, FramingFrame DEF AcceptConnection, InStep, Untouched
  <2>2. CASE t = Head(backlog[r])
    <3>1. 1 \in DOMAIN backlog[r] /\ Head(backlog[r]) = backlog[r][1]
      BY <1>10 DEF AcceptConnection, TypeOK
    <3>2. Untouched(t)
      BY <2>2, <3>1 DEF Entry, EntryInv, BacklogInv, OutsideInv
    <3> QED
      BY <1>10, <3>2, FramingFrame DEF AcceptConnection, InStep
  <2> QED
    BY <2>1, <2>2
<1>11. CASE UNCHANGED <<peer, program, readVars>> /\ io'.session = io.session
  BY <1>11, FramingFrame DEF InStep, Untouched
<1> QED
  BY <1>2, <1>3, <1>4, <1>5, <1>6, <1>7, <1>8, <1>9, <1>10, <1>11, WhoChanges, SessionOfIo

-------------------------------------------------------------------------------
(* The task *)

\* While the io thread waits for no task there is none, queued or run.
LEMMA NoTaskUnlessAwaited ==
  ASSUME TaskInv, io.at # "wait" \/ future # NoOutcome
  PROVE  queue = <<>> /\ \A w \in Workers : worker[w].at = "idle"
  BY DEF TaskInv, QueueInv, WorkerInv, InFlight

\* What is read as a body is the body that belongs to the header, and unanswered.
LEMMA BodyReadIsInFlight ==
  ASSUME TypeOK, Framing, TaskInv, LogInv, NEW s \in Sessions, ReadBody(s)
  PROVE  /\ Len(queue') = 1 /\ InFlight(queue[1])'
         /\ queue'[1] = [session |-> s, event |-> data[s].event, len |-> data[s].len,
                         body |-> Body(data[s].event, data[s].len)]
<1> DEFINE body == SubSeq(stream[s], 1, need[s])
<1>1. PICK p : p = [session |-> s, event |-> data[s].event, len |-> data[s].len, body |-> body]
  OBVIOUS
<1>2. queue = <<>>
  BY NoTaskUnlessAwaited DEF ReadBody, IoAt
<1>3. queue' = Append(queue, p)
  BY <1>1 DEF ReadBody
<1>4. Len(queue') = 1 /\ queue'[1] = p
  BY <1>2, <1>3
<1>5. /\ io'.at = "wait" /\ io'.session = s /\ future' = future /\ future = NoOutcome
      /\ data' = data /\ log' = log
  BY DEF ReadBody, IoAt, TaskInv, FutureInv
<1>6. /\ stream[s] \in Seq(Cells) /\ Len(stream[s]) \in Nat /\ DOMAIN stream[s] = 1 .. Len(stream[s])
      /\ need[s] \in Nat /\ need[s] <= Len(stream[s]) /\ rd[s] = "body"
  BY DEF TypeOK, ReadBody
<1>7. Ahead(s) = need[s] /\ need[s] = data[s].len
      /\ \A j \in 1 .. need[s] : stream[s][j] = <<"body", data[s].event>>
  <2>1. HeadAt(s) /\ Ahead(s) = need[s] /\ InStep(s)
    BY <1>6 DEF Framing, Ahead, InStep
  <2>2. \A j \in 1 .. need[s] : j \in DOMAIN stream[s]
    BY <1>6
  <2> QED
    BY <1>6, <2>1, <2>2 DEF HeadAt
<1>8. body = Body(data[s].event, need[s])
  <2>1. /\ body \in Seq(Cells) /\ Len(body) = need[s]
        /\ \A j \in 1 .. need[s] : body[j] = stream[s][j]
    BY <1>6, SubSeqProperties
  <2>2. body = [j \in 1 .. need[s] |-> body[j]]
    BY <2>1
  <2> HIDE DEF body
  <2> QED
    BY <1>7, <2>1, <2>2 DEF Body
<1>9. ASSUME body # <<>> PROVE body[1] = <<"body", data[s].event>> /\ Unanswered(s)
  <2>1. need[s] # 0
    <3>1. need[s] = 0 => Body(data[s].event, need[s]) = <<>>
      BY DEF Body
    <3> QED
      BY <1>8, <1>9, <3>1
  <2>2. 1 \in 1 .. need[s] /\ stream[s] # <<>>
    BY <1>6, <2>1
  <2>3. Body(data[s].event, need[s])[1] = <<"body", data[s].event>>
    BY <2>2 DEF Body
  <2> HIDE DEF body
  <2> QED
    BY <1>6, <1>8, <2>2, <2>3 DEF LogInv, AwaitedInv
<1> HIDE DEF body
<1>10. Unanswered(s)' <=> Unanswered(s)
  BY <1>5 DEF Unanswered
<1>11. InFlight(p)'
  BY <1>1, <1>5, <1>7, <1>8, <1>9, <1>10 DEF InFlight
<1> QED
  BY <1>1, <1>4, <1>7, <1>8, <1>11 DEF InFlight

\* Queue, workers and futures still account for every task once.
LEMMA TaskStep ==
  ASSUME TypeOK, Entry, Framing, TaskInv, LogInv, [Next]_vars
  PROVE  TaskInv'
<1> USE DEF clientVars, poolVars, roomVars, readVars, IoAt, IoGoto, IoReturn
<1>1. ASSUME UNCHANGED <<io, data, log>>, NEW t \in Sessions PROVE Unanswered(t)' <=> Unanswered(t)
  BY <1>1 DEF Unanswered
<1>2. ASSUME UNCHANGED <<io, data, log, future>>, NEW p PROVE InFlight(p) => InFlight(p)'
  BY <1>2 DEF InFlight, Unanswered
<1>3. ASSUME UNCHANGED <<io, data, log, future>> PROVE FutureInv'
  BY <1>3 DEF TaskInv, FutureInv, Unanswered
<1>4. CASE UNCHANGED <<io, data, log, poolVars>>
  <2>1. QueueInv'
    BY <1>2, <1>4 DEF TaskInv, QueueInv
  <2>2. WorkerInv'
    BY <1>2, <1>4 DEF TaskInv, WorkerInv
  <2> QED
    BY <1>3, <1>4, <2>1, <2>2 DEF TaskInv
<1>5. ASSUME UNCHANGED <<queue, worker>>, io.at # "wait" \/ future # NoOutcome
      PROVE  QueueInv' /\ WorkerInv'
  BY <1>5, NoTaskUnlessAwaited DEF QueueInv, WorkerInv
<1>6. ASSUME NEW r \in Rooms, AcceptConnection(r) PROVE TaskInv'
  <2>1. FutureInv'
    BY <1>6 DEF AcceptConnection, TaskInv, FutureInv
  <2> QED
    BY <1>5, <1>6, <2>1 DEF AcceptConnection, TaskInv
<1>7. ASSUME NEW s \in Sessions, ReadHeader(s) PROVE TaskInv'
  <2>1. FutureInv'
    BY <1>7 DEF ReadHeader, TaskInv, FutureInv
  <2> QED
    BY <1>5, <1>7, <2>1 DEF ReadHeader, TaskInv
<1>8. ASSUME NEW s \in Sessions, ReadBody(s) PROVE TaskInv'
  <2>1. FutureInv'
    BY <1>8 DEF ReadBody, TaskInv, FutureInv, NoOutcome
  <2>2. \A w \in Workers : worker'[w].at = "idle"
    BY <1>8, NoTaskUnlessAwaited DEF ReadBody
  <2>3. QueueInv' /\ WorkerInv'
    BY <1>8, <2>2, BodyReadIsInFlight DEF QueueInv, WorkerInv
  <2> QED
    BY <2>1, <2>3 DEF TaskInv
<1>9. CASE AcceptLock
  <2>1. FutureInv'
    BY <1>9 DEF AcceptLock, TaskInv, FutureInv, TypeOK, IoStates
  <2> QED
    BY <1>5, <1>9, <2>1 DEF AcceptLock, TaskInv
<1>10. CASE AcceptJoin
  <2>1. FutureInv'
    BY <1>10 DEF AcceptJoin, TaskInv, FutureInv
  <2> QED
    BY <1>5, <1>10, <2>1 DEF AcceptJoin, TaskInv
<1>11. CASE PassTaskBroadcast
  <2>1. FutureInv'
    BY <1>11 DEF PassTaskBroadcast, TaskInv, FutureInv, TypeOK, IoStates
  <2> QED
    BY <1>5, <1>11, <2>1 DEF PassTaskBroadcast, TaskInv, NoOutcome
<1>12. CASE PassTaskNothing \/ BroadcastEnd
  <2>1. FutureInv'
    BY <1>12 DEF PassTaskNothing, BroadcastEnd, FutureInv, TypeOK, IoStates
  <2> QED
    BY <1>5, <1>12, <2>1 DEF PassTaskNothing, BroadcastEnd, NothingToBroadcast, TaskInv, NoOutcome
<1>13. CASE BroadcastSend
  <2>1. io'.at = "broadcast"
    BY <1>13 DEF BroadcastSend, TypeOK, IoStates
  <2>2. FutureInv'
    BY <1>13, <2>1 DEF BroadcastSend, TaskInv, FutureInv
  <2> QED
    BY <1>5, <1>13, <2>2 DEF BroadcastSend, TaskInv
<1>14. CASE Rearm
  <2>1. FutureInv'
    BY <1>14 DEF Rearm, TaskInv, FutureInv
  <2> QED
    BY <1>5, <1>14, <2>1 DEF Rearm, TaskInv
<1>15. ASSUME NEW w \in Workers, TakeTask(w) PROVE TaskInv'
  <2>1. PICK p \in Packets : p = queue[1]
    BY <1>15 DEF TakeTask, TypeOK, TaskInv, QueueInv
  <2>2. InFlight(p) /\ Len(queue) = 1 /\ \A v \in Workers : worker[v].at = "idle"
    BY <1>15, <2>1 DEF TakeTask, TaskInv, QueueInv
  <2>3. queue' = <<>> /\ Head(queue) = p
    <3>1. queue \in Seq(Packets)
      BY DEF TypeOK
    <3> QED
      BY <1>15, <2>1, <2>2, <3>1, SequenceOfOne DEF TakeTask
  <2>4. InFlight(p)'
    BY <1>2, <1>15, <2>2 DEF TakeTask
  <2>5. worker' = [worker EXCEPT ![w] = [at |-> "lock", packet |-> p]]
    BY <1>15, <2>3 DEF TakeTask
  <2>6. WorkerInv'
    BY <2>2, <2>4, <2>5 DEF WorkerInv, TypeOK
  <2> QED
    BY <1>3, <1>15, <2>3, <2>6 DEF TaskInv, QueueInv, TakeTask
<1>16. ASSUME NEW w \in Workers, ParseLock(w) PROVE TaskInv'
  <2>1. queue = <<>> /\ queue' = queue
    BY <1>16 DEF ParseLock, TaskInv, QueueInv
  <2>2. PICK p \in Packets : p = worker[w].packet
    BY <1>16 DEF ParseLock, TaskInv, WorkerInv
  <2>3. InFlight(p) /\ \A v \in Workers : v # w => worker[v].at = "idle"
    BY <1>16, <2>2 DEF ParseLock, TaskInv, WorkerInv
  <2>4. InFlight(p)'
    BY <1>2, <1>16, <2>3 DEF ParseLock
  <2>5. worker'[w].packet = p /\ \A v \in Workers : v # w => worker'[v].at = "idle"
    BY <1>16, <2>2, <2>3 DEF ParseLock, TypeOK
  <2>6. WorkerInv'
    BY <2>4, <2>5 DEF WorkerInv
  <2> QED
    BY <1>3, <1>16, <2>1, <2>6 DEF TaskInv, QueueInv, ParseLock
<1>17. ASSUME NEW w \in Workers, ParseDone(w) PROVE TaskInv'
  <2>1. queue = <<>> /\ queue' = queue
    BY <1>17 DEF ParseDone, TaskInv, QueueInv
  <2>2. PICK p \in Packets : p = worker[w].packet
    BY <1>17 DEF ParseDone, TaskInv, WorkerInv
  <2>3. InFlight(p) /\ \A v \in Workers : v # w => worker[v].at = "idle"
    BY <1>17, <2>2 DEF ParseDone, TaskInv, WorkerInv
  <2>4. \A v \in Workers : worker'[v].at = "idle"
    BY <1>17, <2>3 DEF ParseDone, TypeOK
  <2>5. future' \in ParseResults(p) /\ UNCHANGED <<io, data, log>>
    BY <1>17, <2>2 DEF ParseDone
  <2>6. future'.kind = "packet" => p.body # <<>> /\ future'.reply = <<p.session, p.body[1][2]>>
    BY <2>5, ResultsAreOutcomes
  <2>7. ASSUME future'.kind = "packet"
        PROVE  future'.reply = <<io.session, data[io.session].event>> /\ Unanswered(io.session)
    BY <2>3, <2>6, <2>7 DEF InFlight
  <2>8. FutureInv'
    BY <2>3, <2>5, <2>7 DEF FutureInv, InFlight, Unanswered
  <2> QED
    BY <2>1, <2>4, <2>8 DEF TaskInv, QueueInv, WorkerInv
<1>18. ASSUME NEW s \in Sessions, Client(s) \/ ReadBodyFails(s) PROVE TaskInv'
  BY <1>4, <1>18 DEF Client, Connect, Send, Disconnect, ReadBodyFails
<1>19. ASSUME NEW r \in Rooms, AcceptFails(r) PROVE TaskInv'
  BY <1>4, <1>19 DEF AcceptFails
<1>20. CASE UNCHANGED vars
  BY <1>4, <1>20 DEF vars
<1> HIDE DEF clientVars, poolVars, roomVars, readVars, IoAt, IoGoto, IoReturn
<1> QED
  BY <1>6, <1>7, <1>8, <1>9, <1>10, <1>11, <1>12, <1>13, <1>14, <1>15, <1>16, <1>17, <1>18, <1>19,
     <1>20 DEF Next, IoHandler, Worker

-------------------------------------------------------------------------------
(* The logs and the mutexes *)

\* A log still has replies to packets whose headers were read, and to no later one.
LEMMA LoggedStep ==
  ASSUME TypeOK, Entry, Framing, TaskInv, LogInv, [Next]_vars
  PROVE  LoggedInv'
<1> USE DEF clientVars, poolVars, roomVars, readVars, IoAt
<1>1. ASSUME NEW r \in Rooms, NEW i \in DOMAIN log[r]
      PROVE  /\ log[r][i][1] \in Sessions /\ log[r][i][2] \in Nat
             /\ RoomOf[log[r][i][1]] = r /\ log[r][i][2] <= data[log[r][i][1]].event
  <2>1. log[r][i] \in Replies
    BY <1>1 DEF TypeOK
  <2> QED
    BY <1>1, <2>1 DEF Replies, PacketIds, LogInv, LoggedInv
<1>2. \A s \in Sessions : data[s].event \in Nat
  BY DEF TypeOK, Unwritten, PacketIds
<1>3. CASE log' = log /\ data' = data
  BY <1>3 DEF LogInv, LoggedInv
<1>4. ASSUME NEW s \in Sessions, ReadHeader(s) PROVE LoggedInv'
  <2>1. data[s].event <= data'[s].event /\ data'[s].event \in Nat
    <3>1. data'[s] = ReceivedHeader(s)
      BY <1>4 DEF ReadHeader, TypeOK
    <3>2. data'[s].event = data[s].event + 1 \/ data'[s] = data[s]
      BY <1>4, <3>1, HeaderIsOfPacket DEF ReadHeader
    <3> QED
      BY <1>2, <3>2
  <2>2. \A t \in Sessions : t # s => data'[t] = data[t]
    BY <1>4 DEF ReadHeader, TypeOK
  <2>3. \A t \in Sessions : \A n \in Nat : n <= data[t].event => n <= data'[t].event
    BY <1>2, <2>1, <2>2
  <2>4. log' = log
    BY <1>4 DEF ReadHeader
  <2> QED
    BY <1>1, <2>3, <2>4 DEF LoggedInv
<1>5. CASE PassTaskBroadcast
  <2> DEFINE q == RoomOf[io.session]
  <2>1. io.session \in Sessions /\ q \in Rooms
    BY <1>5, RoomAssumption DEF PassTaskBroadcast, Entry, HandlerInv
  <2>2. future.reply = <<io.session, data[io.session].event>>
    BY <1>5 DEF PassTaskBroadcast, TaskInv, FutureInv
  <2>3. log[q] \in Seq(Replies) /\ log'[q] = Append(log[q], future.reply)
        /\ \A r \in Rooms : r # q => log'[r] = log[r]
    BY <1>5, <2>1 DEF PassTaskBroadcast, TypeOK
  <2>4. data' = data
    BY <1>5 DEF PassTaskBroadcast
  <2>5. \A i \in DOMAIN log'[q] : (i \in DOMAIN log[q] /\ log'[q][i] = log[q][i])
                                   \/ log'[q][i] = future.reply
    BY <2>3
  <2>6. future.reply[1] = io.session /\ future.reply[2] <= data[io.session].event
    BY <1>2, <2>1, <2>2
  <2>7. \A i \in DOMAIN log'[q] :
          RoomOf[log'[q][i][1]] = q /\ log'[q][i][2] <= data[log'[q][i][1]].event
    BY <1>1, <2>1, <2>5, <2>6
  <2> HIDE DEF q
  <2> QED
    BY <1>1, <2>3, <2>4, <2>7 DEF LoggedInv
<1> QED
  <2>1. log' # log => PassTaskBroadcast
    BY WhoChanges
  <2>2. data' = data \/ \E s \in Sessions : ReadHeader(s)
    <3>1. ASSUME NEW s \in Sessions, ReadBody(s) \/ ReadBodyFails(s) PROVE data' = data
      BY <3>1 DEF ReadBody, ReadBodyFails
    <3>2. CASE AcceptJoin \/ Rearm
      BY <3>2 DEF AcceptJoin, Rearm
    <3> QED
      BY <3>1, <3>2, WhoChanges
  <2> QED
    BY <1>3, <1>4, <1>5, <2>1, <2>2

\* A packet whose body is awaited has still no reply in the log.
LEMMA AwaitedStep ==
  ASSUME TypeOK, Entry, Framing, TaskInv, LogInv, [Next]_vars
  PROVE  AwaitedInv'
<1> USE DEF clientVars, poolVars, roomVars, readVars, IoAt
<1> SUFFICES ASSUME NEW s \in Sessions, rd'[s] = "body", peer'[s] = "open" \/ stream'[s] # <<>>
             PROVE  Unanswered(s)'
  BY DEF AwaitedInv
<1>1. CASE ReadHeader(s)
  <2>1. stream[s] \in Seq(Cells) /\ stream[s] # <<>>
    <3>1. Len(stream[s]) >= HeaderLen => stream[s] # <<>>
      BY DEF HeaderLen, TypeOK
    <3>2. stream[s] = <<>> => stream'[s] = <<>>
      <4>1. stream[s] = <<>> => HeaderCells(s) + 1 > Len(stream[s])
        BY DEF HeaderCells, HeaderLen
      <4> QED
        BY <1>1, <4>1 DEF ReadHeader, TypeOK, HeaderCells, HeaderLen
    <3>3. peer' = peer
      BY <1>1 DEF ReadHeader
    <3> QED
      BY <1>1, <3>1, <3>2, <3>3 DEF ReadHeader, TypeOK
  <2>2. data'[s].event = data[s].event + 1
    BY <1>1, <2>1, HeaderIsOfPacket DEF ReadHeader, TypeOK
  <2>3. \A i \in DOMAIN log[RoomOf[s]] :
          log[RoomOf[s]][i][1] = s => log[RoomOf[s]][i][2] < data'[s].event
    <3>1. data[s].event \in Nat /\ RoomOf[s] \in Rooms
      BY RoomAssumption DEF TypeOK, Unwritten, PacketIds
    <3>2. ASSUME NEW i \in DOMAIN log[RoomOf[s]], log[RoomOf[s]][i][1] = s
          PROVE  log[RoomOf[s]][i][2] < data'[s].event
      <4>1. log[RoomOf[s]][i] \in Replies
        BY <3>1 DEF TypeOK
      <4>2. log[RoomOf[s]][i][2] \in Nat
        BY <4>1 DEF Replies, PacketIds
      <4>3. log[RoomOf[s]][i][2] <= data[s].event
        BY <3>1, <3>2 DEF LogInv, LoggedInv
      <4> QED
        BY <2>2, <3>1, <4>2, <4>3
    <3> QED
      BY <3>2
  <2>4. log' = log
    BY <1>1 DEF ReadHeader
  <2> QED
    BY <2>3, <2>4 DEF Unanswered
<1>2. CASE ~ReadHeader(s)
  <2>1. rd[s] = "body" /\ data'[s] = data[s]
    <3>1. CASE UNCHANGED <<rd, need, data>>
      BY <3>1
    <3>2. ASSUME NEW t \in Sessions, ReadHeader(t) \/ ReadBody(t) \/ ReadBodyFails(t)
          PROVE  rd[s] = "body" /\ data'[s] = data[s]
      BY <1>2, <3>2 DEF ReadHeader, ReadBody, ReadBodyFails, TypeOK
    <3>3. CASE AcceptJoin \/ Rearm
      BY <3>3 DEF AcceptJoin, Rearm, TypeOK
    <3> QED
      BY <3>1, <3>2, <3>3, WhoChanges
  <2>2. peer[s] = "open" \/ stream[s] # <<>>
    <3>1. peer'[s] = "open" => peer[s] = "open"
      <4>1. ASSUME NEW t \in Sessions, Connect(t) PROVE t # s
        BY <2>1, <4>1 DEF Connect, Entry, EntryInv, UnconnectedInv, OutsideInv, Untouched
      <4>2. ASSUME NEW t \in Sessions, Connect(t) \/ Disconnect(t)
            PROVE  peer'[s] = "open" => peer[s] = "open"
        BY <4>1, <4>2 DEF Connect, Disconnect, TypeOK
      <4> QED
        BY <4>2, WhoChanges
    <3>2. stream[s] = <<>> => stream'[s] = <<>> \/ peer[s] = "open"
      <4>1. ASSUME NEW t \in Sessions, NEW m \in Messages, Send(t, m)
            PROVE  stream[s] = <<>> => stream'[s] = <<>> \/ peer[s] = "open"
        BY <4>1 DEF Send, TypeOK
      <4>2. ASSUME NEW t \in Sessions, Disconnect(t)
            PROVE  stream[s] = <<>> => stream'[s] = <<>> \/ peer[s] = "open"
        BY <4>2 DEF Disconnect, TypeOK
      <4>3. ASSUME NEW t \in Sessions, ReadHeader(t) \/ ReadBody(t)
            PROVE  stream'[s] = stream[s]
        <5>1. s # t
          BY <1>2, <4>3 DEF ReadBody, TypeOK
        <5> QED
          BY <4>3, <5>1 DEF ReadHeader, ReadBody, TypeOK
      <4> QED
        BY <4>1, <4>2, <4>3, WhoChanges
    <3> QED
      BY <3>1, <3>2
  <2>3. Unanswered(s)
    BY <2>1, <2>2 DEF LogInv, AwaitedInv
  <2>4. CASE log' = log
    BY <2>1, <2>3, <2>4 DEF Unanswered
  <2>5. CASE PassTaskBroadcast
    <3>1. io.session \in Sessions /\ io.session # s /\ future.reply[1] = io.session
      BY <2>1, <2>5 DEF PassTaskBroadcast, Entry, HandlerInv, TaskInv, FutureInv
    <3>2. RoomOf[s] \in Rooms /\ RoomOf[io.session] \in Rooms
      BY <3>1, RoomAssumption
    <3>3. CASE RoomOf[s] = RoomOf[io.session]
      <4>1. log[RoomOf[s]] \in Seq(Replies) /\ log'[RoomOf[s]] = Append(log[RoomOf[s]], future.reply)
        BY <2>5, <3>2, <3>3 DEF PassTaskBroadcast, TypeOK
      <4>2. \A i \in DOMAIN log'[RoomOf[s]] :
              \/ i \in DOMAIN log[RoomOf[s]] /\ log'[RoomOf[s]][i] = log[RoomOf[s]][i]
              \/ log'[RoomOf[s]][i] = future.reply
        BY <4>1
      <4> QED
        BY <2>1, <2>3, <3>1, <4>2 DEF Unanswered
    <3>4. CASE RoomOf[s] # RoomOf[io.session]
      <4>1. log'[RoomOf[s]] = log[RoomOf[s]]
        BY <2>5, <3>2, <3>4 DEF PassTaskBroadcast, TypeOK
      <4> QED
        BY <2>1, <2>3, <4>1 DEF Unanswered
    <3> QED
      BY <3>3, <3>4
  <2> QED
    BY <2>4, <2>5, WhoChanges
<1> QED
  BY <1>1, <1>2

\* The mutex and the thread that is in its section agree.
LEMMA MutexStep ==
  ASSUME TypeOK, Entry, TaskInv, MutexInv, [Next]_vars
  PROVE  MutexInv'
<1> USE RoomAssumption DEF TypeOK, IoStates, clientVars, poolVars, roomVars, readVars,
     IoAt, IoGoto, IoReturn, MutexInv, RoomOfTask
<1>1. ASSUME NEW s \in Sessions, Connect(s) PROVE MutexInv'
  BY <1>1 DEF Connect
<1>2. ASSUME NEW s \in Sessions, NEW m \in Messages, Send(s, m) PROVE MutexInv'
  BY <1>2 DEF Send
<1>3. ASSUME NEW s \in Sessions, Disconnect(s) PROVE MutexInv'
  BY <1>3 DEF Disconnect
<1>4. ASSUME NEW r \in Rooms, AcceptFails(r) PROVE MutexInv'
  BY <1>4 DEF AcceptFails
<1>5. ASSUME NEW r \in Rooms, AcceptConnection(r) PROVE MutexInv'
  BY <1>5 DEF AcceptConnection
<1>6. ASSUME NEW s \in Sessions, ReadHeader(s) PROVE MutexInv'
  BY <1>6 DEF ReadHeader
<1>7. ASSUME NEW s \in Sessions, ReadBody(s) PROVE MutexInv'
  BY <1>7 DEF ReadBody
<1>8. ASSUME NEW s \in Sessions, ReadBodyFails(s) PROVE MutexInv'
  BY <1>8 DEF ReadBodyFails
<1>9. CASE AcceptLock
  BY <1>9 DEF AcceptLock, Entry, HandlerInv
<1>10. CASE AcceptJoin
  BY <1>10 DEF AcceptJoin, Entry, HandlerInv
<1>11. CASE PassTaskBroadcast
  BY <1>11 DEF PassTaskBroadcast
<1>12. CASE PassTaskNothing
  BY <1>12 DEF PassTaskNothing
<1>13. CASE BroadcastSend
  BY <1>13 DEF BroadcastSend
<1>14. CASE BroadcastEnd
  BY <1>14 DEF BroadcastEnd
<1>15. CASE Rearm
  BY <1>15 DEF Rearm
<1>16. ASSUME NEW w \in Workers, TakeTask(w) PROVE MutexInv'
  BY <1>16 DEF TakeTask
<1>17. ASSUME NEW w \in Workers, ParseLock(w) PROVE MutexInv'
  <2>1. RoomOfTask(w) \in Rooms
    BY <1>17 DEF ParseLock, TaskInv, WorkerInv, Packets
  <2>2. /\ worker'[w].at = "parse" /\ worker'[w].packet = worker[w].packet
        /\ \A v \in Workers : v # w => worker'[v] = worker[v]
    BY <1>17 DEF ParseLock
  <2>3. \A r \in Rooms : mtx[r] # w
    BY <1>17 DEF ParseLock
  <2>4. mtx' = [mtx EXCEPT ![RoomOfTask(w)] = w] /\ io' = io
    BY <1>17 DEF ParseLock
  <2> QED
    BY <2>1, <2>2, <2>3, <2>4
<1>18. ASSUME NEW w \in Workers, ParseDone(w) PROVE MutexInv'
  <2>1. RoomOfTask(w) \in Rooms
    BY <1>18 DEF ParseDone, TaskInv, WorkerInv, Packets
  <2>2. mtx' = [mtx EXCEPT ![RoomOfTask(w)] = None]
    BY <1>18 DEF ParseDone, MutexAfterParse
  <2> QED
    BY <1>18, <2>1, <2>2, SMTT(30) DEF ParseDone
<1>19. CASE UNCHANGED vars
  BY <1>19 DEF vars
<1> QED
  BY <1>1, <1>2, <1>3, <1>4, <1>5, <1>6, <1>7, <1>8, <1>9,
     <1>10, <1>11, <1>12, <1>13, <1>14, <1>15, <1>16, <1>17, <1>18, <1>19
  DEF Next, Client, IoHandler, Worker

-------------------------------------------------------------------------------
(* The broadcast *)

\* An element at the end changes no part of the sequence before it.
LEMMA SubSeqOfAppend ==
  ASSUME NEW S, NEW q \in Seq(S), NEW x \in S, NEW a \in Nat, a > 0, NEW b \in Nat, b <= Len(q)
  PROVE  SubSeq(Append(q, x), a, b) = SubSeq(q, a, b)
<1>1. /\ Append(q, x) \in Seq(S) /\ Len(Append(q, x)) = Len(q) + 1 /\ Len(q) \in Nat
      /\ \A i \in 1 .. Len(q) : Append(q, x)[i] = q[i]
      /\ DOMAIN Append(q, x) = 1 .. Len(q) + 1 /\ DOMAIN q = 1 .. Len(q)
  BY AppendProperties
<1>2. \A i \in a .. b : i \in 1 .. Len(q) /\ i \in 1 .. Len(q) + 1
  BY <1>1
<1>3. /\ SubSeq(q, a, b) \in Seq(S) /\ Len(SubSeq(q, a, b)) = IF a <= b THEN b - a + 1 ELSE 0
      /\ \A i \in 1 .. b - a + 1 : SubSeq(q, a, b)[i] = q[a + i - 1]
  BY <1>1, <1>2, SubSeqProperties
<1>4. /\ SubSeq(Append(q, x), a, b) \in Seq(S)
      /\ Len(SubSeq(Append(q, x), a, b)) = IF a <= b THEN b - a + 1 ELSE 0
      /\ \A i \in 1 .. b - a + 1 : SubSeq(Append(q, x), a, b)[i] = Append(q, x)[a + i - 1]
  BY <1>1, <1>2, SubSeqProperties
<1>5. ASSUME NEW i \in 1 .. Len(SubSeq(q, a, b))
      PROVE  SubSeq(Append(q, x), a, b)[i] = SubSeq(q, a, b)[i]
  <2>1. i \in 1 .. b - a + 1 /\ a + i - 1 \in a .. b
    BY <1>3
  <2> QED
    BY <1>1, <1>2, <1>3, <1>4, <2>1
<1> QED
  BY <1>3, <1>4, <1>5, SeqEqual

\* A part up to the end is the part before its last element, and that element.
LEMMA SubSeqToTheLast ==
  ASSUME NEW S, NEW q \in Seq(S), NEW a \in 1 .. Len(q)
  PROVE  Append(SubSeq(q, a, Len(q) - 1), q[Len(q)]) = SubSeq(q, a, Len(q))
<1>1. Len(q) \in a .. Len(q) /\ Len(q) \in Nat /\ q[Len(q)] \in S /\ a \in Nat
  OBVIOUS
<1>2. SubSeq(q, a, Len(q)) = SubSeq(q, a, Len(q) - 1) \o <<q[Len(q)]>>
  BY <1>1, SubSeqRecursiveSecond
<1>3. SubSeq(q, a, Len(q) - 1) \in Seq(S)
  <2>1. \A i \in a .. Len(q) - 1 : q[i] \in S
    BY <1>1
  <2> QED
    BY <1>1, <2>1, SubSeqProperties
<1> QED
  BY <1>1, <1>2, <1>3, AppendIsConcat

\* The loop of the broadcast is entered, goes on, and ends.
LEMMA BehindStep ==
  ASSUME TypeOK, Entry, [Next]_vars, NEW r \in Rooms, NEW i \in DOMAIN users[r],
         ~PassTaskBroadcast, ~BroadcastSend
  PROVE  Behind(r, i)' = Behind(r, i)
<1> USE DEF clientVars, poolVars, roomVars, readVars, IoAt, IoGoto, IoReturn
<1>1. CASE io' = io
  BY <1>1 DEF Behind
<1>2. CASE io.at # "broadcast" /\ io'.at # "broadcast"
  BY <1>2 DEF Behind
<1>3. CASE BroadcastEnd
  <2>1. users[r] \in Seq(Sessions) /\ i \in 1 .. Len(users[r])
    BY SMTT(30) DEF TypeOK
  <2>2. io.next \in Nat /\ io.next > 0
    BY <1>3 DEF TypeOK, IoStates, Entry, HandlerInv, BroadcastEnd
  <2>3. RoomOf[io.session] = r => io.next > Len(users[r])
    BY <1>3, <2>1, <2>2 DEF BroadcastEnd, BroadcastTo
  <2>4. Behind(r, i) = 0
    BY <2>1, <2>2, <2>3 DEF Behind
  <2>5. io'.at = "rearm"
    BY <1>3 DEF BroadcastEnd, TypeOK, IoStates
  <2> QED
    BY <2>4, <2>5 DEF Behind
<1> QED
  <2>1. AcceptLock \/ PassTaskNothing => io.at # "broadcast" /\ io'.at # "broadcast"
    BY DEF AcceptLock, PassTaskNothing, TypeOK, IoStates
  <2>2. AcceptJoin \/ Rearm => io.at # "broadcast" /\ io'.at # "broadcast"
    BY DEF AcceptJoin, Rearm
  <2>3. ASSUME NEW s \in Sessions, ReadHeader(s) \/ ReadBody(s) \/ ReadBodyFails(s)
        PROVE  io' = io \/ (io.at # "broadcast" /\ io'.at # "broadcast")
    BY <2>3 DEF ReadHeader, ReadBody, ReadBodyFails
  <2>4. ASSUME NEW q \in Rooms, AcceptFails(q) \/ AcceptConnection(q)
        PROVE  io' = io \/ (io.at # "broadcast" /\ io'.at # "broadcast")
    BY <2>4 DEF AcceptFails, AcceptConnection
  <2>5. ASSUME NEW s \in Sessions, Client(s) PROVE io' = io
    BY <2>5 DEF Client, Connect, Send, Disconnect
  <2>6. ASSUME NEW w \in Workers, Worker(w) PROVE io' = io
    BY <2>6 DEF Worker, TakeTask, ParseLock, ParseDone
  <2>7. UNCHANGED vars => io' = io
    BY DEF vars
  <2> QED
    BY <1>1, <1>2, <1>3, <2>1, <2>2, <2>3, <2>4, <2>5, <2>6, <2>7 DEF Next, IoHandler

\* What each user was sent is still the log from its own join on.
LEMMA BroadcastStep ==
  ASSUME TypeOK, TypeOK', Entry, Framing, TaskInv, LogInv, BroadcastInv, [Next]_vars
  PROVE  BroadcastInv'
<1> USE DEF clientVars, poolVars, roomVars, readVars, IoAt, IoGoto, IoReturn
<1>1. ASSUME NEW r \in Rooms
      PROVE  /\ users[r] \in Seq(Sessions) /\ log[r] \in Seq(Replies)
             /\ DOMAIN users[r] = 1 .. Len(users[r]) /\ Len(users[r]) \in Nat
             /\ Len(log[r]) \in Nat /\ \A s \in Sessions : joinedAt[s] \in Nat
  BY DEF TypeOK
<1>2. CASE PassTaskBroadcast
  <2> PICK q : q = RoomOf[io.session]
    OBVIOUS
  <2>1. io.session \in Sessions /\ q \in Rooms /\ future.reply \in Replies
    BY <1>2, RoomAssumption DEF PassTaskBroadcast, Entry, HandlerInv, TypeOK, Outcomes
  <2>2. /\ log'[q] = Append(log[q], future.reply) /\ \A r \in Rooms : r # q => log'[r] = log[r]
        /\ io'.at = "broadcast" /\ io'.next = 1 /\ io'.session = io.session /\ future' = future
        /\ users' = users /\ joinedAt' = joinedAt /\ sent' = sent /\ io.at = "wait"
    BY <1>2, <2>1, SMTT(30) DEF PassTaskBroadcast, TypeOK, IoStates
  <2>3. Len(log'[q]) = Len(log[q]) + 1 /\ log'[q][Len(log[q]) + 1] = future.reply /\ log'[q] # <<>>
    BY <1>1, <2>1, <2>2, AppendProperties
  <2>4. LastInv'
    BY <2>2, <2>3 DEF LastInv
  <2>5. ASSUME NEW r \in Rooms, NEW i \in DOMAIN users[r] PROVE UserAt(r, i)'
    <3>1. PICK s \in Sessions : s = users[r][i]
      BY <1>1, <2>5
    <3>2. joinedAt[s] <= Len(log[r]) /\ sent[s] = SubSeq(log[r], joinedAt[s] + 1, Len(log[r]))
      <4>1. UserAt(r, i) /\ Behind(r, i) = 0 /\ Len(log[r]) - 0 = Len(log[r])
        BY <1>1, <2>2, <2>5 DEF BroadcastInv, Behind
      <4> QED
        BY <3>1, <4>1 DEF UserAt
    <3>3. Len(log'[r]) - Behind(r, i)' = Len(log[r])
      <4>1. 1 <= i
        BY <1>1, <2>5
      <4>2. Behind(r, i)' = IF q = r THEN 1 ELSE 0
        BY <2>2, <4>1 DEF Behind
      <4>3. Len(log[r]) + 1 - 1 = Len(log[r]) /\ Len(log[r]) - 0 = Len(log[r])
        BY <1>1
      <4>4. CASE r = q
        BY <2>3, <4>2, <4>3, <4>4
      <4>5. CASE r # q
        BY <2>2, <4>2, <4>3, <4>5
      <4> QED
        BY <4>4, <4>5
    <3>4. SubSeq(log'[r], joinedAt[s] + 1, Len(log[r])) = SubSeq(log[r], joinedAt[s] + 1, Len(log[r]))
      <4>1. joinedAt[s] + 1 \in Nat /\ joinedAt[s] + 1 > 0
        BY <1>1
      <4>2. CASE r = q
        <5>1. Len(log[r]) \in Nat /\ Len(log[r]) <= Len(log[r]) /\ log[r] \in Seq(Replies)
          BY <1>1
        <5>2. log'[r] = Append(log[r], future.reply)
          BY <2>2, <4>2
        <5>3. future.reply \in Replies
          BY <2>1
        <5>4. SubSeq(Append(log[r], future.reply), joinedAt[s] + 1, Len(log[r]))
                = SubSeq(log[r], joinedAt[s] + 1, Len(log[r]))
          BY <4>1, <5>1, <5>3, SubSeqOfAppend
        <5> QED
          BY <5>2, <5>4
      <4>3. CASE r # q
        BY <2>2, <4>3
      <4> QED
        BY <4>2, <4>3
    <3> QED
      BY <2>2, <3>1, <3>2, <3>3, <3>4 DEF UserAt
  <2> QED
    BY <2>2, <2>4, <2>5 DEF BroadcastInv
<1>3. CASE BroadcastSend
  <2> DEFINE q == RoomOf[io.session]
             k == io.next
             t == users[q][k]
  <2>1. /\ io.session \in Sessions /\ q \in Rooms /\ k \in DOMAIN users[q] /\ t \in Sessions
        /\ k \in 1 .. Len(users[q])
    BY <1>1, <1>3, RoomAssumption DEF BroadcastSend, BroadcastTo, Entry, HandlerInv
  <2>2. sent' = [sent EXCEPT ![t] = Append(sent[t], future.reply)]
    BY <1>3, <2>1 DEF BroadcastSend, Recipients, BroadcastTo
  <2>3. /\ io'.next = k + 1 /\ io'.at = "broadcast" /\ io.at = "broadcast" /\ io'.session = io.session
        /\ UNCHANGED <<future, users, joinedAt, log>>
    BY <1>3 DEF BroadcastSend, TypeOK, IoStates
  <2>4. LastInv'
    BY <2>3 DEF BroadcastInv, LastInv
  <2>5. ASSUME NEW r \in Rooms, NEW i \in DOMAIN users[r] PROVE UserAt(r, i)'
    <3>1. PICK s \in Sessions : s = users[r][i]
      BY <1>1, <2>5
    <3>2. UserAt(r, i)
      BY <2>5 DEF BroadcastInv
    <3>3. CASE r = q /\ i = k
      <4>1. s = t /\ Behind(r, i) = 1 /\ Behind(r, i)' = 0
        BY <1>1, <2>1, <2>3, <3>1, <3>3 DEF Behind
      <4>2. log[q] \in Seq(Replies) /\ log[q][Len(log[q])] = future.reply
        BY <1>1, <2>1, <2>3 DEF BroadcastInv, LastInv
      <4>3. /\ joinedAt[s] <= Len(log[q]) - 1
            /\ sent[s] = SubSeq(log[q], joinedAt[s] + 1, Len(log[q]) - 1)
        BY <3>1, <3>2, <3>3, <4>1 DEF UserAt
      <4>4. joinedAt[s] + 1 \in 1 .. Len(log[q]) /\ joinedAt[s] <= Len(log[q]) - 0
            /\ Len(log[q]) - 0 = Len(log[q])
        BY <1>1, <2>1, <4>3
      <4>5. sent'[s] = SubSeq(log[q], joinedAt[s] + 1, Len(log[q]))
        <5>1. sent'[s] = Append(sent[s], future.reply)
          BY <2>2, <4>1 DEF TypeOK
        <5> QED
          BY <4>2, <4>3, <4>4, <5>1, SubSeqToTheLast
      <4> QED
        BY <2>3, <3>1, <3>3, <4>1, <4>4, <4>5 DEF UserAt
    <3>4. CASE ~(r = q /\ i = k)
      <4>1. s # t
        BY <2>1, <2>5, <3>1, <3>4 DEF Entry, EntryInv, UsersInv
      <4>2. Behind(r, i)' = Behind(r, i)
        <5>1. i \in Nat /\ k \in Nat
          BY <1>1, <2>1, <2>5
        <5>2. i # k => (k + 1 <= i <=> k <= i)
          BY <5>1
        <5> QED
          BY <2>3, <3>4, <5>2 DEF Behind
      <4>3. sent'[s] = sent[s]
        BY <2>2, <4>1 DEF TypeOK
      <4> QED
        BY <2>3, <3>1, <3>2, <4>2, <4>3 DEF UserAt
    <3> QED
      BY <3>3, <3>4
  <2> QED
    BY <2>3, <2>4, <2>5 DEF BroadcastInv
<1>4. CASE ~PassTaskBroadcast /\ ~BroadcastSend
  <2>1. log' = log /\ sent' = sent
    BY <1>4, WhoChanges
  <2>2. LastInv'
    <3> SUFFICES ASSUME io'.at = "broadcast"
                 PROVE  io.at = "broadcast" /\ io'.session = io.session /\ future' = future
      BY <2>1 DEF BroadcastInv, LastInv
    <3>1. ~AcceptLock /\ ~AcceptJoin /\ ~PassTaskNothing /\ ~BroadcastEnd /\ ~Rearm
      BY DEF AcceptLock, AcceptJoin, PassTaskNothing, BroadcastEnd, Rearm, TypeOK, IoStates
    <3>2. \A s \in Sessions : ~ReadHeader(s) /\ ~ReadBody(s) /\ ~ReadBodyFails(s)
      BY DEF ReadHeader, ReadBody, ReadBodyFails
    <3>3. \A r \in Rooms : ~AcceptConnection(r) /\ ~AcceptFails(r)
      BY DEF AcceptConnection, AcceptFails
    <3>4. ASSUME NEW s \in Sessions, Client(s) PROVE io' = io /\ future' = future
      BY <3>4 DEF Client, Connect, Send, Disconnect
    <3>5. ASSUME NEW w \in Workers, Worker(w) PROVE io' = io /\ future' = future
      <4>1. ~ParseDone(w)
        <5>1. ParseDone(w) => io' = io /\ worker[w].at = "parse"
          BY DEF ParseDone
        <5>2. worker[w].at # "idle" => io.at = "wait"
          BY DEF TaskInv, WorkerInv, InFlight
        <5> QED
          BY <5>1, <5>2
      <4> QED
        BY <3>5, <4>1 DEF Worker, TakeTask, ParseLock
    <3>6. UNCHANGED vars => io' = io /\ future' = future
      BY DEF vars
    <3> QED
      BY <1>4, <3>1, <3>2, <3>3, <3>4, <3>5, <3>6 DEF Next, IoHandler
  <2>3. ASSUME NEW r \in Rooms, NEW i \in DOMAIN users[r],
               users'[r][i] = users[r][i], joinedAt'[users[r][i]] = joinedAt[users[r][i]]
        PROVE  UserAt(r, i)'
    BY <1>4, <2>1, <2>3, BehindStep DEF UserAt, BroadcastInv
  <2>4. CASE UNCHANGED <<users, joinedAt>>
    BY <2>2, <2>3, <2>4 DEF BroadcastInv
  <2>5. CASE AcceptJoin
    <3> PICK t, q : t = io.session /\ q = RoomOf[t]
      OBVIOUS
    <3>1. t \in Sessions /\ q \in Rooms /\ ~Joined(t)
      BY <2>5, RoomAssumption DEF AcceptJoin, Entry, HandlerInv
    <3>2. /\ users'[q] = Append(users[q], t) /\ \A r \in Rooms : r # q => users'[r] = users[r]
          /\ joinedAt'[t] = Len(log[q]) /\ \A s \in Sessions : s # t => joinedAt'[s] = joinedAt[s]
          /\ io'.at = "idle"
      <4>1. /\ users' = [users EXCEPT ![q] = Append(users[q], t)]
            /\ joinedAt' = [joinedAt EXCEPT ![t] = Len(log[q])]
            /\ io'.at = "idle"
        BY <2>5, <3>1 DEF AcceptJoin, WithUser
      <4> QED
        BY <3>1, <4>1 DEF TypeOK
    <3>3. \A r \in Rooms : \A i \in DOMAIN users[r] : users[r][i] \in Sessions /\ users[r][i] # t
      <4>1. ASSUME NEW r \in Rooms, NEW i \in DOMAIN users[r] PROVE users[r][i] # t
        <5>1. RoomOf[users[r][i]] = r
          BY <4>1 DEF Entry, EntryInv, UsersInv
        <5> QED
          BY <3>1, <4>1, <5>1 DEF Joined
      <4> QED
        BY <1>1, <4>1
    <3>4. ASSUME NEW r \in Rooms, NEW i \in DOMAIN users[r] PROVE UserAt(r, i)'
      <4>1. users'[r][i] = users[r][i]
        <5>1. users[r] \in Seq(Sessions) /\ i \in 1 .. Len(users[r])
          BY <1>1, <3>4
        <5> QED
          BY <3>1, <3>2, <5>1
      <4> QED
        BY <2>3, <3>2, <3>3, <3>4, <4>1
    <3>5. ASSUME NEW i, i = Len(users[q]) + 1 PROVE UserAt(q, i)'
      <4>1. users'[q][i] = t /\ Behind(q, i)' = 0
        BY <1>1, <3>1, <3>2, <3>5 DEF Behind
      <4>2. sent'[t] = <<>>
        BY <2>1, <3>1 DEF Entry, EntryInv, OutsideInv
      <4>3. Len(log[q]) - 0 = Len(log[q]) /\ Len(log[q]) <= Len(log[q])
            /\ SubSeq(log[q], Len(log[q]) + 1, Len(log[q])) = <<>>
        <5>1. Len(log[q]) \in Int /\ Len(log[q]) + 1 \in Int /\ Len(log[q]) < Len(log[q]) + 1
          BY <1>1, <3>1
        <5> QED
          BY <5>1, SubSeqEmpty
      <4>4. joinedAt'[users'[q][i]] = Len(log[q]) /\ sent'[users'[q][i]] = <<>>
        BY <3>2, <4>1, <4>2
      <4>5. Len(log'[q]) - Behind(q, i)' = Len(log[q])
        BY <2>1, <4>1, <4>3
      <4> QED
        BY <2>1, <4>3, <4>4, <4>5 DEF UserAt
    <3>6. \A r \in Rooms : \A i \in DOMAIN users'[r] :
            i \in DOMAIN users[r] \/ (r = q /\ i = Len(users[q]) + 1)
      BY <1>1, <3>1, <3>2
    <3> QED
      BY <2>2, <3>4, <3>5, <3>6 DEF BroadcastInv
  <2> QED
    BY <2>4, <2>5, WhoChanges
<1> QED
  BY <1>2, <1>3, <1>4

-------------------------------------------------------------------------------
(* The inductive invariant, and what it gives *)

\* The invariant holds before the server is started.
LEMMA InvInit == Init => IInv
<1> SUFFICES ASSUME Init PROVE IInv
  OBVIOUS
<1> USE DEF Init
<1>1. TypeOK
  BY TypeInit
<1>2. \A s \in Sessions : ~Joined(s) /\ Untouched(s)
  BY RoomAssumption DEF Joined, Untouched
<1>3. Entry
  BY <1>2, RoomAssumption DEF Entry, EntryInv, OutsideInv, UnconnectedInv, UsersInv, BacklogInv, HandlerInv
<1>4. Framing
  BY DEF Framing, StreamAt, HeadAt, Ahead, Unwritten
<1>5. TaskInv
  BY DEF TaskInv, QueueInv, WorkerInv, FutureInv
<1>6. LogInv
  BY DEF LogInv, LoggedInv, AwaitedInv
<1>7. MutexInv
  BY RoomAssumption DEF MutexInv
<1>8. BroadcastInv
  BY DEF BroadcastInv, LastInv
<1> QED
  BY <1>1, <1>3, <1>4, <1>5, <1>6, <1>7, <1>8 DEF IInv

\* Every step keeps the invariant.
LEMMA InvStep == IInv /\ [Next]_vars => IInv'
<1> SUFFICES ASSUME IInv, [Next]_vars PROVE IInv'
  OBVIOUS
<1> USE DEF IInv
<1>1. TypeOK'
  BY TypeStep DEF Entry
<1>2. HandlerInv'
  BY HandlerStep
<1>3. EntryInv'
  BY OutsideStep, UnconnectedStep, UsersStep, BacklogStep DEF EntryInv
<1>4. Framing'
  BY FramingStep
<1>5. TaskInv'
  BY TaskStep
<1>6. LogInv'
  BY LoggedStep, AwaitedStep DEF LogInv
<1>7. MutexInv'
  BY MutexStep
<1>8. BroadcastInv'
  BY <1>1, BroadcastStep
<1> QED
  BY <1>1, <1>2, <1>3, <1>4, <1>5, <1>6, <1>7, <1>8 DEF Entry

\* IInv holds throughout: no session is read from before it joined or beyond its
\* packets, one task at most is under way, and it is the one the io thread waits for.
THEOREM RoomInvariance == Spec => []IInv
<1> QED
  BY InvInit, InvStep, PTL DEF Spec

\* The variables keep their types: every task, reply and read is of a packet that a
\* client has sent.
THEOREM TypeCorrect == Spec => []TypeOK
<1>1. IInv => TypeOK
  BY DEF IInv
<1> QED
  BY <1>1, RoomInvariance, PTL

\* Every user of a room is sent the room's replies from its joining on, in their order,
\* nothing skipped and nothing repeated (the loop over users in PassTask).
THEOREM SameOrder == Spec => []SameOrderForAll
<1>1. IInv => SameOrderForAll
  BY DEF IInv, BroadcastInv, UserAt, SameOrderForAll
<1> QED
  BY <1>1, RoomInvariance, PTL

\* read_header and handle_read_body stay in step with the packets, whatever is cut off.
THEOREM Framed == Spec => []ReadsStayFramed
<1>1. IInv => ReadsStayFramed
  <2> SUFFICES ASSUME IInv PROVE ReadsStayFramed
    OBVIOUS
  <2>1. ASSUME NEW s \in Sessions, rd[s] = "header", stream[s] # <<>>
        PROVE  stream[s][1][1] = "event"
    <3>1. HeadAt(s) /\ Ahead(s) = 0 /\ InStep(s)
      BY <2>1 DEF IInv, Framing, Ahead, InStep
    <3>2. 0 + 1 = 1 /\ 1 \in DOMAIN stream[s]
      BY <2>1 DEF IInv, TypeOK
    <3> QED
      BY <3>1, <3>2 DEF HeadAt
  <2>2. ASSUME NEW i \in DOMAIN queue, queue[i].len > 0
        PROVE  queue[i].body = Body(queue[i].event, queue[i].len)
    <3>1. i = 1 /\ InFlight(queue[1])
      <4>1. queue \in Seq(Packets) /\ queue # <<>>
        BY <2>2 DEF IInv, TypeOK
      <4>2. Len(queue) = 1 /\ InFlight(queue[1])
        BY <4>1 DEF IInv, TaskInv, QueueInv
      <4>3. \A j \in 1 .. 1 : j = 1
        OBVIOUS
      <4> QED
        BY <2>2, <4>1, <4>2, <4>3
    <3> QED
      BY <2>2, <3>1 DEF InFlight
  <2> QED
    BY <2>1, <2>2 DEF ReadsStayFramed, Members
<1> QED
  BY <1>1, RoomInvariance, PTL

\* The io thread holds no mutex while it waits for a task, and finds free the one it
\* asks for in handle_accept: it and the parsers never wait for each other.
THEOREM NoMutualWait == Spec => []IoNeverBlocksParser
<1>1. IInv => IoNeverBlocksParser
  <2> SUFFICES ASSUME IInv PROVE IoNeverBlocksParser
    OBVIOUS
  <2>1. IoAt("wait") => \A r \in Rooms : mtx[r] # Io
    BY DEF IInv, MutexInv, IoAt
  <2>2. ASSUME IoAt("accept") PROVE mtx[RoomOf[io.session]] = None
    <3>1. RoomOf[io.session] \in Rooms
      BY <2>2, RoomAssumption DEF IInv, Entry, HandlerInv, IoAt
    <3>2. \A w \in Workers : worker[w].at = "idle"
      BY <2>2, NoTaskUnlessAwaited DEF IInv, IoAt
    <3> QED
      BY <2>2, <3>1, <3>2 DEF IInv, MutexInv, IoAt, TypeOK
  <2> QED
    BY <2>1, <2>2 DEF IoNeverBlocksParser
<1> QED
  BY <1>1, RoomInvariance, PTL

-------------------------------------------------------------------------------
(* The answers. A second invariant, which rests on IInv, follows the packets of   *)
(* a client that stays from its stream to the log.                                *)

\* Such a client is in step: the events in its stream are those behind the header in
\* data_, each once, and that header is of a packet that it sent.
SentInv(s) ==
  peer[s] = "open" =>
    /\ data[s].event <= Len(program[s])
    /\ data[s].event > 0 => data[s].len = BodyLen[program[s][data[s].event]]
    /\ \A n \in 1 .. Len(program[s]) : Unread(s, n) <=> n > data[s].event
    /\ \A i, j \in DOMAIN stream[s] :
         stream[s][i] = stream[s][j] /\ stream[s][i][1] = "event" => i = j

\* The packet whose header is in data_ has no outcome yet.
Pending(s) == rd[s] = "body" \/ (io.at = "wait" /\ io.session = s)

\* The packets up to the one in data_, or up to the one before, have their answers.
AnsweredInv(s) ==
  peer[s] = "open" =>
    /\ Pending(s) => data[s].event > 0
    /\ \A n \in 1 .. Len(program[s]) :
         <<s, n>> \in Members(log[RoomOf[s]]) <=>
           /\ Answerable(s, n)
           /\ n <= data[s].event
           /\ Pending(s) => n # data[s].event

OpenInv(s) == (peer[s] = "open" => InStep(s)) /\ SentInv(s) /\ AnsweredInv(s)

IncreasingInv ==
  \A r \in Rooms : \A i, j \in DOMAIN log[r] :
    i < j /\ log[r][i][1] = log[r][j][1] => log[r][i][2] < log[r][j][2]

\* A task has the whole of the packet whose header is in data_.
Whole(p) ==
  /\ p.event = data[p.session].event /\ p.len = data[p.session].len
  /\ p.body = Body(p.event, p.len)

\* The outcome of the task is an answer exactly if the packet is to be answered.
FlightInv ==
  io.at = "wait" /\ peer[io.session] = "open" =>
    /\ queue # <<>> => Whole(queue[1])
    /\ \A w \in Workers : worker[w].at # "idle" => Whole(worker[w].packet)
    /\ future # NoOutcome =>
         (future.kind = "packet" <=> Answerable(io.session, data[io.session].event))

AnswerInv == (\A s \in Sessions : OpenInv(s)) /\ IncreasingInv /\ FlightInv

\* What a client has sent does not change.
LEMMA PacketsStay ==
  ASSUME TypeOK, [Next]_vars, NEW s \in Sessions
  PROVE  /\ Len(program[s]) \in Nat /\ Len(program'[s]) \in Nat
         /\ Len(program[s]) <= Len(program'[s])
         /\ \A n \in 1 .. Len(program[s]) : program'[s][n] = program[s][n]
         /\ \A n \in 1 .. Len(program[s]) : Answerable(s, n)' <=> Answerable(s, n)
<1>1. program[s] \in Seq(Messages) /\ Len(program[s]) \in Nat
  BY DEF TypeOK
<1>2. /\ Len(program'[s]) \in Nat /\ Len(program[s]) <= Len(program'[s])
      /\ \A n \in 1 .. Len(program[s]) : program'[s][n] = program[s][n]
  <2>1. CASE program'[s] = program[s]
    BY <1>1, <2>1
  <2>2. ASSUME NEW m \in Messages, program'[s] = Append(program[s], m)
        PROVE  /\ Len(program'[s]) \in Nat /\ Len(program[s]) <= Len(program'[s])
               /\ \A n \in 1 .. Len(program[s]) : program'[s][n] = program[s][n]
    BY <1>1, <2>2, AppendProperties
  <2>3. program'[s] = program[s] \/ \E m \in Messages : program'[s] = Append(program[s], m)
    <3>1. ASSUME NEW t \in Sessions, NEW m \in Messages, Send(t, m)
          PROVE  program'[s] = program[s] \/ program'[s] = Append(program[s], m)
      BY <3>1 DEF Send, TypeOK
    <3> QED
      BY <3>1, WhoChanges
  <2> QED
    BY <2>1, <2>2, <2>3
<1> QED
  BY <1>1, <1>2 DEF Answerable

\* A connection is opened once, before anything is sent over it or read from it.
LEMMA OpenedByConnect ==
  ASSUME IInv, [Next]_vars, NEW s \in Sessions, peer'[s] = "open", peer[s] # "open"
  PROVE  /\ program'[s] = <<>> /\ stream'[s] = <<>> /\ Untouched(s)' /\ data'[s].event = 0
         /\ io'.session # s
<1>1. Connect(s) /\ peer[s] = "none"
  <2>1. ASSUME NEW t \in Sessions, Connect(t) \/ Disconnect(t) PROVE Connect(s) /\ peer[s] = "none"
    BY <2>1 DEF Connect, Disconnect, IInv, TypeOK
  <2> QED
    BY <2>1, WhoChanges
<1>2. Untouched(s) /\ program[s] = <<>> /\ stream[s] = <<>> /\ io.session # s
  BY <1>1 DEF IInv, Entry, EntryInv, UnconnectedInv, OutsideInv
<1>3. UNCHANGED <<program, stream, rd, need, data, io>>
  BY <1>1 DEF Connect, readVars
<1> QED
  BY <1>2, <1>3 DEF Untouched, Unwritten

\* A client that stays is read from, or will be.
LEMMA InStepStep ==
  ASSUME IInv, AnswerInv, [Next]_vars, NEW s \in Sessions, peer'[s] = "open"
  PROVE  InStep(s)'
<1>1. CASE peer[s] # "open"
  BY <1>1, OpenedByConnect DEF InStep
<1>2. CASE peer[s] = "open"
  <2>1. InStep(s) /\ TypeOK /\ HandlerInv
    BY <1>2 DEF AnswerInv, OpenInv, IInv, Entry
  <2>2. ASSUME NEW t \in Sessions, ReadHeader(t) \/ ReadBody(t) PROVE InStep(s)'
    <3>1. io.session # s
      BY <2>1, <2>2, RoomAssumption DEF ReadHeader, ReadBody, IoAt, HandlerInv
    <3>2. CASE t = s
      BY <2>1, <2>2, <3>2 DEF ReadHeader, ReadBody, InStep, TypeOK
    <3>3. CASE t # s
      BY <2>1, <2>2, <3>1, <3>3 DEF ReadHeader, ReadBody, InStep, Untouched, TypeOK
    <3> QED
      BY <3>2, <3>3
  <2>3. ASSUME NEW t \in Sessions, ReadBodyFails(t) PROVE InStep(s)'
    <3>1. t # s
      BY <1>2, <2>3 DEF ReadBodyFails
    <3> QED
      BY <2>1, <2>3, <3>1 DEF ReadBodyFails, InStep, Untouched, TypeOK
  <2>4. CASE AcceptJoin \/ Rearm
    BY <2>1, <2>4 DEF AcceptJoin, Rearm, InStep, Untouched, TypeOK
  <2>5. ASSUME NEW r \in Rooms, AcceptConnection(r) PROVE InStep(s)'
    BY <2>1, <2>5, RoomAssumption DEF AcceptConnection, IoAt, HandlerInv, InStep, Untouched, readVars
  <2>6. CASE UNCHANGED <<rd, need, data>> /\ io'.session = io.session
    BY <2>1, <2>6 DEF InStep, Untouched
  <2> QED
    BY <2>1, <2>2, <2>3, <2>4, <2>5, <2>6, WhoChanges, SessionOfIo
<1> QED
  BY <1>1, <1>2

\* Who adds to the packets of a client, to its stream, or takes from it.
LEMMA SentFrame ==
  ASSUME TypeOK, [Next]_vars, NEW s \in Sessions, peer'[s] = "open"
  PROVE  \/ UNCHANGED <<program[s], stream[s], data[s]>>
         \/ \E m \in Messages : Send(s, m)
         \/ ReadHeader(s) \/ ReadBody(s)
<1>1. ASSUME NEW t \in Sessions, NEW m \in Messages, Send(t, m), t # s
      PROVE  UNCHANGED <<program[s], stream[s], data[s]>>
  BY <1>1 DEF Send, TypeOK
<1>2. ASSUME NEW t \in Sessions, ReadHeader(t) \/ ReadBody(t), t # s
      PROVE  UNCHANGED <<program[s], stream[s], data[s]>>
  BY <1>2 DEF ReadHeader, ReadBody, TypeOK, clientVars
<1>3. ASSUME NEW t \in Sessions, Disconnect(t)
      PROVE  UNCHANGED <<program[s], stream[s], data[s]>>
  BY <1>3 DEF Disconnect, TypeOK
<1>4. CASE UNCHANGED <<program, stream>> /\ (AcceptJoin \/ Rearm \/ \E t \in Sessions : ReadBodyFails(t))
  BY <1>4 DEF AcceptJoin, Rearm, ReadBodyFails
<1>5. CASE UNCHANGED <<program, stream, data>>
  BY <1>5
<1>6. \/ UNCHANGED <<program, stream>>
      \/ \E t \in Sessions, m \in Messages : Send(t, m)
      \/ \E t \in Sessions : Disconnect(t) \/ ReadHeader(t) \/ ReadBody(t)
  BY WhoChanges
<1>7. \/ UNCHANGED data
      \/ \E t \in Sessions : ReadHeader(t) \/ ReadBody(t) \/ ReadBodyFails(t)
      \/ AcceptJoin \/ Rearm
  BY WhoChanges
<1> QED
  BY <1>1, <1>2, <1>3, <1>4, <1>5, <1>6, <1>7

\* The packet that is sent is the last, and the only one of its number in the stream.
LEMMA SentStepSend ==
  ASSUME TypeOK, Framing, NEW s \in Sessions, SentInv(s), NEW m \in Messages, Send(s, m)
  PROVE  SentInv(s)'
<1> DEFINE k == Len(stream[s])
           q == Len(program[s])
           e == data[s].event
           new == Wire(q + 1, m)
<1>1. /\ stream[s] \in Seq(Cells) /\ k \in Nat /\ DOMAIN stream[s] = 1 .. k
      /\ program[s] \in Seq(Messages) /\ q \in Nat /\ q + 1 \in PacketIds
      /\ BodyLen[m] \in Nat /\ e \in Nat
  BY RoomAssumption DEF TypeOK, Send, PacketIds, Unwritten
<1>2. /\ new \in Seq(Cells) /\ Len(new) = 2 + BodyLen[m]
      /\ new[1] = <<"event", q + 1>> /\ new[2] = <<"length", q + 1>>
      /\ \A j \in 1 .. BodyLen[m] : new[2 + j] = <<"body", q + 1>>
  BY <1>1, WireCells DEF HeaderLen
<1>3. stream'[s] = stream[s] \o new /\ program'[s] = Append(program[s], m)
  BY DEF Send, TypeOK
<1>4. peer[s] = "open" /\ peer' = peer /\ data' = data
  BY DEF Send
<1> HIDE DEF new
<1>5. /\ DOMAIN stream'[s] = 1 .. k + (2 + BodyLen[m])
      /\ \A i \in 1 .. k : stream'[s][i] = stream[s][i]
      /\ \A i \in 1 .. 2 + BodyLen[m] : stream'[s][k + i] = new[i]
  <2>1. /\ DOMAIN stream'[s] = 1 .. k + Len(new)
        /\ \A i \in 1 .. k : stream'[s][i] = stream[s][i]
        /\ \A i \in 1 .. Len(new) : stream'[s][k + i] = new[i]
    <3>1. stream[s] \in Seq(Cells) /\ new \in Seq(Cells)
      BY <1>1, <1>2
    <3>2. stream'[s] = stream[s] \o new
      BY <1>3
    <3> QED
      BY ONLY <3>1, <3>2, ConcatAt
  <2> QED
    BY <1>2, <2>1
<1>6. /\ program'[s] \in Seq(Messages) /\ Len(program'[s]) = q + 1
      /\ \A i \in 1 .. q : program'[s][i] = program[s][i]
  BY <1>1, <1>3, AppendProperties
<1>7. /\ e <= q /\ (e > 0 => data[s].len = BodyLen[program[s][e]])
      /\ \A n \in 1 .. q : (\E i \in 1 .. k : stream[s][i] = <<"event", n>>) <=> n > e
      /\ \A i, j \in 1 .. k : stream[s][i] = stream[s][j] /\ stream[s][i][1] = "event" => i = j
  BY <1>1, <1>4 DEF SentInv, Unread
<1>8. ASSUME NEW i \in 1 .. k, stream[s][i][1] = "event"
      PROVE  stream[s][i][2] \in 1 .. q
  BY <1>1, <1>8 DEF Framing, StreamAt, PacketAt, PacketOf
<1> HIDE DEF k, q, e
<1>9. /\ \A i \in 1 .. k : i \in DOMAIN stream'[s] /\ stream'[s][i] = stream[s][i]
      /\ k + 1 \in DOMAIN stream'[s] /\ stream'[s][k + 1] = <<"event", q + 1>>
  <2>1. /\ \A i \in 1 .. k : i \in 1 .. k + (2 + BodyLen[m])
        /\ k + 1 \in 1 .. k + (2 + BodyLen[m]) /\ 1 \in 1 .. 2 + BodyLen[m]
    BY <1>1
  <2> QED
    BY <1>2, <1>5, <2>1
<1>10. ASSUME NEW i \in DOMAIN stream'[s], i \notin 1 .. k, stream'[s][i][1] = "event"
       PROVE  i = k + 1
  <2>1. i \in 1 .. k + (2 + BodyLen[m])
    BY <1>5
  <2>2. i - k \in 1 .. 2 + BodyLen[m] /\ k + (i - k) = i
    BY <1>1, <1>10, <2>1
  <2>3. stream'[s][i] = new[i - k]
    BY <1>5, <2>2
  <2>4. i - k = 1 \/ i - k = 2 \/ (i - k) - 2 \in 1 .. BodyLen[m]
    BY <1>1, <2>1, <2>2
  <2>5. i - k # 2
    BY <1>2, <1>10, <2>3
  <2>6. (i - k) - 2 \notin 1 .. BodyLen[m]
    <3>1. 2 + ((i - k) - 2) = i - k
      BY <1>1, <2>1
    <3> QED
      BY <1>2, <1>10, <2>3, <3>1
  <2> QED
    BY <1>1, <2>1, <2>4, <2>5, <2>6
<1>11. ASSUME NEW n \in 1 .. q + 1 PROVE Unread(s, n)' <=> n > e
  <2>1. CASE n = q + 1
    BY <1>1, <1>7, <1>9, <2>1 DEF Unread
  <2>2. CASE n # q + 1
    <3>1. n \in 1 .. q
      BY <1>1, <2>2
    <3>2. ASSUME NEW i \in DOMAIN stream'[s], stream'[s][i] = <<"event", n>>
          PROVE  i \in 1 .. k /\ stream[s][i] = <<"event", n>>
      BY <1>9, <1>10, <2>2, <3>2
    <3>3. Unread(s, n)' <=> \E i \in 1 .. k : stream[s][i] = <<"event", n>>
      BY <1>9, <3>2 DEF Unread
    <3> QED
      BY <1>7, <3>1, <3>3
  <2> QED
    BY <2>1, <2>2
<1>12. ASSUME NEW i \in DOMAIN stream'[s], NEW j \in DOMAIN stream'[s],
              stream'[s][i] = stream'[s][j], stream'[s][i][1] = "event"
       PROVE  i = j
  <2>1. CASE i \in 1 .. k /\ j \in 1 .. k
    BY <1>7, <1>9, <1>12, <2>1
  <2>2. CASE i \notin 1 .. k /\ j \notin 1 .. k
    BY <1>10, <1>12, <2>2
  <2>3. ASSUME NEW x \in 1 .. k, stream[s][x] = <<"event", q + 1>> PROVE FALSE
    <3>1. q + 1 \in 1 .. q
      BY <1>8, <2>3
    <3> QED
      BY <1>1, <3>1
  <2> QED
    BY <1>9, <1>10, <1>12, <2>1, <2>2, <2>3
<1>13. e \in 1 .. q \/ ~(e > 0)
  BY <1>1, <1>7
<1>14. data'[s].event = e /\ data'[s].len = data[s].len /\ e <= q + 1
  BY <1>1, <1>4, <1>7 DEF e
<1>15. data'[s].event > 0 => data'[s].len = BodyLen[program'[s][data'[s].event]]
  BY <1>6, <1>7, <1>13, <1>14
<1> QED
  BY <1>6, <1>11, <1>12, <1>14, <1>15 DEF SentInv

\* When k cells have been read, the events among the others are still there once each.
LEMMA UnreadRest ==
  ASSUME TypeOK, Framing, NEW s \in Sessions, SentInv(s), peer[s] = "open",
         NEW k \in 0 .. Len(stream[s]),
         peer'[s] = peer[s], program'[s] = program[s],
         stream'[s] = SubSeq(stream[s], k + 1, Len(stream[s]))
  PROVE  /\ \A n \in 1 .. Len(program[s]) :
              Unread(s, n)' <=> \E i \in DOMAIN stream[s] : i > k /\ stream[s][i] = <<"event", n>>
         /\ \A i, j \in DOMAIN stream'[s] :
              stream'[s][i] = stream'[s][j] /\ stream'[s][i][1] = "event" => i = j
<1>1. /\ stream[s] \in Seq(Cells) /\ Len(stream[s]) \in Nat
      /\ DOMAIN stream[s] = 1 .. Len(stream[s]) /\ k \in Nat
  BY DEF TypeOK
<1>2. /\ DOMAIN stream'[s] = 1 .. Len(stream[s]) - k
      /\ \A i \in 1 .. Len(stream[s]) - k : stream'[s][i] = stream[s][i + k]
  BY StreamRest DEF Framing
<1>3. /\ \A i \in 1 .. Len(stream[s]) - k : i + k \in 1 .. Len(stream[s]) /\ i + k > k
      /\ \A i \in 1 .. Len(stream[s]) :
           i > k => i - k \in 1 .. Len(stream[s]) - k /\ (i - k) + k = i
      /\ \A i, j \in 1 .. Len(stream[s]) - k : i + k = j + k => i = j
  BY <1>1
<1>4. ASSUME NEW n \in 1 .. Len(program[s])
      PROVE  Unread(s, n)' <=> \E i \in DOMAIN stream[s] : i > k /\ stream[s][i] = <<"event", n>>
  <2>1. ASSUME NEW i \in DOMAIN stream[s], i > k, stream[s][i] = <<"event", n>> PROVE Unread(s, n)'
    <3>1. i - k \in DOMAIN stream'[s] /\ stream'[s][i - k] = stream[s][i]
      BY <1>1, <1>2, <1>3, <2>1
    <3> QED
      BY <2>1, <3>1 DEF Unread
  <2>2. ASSUME NEW i \in DOMAIN stream'[s], stream'[s][i] = <<"event", n>>
        PROVE  \E j \in DOMAIN stream[s] : j > k /\ stream[s][j] = <<"event", n>>
    <3>1. i \in 1 .. Len(stream[s]) - k
      BY <1>2
    <3>2. i + k \in DOMAIN stream[s] /\ i + k > k /\ stream'[s][i] = stream[s][i + k]
      BY <1>1, <1>2, <1>3, <3>1
    <3> QED
      BY <2>2, <3>2
  <2> QED
    BY <2>1, <2>2 DEF Unread
<1>5. ASSUME NEW i \in DOMAIN stream'[s], NEW j \in DOMAIN stream'[s],
             stream'[s][i] = stream'[s][j], stream'[s][i][1] = "event"
      PROVE  i = j
  <2>1. /\ i + k \in DOMAIN stream[s] /\ stream'[s][i] = stream[s][i + k]
        /\ j + k \in DOMAIN stream[s] /\ stream'[s][j] = stream[s][j + k]
    BY <1>1, <1>2, <1>3
  <2>2. i + k = j + k
    BY <1>5, <2>1 DEF SentInv
  <2> QED
    BY <1>2, <1>3, <2>2
<1> QED
  BY <1>4, <1>5

\* The header that is read is that of the first packet whose event was in the stream.
LEMMA SentStepReadHeader ==
  ASSUME TypeOK, Framing, NEW s \in Sessions, SentInv(s), peer[s] = "open", ReadHeader(s)
  PROVE  /\ SentInv(s)'
         /\ data'[s].event = data[s].event + 1
         /\ data[s].event + 1 \in 1 .. Len(program[s])
<1>1. /\ stream[s] \in Seq(Cells) /\ Len(stream[s]) \in Nat /\ DOMAIN stream[s] = 1 .. Len(stream[s])
      /\ data[s].event \in Nat
  BY DEF TypeOK, Unwritten, PacketIds
<1>2. /\ rd[s] = "header" /\ peer' = peer /\ program' = program
      /\ data'[s] = ReceivedHeader(s) /\ Len(stream[s]) >= 2
      /\ stream'[s] = SubSeq(stream[s], HeaderCells(s) + 1, Len(stream[s]))
  BY DEF ReadHeader, clientVars, TypeOK, HeaderLen
<1>3. HeaderCells(s) = 2 /\ 2 \in 0 .. Len(stream[s])
  BY <1>1, <1>2 DEF HeaderCells, HeaderLen
<1>4. PICK n : n = data[s].event + 1
  OBVIOUS
<1>5. n \in 1 .. Len(program[s]) /\ data'[s].event = n /\ data'[s].len = BodyLen[program[s][n]]
  BY <1>1, <1>2, <1>4, HeaderIsOfPacket DEF HeaderLen
<1>6. stream[s][1] = <<"event", n>> /\ stream[s][2] = <<"length", n>>
  <2>1. stream[s][1] = <<"event", n>>
    <3>1. Ahead(s) = 0 /\ InStep(s) /\ HeadAt(s)
      BY <1>2 DEF Ahead, InStep, Framing
    <3> QED
      BY <1>1, <1>2, <1>4, <3>1 DEF HeadAt
  <2>2. PacketAt(s, 1)
    BY <1>1, <1>2, <2>1 DEF Framing, StreamAt
  <2> QED
    BY <1>1, <1>2, <2>1, <2>2 DEF PacketAt, PacketOf
<1>7. /\ \A x \in 1 .. Len(program[s]) :
           Unread(s, x)' <=> \E i \in DOMAIN stream[s] : i > 2 /\ stream[s][i] = <<"event", x>>
      /\ \A i, j \in DOMAIN stream'[s] :
           stream'[s][i] = stream'[s][j] /\ stream'[s][i][1] = "event" => i = j
  BY <1>2, <1>3, UnreadRest
<1>8. ASSUME NEW x \in 1 .. Len(program[s]) PROVE Unread(s, x)' <=> x > n
  <2>1. Unread(s, x) <=> x > data[s].event
    BY DEF SentInv
  <2>2. x > n <=> x > data[s].event /\ x # n
    BY <1>1, <1>4
  <2>3. ASSUME NEW i \in DOMAIN stream[s], stream[s][i] = <<"event", x>>
        PROVE  i > 2 <=> x # n
    <3>1. i = 1 \/ i = 2 \/ i > 2
      BY <1>1
    <3>2. ASSUME x = n PROVE i = 1
      BY <1>1, <1>2, <1>6, <2>3, <3>2, SMTT(30) DEF SentInv
    <3> QED
      BY <1>1, <1>6, <2>3, <3>1, <3>2
  <2> QED
    BY <1>7, <2>1, <2>2, <2>3 DEF Unread
<1>9. data'[s].event <= Len(program[s])
  BY <1>5, LenProperties DEF TypeOK
<1>10. Len(program'[s]) = Len(program[s]) /\ program'[s] = program[s]
  BY <1>2
<1>11. SentInv(s)'
  BY <1>5, <1>7, <1>8, <1>9, <1>10 DEF SentInv
<1> QED
  BY <1>4, <1>5, <1>11

\* A body has no event in it.
LEMMA SentStepReadBody ==
  ASSUME TypeOK, Framing, NEW s \in Sessions, SentInv(s), peer[s] = "open", ReadBody(s)
  PROVE  SentInv(s)'
<1>1. /\ stream[s] \in Seq(Cells) /\ Len(stream[s]) \in Nat /\ DOMAIN stream[s] = 1 .. Len(stream[s])
      /\ need[s] \in Nat /\ need[s] <= Len(stream[s])
  BY DEF TypeOK, ReadBody
<1>2. /\ rd[s] = "body" /\ peer' = peer /\ program' = program /\ data' = data
      /\ stream'[s] = SubSeq(stream[s], need[s] + 1, Len(stream[s]))
  BY DEF ReadBody, clientVars, TypeOK
<1>3. PICK k \in 0 .. Len(stream[s]) : k = need[s]
  BY <1>1
<1>4. \A i \in DOMAIN stream[s] : ~(i > k) => stream[s][i][1] = "body"
  <2>1. Ahead(s) = k /\ InStep(s) /\ HeadAt(s)
    BY <1>2, <1>3 DEF Ahead, InStep, Framing
  <2>2. \A i \in DOMAIN stream[s] : ~(i > k) => i \in 1 .. k
    BY <1>1
  <2> QED
    BY <2>1, <2>2 DEF HeadAt
<1>5. /\ \A x \in 1 .. Len(program[s]) :
           Unread(s, x)' <=> \E i \in DOMAIN stream[s] : i > k /\ stream[s][i] = <<"event", x>>
      /\ \A i, j \in DOMAIN stream'[s] :
           stream'[s][i] = stream'[s][j] /\ stream'[s][i][1] = "event" => i = j
  BY <1>2, <1>3, UnreadRest
<1>6. ASSUME NEW x \in 1 .. Len(program[s]) PROVE Unread(s, x)' <=> Unread(s, x)
  <2>1. \A i \in DOMAIN stream[s] : stream[s][i] = <<"event", x>> => i > k
    BY <1>4
  <2> QED
    BY <1>5, <2>1 DEF Unread
<1> QED
  BY <1>2, <1>5, <1>6 DEF SentInv

\* Every step keeps a client that stays and its stream in step.
LEMMA SentStep ==
  ASSUME IInv, AnswerInv, [Next]_vars, NEW s \in Sessions
  PROVE  SentInv(s)'
<1> SUFFICES ASSUME peer'[s] = "open" PROVE SentInv(s)'
  BY DEF SentInv
<1>1. TypeOK /\ Framing
  BY DEF IInv
<1>2. CASE peer[s] # "open"
  BY <1>2, OpenedByConnect DEF SentInv
<1>3. CASE peer[s] = "open"
  <2>1. SentInv(s)
    BY DEF AnswerInv, OpenInv
  <2>2. CASE UNCHANGED <<program[s], stream[s], data[s]>>
    <3>1. \A n : Unread(s, n)' <=> Unread(s, n)
      BY <2>2 DEF Unread
    <3> QED
      BY <1>3, <2>1, <2>2, <3>1 DEF SentInv
  <2> QED
    BY <1>1, <1>3, <2>1, <2>2, SentFrame, SentStepSend, SentStepReadHeader, SentStepReadBody
<1> QED
  BY <1>2, <1>3

\* Which actions begin and end the time in which a packet has a header and no outcome.
LEMMA PendingStep ==
  ASSUME IInv, [Next]_vars, NEW s \in Sessions,
         ~ReadHeader(s), ~ReadBodyFails(s),
         ~((PassTaskBroadcast \/ PassTaskNothing) /\ io.session = s)
  PROVE  Pending(s)' <=> Pending(s)
<1> USE DEF IoAt, IoGoto, IoReturn, readVars, Pending
<1>1. /\ io.at = "idle" => io.session = None /\ s # None
      /\ io.at \in {"accept", "join"} => io.session \in Sessions /\ rd[io.session] # "body"
      /\ io.at \in {"wait", "broadcast", "rearm"} => io.session \in Sessions /\ rd[io.session] = "none"
      /\ rd \in [Sessions -> {"none", "header", "body"}] /\ io \in IoStates
  BY RoomAssumption DEF IInv, TypeOK, Entry, EntryInv, HandlerInv, OutsideInv, Untouched
<1>2. CASE UNCHANGED <<rd, io>>
  BY <1>2
<1>3. CASE ReadBody(s)
  BY <1>1, <1>3 DEF ReadBody
<1>4. ASSUME NEW t \in Sessions, t # s, ReadHeader(t) \/ ReadBody(t) \/ ReadBodyFails(t)
      PROVE  Pending(s)' <=> Pending(s)
  BY <1>1, <1>4 DEF ReadHeader, ReadBody, ReadBodyFails
<1>5. ASSUME NEW r \in Rooms, AcceptFails(r) \/ AcceptConnection(r)
      PROVE  Pending(s)' <=> Pending(s)
  BY <1>1, <1>5 DEF AcceptFails, AcceptConnection
<1>6. CASE AcceptLock \/ AcceptJoin
  BY <1>1, <1>6 DEF AcceptLock, AcceptJoin, IoStates
<1>7. CASE PassTaskBroadcast \/ PassTaskNothing
  BY <1>1, <1>7 DEF PassTaskBroadcast, PassTaskNothing, IoStates
<1>8. CASE BroadcastSend \/ BroadcastEnd
  BY <1>1, <1>8 DEF BroadcastSend, BroadcastEnd, IoStates
<1>9. CASE Rearm
  BY <1>1, <1>9 DEF Rearm
<1>10. ASSUME NEW t \in Sessions, Client(t) PROVE Pending(s)' <=> Pending(s)
  BY <1>2, <1>10 DEF Client, Connect, Send, Disconnect
<1>11. ASSUME NEW w \in Workers, Worker(w) PROVE Pending(s)' <=> Pending(s)
  BY <1>2, <1>11 DEF Worker, TakeTask, ParseLock, ParseDone
<1>12. CASE UNCHANGED vars
  BY <1>2, <1>12 DEF vars
<1> HIDE DEF IoAt, IoGoto, IoReturn, readVars, Pending
<1> QED
  BY <1>3, <1>4, <1>5, <1>6, <1>7, <1>8, <1>9, <1>10, <1>11, <1>12 DEF Next, IoHandler

\* A log only gains the reply that PassTask broadcasts.
LEMMA LogStep ==
  ASSUME IInv, [Next]_vars, NEW s \in Sessions
  PROVE  /\ ~(PassTaskBroadcast /\ io.session = s) =>
              \A n : <<s, n>> \in Members(log'[RoomOf[s]]) <=> <<s, n>> \in Members(log[RoomOf[s]])
         /\ PassTaskBroadcast /\ io.session = s =>
              \A n : <<s, n>> \in Members(log'[RoomOf[s]]) <=>
                       <<s, n>> \in Members(log[RoomOf[s]]) \/ n = data[s].event
<1>1. CASE log' = log
  <2>1. ~PassTaskBroadcast
    <3> SUFFICES ASSUME PassTaskBroadcast PROVE FALSE
      OBVIOUS
    <3>1. io.session \in Sessions /\ RoomOf[io.session] \in Rooms
      BY RoomAssumption DEF PassTaskBroadcast, IoAt, IInv, Entry, HandlerInv
    <3>2. PICK q \in Seq(Replies) : q = log[RoomOf[io.session]]
      BY <3>1 DEF IInv, TypeOK
    <3>3. log'[RoomOf[io.session]] = Append(q, future.reply)
      BY <3>1, <3>2 DEF PassTaskBroadcast, IInv, TypeOK
    <3>4. Len(Append(q, future.reply)) = Len(q) + 1 /\ Len(q) \in Nat
      OBVIOUS
    <3> QED
      BY <1>1, <3>2, <3>3, <3>4
  <2> QED
    BY <1>1, <2>1
<1>2. CASE PassTaskBroadcast
  <2>1. io.session \in Sessions /\ RoomOf[s] \in Rooms /\ RoomOf[io.session] \in Rooms
    BY <1>2, RoomAssumption DEF PassTaskBroadcast, IoAt, IInv, Entry, HandlerInv
  <2>2. future.reply = <<io.session, data[io.session].event>>
    BY <1>2 DEF PassTaskBroadcast, IoAt, IInv, TaskInv, FutureInv
  <2>3. CASE RoomOf[s] = RoomOf[io.session]
    <3>1. PICK q \in Seq(Replies) : q = log[RoomOf[s]]
      BY <2>1 DEF IInv, TypeOK
    <3>2. log'[RoomOf[s]] = Append(q, future.reply)
      BY <1>2, <2>1, <2>3, <3>1 DEF PassTaskBroadcast, IInv, TypeOK
    <3>3. \A x : x \in Members(log'[RoomOf[s]]) <=> x \in Members(q) \/ x = future.reply
      BY <3>2, MembersOfAppend
    <3> QED
      BY <1>2, <2>2, <3>1, <3>3
  <2>4. CASE RoomOf[s] # RoomOf[io.session]
    <3>1. log'[RoomOf[s]] = log[RoomOf[s]] /\ io.session # s
      BY <1>2, <2>1, <2>4 DEF PassTaskBroadcast, IInv, TypeOK
    <3> QED
      BY <3>1
  <2> QED
    BY <2>3, <2>4
<1> QED
  BY <1>1, <1>2, WhoChanges

\* The replies to a session's packets are to packets whose headers have been read.
LEMMA RepliesAreRead ==
  ASSUME IInv, NEW s \in Sessions, NEW n, <<s, n>> \in Members(log[RoomOf[s]])
  PROVE  n \in PacketIds /\ n <= data[s].event
<1>1. PICK i \in DOMAIN log[RoomOf[s]] : log[RoomOf[s]][i] = <<s, n>>
  BY DEF Members
<1>2. RoomOf[s] \in Rooms
  BY RoomAssumption
<1>3. <<s, n>> \in Replies
  <2>1. log[RoomOf[s]] \in Seq(Replies)
    BY <1>2 DEF IInv, TypeOK
  <2> QED
    BY <1>1, <2>1, ElementOfSeq, LenProperties
<1>4. n <= data[s].event
  BY <1>1, <1>2 DEF IInv, LogInv, LoggedInv
<1> QED
  BY <1>3, <1>4 DEF Replies

\* Every step leaves exactly the packets answered that are due.
LEMMA AnsweredStep ==
  ASSUME IInv, AnswerInv, [Next]_vars, NEW s \in Sessions
  PROVE  AnsweredInv(s)'
<1> SUFFICES ASSUME peer'[s] = "open" PROVE AnsweredInv(s)'
  BY DEF AnsweredInv
<1> DEFINE Logged(n) == <<s, n>> \in Members(log[RoomOf[s]])
<1>1. CASE peer[s] # "open"
  <2>1. program'[s] = <<>> /\ ~Pending(s)'
    BY <1>1, OpenedByConnect DEF Pending, Untouched
  <2>2. 1 .. Len(program'[s]) = {}
    BY <2>1
  <2> QED
    BY <2>1, <2>2 DEF AnsweredInv
<1>2. CASE peer[s] = "open"
  <2>1. /\ data[s].event <= Len(program[s]) /\ data[s].event \in Nat
        /\ Pending(s) => data[s].event > 0
        /\ \A n \in 1 .. Len(program[s]) :
             Logged(n) <=> /\ Answerable(s, n)
                           /\ n <= data[s].event
                           /\ Pending(s) => n # data[s].event
    BY <1>2 DEF AnswerInv, OpenInv, AnsweredInv, SentInv, IInv, TypeOK, Unwritten, PacketIds
  <2>2. TypeOK /\ Framing /\ SentInv(s)
    BY DEF IInv, AnswerInv, OpenInv
  <2>3. /\ Len(program[s]) \in Nat /\ Len(program'[s]) \in Nat
        /\ \A n \in 1 .. Len(program[s]) : Answerable(s, n)' <=> Answerable(s, n)
    BY <2>2, PacketsStay
  <2>4. ASSUME NEW n \in 1 .. Len(program'[s]), Logged(n) PROVE n \in 1 .. Len(program[s])
    <3>1. n <= data[s].event
      BY <2>4, RepliesAreRead
    <3> QED
      BY <2>1, <2>3, <3>1
  <2>5. CASE ReadHeader(s)
    <3>1. data'[s].event = data[s].event + 1 /\ program' = program /\ log' = log
      BY <1>2, <2>2, <2>5, SentStepReadHeader DEF ReadHeader, clientVars
    <3>2. ~Pending(s) /\ Pending(s)'
      BY <2>2, <2>5 DEF Pending, ReadHeader, IoAt, TypeOK
    <3>3. \A n \in Nat : n <= data[s].event <=> n <= data[s].event + 1 /\ n # data[s].event + 1
      BY <2>1
    <3>4. \A n \in 1 .. Len(program[s]) : n \in Nat
      OBVIOUS
    <3>5. data[s].event + 1 > 0
      BY <2>1
    <3>6. \A n \in 1 .. Len(program'[s]) : Answerable(s, n)' <=> Answerable(s, n)
      BY <2>3, <3>1
    <3>7. \A n \in 1 .. Len(program'[s]) :
            <<s, n>> \in Members(log'[RoomOf[s]]) <=>
              /\ Answerable(s, n)'
              /\ n <= data'[s].event
              /\ Pending(s)' => n # data'[s].event
      BY <2>1, <3>1, <3>2, <3>3, <3>4, <3>6
    <3> QED
      BY <3>1, <3>5, <3>7 DEF AnsweredInv
  <2>6. CASE PassTaskBroadcast /\ io.session = s
    <3>1. data' = data /\ program' = program /\ ~Pending(s)' /\ Pending(s)
      BY <2>6 DEF PassTaskBroadcast, readVars, clientVars, Pending, IoAt, IInv, TypeOK, IoStates, Entry, HandlerInv
    <3>2. \A n : <<s, n>> \in Members(log'[RoomOf[s]]) <=> Logged(n) \/ n = data[s].event
      BY <2>6, LogStep
    <3>3. Answerable(s, data[s].event)
      BY <1>2, <2>6 DEF PassTaskBroadcast, IoAt, AnswerInv, FlightInv, NoOutcome
    <3>4. \A n \in 1 .. Len(program'[s]) : Answerable(s, n)' <=> Answerable(s, n)
      BY <2>3, <3>1
    <3>5. \A n \in 1 .. Len(program'[s]) :
            <<s, n>> \in Members(log'[RoomOf[s]]) <=> Answerable(s, n)' /\ n <= data'[s].event
      BY <2>1, <3>1, <3>2, <3>3, <3>4
    <3> QED
      BY <3>1, <3>5 DEF AnsweredInv
  <2>7. CASE PassTaskNothing /\ io.session = s
    <3>1. data' = data /\ program' = program /\ log' = log /\ ~Pending(s)' /\ Pending(s)
      BY <2>7 DEF PassTaskNothing, IoGoto, readVars, clientVars, Pending, IoAt, IInv, TypeOK, IoStates, Entry, HandlerInv
    <3>2. ~Answerable(s, data[s].event)
      BY <1>2, <2>7 DEF PassTaskNothing, NothingToBroadcast, IoAt, AnswerInv, FlightInv, NoOutcome
    <3>3. \A n \in 1 .. Len(program'[s]) : Answerable(s, n)' <=> Answerable(s, n)
      BY <2>3, <3>1
    <3>4. \A n \in 1 .. Len(program'[s]) :
            <<s, n>> \in Members(log'[RoomOf[s]]) <=> Answerable(s, n)' /\ n <= data'[s].event
      BY <2>1, <3>1, <3>2, <3>3
    <3> QED
      BY <3>1, <3>4 DEF AnsweredInv
  <2>8. CASE ~ReadHeader(s) /\ ~((PassTaskBroadcast \/ PassTaskNothing) /\ io.session = s)
    <3>1. Pending(s)' <=> Pending(s)
      BY <1>2, <2>8, PendingStep DEF ReadBodyFails
    <3>2. \A n : <<s, n>> \in Members(log'[RoomOf[s]]) <=> Logged(n)
      BY <2>8, LogStep
    <3>3. data'[s] = data[s]
      <4>1. (\E m \in Messages : Send(s, m)) => data' = data
        BY DEF Send
      <4>2. ReadBody(s) => data' = data
        BY DEF ReadBody
      <4> QED
        BY <2>2, <2>8, <4>1, <4>2, SentFrame
    <3>4. ASSUME NEW n \in 1 .. Len(program'[s])
          PROVE  Logged(n) <=> /\ Answerable(s, n)'
                               /\ n <= data[s].event
                               /\ Pending(s) => n # data[s].event
      <4>1. CASE n \in 1 .. Len(program[s])
        BY <2>1, <2>3, <4>1
      <4>2. CASE n \notin 1 .. Len(program[s])
        <5>1. ~(n <= data[s].event)
          BY <2>1, <2>3, <4>2
        <5> QED
          BY <2>4, <4>2, <5>1
      <4> QED
        BY <4>1, <4>2
    <3> HIDE DEF Logged
    <3> QED
      BY <2>1, <3>1, <3>2, <3>3, <3>4 DEF AnsweredInv
  <2> QED
    BY <2>5, <2>6, <2>7, <2>8
<1> QED
  BY <1>1, <1>2

\* A reply that is broadcast is to a later packet of its session than those before.
LEMMA IncreasingStep ==
  ASSUME IInv, AnswerInv, [Next]_vars
  PROVE  IncreasingInv'
<1>1. IncreasingInv
  BY DEF AnswerInv
<1>2. CASE log' = log
  BY <1>1, <1>2 DEF IncreasingInv
<1>3. CASE PassTaskBroadcast
  <2>1. io.session \in Sessions /\ RoomOf[io.session] \in Rooms
    BY <1>3, RoomAssumption DEF PassTaskBroadcast, IoAt, IInv, Entry, HandlerInv
  <2>2. PICK q \in Seq(Replies) : q = log[RoomOf[io.session]]
    BY <2>1 DEF IInv, TypeOK
  <2>3. PICK x : x = future.reply
    OBVIOUS
  <2>4. x[1] = io.session /\ x[2] = data[io.session].event
    BY <1>3, <2>3 DEF PassTaskBroadcast, IoAt, IInv, TaskInv, FutureInv
  <2>5. ASSUME NEW i \in DOMAIN q, q[i][1] = x[1] PROVE q[i][2] < x[2]
    BY <1>3, <2>1, <2>2, <2>4, <2>5
    DEF PassTaskBroadcast, IoAt, IInv, TaskInv, FutureInv, Unanswered
  <2>6. /\ log'[RoomOf[io.session]] = Append(q, x)
        /\ \A r \in Rooms : r # RoomOf[io.session] => log'[r] = log[r]
    BY <1>3, <2>1, <2>2, <2>3 DEF PassTaskBroadcast, IInv, TypeOK
  <2>7. /\ DOMAIN Append(q, x) = 1 .. Len(q) + 1 /\ DOMAIN q = 1 .. Len(q) /\ Len(q) \in Nat
        /\ \A i \in 1 .. Len(q) : Append(q, x)[i] = q[i]
        /\ Append(q, x)[Len(q) + 1] = x
    BY <2>2
  <2>8. \A i, j \in DOMAIN Append(q, x) :
          i < j => i \in DOMAIN q /\ (j \in DOMAIN q \/ j = Len(q) + 1)
    <3>1. \A n \in Nat : \A i, j \in 1 .. n + 1 : i < j => i \in 1 .. n /\ (j \in 1 .. n \/ j = n + 1)
      OBVIOUS
    <3> QED
      BY <2>7, <3>1
  <2>9. \A i, j \in DOMAIN q : i < j /\ q[i][1] = q[j][1] => q[i][2] < q[j][2]
    BY <1>1, <2>1, <2>2 DEF IncreasingInv
  <2>10. ASSUME NEW i \in DOMAIN Append(q, x), NEW j \in DOMAIN Append(q, x),
                i < j, Append(q, x)[i][1] = Append(q, x)[j][1]
         PROVE  Append(q, x)[i][2] < Append(q, x)[j][2]
    <3>1. i \in DOMAIN q /\ Append(q, x)[i] = q[i]
      BY <2>7, <2>8, <2>10
    <3>2. CASE j \in DOMAIN q
      <4>1. Append(q, x)[j] = q[j]
        BY <2>7, <3>2
      <4> QED
        BY <2>9, <2>10, <3>1, <3>2, <4>1
    <3>3. CASE j = Len(q) + 1
      <4>1. Append(q, x)[j] = x
        BY <2>7, <3>3
      <4> QED
        BY <2>5, <2>10, <3>1, <4>1
    <3> QED
      BY <2>8, <2>10, <3>2, <3>3
  <2> QED
    BY <1>1, <2>6, <2>10 DEF IncreasingInv
<1> QED
  BY <1>2, <1>3, WhoChanges

\* Only handle_read_body makes the io thread wait, and until PassTask goes on nothing
\* changes in the session it waits for but that its client sends.
LEMMA WaitStep ==
  ASSUME IInv, [Next]_vars, io'.at = "wait"
  PROVE  \/ ReadBody(io'.session) /\ io'.session \in Sessions
         \/ io' = io /\ io.session \in Sessions /\ data' = data
<1> USE DEF IoAt, IoGoto, IoReturn
<1>1. io \in IoStates /\ (io.at = "wait" => io.session \in Sessions)
  BY DEF IInv, TypeOK, Entry, HandlerInv
<1>2. ASSUME NEW s \in Sessions, ReadBody(s) PROVE ReadBody(io'.session) /\ io'.session \in Sessions
  BY <1>2 DEF ReadBody
<1>3. CASE io' = io /\ data' = data
  BY <1>1, <1>3
<1>4. ASSUME NEW s \in Sessions, Client(s) \/ ReadHeader(s) \/ ReadBodyFails(s)
      PROVE  io' = io /\ data' = data
  BY <1>1, <1>4 DEF Client, Connect, Send, Disconnect, ReadHeader, ReadBodyFails, readVars
<1>5. ASSUME NEW r \in Rooms, AcceptFails(r) \/ AcceptConnection(r) PROVE io' = io /\ data' = data
  BY <1>1, <1>5 DEF AcceptFails, AcceptConnection, readVars
<1>6. ~(AcceptLock \/ AcceptJoin \/ PassTaskNothing \/ BroadcastEnd \/ Rearm)
  BY <1>1 DEF AcceptLock, AcceptJoin, PassTaskNothing, BroadcastEnd, Rearm, IoStates
<1>7. ~(PassTaskBroadcast \/ BroadcastSend)
  BY <1>1 DEF PassTaskBroadcast, BroadcastSend, IoStates
<1>8. ASSUME NEW w \in Workers, Worker(w) PROVE io' = io /\ data' = data
  BY <1>8 DEF Worker, TakeTask, ParseLock, ParseDone, readVars
<1>9. CASE UNCHANGED vars
  BY <1>3, <1>9 DEF vars, readVars
<1> HIDE DEF IoAt, IoGoto, IoReturn
<1> QED
  BY <1>2, <1>3, <1>4, <1>5, <1>6, <1>7, <1>8, <1>9 DEF Next, IoHandler

\* Parse of a whole packet makes an answer exactly if the packet is to be answered.
LEMMA ParseOfWhole ==
  ASSUME IInv, NEW p \in Packets, SentInv(p.session), peer[p.session] = "open",
         data[p.session].event > 0, Whole(p), NEW outcome \in ParseResults(p)
  PROVE  outcome.kind = "packet" <=> Answerable(p.session, data[p.session].event)
<1> DEFINE s == p.session
           n == data[s].event
<1>1. s \in Sessions /\ n \in 1 .. Len(program[s]) /\ program[s][n] \in Messages
  BY DEF Packets, SentInv, IInv, TypeOK, Unwritten, PacketIds
<1>2. PICK m \in Messages : m = program[s][n]
  BY <1>1
<1>3. p.event = n /\ p.len = BodyLen[m] /\ p.body = Body(n, BodyLen[m])
  BY <1>2 DEF Whole, SentInv
<1>4. p.event # Unwritten /\ (IsTester(p) <=> m \in Testers)
  BY <1>1, <1>2, <1>3 DEF Unwritten, IsTester
<1>5. BodyLen[m] \in Nat /\ (m \in Parsable => BodyLen[m] > 0)
  BY RoomAssumption
<1>6. BodyLen[m] > 0 => Body(n, BodyLen[m]) # <<>> /\ Body(n, BodyLen[m])[1] = <<"body", n>>
  BY <1>5 DEF Body
<1>7. BodyLen[m] = 0 => Body(n, BodyLen[m]) = <<>>
  BY DEF Body
<1>8. CarriesValue(p) <=> m \in Parsable
  <2>1. CASE BodyLen[m] > 0
    <3>1. p.body # <<>> /\ p.body[1][2] = n
      BY <1>3, <1>6, <2>1
    <3> QED
      BY <1>2, <1>3, <3>1 DEF CarriesValue
  <2>2. CASE BodyLen[m] = 0
    BY <1>3, <1>5, <1>7, <2>2 DEF CarriesValue
  <2> QED
    BY <1>5, <2>1, <2>2
<1>9. Answerable(s, n) <=> m \in Testers /\ m \in Parsable
  BY <1>2 DEF Answerable
<1>10. Throws.kind # "packet" /\ NoReply.kind # "packet" /\ ReplyTo(p).kind = "packet"
  BY DEF Throws, NoReply, ReplyTo
<1> HIDE DEF s, n
<1>11. outcome = IF m \in Testers THEN IF m \in Parsable THEN ReplyTo(p) ELSE Throws ELSE NoReply
  BY <1>4, <1>8 DEF ParseResults
<1>12. outcome.kind = "packet" <=> Answerable(s, n)
  BY <1>9, <1>10, <1>11
<1> QED
  BY <1>12 DEF s, n

\* Every step keeps the packet in flight whole, and its outcome the one that is due.
LEMMA FlightStep ==
  ASSUME IInv, AnswerInv, [Next]_vars
  PROVE  FlightInv'
<1> SUFFICES ASSUME io'.at = "wait", peer'[io'.session] = "open" PROVE FlightInv'
  BY DEF FlightInv
<1>1. TypeOK /\ TaskInv /\ FlightInv
  BY DEF IInv, AnswerInv
<1>2. ASSUME ReadBody(io'.session), io'.session \in Sessions PROVE FlightInv'
  <2>1. PICK s \in Sessions : s = io'.session /\ ReadBody(s)
    BY <1>2
  <2>2. queue'[1] = [session |-> s, event |-> data[s].event, len |-> data[s].len,
                     body |-> Body(data[s].event, data[s].len)]
    BY <2>1, BodyReadIsInFlight DEF IInv
  <2>3. data' = data /\ worker' = worker /\ future' = future /\ IoAt("idle")
    BY <2>1 DEF ReadBody
  <2>4. Whole(queue[1])'
    BY <2>2, <2>3 DEF Whole
  <2>5. future = NoOutcome /\ \A w \in Workers : worker[w].at = "idle"
    BY <1>1, <2>3, NoTaskUnlessAwaited DEF TaskInv, FutureInv, IoAt
  <2> QED
    BY <2>3, <2>4, <2>5 DEF FlightInv
<1>3. ASSUME io' = io, io.session \in Sessions, data' = data PROVE FlightInv'
  <2>1. PICK s \in Sessions : s = io.session
    BY <1>3
  <2>2. peer[s] = "open" /\ io.at = "wait"
    BY <1>3, <2>1, OpenedByConnect
  <2>3. \A p : Whole(p)' <=> Whole(p)
    BY <1>3 DEF Whole
  <2>4. SentInv(s) /\ data[s].event > 0 /\ data[s].event \in 1 .. Len(program[s])
    <3>1. Pending(s)
      BY <2>1, <2>2 DEF Pending
    <3>2. SentInv(s) /\ AnsweredInv(s)
      BY DEF AnswerInv, OpenInv
    <3> QED
      BY <1>1, <2>2, <3>1, <3>2 DEF SentInv, AnsweredInv, TypeOK, Unwritten, PacketIds
  <2>5. Answerable(s, data[s].event)' <=> Answerable(s, data[s].event)
    <3>1. \A n \in 1 .. Len(program[s]) : Answerable(s, n)' <=> Answerable(s, n)
      BY <1>1, PacketsStay
    <3> QED
      BY <1>3, <2>4, <3>1
  <2>6. /\ queue # <<>> => Whole(queue[1])
        /\ \A w \in Workers : worker[w].at # "idle" => Whole(worker[w].packet)
        /\ future # NoOutcome => (future.kind = "packet" <=> Answerable(s, data[s].event))
    BY <1>1, <2>1, <2>2 DEF FlightInv
  <2> DEFINE Kept ==
               /\ queue' # <<>> => Whole(queue'[1])
               /\ \A w \in Workers : worker'[w].at # "idle" => Whole(worker'[w].packet)
               /\ future' # NoOutcome =>
                    (future'.kind = "packet" <=> Answerable(s, data[s].event))
  <2>7. SUFFICES Kept
    BY <1>3, <2>1, <2>3, <2>5 DEF FlightInv, Whole
  <2>8. CASE UNCHANGED <<queue, worker, future>>
    BY <2>6, <2>8
  <2>9. ASSUME NEW w \in Workers, TakeTask(w) PROVE Kept
    <3>1. queue # <<>> /\ Len(queue) = 1 /\ future' = future
      BY <1>1, <2>9 DEF TakeTask, TaskInv, QueueInv, poolVars
    <3>2. queue \in Seq(Packets)
      BY <1>1 DEF TypeOK
    <3>3. Head(queue) = queue[1] /\ Tail(queue) = <<>>
      BY <3>1, <3>2, SequenceOfOne
    <3>4. queue' = <<>> /\ worker'[w].packet = queue[1] /\ \A v \in Workers : v # w => worker'[v] = worker[v]
      BY <1>1, <2>9, <3>3 DEF TakeTask, TypeOK
    <3> QED
      BY <2>6, <3>1, <3>4
  <2>10. ASSUME NEW w \in Workers, ParseLock(w) PROVE Kept
    <3>1. /\ queue' = queue /\ future' = future /\ worker[w].at = "lock"
          /\ worker'[w].packet = worker[w].packet
          /\ \A v \in Workers : v # w => worker'[v] = worker[v]
      BY <1>1, <2>10 DEF ParseLock, TypeOK
    <3> QED
      BY <2>6, <3>1
  <2>11. ASSUME NEW w \in Workers, ParseDone(w) PROVE Kept
    <3>1. PICK p \in Packets : p = worker[w].packet
      BY <1>1, <2>11 DEF ParseDone, TaskInv, WorkerInv
    <3>2. p.session = s /\ Whole(p)
      BY <1>1, <2>1, <2>6, <2>11, <3>1 DEF ParseDone, TaskInv, WorkerInv, InFlight
    <3>3. future' \in ParseResults(p)
      BY <2>11, <3>1 DEF ParseDone
    <3>4. future'.kind = "packet" <=> Answerable(s, data[s].event)
      BY <2>2, <2>4, <3>2, <3>3, ParseOfWhole
    <3>5. /\ queue' = queue /\ worker'[w].at = "idle"
          /\ \A v \in Workers : v # w => worker'[v] = worker[v]
      BY <1>1, <2>11 DEF ParseDone, TypeOK
    <3> QED
      BY <2>6, <3>4, <3>5
  <2>12. \/ UNCHANGED <<queue, worker, future>>
         \/ \E w \in Workers : TakeTask(w) \/ ParseLock(w) \/ ParseDone(w)
    <3> USE DEF poolVars, IoAt, IoGoto, IoReturn
    <3>1. io \in IoStates /\ io' = io /\ io.at = "wait"
      BY <1>1, <1>3, <2>2 DEF TypeOK
    <3>2. ASSUME NEW t \in Sessions, Client(t) \/ ReadHeader(t) \/ ReadBodyFails(t)
          PROVE  UNCHANGED <<queue, worker, future>>
      BY <3>2 DEF Client, Connect, Send, Disconnect, ReadHeader, ReadBodyFails
    <3>3. ASSUME NEW t \in Sessions, ReadBody(t) PROVE FALSE
      BY <3>1, <3>3 DEF ReadBody
    <3>4. ASSUME NEW r \in Rooms, AcceptFails(r) \/ AcceptConnection(r) PROVE FALSE
      BY <3>1, <3>4 DEF AcceptFails, AcceptConnection
    <3>5. CASE AcceptLock \/ AcceptJoin \/ PassTaskBroadcast \/ PassTaskNothing \/ BroadcastSend
               \/ BroadcastEnd \/ Rearm
      BY <3>1, <3>5 DEF AcceptLock, AcceptJoin, PassTaskBroadcast, PassTaskNothing, BroadcastSend,
         BroadcastEnd, Rearm, IoStates
    <3>6. CASE UNCHANGED vars
      BY <3>6 DEF vars
    <3> HIDE DEF poolVars, IoAt, IoGoto, IoReturn
    <3> QED
      BY <3>2, <3>3, <3>4, <3>5, <3>6 DEF Next, IoHandler, Worker
  <2> QED
    BY <2>8, <2>9, <2>10, <2>11, <2>12
<1> QED
  BY <1>2, <1>3, WaitStep

\* Before the server is started nothing has been sent, parsed or answered.
LEMMA AnswerInit == Init => AnswerInv
<1> SUFFICES ASSUME Init PROVE AnswerInv
  OBVIOUS
<1>1. \A s \in Sessions : OpenInv(s)
  BY DEF Init, OpenInv, SentInv, AnsweredInv
<1>2. IncreasingInv /\ FlightInv
  BY DEF Init, IncreasingInv, FlightInv
<1> QED
  BY <1>1, <1>2 DEF AnswerInv

\* Every step keeps the second invariant, where the first holds.
LEMMA AnswerStep == IInv /\ AnswerInv /\ [Next]_vars => AnswerInv'
<1> SUFFICES ASSUME IInv, AnswerInv, [Next]_vars PROVE AnswerInv'
  OBVIOUS
<1>1. ASSUME NEW s \in Sessions PROVE OpenInv(s)'
  BY InStepStep, SentStep, AnsweredStep DEF OpenInv
<1> QED
  BY <1>1, IncreasingStep, FlightStep DEF AnswerInv

\* The packets of a client that stays are answered once each and in the order in which it
\* sent them: when handle_read_body awaits its next header, those that were read and that
\* Parse has an answer to have been answered, and no others.
THEOREM AnsweredOnce == Spec => []AnsweredOnceInOrder
<1>1. IInv /\ AnswerInv => AnsweredOnceInOrder
  <2> SUFFICES ASSUME IInv, AnswerInv, NEW s \in Sessions
               PROVE  LET answers == log[RoomOf[s]]
                          own == {i \in DOMAIN answers : answers[i][1] = s}
                      IN /\ \A i, j \in own : i < j => answers[i][2] < answers[j][2]
                         /\ rd[s] = "header" /\ peer[s] = "open" =>
                              {answers[i][2] : i \in own}
                                = {n \in DOMAIN program[s] : Answerable(s, n) /\ ~Unread(s, n)}
    BY DEF AnsweredOnceInOrder
  <2> DEFINE answers == log[RoomOf[s]]
             own == {i \in DOMAIN answers : answers[i][1] = s}
  <2>1. RoomOf[s] \in Rooms /\ answers \in Seq(Replies)
    BY RoomAssumption DEF IInv, TypeOK
  <2>2. \A i, j \in own : i < j => answers[i][2] < answers[j][2]
    BY <2>1 DEF AnswerInv, IncreasingInv
  <2>3. ASSUME rd[s] = "header", peer[s] = "open"
        PROVE  {answers[i][2] : i \in own}
                 = {n \in DOMAIN program[s] : Answerable(s, n) /\ ~Unread(s, n)}
    <3>1. \A n : n \in {answers[i][2] : i \in own} <=> <<s, n>> \in Members(answers)
      <4>1. ASSUME NEW i \in DOMAIN answers, answers[i][1] = s PROVE answers[i] = <<s, answers[i][2]>>
        <5>1. answers[i] \in Replies
          BY <2>1, ElementOfSeq, LenProperties
        <5> QED
          BY <4>1, <5>1 DEF Replies
      <4> HIDE DEF answers
      <4> QED
        BY <4>1 DEF Members
    <3>2. /\ program[s] \in Seq(Messages) /\ Len(program[s]) \in Nat
          /\ DOMAIN program[s] = 1 .. Len(program[s])
          /\ data[s].event \in Nat /\ data[s].event <= Len(program[s])
      BY <2>3 DEF IInv, TypeOK, Unwritten, PacketIds, AnswerInv, OpenInv, SentInv
    <3>3. ~Pending(s)
      BY <2>3 DEF Pending, IInv, Entry, HandlerInv
    <3>4. ASSUME NEW n \in DOMAIN program[s]
          PROVE  <<s, n>> \in Members(answers) <=> Answerable(s, n) /\ ~Unread(s, n)
      <4>1. <<s, n>> \in Members(answers) <=> Answerable(s, n) /\ n <= data[s].event
        BY <2>3, <3>2, <3>3 DEF AnswerInv, OpenInv, AnsweredInv
      <4>2. Unread(s, n) <=> n > data[s].event
        BY <2>3, <3>2 DEF AnswerInv, OpenInv, SentInv
      <4> QED
        BY <3>2, <4>1, <4>2
    <3>5. ASSUME NEW n, <<s, n>> \in Members(answers) PROVE n \in DOMAIN program[s]
      <4>1. n \in PacketIds /\ n <= data[s].event
        BY <3>5, RepliesAreRead
      <4> QED
        BY <3>2, <4>1 DEF PacketIds
    <3> QED
      BY <3>1, <3>4, <3>5
  <2> QED
    BY <2>2, <2>3
<1> QED
  BY <1>1, AnswerInit, AnswerStep, RoomInvariance, PTL DEF Spec

-------------------------------------------------------------------------------
(* The refinement *)

\* How far a user has been handed the log.
LEMMA PositionOfUser ==
  ASSUME IInv, NEW r \in Rooms, NEW i \in DOMAIN users[r]
  PROVE  /\ Promise!Position(users[r][i]) = Len(log[r]) - Behind(r, i)
         /\ users[r][i] \in Sessions /\ RoomOf[users[r][i]] = r
<1>1. /\ users[r][i] \in Sessions /\ RoomOf[users[r][i]] = r /\ UserAt(r, i)
      /\ log[r] \in Seq(Replies) /\ Len(log[r]) \in Nat /\ DOMAIN log[r] = 1 .. Len(log[r])
      /\ joinedAt[users[r][i]] \in Nat
  BY DEF IInv, TypeOK, Entry, EntryInv, UsersInv, BroadcastInv
<1>2. PICK j, end : j = joinedAt[users[r][i]] /\ end = Len(log[r]) - Behind(r, i)
  OBVIOUS
<1>3. end \in Int /\ end <= Len(log[r])
  <2>1. Behind(r, i) \in {0, 1}
    BY DEF Behind
  <2> QED
    BY <1>1, <1>2, <2>1
<1>4. j <= end /\ j \in Nat /\ sent[users[r][i]] = SubSeq(log[r], j + 1, end)
  BY <1>1, <1>2 DEF UserAt
<1>5. \A k \in j + 1 .. end : log[r][k] \in Replies
  BY <1>1, <1>3, <1>4
<1>6. Len(sent[users[r][i]]) = end - j
  <2>1. Len(SubSeq(log[r], j + 1, end)) = IF j + 1 <= end THEN end - (j + 1) + 1 ELSE 0
    BY <1>3, <1>4, <1>5, SubSeqProperties
  <2> QED
    BY <1>3, <1>4, <2>1
<1> QED
  BY <1>1, <1>2, <1>3, <1>4, <1>6 DEF Promise!Position

\* push_back in handle_accept is a joining.
LEMMA JoinImplemented ==
  ASSUME IInv, AcceptJoin
  PROVE  Promise!Next
<1>1. io.session \in Sessions /\ ~Joined(io.session)
  BY DEF IInv, Entry, HandlerInv, AcceptJoin, IoAt
<1>2. Promise!Join(io.session)
  BY <1>1 DEF AcceptJoin, WithUser, Promise!Join, Promise!In, Joined
<1> QED
  BY <1>1, <1>2 DEF Promise!Next

\* PassTask broadcasts what is in no log yet, when nobody is behind.
LEMMA BroadcastImplemented ==
  ASSUME IInv, PassTaskBroadcast
  PROVE  Promise!Next
<1> PICK r, x : r = RoomOf[io.session] /\ x = future.reply
  OBVIOUS
<1>1. io.session \in Sessions /\ r \in Rooms /\ x \in Replies
  BY RoomAssumption DEF IInv, TypeOK, Outcomes, Entry, HandlerInv, PassTaskBroadcast, IoAt
<1>2. x = <<io.session, data[io.session].event>> /\ Unanswered(io.session)
  BY DEF IInv, TaskInv, FutureInv, PassTaskBroadcast, IoAt
<1>3. ~Promise!In(x, log[r])
  <2> SUFFICES ASSUME NEW i \in DOMAIN log[r], log[r][i] = x PROVE FALSE
    BY DEF Promise!In
  <2>1. x[2] < data[io.session].event
    BY <1>2 DEF Unanswered
  <2>2. data[io.session].event \in Nat
    <3>1. TypeOK
      BY DEF IInv
    <3>2. data[io.session] \in [event : {Unwritten} \cup PacketIds, len : Lengths]
      BY <1>1, <3>1 DEF TypeOK
    <3> QED
      BY <3>2 DEF Unwritten, PacketIds
  <2> QED
    BY <1>2, <2>1, <2>2
<1>4. \A i \in DOMAIN users[r] : Promise!Position(users[r][i]) = Len(log[r])
  <2>1. ASSUME NEW i \in DOMAIN users[r] PROVE Promise!Position(users[r][i]) = Len(log[r])
    <3>1. Behind(r, i) = 0
      BY DEF Behind, PassTaskBroadcast, IoAt
    <3>2. Len(log[r]) - 0 = Len(log[r])
      BY <1>1 DEF IInv, TypeOK
    <3> QED
      BY <1>1, <3>1, <3>2, PositionOfUser
  <2> QED
    BY <2>1
<1>5. log' = [log EXCEPT ![r] = Append(log[r], x)] /\ UNCHANGED <<users, joinedAt, sent>>
  BY DEF PassTaskBroadcast, roomVars
<1>6. Promise!Broadcast(r, x)
  BY <1>3, <1>4, <1>5 DEF Promise!Broadcast
<1> QED
  BY <1>1, <1>6 DEF Promise!Next

\* A turn of the loop hands its user the one reply that it has still to get.
LEMMA DeliverImplemented ==
  ASSUME IInv, BroadcastSend
  PROVE  Promise!Next
<1> PICK r, i, t : r = RoomOf[io.session] /\ i = io.next /\ t = users[r][i]
  OBVIOUS
<1>1. r \in Rooms /\ i \in DOMAIN users[r] /\ io.at = "broadcast"
  BY RoomAssumption DEF IInv, Entry, HandlerInv, BroadcastSend, BroadcastTo, IoAt
<1>2. users[r] \in Seq(Sessions) /\ i \in 1 .. Len(users[r]) /\ i \in Nat
      /\ log[r] \in Seq(Replies) /\ Len(log[r]) \in Nat
  <2>1. TypeOK
    BY DEF IInv
  <2>2. users[r] \in Seq(Sessions) /\ log[r] \in Seq(Replies)
    BY <1>1, <2>1 DEF TypeOK
  <2> QED
    BY <1>1, <2>2
<1>3. Behind(r, i) = 1
  BY <1>1, <1>2 DEF Behind, IoAt
<1>4. t \in Sessions /\ RoomOf[t] = r /\ Promise!Position(t) = Len(log[r]) - 1
  BY <1>1, <1>3, PositionOfUser
<1>5. Promise!In(t, users[RoomOf[t]])
  BY <1>1, <1>4 DEF Promise!In
<1>6. Len(log[r]) - 1 < Len(log[r]) /\ Len(log[r]) - 1 + 1 = Len(log[r])
  BY <1>2
<1>7. log[r][Len(log[r])] = future.reply
  BY <1>1 DEF IInv, BroadcastInv, LastInv
<1>8. sent' = [sent EXCEPT ![t] = Append(sent[t], future.reply)] /\ UNCHANGED <<users, log, joinedAt>>
  BY <1>2 DEF BroadcastSend, Recipients, BroadcastTo, roomVars
<1>9. Promise!Deliver(t)
  BY <1>4, <1>5, <1>6, <1>7, <1>8 DEF Promise!Deliver
<1> QED
  BY <1>4, <1>9 DEF Promise!Next

\* All steps but a join, a parsed packet and a send are invisible in OrderedBroadcast.
LEMMA OtherStepsStutter ==
  ASSUME [Next]_vars, ~AcceptJoin, ~PassTaskBroadcast, ~BroadcastSend
  PROVE  UNCHANGED Promise!broadcastVars
  BY WhoChanges DEF Promise!broadcastVars

\* Sockets, threads, mutexes, tasks and handlers hidden, the rooms do only what
\* OrderedBroadcast allows: users join once and stay, no reply enters a log twice, and
\* none is broadcast before the one before it was handed to everybody.
THEOREM RoomsImplementOrderedBroadcast == Spec => ImplementsOrderedBroadcast
<1>1. Init => Promise!Init
  BY DEF Init, Promise!Init
<1>2. IInv /\ [Next]_vars => [Promise!Next]_(Promise!broadcastVars)
  BY JoinImplemented, BroadcastImplemented, DeliverImplemented, OtherStepsStutter
<1> QED
  BY <1>1, <1>2, RoomInvariance, PTL DEF Spec, ImplementsOrderedBroadcast, Promise!Spec

===============================================================================
