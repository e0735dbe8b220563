--------------------------- MODULE DummyClientProofs ---------------------------
(***************************************************************************)
(* Proofs about the two programs that DummyClient's main() is, for any     *)
(* number of packets sent and of replies: what reaches the server is one   *)
(* run of the packets, and the io thread outlives the connection that it   *)
(* has seen begin. The login build is proved in LoginProofs; the theorems  *)
(* about BuildSpec take its invariant over.                                *)
(*                                                                         *)
(* The inductive invariant ClientInv follows the one connection: before it *)
(* is up nothing has been written and behind its end nothing is, so that   *)
(* while it lasts the packets that the server received, the outstanding    *)
(* writes and the packet in hand are consecutive (RunInv); and an io       *)
(* thread that has handled the connect keeps a read outstanding until the  *)
(* connection has ended (ConnectionInv).                                   *)
(***************************************************************************)
EXTENDS DummyClientMain, LoginProofs

-------------------------------------------------------------------------------
(* The inductive invariant *)

\* The socket and the async_connect go together, and a read is outstanding from the
\* connect's handler to the end of the connection.
ConnectionInv ==
  /\ main = "create" <=> conn = "none"
  /\ conn = "none" <=> connectOp = "none"
  /\ conn = "connecting" <=> connectOp = "pending"
  /\ conn = "up" => connectOp \in {"ok", "handled"}
  /\ t1 = "new" => connectOp # "handled"
  /\ t1 = "run" /\ connectOp = "handled" => rd # "none" \/ conn \in {"broken", "closed"}
  /\ IoOutlivesConnection

\* The last packet that was given to the socket.
LastSent == IF main = "drop" THEN next ELSE next - 1

\* The packets of a connection that is up end with the last one sent: those that the
\* server has, then those that are outstanding.
RunInv ==
  /\ main = "drop" => ~LoopDone
  /\ conn # "up" => writes = <<>>
  /\ conn \in {"none", "connecting"} => server = <<>>
  /\ conn = "up" =>
       /\ \A i \in DOMAIN writes : writes[i].n = LastSent - (Len(writes) - i)
       /\ \A i \in DOMAIN server : server[i].n = (LastSent - Len(writes)) - (Len(server) - i)
  /\ PacketsFormOneRun

ClientInv == TypeOK /\ ConnectionInv /\ RunInv

WriteOp == [n : 1 .. MaxSends, freed : BOOLEAN]

Taken == [n : 1 .. MaxSends, bytes : 1 .. MaxSends \cup {Junk}, freed : BOOLEAN]

-------------------------------------------------------------------------------
(* Every step keeps the invariant *)

\* The socket, the connect and the reads.
LEMMA ConnectionStep ==
  ASSUME TypeOK, ConnectionInv, [Next]_vars
  PROVE  ConnectionInv'
<1> USE DEF mainVars, connVars, readVars, writeVars, histVars, Running, MainAt, IoRuns, TypeOK, ConnectionInv, IoOutlivesConnection
<1>1. CASE CreateClient
  BY <1>1 DEF CreateClient
<1>2. CASE Send
  BY <1>2 DEF Send
<1>3. CASE DropPacket
  BY <1>3 DEF DropPacket
<1>4. CASE AllSent
  BY <1>4 DEF AllSent
<1>5. CASE Join
  BY <1>5 DEF Join
<1>6. CASE TypeEnd
  BY <1>6 DEF TypeEnd, Abort
<1>7. CASE TypeWord
  BY <1>7 DEF TypeWord
<1>8. CASE Run
  BY <1>8 DEF Run
<1>9. CASE RunReturns
  BY <1>9 DEF RunReturns, NoWork
<1>10. CASE HandleConnect
  BY <1>10 DEF HandleConnect, FirstRead
<1>11. CASE HandleConnectError
  BY <1>11 DEF HandleConnectError
<1>12. CASE HandleSend
  BY <1>12 DEF HandleSend
<1>13. CASE ReadHeader
  BY <1>13 DEF ReadHeader
<1>14. CASE ReadBody
  BY <1>14 DEF ReadBody
<1>15. CASE ReadBodyFails
  BY <1>15 DEF ReadBodyFails, Ended, ReadAfterError
<1>16. CASE ConnectEnds
  BY <1>16 DEF ConnectEnds
<1>17. CASE TakeWrite
  BY <1>17 DEF TakeWrite
<1>18. CASE Reply
  BY <1>18 DEF Reply
<1>19. CASE Break
  BY <1>19 DEF Break
<1>20. CASE UNCHANGED vars
  BY <1>20 DEF vars
<1> QED
  BY <1>1, <1>2, <1>3, <1>4, <1>5, <1>6, <1>7, <1>8, <1>9, <1>10,
     <1>11, <1>12, <1>13, <1>14, <1>15, <1>16, <1>17, <1>18, <1>19, <1>20
  DEF Next, Main, Console, Io, Handlers, Network

\* What TypeOK says, by the lengths and places of the sequences.
LEMMA ClientTypes ==
  ASSUME TypeOK
  PROVE  /\ writes \in Seq(WriteOp) /\ server \in Seq(Taken) /\ sent \in Seq(BOOLEAN)
         /\ inbox \in Seq({"header", "body"}) /\ MaxSends \in Nat /\ next \in Nat
         /\ DOMAIN writes = 1 .. Len(writes) /\ Len(writes) \in Nat
         /\ DOMAIN server = 1 .. Len(server) /\ Len(server) \in Nat
         /\ \A i \in DOMAIN writes : writes[i] \in WriteOp
<1>1. writes \in Seq(WriteOp) /\ server \in Seq(Taken) /\ sent \in Seq(BOOLEAN)
      /\ inbox \in Seq({"header", "body"})
  BY DEF TypeOK, WriteOp, Taken
<1>2. MaxSends \in Nat /\ next \in Nat
  BY ClientAssumption DEF TypeOK, ClientAssumption
<1> QED
  BY <1>1, <1>2, LenProperties, ElementOfSeq

\* The failures of the writes that an end of the connection leaves behind.
LEMMA Failed ==
  ASSUME TypeOK
  PROVE  sent \o [i \in DOMAIN writes |-> FALSE] \in Seq(BOOLEAN)
<1>1. sent \in Seq(BOOLEAN) /\ DOMAIN writes = 1 .. Len(writes) /\ Len(writes) \in Nat
  BY ClientTypes
<1>2. [i \in DOMAIN writes |-> FALSE] \in Seq(BOOLEAN)
  BY <1>1
<1> QED
  BY <1>1, <1>2, ConcatProperties

\* What the end of the loop's body makes of the outstanding writes.
LEMMA FreedWrites ==
  ASSUME TypeOK, DropPacket
  PROVE  /\ writes' \in Seq(WriteOp) /\ Len(writes') = Len(writes)
         /\ DOMAIN writes' = DOMAIN writes
         /\ \A i \in DOMAIN writes : writes'[i].n = writes[i].n
<1>1. DOMAIN writes = 1 .. Len(writes) /\ Len(writes) \in Nat
      /\ \A i \in DOMAIN writes : writes[i] \in WriteOp
  BY ClientTypes
<1>2. writes' = [i \in 1 .. Len(writes) |-> [writes[i] EXCEPT !.freed = TRUE]]
  BY <1>1 DEF DropPacket
<1>3. \A i \in 1 .. Len(writes) :
        [writes[i] EXCEPT !.freed = TRUE] \in WriteOp /\ [writes[i] EXCEPT !.freed = TRUE].n = writes[i].n
  BY <1>1 DEF WriteOp
<1>4. writes' \in Seq(WriteOp) /\ Len(writes') = Len(writes) /\ DOMAIN writes' = 1 .. Len(writes)
  <2>1. \A i \in 1 .. Len(writes) : [writes[i] EXCEPT !.freed = TRUE] \in WriteOp
    BY <1>3
  <2> HIDE DEF WriteOp
  <2> QED
    BY <1>1, <1>2, <2>1
<1> QED
  BY <1>1, <1>2, <1>3, <1>4

\* The network takes the oldest write.
LEMMA OldestTaken ==
  ASSUME TypeOK, TakeWrite
  PROVE  \E x \in Taken :
           /\ server' = Append(server, x)
           /\ x.n = writes[1].n
           /\ (x.bytes = x.n \/ x.freed)
           /\ writes' = Tail(writes) /\ 1 \in DOMAIN writes /\ Len(writes) > 0
<1>1. writes # <<>> /\ writes \in Seq(WriteOp) /\ DOMAIN writes = 1 .. Len(writes) /\ Len(writes) \in Nat
  BY ClientTypes DEF TakeWrite
<1>2. Len(writes) > 0 /\ 1 \in DOMAIN writes /\ Head(writes) = writes[1]
  BY <1>1
<1>3. PICK w : w = writes[1]
  OBVIOUS
<1>4. w \in WriteOp
  BY <1>2, <1>3, ClientTypes
<1>5. PICK y \in {w.n} \cup (IF w.freed THEN {Junk} ELSE {}) :
        server' = Append(server, [n |-> w.n, bytes |-> y, freed |-> w.freed])
  BY <1>2, <1>3 DEF TakeWrite
<1>6. PICK x : x = [n |-> w.n, bytes |-> y, freed |-> w.freed]
  OBVIOUS
<1>7. x \in Taken /\ x.n = w.n /\ (x.bytes = x.n \/ x.freed)
  BY <1>4, <1>5, <1>6 DEF WriteOp, Taken
<1> QED
  BY <1>2, <1>3, <1>5, <1>6, <1>7 DEF TakeWrite

\* The sequence of packets.
LEMMA RunStep ==
  ASSUME TypeOK, ConnectionInv, RunInv, [Next]_vars
  PROVE  RunInv'
<1>a. /\ DOMAIN writes = 1 .. Len(writes) /\ Len(writes) \in Nat
      /\ DOMAIN server = 1 .. Len(server) /\ Len(server) \in Nat
      /\ next \in Nat /\ MaxSends \in Nat /\ writes \in Seq(WriteOp) /\ server \in Seq(Taken)
  BY ClientTypes
<1>b. server' = server /\ PacketsFormOneRun => PacketsFormOneRun'
  BY DEF PacketsFormOneRun
<1> USE DEF mainVars, connVars, readVars, writeVars, histVars, Running, MainAt, IoRuns, RunInv, LastSent, LoopDone
<1>1. CASE CreateClient
  BY <1>1, <1>b DEF CreateClient, ConnectionInv
<1>2. CASE Send
  <2>1. main = "send" /\ main' = "drop" /\ next' = next /\ conn' = conn /\ server' = server
        /\ ~(next > MaxSends)
    BY <1>2 DEF Send
  <2>2. CASE conn # "up"
    BY <1>2, <1>b, <2>1, <2>2 DEF Send
  <2>3. CASE conn = "up"
    <3>1. PICK x, w, k : x = [n |-> next, freed |-> FALSE] /\ w = writes' /\ k = Len(writes)
      OBVIOUS
    <3>2. x \in WriteOp /\ x.n = next
      BY <1>a, <2>1, <3>1 DEF WriteOp, TypeOK
    <3>3. w = Append(writes, x)
      BY <1>2, <2>3, <3>1 DEF Send
    <3>4. Len(w) = k + 1 /\ DOMAIN w = 1 .. k + 1 /\ (\A i \in 1 .. k : w[i] = writes[i])
          /\ w[k + 1] = x /\ k \in Nat
      BY <1>a, <3>1, <3>2, <3>3, AppendProperties
    <3>5. \A i \in 1 .. k : writes[i].n = (next - 1) - (k - i)
      BY <1>a, <2>1, <2>3, <3>1
    <3>6. ASSUME NEW i \in 1 .. k + 1 PROVE w[i].n = next - ((k + 1) - i)
      <4>1. CASE i \in 1 .. k
        <5>1. w[i].n = (next - 1) - (k - i)
          BY <3>4, <3>5, <4>1
        <5>2. (next - 1) - (k - i) = next - ((k + 1) - i)
          BY <1>a, <3>4
        <5> QED
          BY <5>1, <5>2
      <4>2. CASE i = k + 1
        BY <1>a, <3>2, <3>4, <4>2
      <4> QED
        BY <3>4, <4>1, <4>2
    <3>7. \A i \in DOMAIN server : server[i].n = (next - (k + 1)) - (Len(server) - i)
      <4>1. (next - 1) - k = next - (k + 1)
        BY <1>a, <3>4
      <4> QED
        BY <2>1, <2>3, <3>1, <4>1
    <3> QED
      BY <1>b, <2>1, <2>3, <3>1, <3>4, <3>6, <3>7
  <2> QED
    BY <2>2, <2>3
<1>3. CASE DropPacket
  <2>1. /\ main = "drop" /\ main' = "send" /\ next' = next + 1 /\ conn' = conn /\ server' = server
    BY <1>3 DEF DropPacket
  <2>2. /\ Len(writes') = Len(writes) /\ DOMAIN writes' = DOMAIN writes
        /\ \A i \in DOMAIN writes : writes'[i].n = writes[i].n
    BY <1>3, FreedWrites
  <2>3. (next + 1) - 1 = next
    BY <1>a
  <2>4. writes = <<>> => writes' = <<>>
    BY <1>3 DEF DropPacket
  <2> QED
    BY <1>b, <2>1, <2>2, <2>3, <2>4
<1>4. CASE AllSent
  BY <1>4, <1>b DEF AllSent
<1>5. CASE Join
  BY <1>5, <1>b DEF Join
<1>6. CASE TypeEnd
  BY <1>6, <1>b DEF TypeEnd, Abort
<1>7. CASE TypeWord
  BY <1>7, <1>b DEF TypeWord
<1>8. CASE Run
  BY <1>8, <1>b DEF Run
<1>9. CASE RunReturns
  BY <1>9, <1>b DEF RunReturns
<1>10. CASE HandleConnect
  BY <1>10, <1>b DEF HandleConnect
<1>11. CASE HandleConnectError
  BY <1>11, <1>b DEF HandleConnectError
<1>12. CASE HandleSend
  BY <1>12, <1>b DEF HandleSend, AfterSend
<1>13. CASE ReadHeader
  BY <1>13, <1>b DEF ReadHeader
<1>14. CASE ReadBody
  BY <1>14, <1>b DEF ReadBody
<1>15. CASE ReadBodyFails
  BY <1>15, <1>b DEF ReadBodyFails
<1>16. CASE ConnectEnds
  BY <1>16, <1>b DEF ConnectEnds
<1>17. CASE TakeWrite
  <2>1. PICK x \in Taken :
           /\ server' = Append(server, x)
           /\ x.n = writes[1].n
           /\ (x.bytes = x.n \/ x.freed)
           /\ writes' = Tail(writes) /\ 1 \in DOMAIN writes /\ Len(writes) > 0
    BY <1>17, OldestTaken
  <2>2. PICK w, v, k, l : w = writes' /\ v = server' /\ k = Len(writes) /\ l = Len(server)
    OBVIOUS
  <2>3. /\ Len(w) = k - 1 /\ DOMAIN w = 1 .. k - 1 /\ \A i \in 1 .. k - 1 : w[i] = writes[i + 1]
    BY <1>a, <2>1, <2>2
  <2>4. Len(v) = l + 1 /\ DOMAIN v = 1 .. l + 1 /\ (\A i \in 1 .. l : v[i] = server[i]) /\ v[l + 1] = x
    BY <1>a, <2>1, <2>2, AppendProperties
  <2>5. conn = "up" /\ conn' = "up" /\ LastSent' = LastSent /\ main' = main /\ next' = next
    BY <1>17 DEF TakeWrite
  <2>6. PICK m : m = LastSent
    OBVIOUS
  <2>7. m \in Int /\ k \in Nat /\ l \in Nat /\ k > 0
    BY <1>a, <2>1, <2>2, <2>6
  <2>8. (\A i \in 1 .. k : writes[i].n = m - (k - i)) /\ (\A i \in 1 .. l : server[i].n = (m - k) - (l - i))
    BY <1>a, <2>2, <2>5, <2>6
  <2>9. \A i \in 1 .. k - 1 : w[i].n = m - ((k - 1) - i)
    <3>1. \A i \in 1 .. k - 1 : i + 1 \in 1 .. k /\ m - (k - (i + 1)) = m - ((k - 1) - i)
      BY <2>7
    <3> QED
      BY <2>3, <2>8, <3>1
  <2>10. ASSUME NEW i \in 1 .. l + 1 PROVE v[i].n = (m - (k - 1)) - ((l + 1) - i)
    <3>1. CASE i \in 1 .. l
      <4>1. v[i].n = (m - k) - (l - i)
        BY <2>4, <2>8, <3>1
      <4>2. (m - k) - (l - i) = (m - (k - 1)) - ((l + 1) - i)
        BY <2>7
      <4> QED
        BY <4>1, <4>2
    <3>2. CASE i = l + 1
      <4>1. v[i].n = m - (k - 1)
        BY <2>1, <2>4, <2>7, <2>8, <3>2
      <4>2. m - (k - 1) = (m - (k - 1)) - ((l + 1) - i)
        BY <2>7, <3>2
      <4> QED
        BY <4>1, <4>2
    <3> QED
      BY <2>7, <3>1, <3>2
  <2>11. ASSUME NEW i \in 1 .. l + 1
         PROVE  v[i].n = v[1].n + i - 1 /\ (v[i].bytes = v[i].n \/ v[i].freed)
    <3>1. 1 \in 1 .. l + 1
      BY <2>7
    <3>2. v[i].n = (m - (k - 1)) - ((l + 1) - i) /\ v[1].n = (m - (k - 1)) - ((l + 1) - 1)
      BY <2>10, <3>1
    <3>3. v[i].n = v[1].n + i - 1
      BY <2>7, <3>2
    <3>4. CASE i \in 1 .. l
      BY <1>a, <2>2, <2>4, <3>3, <3>4 DEF PacketsFormOneRun
    <3>5. CASE i = l + 1
      BY <2>1, <2>4, <3>3, <3>5
    <3> QED
      BY <2>7, <3>4, <3>5
  <2>12. PacketsFormOneRun'
    BY <2>2, <2>4, <2>11 DEF PacketsFormOneRun
  <2>13. /\ \A i \in DOMAIN writes' : writes'[i].n = LastSent' - (Len(writes') - i)
         /\ \A i \in DOMAIN server' : server'[i].n = (LastSent' - Len(writes')) - (Len(server') - i)
    BY <2>2, <2>3, <2>4, <2>5, <2>6, <2>9, <2>10
  <2> QED
    BY <2>5, <2>12, <2>13
<1>18. CASE Reply
  BY <1>18, <1>b DEF Reply
<1>19. CASE Break
  BY <1>19, <1>b DEF Break
<1>20. CASE UNCHANGED vars
  BY <1>b, <1>20 DEF vars
<1> QED
  BY <1>1, <1>2, <1>3, <1>4, <1>5, <1>6, <1>7, <1>8, <1>9, <1>10,
     <1>11, <1>12, <1>13, <1>14, <1>15, <1>16, <1>17, <1>18, <1>19, <1>20
  DEF Next, Main, Console, Io, Handlers, Network

\* Types: the writes and what is taken of them carry numbers of packets that were sent.
LEMMA ClientTypeStep ==
  ASSUME TypeOK, RunInv, [Next]_vars
  PROVE  TypeOK'
<1>a. /\ writes \in Seq(WriteOp) /\ server \in Seq(Taken) /\ sent \in Seq(BOOLEAN)
      /\ inbox \in Seq({"header", "body"}) /\ MaxSends \in Nat /\ MaxReplies \in Nat
  BY ClientTypes, ClientAssumption DEF ClientAssumption
<1>b. sent \o [i \in DOMAIN writes |-> FALSE] \in Seq(BOOLEAN)
  BY Failed
<1>c. \A n \in 1 .. MaxSends + 1 : ~(n > MaxSends) => n \in 1 .. MaxSends /\ n + 1 \in 1 .. MaxSends + 1
  BY <1>a
<1>d. inbox # <<>> => Tail(inbox) \in Seq({"header", "body"})
  BY <1>a, HeadTailProperties
<1>e. inbox \o <<"header", "body">> \in Seq({"header", "body"})
  <2>1. <<"header", "body">> \in Seq({"header", "body"})
    OBVIOUS
  <2> QED
    BY <1>a, <2>1, ConcatProperties
<1>f. \A k \in 0 .. Len(inbox) : SubSeq(inbox, 1, k) \in Seq({"header", "body"})
  BY <1>a
<1>g. \A b \in BOOLEAN : Append(sent, b) \in Seq(BOOLEAN)
  BY <1>a, AppendProperties
<1>h. sent # <<>> => Tail(sent) \in Seq(BOOLEAN)
  BY <1>a, HeadTailProperties
<1>i. <<>> \in Seq(WriteOp)
  OBVIOUS
<1> USE DEF mainVars, connVars, readVars, writeVars, histVars, Running, MainAt, IoRuns, TypeOK
<1>1. CASE CreateClient
  BY <1>1 DEF CreateClient
<1>2. CASE Send
  <2>1. next \in 1 .. MaxSends
    BY <1>2, <1>c DEF Send, LoopDone
  <2>2. [n |-> next, freed |-> FALSE] \in WriteOp
    BY <2>1 DEF WriteOp
  <2>3. Append(writes, [n |-> next, freed |-> FALSE]) \in Seq(WriteOp)
    BY <1>a, <2>2, AppendProperties
  <2>4. writes' \in Seq(WriteOp) /\ sent' \in Seq(BOOLEAN)
    BY <1>2, <1>a, <1>g, <2>3 DEF Send
  <2> QED
    BY <1>2, <2>4 DEF Send, WriteOp
<1>3. CASE DropPacket
  <2>1. writes' \in Seq(WriteOp)
    BY <1>3, FreedWrites
  <2>2. next' \in 1 .. MaxSends + 1
    BY <1>3, <1>c DEF DropPacket, RunInv, LoopDone
  <2> QED
    BY <1>3, <2>1, <2>2 DEF DropPacket, WriteOp
<1>4. CASE AllSent
  BY <1>4 DEF AllSent
<1>5. CASE Join
  BY <1>5 DEF Join
<1>6. CASE TypeEnd
  <2>1. writes' = <<>> /\ sent' \in Seq(BOOLEAN)
    BY <1>6, <1>b DEF TypeEnd, Abort
  <2>2. writes' \in Seq(WriteOp)
    BY <2>1, <1>i
  <2>3. connectOp' \in {"none", "pending", "ok", "error", "handled"} /\ conn' = "closed" /\ main' = "join"
    BY <1>6 DEF TypeEnd, Abort
  <2>4. UNCHANGED <<next, t1, process, readVars, histVars>>
    BY <1>6 DEF TypeEnd
  <2> QED
    BY <2>1, <2>2, <2>3, <2>4 DEF WriteOp
<1>7. CASE TypeWord
  BY <1>7 DEF TypeWord
<1>8. CASE Run
  BY <1>8 DEF Run
<1>9. CASE RunReturns
  BY <1>9 DEF RunReturns
<1>10. CASE HandleConnect
  BY <1>10 DEF HandleConnect, FirstRead
<1>11. CASE HandleConnectError
  BY <1>11 DEF HandleConnectError
<1>12. CASE HandleSend
  BY <1>12, <1>h DEF HandleSend, AfterSend
<1>13. CASE ReadHeader
  BY <1>13, <1>d DEF ReadHeader, Readable
<1>14. CASE ReadBody
  BY <1>14, <1>d DEF ReadBody, Readable
<1>15. CASE ReadBodyFails
  BY <1>15 DEF ReadBodyFails, ReadAfterError
<1>16. CASE ConnectEnds
  BY <1>16 DEF ConnectEnds
<1>17. CASE TakeWrite
  <2>1. PICK x \in Taken : server' = Append(server, x) /\ writes' = Tail(writes)
    BY <1>17, OldestTaken
  <2>2. server' \in Seq(Taken)
    BY <1>a, <2>1, AppendProperties
  <2>3. writes' \in Seq(WriteOp)
    BY <1>17, <1>a, <2>1, HeadTailProperties DEF TakeWrite
  <2>4. sent' \in Seq(BOOLEAN)
    BY <1>17, <1>g DEF TakeWrite
  <2> QED
    BY <1>17, <2>2, <2>3, <2>4 DEF TakeWrite, WriteOp, Taken
<1>18. CASE Reply
  <2>1. replies' \in 0 .. MaxReplies /\ inbox' \in Seq({"header", "body"})
    BY <1>18, <1>a, <1>e DEF Reply
  <2> QED
    BY <1>18, <2>1 DEF Reply
<1>19. CASE Break
  <2>1. inbox' \in Seq({"header", "body"}) /\ sent' \in Seq(BOOLEAN) /\ writes' = <<>>
    BY <1>19, <1>b, <1>f DEF Break
  <2>2. writes' \in Seq(WriteOp)
    BY <2>1, <1>i
  <2>3. conn' = "broken" /\ UNCHANGED <<connectOp, mainVars, t1, process, rd, header, histVars>>
    BY <1>19 DEF Break
  <2> QED
    BY <2>1, <2>2, <2>3 DEF WriteOp
<1>20. CASE UNCHANGED vars
  BY <1>20 DEF vars
<1> QED
  BY <1>1, <1>2, <1>3, <1>4, <1>5, <1>6, <1>7, <1>8, <1>9, <1>10,
     <1>11, <1>12, <1>13, <1>14, <1>15, <1>16, <1>17, <1>18, <1>19, <1>20
  DEF Next, Main, Console, Io, Handlers, Network

\* The invariant holds before main() makes the client.
LEMMA ClientInit == Init => ClientInv
<1> SUFFICES ASSUME Init PROVE ClientInv
  OBVIOUS
<1>1. TypeOK
  <2>1. 1 \in 1 .. MaxSends + 1 /\ 0 \in 0 .. MaxReplies
    BY ClientAssumption DEF ClientAssumption
  <2>2. \A S : <<>> \in Seq(S)
    OBVIOUS
  <2> QED
    BY <2>1, <2>2 DEF Init, TypeOK
<1>2. ConnectionInv
  BY DEF Init, ConnectionInv, IoOutlivesConnection
<1>3. RunInv
  BY DEF Init, RunInv, PacketsFormOneRun
<1> QED
  BY <1>1, <1>2, <1>3 DEF ClientInv

\* Every step of either thread, of the network and of the server keeps it.
LEMMA ClientStep == ClientInv /\ [Next]_vars => ClientInv'
BY ClientTypeStep, ConnectionStep, RunStep DEF ClientInv

-------------------------------------------------------------------------------
(* The theorems *)

\* What the game build and the login build keep, whichever is built.
THEOREM BuildInvariance == BuildSpec => [](ClientInv /\ LoginInv)
<1>1. BuildInit => ClientInv /\ LoginInv
  BY ClientInit, LoginInitHolds DEF BuildInit
<1>2. ClientInv /\ LoginInv /\ [BuildNext]_mainFileVars => ClientInv' /\ LoginInv'
  <2> SUFFICES ASSUME ClientInv, LoginInv, [BuildNext]_mainFileVars
               PROVE  ClientInv' /\ LoginInv'
    OBVIOUS
  <2>1. [Next]_vars /\ [LoginNext]_loginVars
    BY DEF BuildNext, GameBuild, LoginBuild, mainFileVars
  <2> QED
    BY <2>1, ClientStep, AnswerStep, HashStep DEF LoginInv
<1> QED
  BY <1>1, <1>2, PTL DEF BuildSpec

\* Every operation is in a state of its own kind, and every write carries a number sent.
THEOREM ClientTypeCorrect == BuildSpec => []TypeOK
<1>1. ClientInv => TypeOK
  BY DEF ClientInv
<1> QED
  BY <1>1, BuildInvariance, PTL

\* The server receives the packets of the one connection without gap or repetition, and
\* none of them spoilt whose loop had not gone on.
THEOREM OneRun == BuildSpec => []PacketsFormOneRun
<1>1. ClientInv => PacketsFormOneRun
  BY DEF ClientInv, RunInv
<1> QED
  BY <1>1, BuildInvariance, PTL

\* Without any `work` of its own, the io_service that has found the connect outstanding
\* is kept going by the reads until the connection has ended.
THEOREM IoThreadOutlives == BuildSpec => []IoOutlivesConnection
<1>1. ClientInv => IoOutlivesConnection
  BY DEF ClientInv, ConnectionInv
<1> QED
  BY <1>1, BuildInvariance, PTL

\* The login build of main() reports what its server said.
THEOREM LoginBuildIsHonest == BuildSpec => [](AnswerIsFromServer /\ HashIsOfPassword)
<1>1. LoginInv => AnswerIsFromServer /\ HashIsOfPassword
  BY DEF LoginInv, AnswerInv, HashInv
<1> QED
  BY <1>1, BuildInvariance, PTL

===============================================================================
