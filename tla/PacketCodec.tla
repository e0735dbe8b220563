------------------------------ MODULE PacketCodec ------------------------------
(***************************************************************************)
(* How a number survives the trip from a client to the server and back:    *)
(* Make_packet writes it as text, the session reads the text into its      *)
(* data_, Make_Body reads the number out again, and the reply takes the    *)
(* same way into recv_buf of every client (packet_structure.h, of          *)
(* digital_content_game and of DummyClient).                               *)
(*                                                                         *)
(* Both buffers live as long as their connection and are never cleared,    *)
(* and Make_Body takes the length in bytes for a length in characters, so  *)
(* it sees what earlier and longer packets left behind the one it reads.   *)
(* All bodies begin with the same text and differ in the digits that       *)
(* follow; an area is the part of a buffer where the digits go. GameRoom   *)
(* shows that the server parses and answers one packet at a time, in an    *)
(* order that is the same for all clients: here that is one step.          *)
(***************************************************************************)
EXTENDS Naturals, Sequences, SequencesExt

CONSTANTS
  Clients,    \* the members of one room, connected from the start
  Programs,   \* the sequences of numbers that a client may send
  Base,       \* of the numerals; 10
  MaxUInt,    \* the largest UINT
  PrefixLen,  \* the characters of a body in front of the digits
  Areas,      \* what a new buffer may hold, in heap memory nobody cleared
  Leftovers   \* the digits that may follow the client's copy of a body
              \* on its stack, where no terminator is written

Values == 0 .. MaxUInt

Digit == 0 .. Base - 1

Fill == Base  \* any character that is not a digit

\* Make_packet: the stream writes a number as its digits.
Digits[v \in Values] ==
  IF v < Base THEN <<v>> ELSE Append(Digits[v \div Base], v % Base)

MaxDigits == Len(Digits[MaxUInt])

AreaCells == 1 .. PrefixLen + 2 * MaxDigits

ASSUME CodecAssumption ==
  /\ Base \in Nat \ {0, 1}
  /\ MaxUInt \in Nat \ {0}
  /\ PrefixLen \in Nat
  /\ Programs \subseteq Seq(Values)
  /\ Areas \subseteq [AreaCells -> Digit \cup {Fill}]
  /\ Leftovers \subseteq Seq(Digit)

VARIABLES
  toSend,    \* the numbers a client has still to send
  toServer,  \* the packets on their way from each client
  data,      \* the area of each session's data_
  toClient,  \* the packets on their way to each client
  recvBuf,   \* the area of each client's recv_buf
  parsed,    \* history: what the server has read from each client
  printed,   \* history: what each client has read, "recved t"
  memory     \* history: what each data_ and recv_buf held at first

vars == <<toSend, toServer, data, toClient, recvBuf, parsed, printed, memory>>

-------------------------------------------------------------------------------
(* Packets *)

ValueOf(ds) == FoldLeft(LAMBDA v, d : v * Base + d, 0, ds)

BodyChars(v) == PrefixLen + Len(Digits[v])

\* Mutant: the last character of the text is left out.
PacketCutShort(v) == [len |-> 2 * BodyChars(v), digits |-> Front(Digits[v])]

\* Make_packet and the constructor of Packet. The header's packet_len is the length of
\* the body in bytes, of which a wchar_t has two.
Packet(v) == [len |-> 2 * BodyChars(v), digits |-> Digits[v]]

\* Mutant: the body is stored one cell too far.
StoreShifted(area, digits) ==
  [i \in AreaCells |-> IF i - 1 \in DOMAIN digits THEN digits[i - 1] ELSE area[i]]

\* The read of a body into a buffer; the rest of the buffer stays as it was.
Store(area, digits) == [i \in AreaCells |-> IF i \in DOMAIN digits THEN digits[i] ELSE area[i]]

\* Mutant: the copy is one character short.
ShortWindow(p) == Len(p.digits) - 1

\* The digit cells that Make_Body copies: packet_len of them, prefix included.
Window(p) == p.len - PrefixLen

\* The digits at the front of the first n cells.
LeadingDigits(area, n) ==
  LET k == CHOOSE k \in 0 .. n :
             (\A i \in 1 .. k : area[i] \in Digit) /\ (k = n \/ area[k + 1] \notin Digit)
  IN [i \in 1 .. k |-> area[i]]

Unreadable == MaxUInt + 1

\* The archive reads a number that is no UINT as an error, and throws.
Extract(ds) == IF ValueOf(ds) \in Values THEN ValueOf(ds) ELSE Unreadable

\* The server's Make_Body: the copy ends in a terminator.
Decode(area, p) == Extract(LeadingDigits(area, Window(p)))

\* The client's: it has none, so a copy that is all digits runs on into the stack.
DecodeOpen(area, p, leftover) ==
  LET ds == LeadingDigits(area, Window(p))
  IN Extract(IF Len(ds) = Window(p) THEN ds \o leftover ELSE ds)

-------------------------------------------------------------------------------

Init ==
  /\ toSend \in [Clients -> Programs]
  /\ toServer = [c \in Clients |-> <<>>]
  /\ memory \in [data : [Clients -> Areas], recvBuf : [Clients -> Areas]]
  /\ data = memory.data
  /\ toClient = [c \in Clients |-> <<>>]
  /\ recvBuf = memory.recvBuf
  /\ parsed = [c \in Clients |-> <<>>]
  /\ printed = [c \in Clients |-> <<>>]

\* t.Make_packet() and client::send().
ClientSend(c) ==
  /\ toSend[c] # <<>>
  /\ toSend' = [toSend EXCEPT ![c] = Tail(@)]
  /\ toServer' = [toServer EXCEPT ![c] = Append(@, Packet(Head(toSend[c])))]
  /\ UNCHANGED <<data, toClient, recvBuf, parsed, printed, memory>>

\* game_logic::do_work: the number goes into a packet of its own.
Reply(t) == Packet(t)

\* The session's read of a body, the task that parses it, and the broadcast of the
\* answer; PassTask catches the exception of an unreadable body and answers nothing.
ServerParse(c) ==
  /\ toServer[c] # <<>>
  /\ LET p == Head(toServer[c])
         area == Store(data[c], p.digits)
         t == Decode(area, p)
     IN /\ data' = [data EXCEPT ![c] = area]
        /\ parsed' = [parsed EXCEPT ![c] = Append(@, [digits |-> p.digits, read |-> t])]
        /\ toClient' = IF t = Unreadable THEN toClient
                       ELSE [d \in Clients |-> Append(toClient[d], Reply(t))]
  /\ toServer' = [toServer EXCEPT ![c] = Tail(@)]
  /\ UNCHANGED <<toSend, recvBuf, printed, memory>>

\* client::handle_read_body and the client's Packet::Parse, which catches the
\* exception and goes on.
ClientParse(c) ==
  /\ toClient[c] # <<>>
  /\ LET p == Head(toClient[c])
         area == Store(recvBuf[c], p.digits)
     IN /\ recvBuf' = [recvBuf EXCEPT ![c] = area]
        /\ \E leftover \in Leftovers :
             printed' = [printed EXCEPT ![c] =
                           Append(@, [digits |-> p.digits,
                                      read |-> DecodeOpen(area, p, leftover)])]
  /\ toClient' = [toClient EXCEPT ![c] = Tail(@)]
  /\ UNCHANGED <<toSend, toServer, data, parsed, memory>>

Next == \E c \in Clients : ClientSend(c) \/ ServerParse(c) \/ ClientParse(c)

Spec == Init /\ [][Next]_vars

-------------------------------------------------------------------------------
(* Properties *)

Texts == {Digits[v] : v \in Values}

Reads == [digits : Texts, read : Values \cup {Unreadable}]

PacketType == [len : Nat, digits : Texts]

\* Every buffer, packet and history keeps its shape: no number that is read or
\* answered ever leaves the range of a UINT.
TypeOK ==
  /\ toSend \in [Clients -> Seq(Values)]
  /\ toServer \in [Clients -> Seq(PacketType)]
  /\ data \in [Clients -> [AreaCells -> Digit \cup {Fill}]]
  /\ toClient \in [Clients -> Seq(PacketType)]
  /\ recvBuf \in [Clients -> [AreaCells -> Digit \cup {Fill}]]
  /\ parsed \in [Clients -> Seq(Reads)]
  /\ printed \in [Clients -> Seq(Reads)]
  /\ memory \in [data : [Clients -> Areas], recvBuf : [Clients -> Areas]]

\* Each buffer with what it held at first, what it holds, and what was read in it.
Buffers == {[first |-> memory.data[c], now |-> data[c], reads |-> parsed[c]] : c \in Clients}
             \cup {[first |-> memory.recvBuf[c], now |-> recvBuf[c], reads |-> printed[c]]
                     : c \in Clients}

\* The buffers are only ever spoilt by longer packets: with memory that holds no
\* digits at first, a body no shorter than all those before it in its buffer is
\* read exactly, on both sides. A DummyClient that is alone in its room sends such
\* bodies only, and gets back each number it sent.
ExactUnlessShorter ==
  \A b \in {b \in Buffers : \A j \in AreaCells : b.first[j] = Fill} : \A i \in DOMAIN b.reads :
    (\A j \in 1 .. i - 1 : Len(b.reads[j].digits) <= Len(b.reads[i].digits))
      => b.reads[i].read = ValueOf(b.reads[i].digits)

\* The cell i of a buffer: that of the last body which reached so far.
LastToReach(b, i) ==
  LET reached == {j \in DOMAIN b.reads : i \in DOMAIN b.reads[j].digits}
  IN IF reached = {} THEN b.first[i]
     ELSE b.reads[CHOOSE j \in reached : \A k \in reached : k <= j].digits[i]

\* What a buffer holds is the overlay of all the bodies that were ever read into
\* it: nothing is cleared between two packets, and nothing else writes there.
BufferIsOverlay ==
  \A b \in Buffers : b.now = [i \in AreaCells |-> LastToReach(b, i)]

===============================================================================
