-------------------------------- MODULE Login --------------------------------
(***************************************************************************)
(* The other build of DummyClient, with DOLOGINTEST defined: DoLogin       *)
(* (login.cpp) tries the addresses of the login server in turn, sends the  *)
(* name and the hash of the password in one request and takes what the     *)
(* first read brings for the answer. The hash is the sha256 of sha256.h as *)
(* hash_base64 uses it: one input(), then result(). Its compression of a   *)
(* block and the base64 of the outcome are one-to-one on what is compared  *)
(* here, so the sequence of compressed blocks stands for both.             *)
(***************************************************************************)
EXTENDS Integers, Sequences

CONSTANTS
  Endpoints,   \* the number of addresses that the name resolves to
  MaxPassword, \* bound: the characters of a password
  AnswerLen,   \* the characters of the login server's answer
  BlockSize,   \* the cells of message_block_; 64 in the code
  Word         \* the values of length_low_ and length_high_; 2^32 in the code

ASSUME LoginAssumption ==
  /\ {Endpoints, MaxPassword, AnswerLen} \subseteq Nat
  /\ AnswerLen > 0
  /\ BlockSize \in Nat /\ BlockSize > 3
  /\ Word \in Nat /\ Word > 8 /\ Word % 8 = 0
  /\ 8 * MaxPassword < Word * Word  \* so that corrupted_ is never set

VARIABLES
  at,       \* "resolve", "connect", "hash", "send", "read", "returned" or "thrown"
  endpoint, \* the one to try next
  error,    \* the last connect failed, or none has been tried
  password, \* its length: characters are named by their places
  fed,      \* how many of them input() has taken
  block,    \* message_block_, up to message_block_index_
  length,   \* length_high_ and length_low_
  blocks,   \* what process_message_block has taken in, in intermediate_hash_
  request,  \* what the server received: nothing yet, or the blocks of the hash
  answered, \* the characters of the answer that have arrived
  ended,    \* the server has ended the connection
  result    \* what DoLogin returned

hashVars == <<fed, block, length, blocks>>
netVars == <<request, answered, ended>>
loginVars == <<at, endpoint, error, password, hashVars, netVars, result>>

NoRequest == <<>>

Pending == [kind |-> "none", len |-> 0]

FAIL_MSG == [kind |-> "fail", len |-> 0]

\* The first n characters of the answer.
Answer(n) == [kind |-> "answer", len |-> n]

LengthLen == 2  \* the cells of a block that hold the length; 8 in the code

LoginInit ==
  /\ at = "resolve"
  /\ endpoint = 1
  /\ error = TRUE
  /\ password \in 0 .. MaxPassword
  /\ fed = 0
  /\ block = <<>>
  /\ length = [high |-> 0, low |-> 0]
  /\ blocks = <<>>
  /\ request = NoRequest
  /\ answered = 0
  /\ ended = FALSE
  /\ result = Pending

-------------------------------------------------------------------------------
(* The addresses *)

\* An exception of the resolver leaves DoLogin.
Resolve ==
  /\ at = "resolve"
  /\ at' \in {"connect", "thrown"}
  /\ UNCHANGED <<endpoint, error, password, hashVars, netVars, result>>

Connect ==
  /\ at = "connect"
  /\ error /\ endpoint <= Endpoints
  /\ error' \in BOOLEAN
  /\ endpoint' = endpoint + 1
  /\ UNCHANGED <<at, password, hashVars, netVars, result>>

\* Mutant: no address is left, so the last one counts as failed.
Exhausted == endpoint > Endpoints

NotConnected == error

NobodyAnswers ==
  /\ at = "connect"
  /\ endpoint > Endpoints
  /\ NotConnected
  /\ at' = "returned"
  /\ result' = FAIL_MSG
  /\ UNCHANGED <<endpoint, error, password, hashVars, netVars>>

Connected ==
  /\ at = "connect"
  /\ ~error
  /\ ~(endpoint > Endpoints /\ NotConnected)
  /\ at' = "hash"
  /\ UNCHANGED <<endpoint, error, password, hashVars, netVars, result>>

-------------------------------------------------------------------------------
(* sha256::hash_base64 *)

Cell(kind, n) == [kind |-> kind, n |-> n]

Mark == Cell("mark", 0)

Zero == Cell("zero", 0)

\* Mutant: the carry into the high word is forgotten.
NoCarry == [high |-> length.high, low |-> (length.low + 8) % Word]

\* SHA256_ADD_LENGTH
Longer == [high |-> length.high + (length.low + 8) \div Word, low |-> (length.low + 8) % Word]

\* What the compression of one more block makes of the hash so far; it loses nothing here.
ProcessMessageBlock(done, cells) == Append(done, cells)

\* One turn of the loop in input().
InputByte ==
  /\ at = "hash"
  /\ fed < password
  /\ fed' = fed + 1
  /\ length' = Longer
  /\ LET filled == Append(block, Cell("char", fed + 1))
     IN IF Len(filled) = BlockSize
        THEN blocks' = ProcessMessageBlock(blocks, filled) /\ block' = <<>>
        ELSE block' = filled /\ UNCHANGED blocks
  /\ UNCHANGED <<at, endpoint, error, password, netVars, result>>

Zeros(n) == [i \in 1 .. n |-> Zero]

Padded(cells, n) == cells \o Zeros(n - Len(cells))

\* The length is stored at a fixed place, whatever was there.
WithLength(cells) ==
  SubSeq(cells, 1, BlockSize - LengthLen) \o <<Cell("high", length.high), Cell("low", length.low)>>

\* Mutant: a block with just no room for the mark is taken for one with room.
AlmostFull == Len(block) > BlockSize - LengthLen

NoRoom == Len(block) >= BlockSize - LengthLen

\* pad_message: one more block, or two.
PadMessage ==
  LET marked == Append(block, Mark)
  IN IF NoRoom
     THEN ProcessMessageBlock(ProcessMessageBlock(blocks, Padded(marked, BlockSize)),
                              WithLength(Zeros(BlockSize - LengthLen)))
     ELSE ProcessMessageBlock(blocks, WithLength(Padded(marked, BlockSize - LengthLen)))

\* result() and finalize().
Result ==
  /\ at = "hash"
  /\ fed = password
  /\ blocks' = PadMessage
  /\ block' = <<>>
  /\ length' = [high |-> 0, low |-> 0]
  /\ at' = "send"
  /\ UNCHANGED <<endpoint, error, password, fed, netVars, result>>

-------------------------------------------------------------------------------
(* The exchange *)

\* send() throws on an error; what is sent to a server that has left is lost.
SendRequest ==
  /\ at = "send"
  /\ \/ at' = "read" /\ request' = (IF ended THEN NoRequest ELSE blocks)
     \/ at' = "thrown" /\ UNCHANGED request
  /\ UNCHANGED <<endpoint, error, password, hashVars, answered, ended, result>>

\* Mutant: the buffer is returned, whatever has arrived.
WholeBuffer(n) == Answer(AnswerLen)

Received(n) == Answer(n)

\* read_some returns with what is there, one character at least; an error leaves 0 and
\* is looked at by nobody.
ReadSome ==
  /\ at = "read"
  /\ answered > 0 \/ ended
  /\ \E n \in 0 .. answered :
       /\ n > 0 \/ ended
       /\ result' = Received(n)
  /\ at' = "returned"
  /\ UNCHANGED <<endpoint, error, password, hashVars, netVars>>

-------------------------------------------------------------------------------
(* The login server *)

AnswerArrives ==
  /\ request # NoRequest
  /\ ~ended
  /\ answered < AnswerLen
  /\ answered' \in answered + 1 .. AnswerLen
  /\ UNCHANGED <<at, endpoint, error, password, hashVars, request, ended, result>>

ServerEnds ==
  /\ at \in {"hash", "send", "read"}
  /\ ~ended
  /\ ended' = TRUE
  /\ UNCHANGED <<at, endpoint, error, password, hashVars, request, answered, result>>

-------------------------------------------------------------------------------

DoLogin ==
  \/ Resolve \/ Connect \/ NobodyAnswers \/ Connected
  \/ InputByte \/ Result
  \/ SendRequest \/ ReadSome

LoginNext == DoLogin \/ AnswerArrives \/ ServerEnds

-------------------------------------------------------------------------------
(* Properties *)

\* The standard's padding of a message of n characters: a mark, the fewest zeros that
\* fill whole blocks, and the length in bits.
PaddedMessage(n) ==
  LET zeros == (0 - (n + 1 + LengthLen)) % BlockSize
  IN [i \in 1 .. n |-> Cell("char", i)] \o <<Mark>> \o Zeros(zeros)
       \o <<Cell("high", (8 * n) \div Word), Cell("low", (8 * n) % Word)>>

\* Cut into full blocks, the padded message of n characters is this.
Standard(done, n) ==
  /\ Len(PaddedMessage(n)) = BlockSize * Len(done)
  /\ \A i \in 1 .. Len(done) :
       /\ Len(done[i]) = BlockSize
       /\ \A k \in 1 .. BlockSize : done[i][k] = PaddedMessage(n)[BlockSize * (i - 1) + k]

\* The hash that is sent is that of the whole password, padded as the standard says,
\* wherever its end falls in a block.
HashIsOfPassword == request # NoRequest => Standard(request, password)

\* DoLogin reports a failure if every address has failed and for no other reason; else it
\* returns the beginning of the answer, empty only if the connection has ended.
AnswerIsFromServer ==
  at = "returned" =>
    \/ result = FAIL_MSG /\ error /\ endpoint > Endpoints /\ request = NoRequest
    \/ result.kind = "answer" /\ result.len \in 1 .. answered
    \/ result = Answer(0) /\ ended

===============================================================================
