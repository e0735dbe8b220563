------------------------------ MODULE LoginProofs ------------------------------
(***************************************************************************)
(* Proofs about Login, for any number of addresses, passwords of any       *)
(* length, and blocks and words of any size: what DoLogin returns is what  *)
(* the server sent or an honest failure, and the blocks that sha256.h      *)
(* compresses are those of the standard's padding, cell by cell, wherever  *)
(* the end of the password falls in a block.                               *)
(*                                                                         *)
(* The inductive invariant has two parts. AnswerInv follows the exchange.  *)
(* HashInv says that the cells taken in so far are the characters of the   *)
(* password in their order, in full blocks and one that is never full      *)
(* between two turns of the loop, and that the two words of the length     *)
(* hold their number in bits.                                              *)
(***************************************************************************)
EXTENDS Login, SequenceTheorems, TLAPS

-------------------------------------------------------------------------------
(* The inductive invariant *)

Cells == [kind : {"char", "mark", "zero", "high", "low"}, n : Int]

Hashing == at \in {"resolve", "connect", "hash"}

\* What of the exchange has happened where DoLogin is.
AnswerInv ==
  /\ at \in {"resolve", "connect", "hash", "send", "read", "returned", "thrown"}
  /\ answered \in Nat
  /\ ended \in BOOLEAN
  /\ request # NoRequest => at \in {"read", "returned"}
  /\ at \in {"resolve", "connect"} => ~ended
  /\ AnswerIsFromServer

\* The loop of input() has taken so many characters.
FedInv ==
  /\ password \in Nat
  /\ fed \in 0 .. password
  /\ Len(block) < BlockSize
  /\ fed = BlockSize * Len(blocks) + Len(block)

\* Each cell has the character of its place.
CellsInv ==
  /\ block \in Seq(Cells)
  /\ blocks \in Seq(Seq(Cells))
  /\ \A k \in 1 .. Len(block) : block[k] = Cell("char", BlockSize * Len(blocks) + k)
  /\ \A i \in 1 .. Len(blocks) :
       /\ Len(blocks[i]) = BlockSize
       /\ \A k \in 1 .. BlockSize : blocks[i][k] = Cell("char", BlockSize * (i - 1) + k)

\* The two words hold the length in bits.
LengthInv ==
  /\ length \in [high : Nat, low : 0 .. Word - 1]
  /\ Word * length.high + length.low = 8 * fed

HashInv ==
  /\ Hashing => FedInv /\ CellsInv /\ LengthInv
  /\ at = "send" => Standard(blocks, password)
  /\ HashIsOfPassword

LoginInv == AnswerInv /\ HashInv

-------------------------------------------------------------------------------
(* Division *)

\* The quotient and the remainder of a make a again.
LEMMA DivMod ==
  ASSUME NEW a \in Int, NEW w \in Nat \ {0}
  PROVE  /\ a \div w \in Int /\ a % w \in 0 .. w - 1
         /\ a = w * (a \div w) + (a % w)
OBVIOUS

\* Multiples of w are w apart.
LEMMA MultiplesApart ==
  ASSUME NEW w \in Nat \ {0}, NEW i \in Int, NEW j \in Int, i < j
  PROVE  w * i + w <= w * j
<1>1. w * (j - i - 1) >= 0
  <2>1. \A x \in Nat : w * x >= 0
    OBVIOUS
  <2> QED
    BY <2>1
<1>2. w * (j - i - 1) = w * j - w * i - w
  OBVIOUS
<1> QED
  BY <1>1, <1>2

\* The quotient and the remainder are unique.
LEMMA ModUnique ==
  ASSUME NEW w \in Nat \ {0}, NEW k \in Int, NEW m \in 0 .. w - 1
  PROVE  (w * k + m) % w = m /\ (w * k + m) \div w = k
<1> DEFINE a == w * k + m
           d == a \div w
<1>1. a = w * d + (a % w) /\ a % w \in 0 .. w - 1 /\ d \in Int
  BY DivMod
<1> HIDE DEF d
<1>2. d < k => w * d + w <= w * k
  BY <1>1, MultiplesApart
<1>3. k < d => w * k + w <= w * d
  BY <1>1, MultiplesApart
<1>4. w * d \in Int /\ w * k \in Int
  BY <1>1
<1>5. d = k
  BY <1>1, <1>2, <1>3, <1>4
<1> QED
  BY <1>1, <1>5 DEF d

-------------------------------------------------------------------------------
(* The padded message and the blocks, by places *)

\* The sizes of the hash as numbers.
LEMMA Sizes ==
  /\ BlockSize \in Nat \ {0} /\ BlockSize > 3 /\ LengthLen = 2
  /\ Word \in Nat \ {0} /\ Word > 8
BY LoginAssumption DEF LoginAssumption, LengthLen

\* Every kind of cell is a cell.
LEMMA CellTypes ==
  /\ \A n \in Int : Cell("char", n) \in Cells /\ Cell("high", n) \in Cells /\ Cell("low", n) \in Cells
  /\ Mark \in Cells /\ Zero \in Cells
BY DEF Cells, Cell, Mark, Zero

\* Two sequences, one behind the other, of lengths n and m.
LEMMA ConcatAt ==
  ASSUME NEW a \in Seq(Cells), NEW b \in Seq(Cells)
  PROVE  /\ a \o b \in Seq(Cells) /\ Len(a \o b) = Len(a) + Len(b)
         /\ \A i \in 1 .. Len(a) : (a \o b)[i] = a[i]
         /\ \A i \in Len(a) + 1 .. Len(a) + Len(b) :
              i - Len(a) \in 1 .. Len(b) /\ (a \o b)[i] = b[i - Len(a)]
<1> DEFINE n == Len(a)
           m == Len(b)
<1>1. n \in Nat /\ m \in Nat
  OBVIOUS
<1>2. /\ a \o b \in Seq(Cells) /\ Len(a \o b) = n + m
      /\ \A i \in 1 .. n + m : (a \o b)[i] = IF i <= n THEN a[i] ELSE b[i - n]
  BY ConcatProperties
<1> HIDE DEF n, m
<1>3. \A i \in 1 .. n : i \in 1 .. n + m /\ i <= n
  BY <1>1
<1>4. \A i \in n + 1 .. n + m : i \in 1 .. n + m /\ ~(i <= n) /\ i - n \in 1 .. m
  BY <1>1
<1>5. /\ a \o b \in Seq(Cells) /\ Len(a \o b) = n + m
      /\ \A i \in 1 .. n : (a \o b)[i] = a[i]
      /\ \A i \in n + 1 .. n + m : i - n \in 1 .. m /\ (a \o b)[i] = b[i - n]
  BY <1>2, <1>3, <1>4
<1> QED
  BY <1>5 DEF n, m

\* A run of zeros.
LEMMA ZerosAt ==
  ASSUME NEW n \in Nat
  PROVE  /\ Zeros(n) \in Seq(Cells) /\ Len(Zeros(n)) = n
         /\ \A i \in 1 .. n : Zeros(n)[i] = Zero
BY CellTypes DEF Zeros

\* The standard's message: its characters, the mark, zeros, and the length.
LEMMA PaddedMessageAt ==
  ASSUME NEW n \in Nat, NEW z \in Nat, z = (0 - (n + 1 + LengthLen)) % BlockSize
  PROVE  /\ Len(PaddedMessage(n)) = n + 1 + z + 2
         /\ \A i \in 1 .. n : PaddedMessage(n)[i] = Cell("char", i)
         /\ PaddedMessage(n)[n + 1] = Mark
         /\ \A i \in n + 2 .. n + 1 + z : PaddedMessage(n)[i] = Zero
         /\ PaddedMessage(n)[n + 1 + z + 1] = Cell("high", (8 * n) \div Word)
         /\ PaddedMessage(n)[n + 1 + z + 2] = Cell("low", (8 * n) % Word)
<1> DEFINE c == [i \in 1 .. n |-> Cell("char", i)]
           h == Cell("high", (8 * n) \div Word)
           l == Cell("low", (8 * n) % Word)
           t == <<h, l>>
<1>1. c \in Seq(Cells) /\ Len(c) = n /\ \A i \in 1 .. n : c[i] = Cell("char", i)
  BY CellTypes
<1>2. h \in Cells /\ l \in Cells
  BY CellTypes, DivMod, Sizes
<1>3. t \in Seq(Cells) /\ Len(t) = 2 /\ t[1] = h /\ t[2] = l
  BY <1>2
<1>4. <<Mark>> \in Seq(Cells) /\ Len(<<Mark>>) = 1 /\ <<Mark>>[1] = Mark
  BY CellTypes
<1>5. Zeros(z) \in Seq(Cells) /\ Len(Zeros(z)) = z /\ \A i \in 1 .. z : Zeros(z)[i] = Zero
  BY ZerosAt
<1>6. PaddedMessage(n) = ((c \o <<Mark>>) \o Zeros(z)) \o t
  BY DEF PaddedMessage
<1> HIDE DEF c, t, h, l
<1> DEFINE p == c \o <<Mark>>
<1>7. /\ p \in Seq(Cells) /\ Len(p) = n + 1
      /\ \A i \in 1 .. n : p[i] = Cell("char", i)
      /\ p[n + 1] = Mark
  BY <1>1, <1>4, ConcatAt
<1> HIDE DEF p
<1> DEFINE q == p \o Zeros(z)
<1>8. /\ q \in Seq(Cells) /\ Len(q) = n + 1 + z
      /\ \A i \in 1 .. n + 1 : q[i] = p[i]
      /\ \A i \in n + 2 .. n + 1 + z : q[i] = Zero
  <2>1. /\ q \in Seq(Cells) /\ Len(q) = (n + 1) + z
        /\ \A i \in 1 .. n + 1 : q[i] = p[i]
        /\ \A i \in (n + 1) + 1 .. (n + 1) + z : i - (n + 1) \in 1 .. z /\ q[i] = Zeros(z)[i - (n + 1)]
    <3> DEFINE s == Zeros(z)
    <3>1. s \in Seq(Cells) /\ Len(s) = z
      BY <1>5
    <3> HIDE DEF s
    <3>2. /\ p \o s \in Seq(Cells) /\ Len(p \o s) = Len(p) + Len(s)
          /\ \A i \in 1 .. Len(p) : (p \o s)[i] = p[i]
          /\ \A i \in Len(p) + 1 .. Len(p) + Len(s) :
               i - Len(p) \in 1 .. Len(s) /\ (p \o s)[i] = s[i - Len(p)]
      BY <1>7, <3>1, ConcatAt
    <3> QED
      BY <1>7, <3>1, <3>2 DEF s, q
  <2> HIDE DEF q
  <2>2. (n + 1) + 1 = n + 2 /\ (n + 1) + z = n + 1 + z
    OBVIOUS
  <2> QED
    BY <1>5, <2>1, <2>2
<1> HIDE DEF q
<1>9. /\ Len(q \o t) = n + 1 + z + 2
      /\ \A i \in 1 .. n + 1 + z : (q \o t)[i] = q[i]
      /\ (q \o t)[n + 1 + z + 1] = h
      /\ (q \o t)[n + 1 + z + 2] = l
  <2> DEFINE x == n + 1 + z
  <2>1. x \in Nat /\ Len(q) = x
    BY <1>8
  <2> HIDE DEF x
  <2>2. /\ Len(q \o t) = x + 2
        /\ \A i \in 1 .. x : (q \o t)[i] = q[i]
        /\ \A i \in x + 1 .. x + 2 : (q \o t)[i] = t[i - x]
    <3>1. q \in Seq(Cells) /\ t \in Seq(Cells) /\ x = Len(q) /\ 2 = Len(t)
      BY <1>3, <1>8, <2>1
    <3>2. /\ Len(q \o t) = Len(q) + Len(t)
          /\ \A i \in 1 .. Len(q) : (q \o t)[i] = q[i]
          /\ \A i \in Len(q) + 1 .. Len(q) + Len(t) : (q \o t)[i] = t[i - Len(q)]
      BY <3>1, ConcatAt
    <3> QED
      BY <3>1, <3>2
  <2>3. x + 1 \in x + 1 .. x + 2 /\ x + 2 \in x + 1 .. x + 2 /\ (x + 1) - x = 1 /\ (x + 2) - x = 2
    BY <2>1
  <2>4. (q \o t)[x + 1] = h /\ (q \o t)[x + 2] = l
    BY <1>3, <2>2, <2>3
  <2> QED
    BY <2>2, <2>4 DEF x
<1>10. PaddedMessage(n) = q \o t
  BY <1>6 DEF q, p
<1>11. /\ \A i \in 1 .. n : (q \o t)[i] = Cell("char", i)
       /\ (q \o t)[n + 1] = Mark
       /\ \A i \in n + 2 .. n + 1 + z : (q \o t)[i] = Zero
  <2>1. \A i \in 1 .. n + 1 : i \in 1 .. n + 1 + z
    OBVIOUS
  <2>2. \A i \in 1 .. n : i \in 1 .. n + 1
    OBVIOUS
  <2>3. \A i \in n + 2 .. n + 1 + z : i \in 1 .. n + 1 + z
    OBVIOUS
  <2>4. n + 1 \in 1 .. n + 1
    OBVIOUS
  <2> QED
    BY <1>7, <1>8, <1>9, <2>1, <2>2, <2>3, <2>4
<1>12. h = Cell("high", (8 * n) \div Word) /\ l = Cell("low", (8 * n) % Word)
  BY DEF h, l
<1> QED
  BY <1>9, <1>10, <1>11, <1>12

\* Cells that are filled up with zeros.
LEMMA PaddedAt ==
  ASSUME NEW cells \in Seq(Cells), NEW n \in Nat, Len(cells) <= n
  PROVE  /\ Padded(cells, n) \in Seq(Cells) /\ Len(Padded(cells, n)) = n
         /\ \A i \in 1 .. Len(cells) : Padded(cells, n)[i] = cells[i]
         /\ \A i \in Len(cells) + 1 .. n : Padded(cells, n)[i] = Zero
<1> DEFINE m == n - Len(cells)
<1>1. m \in Nat /\ Len(cells) \in Nat /\ Len(cells) + m = n
  OBVIOUS
<1>2. Zeros(m) \in Seq(Cells) /\ Len(Zeros(m)) = m /\ \A i \in 1 .. m : Zeros(m)[i] = Zero
  BY <1>1, ZerosAt
<1>3. Padded(cells, n) = cells \o Zeros(m)
  BY DEF Padded
<1> HIDE DEF m
<1>4. /\ Padded(cells, n) \in Seq(Cells) /\ Len(Padded(cells, n)) = Len(cells) + m
      /\ \A i \in 1 .. Len(cells) : Padded(cells, n)[i] = cells[i]
      /\ \A i \in Len(cells) + 1 .. Len(cells) + m :
           i - Len(cells) \in 1 .. m /\ Padded(cells, n)[i] = Zeros(m)[i - Len(cells)]
  <2>1. m = Len(Zeros(m)) /\ Zeros(m) \in Seq(Cells)
    BY <1>2
  <2> DEFINE s == Zeros(m)
  <2> HIDE DEF s
  <2>2. s \in Seq(Cells) /\ Len(s) = m
    BY <2>1 DEF s
  <2>3. /\ cells \o s \in Seq(Cells) /\ Len(cells \o s) = Len(cells) + Len(s)
        /\ \A i \in 1 .. Len(cells) : (cells \o s)[i] = cells[i]
        /\ \A i \in Len(cells) + 1 .. Len(cells) + Len(s) :
             i - Len(cells) \in 1 .. Len(s) /\ (cells \o s)[i] = s[i - Len(cells)]
    BY <2>2, ConcatAt
  <2> QED
    BY <1>3, <2>2, <2>3 DEF s
<1> QED
  BY <1>1, <1>2, <1>4

\* The length at the end of a block.
LEMMA WithLengthAt ==
  ASSUME NEW cells \in Seq(Cells), Len(cells) = BlockSize - LengthLen, LengthInv
  PROVE  /\ WithLength(cells) \in Seq(Cells) /\ Len(WithLength(cells)) = BlockSize
         /\ \A i \in 1 .. BlockSize - 2 : WithLength(cells)[i] = cells[i]
         /\ WithLength(cells)[BlockSize - 1] = Cell("high", length.high)
         /\ WithLength(cells)[BlockSize] = Cell("low", length.low)
<1> DEFINE t == <<Cell("high", length.high), Cell("low", length.low)>>
           b == SubSeq(cells, 1, BlockSize - LengthLen)
<1>1. BlockSize - 2 \in Nat /\ BlockSize - LengthLen = BlockSize - 2
  BY Sizes
<1>2. length.high \in Int /\ length.low \in Int
  BY DEF LengthInv
<1>3. t \in Seq(Cells) /\ Len(t) = 2 /\ t[1] = Cell("high", length.high)
      /\ t[2] = Cell("low", length.low)
  BY <1>2, CellTypes
<1>4. b = cells
  BY <1>1
<1>5. WithLength(cells) = b \o t
  BY DEF WithLength
<1> HIDE DEF t, b
<1> DEFINE x == BlockSize - 2
<1>6. x \in Nat /\ Len(cells) = x
  BY <1>1
<1>7. x + 2 = BlockSize /\ x + 1 = BlockSize - 1
  BY Sizes
<1> HIDE DEF x
<1>8. /\ WithLength(cells) \in Seq(Cells) /\ Len(WithLength(cells)) = x + 2
      /\ \A i \in 1 .. x : WithLength(cells)[i] = cells[i]
      /\ \A i \in x + 1 .. x + 2 : WithLength(cells)[i] = t[i - x]
  <2>1. x = Len(cells) /\ 2 = Len(t) /\ t \in Seq(Cells) /\ WithLength(cells) = cells \o t
    BY <1>3, <1>4, <1>5, <1>6
  <2>2. /\ cells \o t \in Seq(Cells) /\ Len(cells \o t) = Len(cells) + Len(t)
        /\ \A i \in 1 .. Len(cells) : (cells \o t)[i] = cells[i]
        /\ \A i \in Len(cells) + 1 .. Len(cells) + Len(t) : (cells \o t)[i] = t[i - Len(cells)]
    BY <2>1, ConcatAt
  <2> QED
    BY <2>1, <2>2
<1>9. x + 1 \in x + 1 .. x + 2 /\ x + 2 \in x + 1 .. x + 2 /\ (x + 1) - x = 1 /\ (x + 2) - x = 2
  BY <1>6
<1>10. WithLength(cells)[x + 1] = t[1] /\ WithLength(cells)[x + 2] = t[2]
  BY <1>8, <1>9
<1> QED
  BY <1>3, <1>7, <1>8, <1>10 DEF x

\* A cell appended to cells.
LEMMA CellAppended ==
  ASSUME NEW cells \in Seq(Cells), NEW x \in Cells
  PROVE  /\ Append(cells, x) \in Seq(Cells) /\ Len(Append(cells, x)) = Len(cells) + 1
         /\ \A i \in 1 .. Len(cells) : Append(cells, x)[i] = cells[i]
         /\ Append(cells, x)[Len(cells) + 1] = x
BY AppendProperties

\* A block appended to blocks.
LEMMA BlockAppended ==
  ASSUME NEW done \in Seq(Seq(Cells)), NEW cells \in Seq(Cells)
  PROVE  LET q == ProcessMessageBlock(done, cells)
         IN  /\ q \in Seq(Seq(Cells)) /\ Len(q) = Len(done) + 1
             /\ \A i \in 1 .. Len(done) : q[i] = done[i]
             /\ q[Len(done) + 1] = cells
BY AppendProperties DEF ProcessMessageBlock

-------------------------------------------------------------------------------
(* The hash *)

\* One turn of the loop of input(): the block that becomes full is compressed.
LEMMA InputStep ==
  ASSUME FedInv, CellsInv, LengthInv, InputByte
  PROVE  FedInv' /\ CellsInv' /\ LengthInv'
<1> DEFINE x == Cell("char", fed + 1)
           f == Append(block, x)
           r == Len(block)
           q == Len(blocks)
           B == BlockSize
<1>1. /\ fed < password /\ fed' = fed + 1 /\ password' = password /\ length' = Longer
      /\ IF Len(f) = B
         THEN blocks' = ProcessMessageBlock(blocks, f) /\ block' = <<>>
         ELSE block' = f /\ blocks' = blocks
  BY DEF InputByte
<1>2. /\ password \in Nat /\ fed \in Nat /\ fed <= password /\ r \in Nat /\ q \in Nat /\ r < B
      /\ fed = B * q + r /\ block \in Seq(Cells) /\ blocks \in Seq(Seq(Cells))
  BY DEF FedInv, CellsInv
<1>3. B \in Nat \ {0} /\ Word \in Nat \ {0} /\ Word > 8
  BY Sizes
<1>4. x \in Cells
  BY <1>2, CellTypes
<1>5. /\ f \in Seq(Cells) /\ Len(f) = r + 1
      /\ (\A i \in 1 .. r : f[i] = block[i]) /\ f[r + 1] = x
  BY <1>2, <1>4, CellAppended
<1>6. \A k \in 1 .. r + 1 : f[k] = Cell("char", B * q + k)
  <2>1. \A k \in 1 .. r : f[k] = Cell("char", B * q + k)
    BY <1>5 DEF CellsInv
  <2> HIDE DEF f, r, q, B
  <2>2. B * q + (r + 1) = fed + 1
    BY <1>2, <1>3
  <2>3. f[r + 1] = Cell("char", B * q + (r + 1))
    BY <1>5, <2>2
  <2>4. \A k \in 1 .. r + 1 : k \in 1 .. r \/ k = r + 1
    BY <1>2
  <2> QED
    BY <2>1, <2>3, <2>4
<1>7. LengthInv'
  <2>1. length.high \in Nat /\ length.low \in 0 .. Word - 1
        /\ Word * length.high + length.low = 8 * fed
    BY DEF LengthInv
  <2> DEFINE s == length.low + 8
             d == s \div Word
             m == s % Word
  <2>2. s \in Nat /\ d \in Int /\ m \in 0 .. Word - 1 /\ s = Word * d + m
    <3>1. s \in Nat /\ s \in Int
      BY <1>3, <2>1
    <3> HIDE DEF s
    <3> QED
      BY <1>3, <3>1, DivMod
  <2>3. length' = [high |-> length.high + d, low |-> m]
    BY <1>1 DEF Longer
  <2>4. d \in Nat
    <3> HIDE DEF d, m, s
    <3>1. d < 0 => Word * d + Word <= Word * 0
      BY <1>3, <2>2, MultiplesApart
    <3> QED
      BY <1>3, <2>2, <3>1
  <2>5. Word * (length.high + d) + m = 8 * (fed + 1)
    <3>a. s = length.low + 8
      OBVIOUS
    <3> HIDE DEF d, m, s
    <3>b. Word * length.high \in Int
      BY <1>3, <2>1
    <3>c. Word * length.high + (length.low + 8) = 8 * (fed + 1)
      <4>1. fed \in Int /\ length.low \in Int /\ Word * length.high + length.low = 8 * fed
        BY <1>2, <1>3, <2>1
      <4>2. \A a, b, c \in Int : a + b = 8 * c => a + (b + 8) = 8 * (c + 1)
        OBVIOUS
      <4> QED
        BY <3>b, <4>1, <4>2
    <3>1. Word * length.high + (Word * d + m) = 8 * (fed + 1)
      BY <2>2, <3>a, <3>c
    <3>2. Word * (length.high + d) = Word * length.high + Word * d
      BY <1>3, <2>1, <2>4
    <3>3. Word * length.high \in Int /\ Word * d \in Int
      BY <1>3, <2>1, <2>4
    <3> QED
      BY <2>2, <3>1, <3>2, <3>3
  <2> HIDE DEF d, m, s
  <2>6. length'.high = length.high + d /\ length'.low = m
    BY <2>3
  <2> QED
    BY <1>1, <2>1, <2>2, <2>3, <2>4, <2>5, <2>6 DEF LengthInv
<1>8. CASE r + 1 = B
  <2>1. blocks' = ProcessMessageBlock(blocks, f) /\ block' = <<>>
    BY <1>1, <1>5, <1>8
  <2>2. /\ blocks' \in Seq(Seq(Cells)) /\ Len(blocks') = q + 1
        /\ (\A i \in 1 .. q : blocks'[i] = blocks[i]) /\ blocks'[q + 1] = f
    BY <1>2, <1>5, <2>1, BlockAppended
  <2>3. Len(block') = 0 /\ block' \in Seq(Cells)
    BY <2>1
  <2>4. \A i \in 1 .. q : Len(blocks[i]) = B /\ \A k \in 1 .. B : blocks[i][k] = Cell("char", B * (i - 1) + k)
    BY DEF CellsInv
  <2> HIDE DEF f, r, q, B, x
  <2>5. (q + 1) - 1 = q /\ B * (q + 1) = B * q + B /\ B * q \in Int
    BY <1>2, <1>3
  <2>6. ASSUME NEW i \in 1 .. q + 1
        PROVE  /\ Len(blocks'[i]) = B
               /\ \A k \in 1 .. B : blocks'[i][k] = Cell("char", B * (i - 1) + k)
    <3>1. CASE i \in 1 .. q
      BY <2>2, <2>4, <3>1
    <3>2. CASE i = q + 1
      BY <1>5, <1>6, <1>8, <2>2, <2>5, <3>2
    <3>3. q \in Nat
      BY <1>2
    <3> QED
      BY <3>1, <3>2, <3>3
  <2>7. CellsInv'
    BY <2>2, <2>3, <2>6 DEF CellsInv, B
  <2>8. fed' = B * Len(blocks') + Len(block') /\ Len(block') < B /\ fed' \in 0 .. password'
        /\ password' \in Nat
    BY <1>1, <1>2, <1>3, <1>8, <2>2, <2>3, <2>5
  <2> QED
    BY <1>7, <2>7, <2>8 DEF FedInv, B
<1>9. CASE r + 1 # B
  <2>1. block' = f /\ blocks' = blocks
    BY <1>1, <1>5, <1>9
  <2>2. CellsInv'
    BY <1>2, <1>5, <1>6, <2>1 DEF CellsInv
  <2> HIDE DEF f, r, q, x
  <2>3. fed' = B * q + (r + 1) /\ r + 1 < B /\ fed' \in 0 .. password' /\ password' \in Nat
    <3> HIDE DEF B
    <3>1. B * q \in Int
      BY <1>2, <1>3
    <3> QED
      BY <1>1, <1>2, <1>3, <1>9, <3>1
  <2> QED
    BY <1>5, <1>7, <2>1, <2>2, <2>3 DEF FedInv, q
<1> QED
  BY <1>8, <1>9

\* The standard's zeros and length, for a message that ends r cells into a block.
LEMMA PaddingAt ==
  ASSUME NEW n \in Nat, NEW q \in Nat, NEW r \in 0 .. BlockSize - 1, n = BlockSize * q + r,
         NEW z, z = IF r >= BlockSize - LengthLen THEN 2 * BlockSize - (r + 3) ELSE BlockSize - (r + 3)
  PROVE  z \in Nat /\ z = (0 - (n + 1 + LengthLen)) % BlockSize
<1> DEFINE B == BlockSize
<1>1. B \in Nat \ {0} /\ B > 3 /\ LengthLen = 2
  BY Sizes
<1> HIDE DEF B
<1>2. z \in 0 .. B - 1
  BY <1>1 DEF B
<1>3. PICK k \in Int : k = IF r >= B - 2 THEN 0 - (q + 2) ELSE 0 - (q + 1)
  BY <1>1
<1>4. 0 - (n + 1 + 2) = B * k + z
  <2>1. B * q \in Int /\ n = B * q + r
    BY <1>1 DEF B
  <2>2. CASE r >= B - 2
    <3>1. B * k = 0 - (B * q) - 2 * B
      BY <1>1, <1>3, <2>2
    <3>2. z = 2 * B - (r + 3)
      BY <1>1, <2>2 DEF B
    <3> QED
      BY <1>1, <2>1, <3>1, <3>2
  <2>3. CASE ~(r >= B - 2)
    <3>1. B * k = 0 - (B * q) - B
      BY <1>1, <1>3, <2>3
    <3>2. z = B - (r + 3)
      BY <1>1, <2>3 DEF B
    <3> QED
      BY <1>1, <2>1, <3>1, <3>2
  <2> QED
    BY <2>2, <2>3
<1>5. (B * k + z) % B = z
  BY <1>1, <1>2, ModUnique
<1>6. (0 - (n + 1 + 2)) % B = z
  BY <1>4, <1>5
<1> QED
  BY <1>1, <1>2, <1>6 DEF B

\* pad_message makes of the last block what the standard makes of the message.
LEMMA PadStep ==
  ASSUME FedInv, CellsInv, LengthInv, fed = password
  PROVE  Standard(PadMessage, password)
<1> DEFINE B == BlockSize
<1>1. PICK n, q, r, z, b, P, mk :
        /\ n = password /\ q = Len(blocks) /\ r = Len(block)
        /\ z = IF r >= BlockSize - LengthLen THEN 2 * B - (r + 3) ELSE B - (r + 3)
        /\ b = B * q
        /\ P = PaddedMessage(n)
        /\ mk = Append(block, Mark)
  OBVIOUS
<1>2. B \in Nat \ {0} /\ B > 3 /\ LengthLen = 2 /\ B - LengthLen = B - 2 /\ B - 2 \in Nat
  BY Sizes
<1>3. n \in Nat /\ q \in Nat /\ r \in Nat /\ r < B /\ n = b + r
  BY <1>1 DEF FedInv, CellsInv
<1>4. z \in Nat /\ z = (0 - (n + 1 + LengthLen)) % BlockSize
  <2>1. r \in 0 .. BlockSize - 1 /\ n = BlockSize * q + r
    BY <1>1, <1>2, <1>3
  <2>2. z = IF r >= BlockSize - LengthLen THEN 2 * BlockSize - (r + 3) ELSE BlockSize - (r + 3)
    BY <1>1
  <2> QED
    BY <1>3, <2>1, <2>2, PaddingAt
<1>5. /\ Len(P) = n + 1 + z + 2
      /\ \A i \in 1 .. n : P[i] = Cell("char", i)
      /\ P[n + 1] = Mark
      /\ \A i \in n + 2 .. n + 1 + z : P[i] = Zero
      /\ P[n + 1 + z + 1] = Cell("high", (8 * n) \div Word)
      /\ P[n + 1 + z + 2] = Cell("low", (8 * n) % Word)
  <2>1. /\ Len(PaddedMessage(n)) = n + 1 + z + 2
        /\ \A i \in 1 .. n : PaddedMessage(n)[i] = Cell("char", i)
        /\ PaddedMessage(n)[n + 1] = Mark
        /\ \A i \in n + 2 .. n + 1 + z : PaddedMessage(n)[i] = Zero
        /\ PaddedMessage(n)[n + 1 + z + 1] = Cell("high", (8 * n) \div Word)
        /\ PaddedMessage(n)[n + 1 + z + 2] = Cell("low", (8 * n) % Word)
    BY ONLY <1>3, <1>4, PaddedMessageAt
  <2> QED
    BY <1>1, <2>1
<1>6. (8 * n) \div Word = length.high /\ (8 * n) % Word = length.low
  <2>1. /\ length.high \in Int /\ length.low \in 0 .. Word - 1 /\ Word \in Nat \ {0}
        /\ 8 * n = Word * length.high + length.low
    BY <1>1, Sizes DEF LengthInv
  <2> QED
    BY <2>1, ModUnique
<1>7. /\ mk \in Seq(Cells) /\ Len(mk) = r + 1
      /\ \A k \in 1 .. r : mk[k] = Cell("char", b + k)
      /\ mk[r + 1] = Mark
  <2>1. block \in Seq(Cells) /\ Mark \in Cells
    BY CellTypes DEF CellsInv
  <2>2. \A k \in 1 .. r : block[k] = Cell("char", b + k)
    BY <1>1 DEF CellsInv
  <2> QED
    BY <1>1, <2>1, <2>2, CellAppended
<1>8. blocks \in Seq(Seq(Cells)) /\ Len(blocks) = q
  BY <1>1 DEF CellsInv
<1>9. b \in Nat
  BY <1>1, <1>2, <1>3
<1>10. ASSUME NEW i \in 1 .. q
       PROVE  Len(blocks[i]) = B /\ \A k \in 1 .. B : blocks[i][k] = P[B * (i - 1) + k]
  <2>1. Len(blocks[i]) = B /\ \A k \in 1 .. B : blocks[i][k] = Cell("char", B * (i - 1) + k)
    BY <1>1 DEF CellsInv
  <2>2. B * (i - 1) + B <= b
    BY <1>1, <1>2, <1>3, MultiplesApart
  <2>3. B * (i - 1) \in Nat
    BY <1>2, <1>3
  <2> HIDE DEF B
  <2>4. \A k \in 1 .. B : B * (i - 1) + k \in 1 .. n
    <3> DEFINE j == B * (i - 1)
    <3>1. j \in Nat /\ j + B <= b
      BY <2>2, <2>3
    <3> HIDE DEF j
    <3>2. \A k \in 1 .. B : j + k \in 1 .. n
      BY <1>2, <1>3, <1>9, <3>1
    <3> QED
      BY <3>2 DEF j
  <2> QED
    BY <1>5, <2>1, <2>4
\* The places of the block that follows the full ones.
<1>11. ASSUME NEW c, \A k \in 1 .. r + 1 : c[k] = mk[k]
       PROVE  \A k \in 1 .. r + 1 : c[k] = P[b + k]
  <2>1. \A k \in 1 .. r : b + k \in 1 .. n /\ b + (r + 1) = n + 1
    BY <1>3, <1>9
  <2>2. \A k \in 1 .. r : c[k] = P[b + k]
    <3>1. \A k \in 1 .. r : k \in 1 .. r + 1
      BY <1>3
    <3> QED
      BY <1>5, <1>7, <1>11, <2>1, <3>1
  <2>3. c[r + 1] = P[b + (r + 1)]
    <3>1. r + 1 \in 1 .. r + 1 /\ b + (r + 1) = n + 1
      BY <1>3, <1>9
    <3> QED
      BY <1>5, <1>7, <1>11, <3>1
  <2>4. \A k \in 1 .. r + 1 : k \in 1 .. r \/ k = r + 1
    BY <1>3
  <2> QED
    BY <2>2, <2>3, <2>4
<1> HIDE DEF B
<1>12. CASE ~(r >= B - 2)
  <2>1. PICK c, d : c = Padded(mk, B - LengthLen) /\ d = WithLength(c)
    OBVIOUS
  <2>2. PadMessage = ProcessMessageBlock(blocks, d)
    BY <1>1, <1>2, <1>12, <2>1 DEF PadMessage, NoRoom, B
  <2>3. /\ c \in Seq(Cells) /\ Len(c) = B - 2
        /\ \A k \in 1 .. r + 1 : c[k] = mk[k]
        /\ \A k \in r + 2 .. B - 2 : c[k] = Zero
    <3>1. r + 1 <= B - 2 /\ (r + 1) + 1 = r + 2
      BY <1>2, <1>3, <1>12
    <3>2. PICK w \in Nat : w = B - 2 /\ c = Padded(mk, w) /\ Len(mk) <= w
      BY <1>2, <1>7, <2>1, <3>1
    <3>3. /\ c \in Seq(Cells) /\ Len(c) = w
          /\ \A k \in 1 .. Len(mk) : c[k] = mk[k]
          /\ \A k \in Len(mk) + 1 .. w : c[k] = Zero
      BY <1>7, <3>2, PaddedAt
    <3> QED
      BY <1>7, <3>1, <3>2, <3>3
  <2>4. /\ d \in Seq(Cells) /\ Len(d) = B
        /\ \A k \in 1 .. B - 2 : d[k] = c[k]
        /\ d[B - 1] = Cell("high", length.high)
        /\ d[B] = Cell("low", length.low)
    BY <1>2, <2>1, <2>3, WithLengthAt DEF B
  <2>5. /\ Len(PadMessage) = q + 1
        /\ (\A i \in 1 .. q : PadMessage[i] = blocks[i])
        /\ PadMessage[q + 1] = d
    BY <1>8, <2>2, <2>4, BlockAppended
  <2>6. z = B - (r + 3)
    BY <1>1, <1>2, <1>12 DEF B
  <2>7. /\ n + 1 + z = b + (B - 2) /\ n + 1 + z + 1 = b + (B - 1) /\ n + 1 + z + 2 = b + B
        /\ r + 1 <= B - 2
    BY <1>2, <1>3, <1>9, <1>12, <2>6
  <2>8. \A k \in 1 .. r + 1 : d[k] = P[b + k]
    <3>1. \A k \in 1 .. r + 1 : k \in 1 .. B - 2
      BY <1>2, <1>3, <2>7
    <3>2. \A k \in 1 .. r + 1 : d[k] = mk[k]
      BY <2>3, <2>4, <3>1
    <3> QED
      BY <1>11, <3>2
  <2>9. \A k \in r + 2 .. B - 2 : d[k] = P[b + k]
    <3>1. \A k \in r + 2 .. B - 2 : k \in 1 .. B - 2 /\ b + k \in n + 2 .. n + 1 + z
      BY <1>2, <1>3, <1>9, <2>7
    <3> QED
      BY <1>5, <2>3, <2>4, <3>1
  <2>10. d[B - 1] = P[b + (B - 1)] /\ d[B] = P[b + B]
    BY <1>5, <1>6, <2>4, <2>7
  <2>11. \A k \in 1 .. B : k \in 1 .. r + 1 \/ k \in r + 2 .. B - 2 \/ k = B - 1 \/ k = B
    BY <1>2, <1>3
  <2>12. \A k \in 1 .. B : d[k] = P[b + k]
    BY <2>8, <2>9, <2>10, <2>11
  <2>13. B * (q + 1) = b + B /\ (q + 1) - 1 = q
    BY <1>1, <1>2, <1>3
  <2>14. Len(P) = B * Len(PadMessage)
    BY <1>5, <2>5, <2>7, <2>13
  <2>15. ASSUME NEW i \in 1 .. q + 1
         PROVE  Len(PadMessage[i]) = B /\ \A k \in 1 .. B : PadMessage[i][k] = P[B * (i - 1) + k]
    <3>1. CASE i \in 1 .. q
      BY <1>10, <2>5, <3>1
    <3>2. CASE i = q + 1
      <4>1. PadMessage[i] = d /\ Len(d) = B /\ i - 1 = q /\ B * (i - 1) = b
        BY <1>1, <2>4, <2>5, <2>13, <3>2
      <4> QED
        BY <2>12, <4>1
    <3> QED
      BY <1>3, <3>1, <3>2
  <2> QED
    BY <1>1, <2>5, <2>14, <2>15 DEF Standard, B
<1>13. CASE r >= B - 2
  <2>1. PICK c, e, d : c = Padded(mk, B) /\ e = Zeros(B - LengthLen) /\ d = WithLength(e)
    OBVIOUS
  <2>2. PadMessage = ProcessMessageBlock(ProcessMessageBlock(blocks, c), d)
    BY <1>1, <1>2, <1>13, <2>1 DEF PadMessage, NoRoom, B
  <2>3. /\ c \in Seq(Cells) /\ Len(c) = B
        /\ \A k \in 1 .. r + 1 : c[k] = mk[k]
        /\ \A k \in r + 2 .. B : c[k] = Zero
    <3>1. r + 1 <= B /\ (r + 1) + 1 = r + 2 /\ Len(mk) <= B /\ B \in Nat
      BY <1>2, <1>3, <1>7, <1>13
    <3>2. /\ c \in Seq(Cells) /\ Len(c) = B
          /\ \A k \in 1 .. Len(mk) : c[k] = mk[k]
          /\ \A k \in Len(mk) + 1 .. B : c[k] = Zero
      BY <1>7, <2>1, <3>1, PaddedAt
    <3> QED
      BY <1>7, <3>1, <3>2
  <2>4. e \in Seq(Cells) /\ Len(e) = B - 2 /\ \A k \in 1 .. B - 2 : e[k] = Zero
    BY <1>2, <2>1, ZerosAt
  <2>5. /\ d \in Seq(Cells) /\ Len(d) = B
        /\ \A k \in 1 .. B - 2 : d[k] = Zero
        /\ d[B - 1] = Cell("high", length.high)
        /\ d[B] = Cell("low", length.low)
    BY <1>2, <2>1, <2>4, WithLengthAt DEF B
  <2>6. PICK f : f = ProcessMessageBlock(blocks, c)
    OBVIOUS
  <2>7. /\ f \in Seq(Seq(Cells)) /\ Len(f) = q + 1
        /\ (\A i \in 1 .. q : f[i] = blocks[i]) /\ f[q + 1] = c
    BY <1>8, <2>3, <2>6, BlockAppended
  <2>8. /\ Len(PadMessage) = q + 2
        /\ (\A i \in 1 .. q + 1 : PadMessage[i] = f[i])
        /\ PadMessage[q + 2] = d
    <3>1. PadMessage = ProcessMessageBlock(f, d)
      BY <2>2, <2>6
    <3>2. /\ Len(PadMessage) = Len(f) + 1
          /\ (\A i \in 1 .. Len(f) : PadMessage[i] = f[i])
          /\ PadMessage[Len(f) + 1] = d
      BY <2>5, <2>7, <3>1, BlockAppended
    <3>3. (q + 1) + 1 = q + 2
      BY <1>3
    <3> QED
      BY <2>7, <3>2, <3>3
  <2>9. z = 2 * B - (r + 3)
    BY <1>1, <1>2, <1>13 DEF B
  <2>10. /\ n + 1 + z = (b + B) + (B - 2) /\ n + 1 + z + 1 = (b + B) + (B - 1)
         /\ n + 1 + z + 2 = (b + B) + B
    BY <1>2, <1>3, <1>9, <2>9
  <2>11. \A k \in 1 .. B : c[k] = P[b + k]
    <3>1. \A k \in 1 .. r + 1 : c[k] = P[b + k]
      BY <1>11, <2>3
    <3>2. \A k \in r + 2 .. B : b + k \in n + 2 .. n + 1 + z
      BY <1>2, <1>3, <1>9, <2>10
    <3>3. \A k \in r + 2 .. B : c[k] = P[b + k]
      BY <1>5, <2>3, <3>2
    <3>4. \A k \in 1 .. B : k \in 1 .. r + 1 \/ k \in r + 2 .. B
      BY <1>2, <1>3
    <3> QED
      BY <3>1, <3>3, <3>4
  <2>12. \A k \in 1 .. B : d[k] = P[(b + B) + k]
    <3>1. \A k \in 1 .. B - 2 : (b + B) + k \in n + 2 .. n + 1 + z
      BY <1>2, <1>3, <1>9, <2>10
    <3>2. \A k \in 1 .. B - 2 : d[k] = P[(b + B) + k]
      BY <1>5, <2>5, <3>1
    <3>3. d[B - 1] = P[(b + B) + (B - 1)] /\ d[B] = P[(b + B) + B]
      BY <1>5, <1>6, <2>5, <2>10
    <3>4. \A k \in 1 .. B : k \in 1 .. B - 2 \/ k = B - 1 \/ k = B
      BY <1>2
    <3> QED
      BY <3>2, <3>3, <3>4
  <2>13. B * q = b /\ B * (q + 1) = b + B /\ B * (q + 2) = (b + B) + B
         /\ (q + 1) - 1 = q /\ (q + 2) - 1 = q + 1
    BY <1>1, <1>2, <1>3
  <2>14. Len(P) = B * Len(PadMessage)
    BY <1>5, <2>8, <2>10, <2>13
  <2>15. ASSUME NEW i \in 1 .. q + 2
         PROVE  Len(PadMessage[i]) = B /\ \A k \in 1 .. B : PadMessage[i][k] = P[B * (i - 1) + k]
    <3>0. q \in Nat /\ \A j \in 1 .. q : j \in 1 .. q + 1
      BY <1>3
    <3>1. CASE i \in 1 .. q
      <4>1. PadMessage[i] = blocks[i]
        BY <2>7, <2>8, <3>0, <3>1
      <4> QED
        BY <1>10, <3>1, <4>1
    <3>2. CASE i = q + 1
      <4>1. PadMessage[i] = c
        BY <2>7, <2>8, <3>0, <3>2
      <4> QED
        BY <2>3, <2>11, <2>13, <3>2, <4>1
    <3>3. CASE i = q + 2
      BY <2>5, <2>8, <2>12, <2>13, <3>3, SMTT(30)
    <3> QED
      BY <3>0, <3>1, <3>2, <3>3
  <2> QED
    BY <1>1, <2>8, <2>14, <2>15 DEF Standard, B
<1> QED
  BY <1>2, <1>3, <1>12, <1>13

-------------------------------------------------------------------------------
(* Every step keeps the invariant *)

\* The invariant holds at the start of DoLogin.
LEMMA LoginInitHolds == LoginInit => LoginInv
<1> SUFFICES ASSUME LoginInit PROVE LoginInv
  OBVIOUS
<1>1. AnswerInv
  BY DEF LoginInit, AnswerInv, AnswerIsFromServer
<1>2. password \in Nat /\ fed = 0 /\ block = <<>> /\ blocks = <<>> /\ at = "resolve"
      /\ length = [high |-> 0, low |-> 0] /\ request = NoRequest
  BY LoginAssumption DEF LoginInit, LoginAssumption
<1>3. FedInv
  BY <1>2, Sizes DEF FedInv
<1>4. CellsInv
  BY <1>2 DEF CellsInv
<1>5. LengthInv
  BY <1>2, Sizes DEF LengthInv
<1> QED
  BY <1>1, <1>2, <1>3, <1>4, <1>5 DEF LoginInv, HashInv, HashIsOfPassword

\* A failure is reported before a request exists; answers only grow.
LEMMA AnswerStep ==
  ASSUME AnswerInv, [LoginNext]_loginVars
  PROVE  AnswerInv'
<1> USE DEF AnswerInv, AnswerIsFromServer, hashVars, netVars
<1>1. CASE Resolve \/ Connect \/ Connected \/ InputByte \/ Result
  BY <1>1 DEF Resolve, Connect, Connected, InputByte, Result
<1>2. CASE NobodyAnswers
  BY <1>2 DEF NobodyAnswers, NotConnected
<1>3. CASE SendRequest
  BY <1>3 DEF SendRequest
<1>4. CASE ReadSome
  <2>1. PICK n \in 0 .. answered : (n > 0 \/ ended) /\ result' = Answer(n)
    BY <1>4 DEF ReadSome, Received
  <2>2. result'.kind = "answer" /\ result'.len = n
    BY <2>1 DEF Answer
  <2>3. n \in 1 .. answered \/ (n = 0 /\ ended)
    BY <2>1
  <2> QED
    BY <1>4, <2>1, <2>2, <2>3 DEF ReadSome
<1>5. CASE AnswerArrives
  <2>1. request # NoRequest /\ answered' \in Nat /\ answered' > answered
    BY <1>5, LoginAssumption DEF AnswerArrives, LoginAssumption
  <2>2. \A k \in 1 .. answered : k \in 1 .. answered'
    BY <2>1
  <2> QED
    BY <1>5, <2>1, <2>2 DEF AnswerArrives
<1>6. CASE ServerEnds
  BY <1>6 DEF ServerEnds
<1>7. CASE UNCHANGED loginVars
  BY <1>7 DEF loginVars
<1> QED
  BY <1>1, <1>2, <1>3, <1>4, <1>5, <1>6, <1>7 DEF LoginNext, DoLogin

\* Only the loop of input() and pad_message touch the blocks.
LEMMA HashStep ==
  ASSUME AnswerInv, HashInv, [LoginNext]_loginVars
  PROVE  HashInv'
<1> USE DEF HashInv, Hashing, HashIsOfPassword, hashVars, netVars
<1>0. UNCHANGED <<hashVars, password>> =>
        /\ FedInv' = FedInv /\ CellsInv' = CellsInv /\ LengthInv' = LengthInv
        /\ Standard(blocks, password)' = Standard(blocks, password)
  BY DEF FedInv, CellsInv, LengthInv, Standard, PaddedMessage
<1>r. request' = request /\ password' = password =>
        Standard(request, password)' = Standard(request, password)
  BY DEF Standard, PaddedMessage
<1>1. CASE Resolve \/ Connect \/ Connected \/ NobodyAnswers \/ ReadSome \/ AnswerArrives \/ ServerEnds
  BY <1>0, <1>r, <1>1 DEF Resolve, Connect, Connected, NobodyAnswers, ReadSome, AnswerArrives,
     ServerEnds
<1>2. CASE InputByte
  <2>1. FedInv' /\ CellsInv' /\ LengthInv'
    BY <1>2, InputStep DEF InputByte
  <2> QED
    BY <1>2, <1>r, <2>1 DEF InputByte
<1>3. CASE Result
  <2>1. Standard(PadMessage, password)
    BY <1>3, PadStep DEF Result
  <2>2. blocks' = PadMessage /\ password' = password /\ at' = "send" /\ request' = request
    BY <1>3 DEF Result
  <2>3. Standard(blocks, password)'
    BY <2>1, <2>2 DEF Standard, PaddedMessage
  <2> QED
    BY <1>r, <2>2, <2>3
<1>4. CASE SendRequest
  <2>1. request' \in {request, NoRequest, blocks} /\ password' = password
        /\ at' \in {"read", "thrown"} /\ Standard(blocks, password)
    BY <1>4 DEF SendRequest
  <2>2. request' = blocks => Standard(request, password)'
    BY <2>1 DEF Standard, PaddedMessage
  <2> QED
    BY <1>r, <2>1, <2>2
<1>5. CASE UNCHANGED loginVars
  BY <1>0, <1>r, <1>5 DEF loginVars
<1> QED
  BY <1>1, <1>2, <1>3, <1>4, <1>5 DEF LoginNext, DoLogin

-------------------------------------------------------------------------------
(* The theorems, for DoLogin by itself: DummyClientMain is what calls it *)

LoginSpec == LoginInit /\ [][LoginNext]_loginVars

\* The exchange and the hash are where the invariant says, for every password.
THEOREM LoginInvariance == LoginSpec => []LoginInv
<1>1. LoginInit => LoginInv
  BY LoginInitHolds
<1>2. LoginInv /\ [LoginNext]_loginVars => LoginInv'
  BY AnswerStep, HashStep DEF LoginInv
<1> QED
  BY <1>1, <1>2, PTL DEF LoginSpec

\* DoLogin reports a failure only if every address has failed, and else returns the
\* beginning of the server's answer, empty only if the server has left.
THEOREM AnswersAreHonest == LoginSpec => []AnswerIsFromServer
<1>1. LoginInv => AnswerIsFromServer
  BY DEF LoginInv, AnswerInv
<1> QED
  BY <1>1, LoginInvariance, PTL

\* What is sent is the standard's padded message of the whole password, place by place.
THEOREM HashIsStandard == LoginSpec => []HashIsOfPassword
<1>1. LoginInv => HashIsOfPassword
  BY DEF LoginInv, HashInv
<1> QED
  BY <1>1, LoginInvariance, PTL

===============================================================================
