--------------------------- MODULE PacketCodecProofs ---------------------------
(***************************************************************************)
(* Proofs about PacketCodec, for any clients, numbers, base and contents   *)
(* of new buffers: the text of a number is read back as that number, what  *)
(* a data_ or a recv_buf holds is the overlay of the bodies that were read *)
(* into it, and a body is read exactly unless a longer one came before.    *)
(*                                                                         *)
(* Digits is a recursive function and ValueOf a fold. That the functions   *)
(* they choose exist, and what they are at each number and each text, is   *)
(* proved by induction over the set of the numbers for which it holds      *)
(* (InductionBySet).                                                       *)
(*                                                                         *)
(* The invariant CodecInv has the shape of the packets on their way (made  *)
(* of numbers, by Packet), the overlay with the body that was the last to  *)
(* reach a cell (IsLatest), and, for buffers without digits at first, the  *)
(* exact reads so far.                                                     *)
(***************************************************************************)
EXTENDS PacketCodec, SequenceTheorems, WellFoundedInduction, TLAPS

-------------------------------------------------------------------------------
(* Numbers and their texts *)

\* Induction up to a number, without an operator to instantiate: S is the set of the
\* numbers for which the fact holds.
LEMMA InductionBySet ==
  ASSUME NEW S, \A n \in Nat : (\A m \in Nat : m < n => m \in S) => n \in S
  PROVE  Nat \subseteq S
<1> SUFFICES ASSUME Nat \ S # {} PROVE FALSE
  OBVIOUS
<1>1. PICK x \in Nat \ S : \A y \in Nat \ S : <<y, x>> \notin OpToRel(<, Nat)
  BY NatLessThanWellFounded, WFMin
<1>2. \A m \in Nat : m < x => m \in S
  BY <1>1 DEF OpToRel
<1> QED
  BY <1>1, <1>2

\* What the division of a number by the base leaves.
LEMMA DivMod ==
  ASSUME NEW v \in Nat
  PROVE  /\ v \div Base \in Nat /\ v % Base \in Digit
         /\ v = (v \div Base) * Base + (v % Base)
  BY CodecAssumption, SMT DEF CodecAssumption, Digit

\* All but one of the digits make a smaller number.
LEMMA DivLess ==
  ASSUME NEW v \in Nat, v >= Base
  PROVE  v \div Base < v
  BY CodecAssumption, DivMod, SMT DEF CodecAssumption, Digit

\* Dividing keeps the order of numbers.
LEMMA DivMono ==
  ASSUME NEW v \in Nat, NEW w \in Nat, v <= w
  PROVE  v \div Base <= w \div Base
  BY CodecAssumption, DivMod, SMT DEF CodecAssumption, Digit

\* A body of text has a digit at least.
Numeral == Seq(Digit) \ {<<>>}

\* What f has to be at v to be Digits.
DigitsAt(f, v) == IF v < Base THEN <<v>> ELSE Append(f[v \div Base], v % Base)

Partial(f, n) == f \in [0 .. n -> Numeral] /\ \A v \in 0 .. n : f[v] = DigitsAt(f, v)

\* One digit more makes a numeral of a numeral.
LEMMA NextNumeral ==
  ASSUME NEW n \in Nat, NEW f, \A m \in Nat : m < n => f[m] \in Numeral
  PROVE  DigitsAt(f, n) \in Numeral
<1>1. CASE n < Base
  <2>1. n \in Digit
    BY <1>1, CodecAssumption, SMT DEF CodecAssumption, Digit
  <2>2. <<n>> \in Seq(Digit) /\ <<n>> # <<>>
    BY <2>1
  <2> QED
    BY <1>1, <2>2 DEF DigitsAt, Numeral
<1>2. CASE ~(n < Base)
  <2>1. n \div Base \in Nat /\ n % Base \in Digit
    BY DivMod
  <2>2. n \div Base < n
    BY <1>2, DivLess, CodecAssumption DEF CodecAssumption
  <2>3. f[n \div Base] \in Seq(Digit)
    BY <2>1, <2>2 DEF Numeral
  <2>4. Append(f[n \div Base], n % Base) \in Seq(Digit) /\ Append(f[n \div Base], n % Base) # <<>>
    BY ONLY <2>1, <2>3, AppendProperties, EmptySeq
  <2> QED
    BY <1>2, <2>4 DEF DigitsAt, Numeral
<1> QED
  BY <1>1, <1>2

\* There are such functions up to every number, so there is one on all the Values.
LEMMA DigitsExist == \A n \in Nat : \E f : Partial(f, n)
<1> DEFINE S == {n \in Nat : \E f : Partial(f, n)}
<1>1. ASSUME NEW n \in Nat, \A m \in Nat : m < n => m \in S
      PROVE  n \in S
  <2>1. PICK f : /\ \A v \in Nat : v < n => f[v] \in Numeral
                 /\ \A v \in Nat : v < n => f[v] = DigitsAt(f, v)
    <3>1. CASE n = 0
      BY <3>1
    <3>2. CASE n # 0
      <4>1. n - 1 \in Nat /\ n - 1 < n
        BY <3>2
      <4>2. PICK f : Partial(f, n - 1)
        BY <1>1, <4>1
      <4>3. \A v \in Nat : v < n => v \in 0 .. n - 1
        OBVIOUS
      <4> QED
        BY <4>2, <4>3 DEF Partial
    <3> QED
      BY <3>1, <3>2
  <2>2. PICK g : g = [v \in 0 .. n |-> IF v = n THEN DigitsAt(f, n) ELSE f[v]]
    OBVIOUS
  <2>3. DigitsAt(f, n) \in Numeral
    BY <2>1, NextNumeral
  <2>4. g \in [0 .. n -> Numeral]
    BY <2>1, <2>2, <2>3
  <2>5. ASSUME NEW v \in 0 .. n PROVE DigitsAt(g, v) = DigitsAt(f, v)
    <3>1. v \in Nat /\ v <= n
      OBVIOUS
    <3>2. CASE v < Base
      BY <3>2 DEF DigitsAt
    <3>3. CASE ~(v < Base)
      <4>1. v \div Base \in Nat /\ v \div Base < v
        BY <3>1, <3>3, DivMod, DivLess, CodecAssumption DEF CodecAssumption
      <4>2. g[v \div Base] = f[v \div Base]
        BY <2>2, <3>1, <4>1
      <4> QED
        BY <4>2 DEF DigitsAt
    <3> QED
      BY <3>2, <3>3
  <2>6. \A v \in 0 .. n : g[v] = DigitsAt(g, v)
    BY <2>1, <2>2, <2>5
  <2> QED
    BY <2>4, <2>6 DEF Partial
<1> HIDE DEF S
<1>2. Nat \subseteq S
  BY <1>1, InductionBySet
<1> QED
  BY <1>2 DEF S

\* Digits is what its definition says, and each text is a numeral.
LEMMA DigitsDef ==
  /\ Digits \in [Values -> Numeral]
  /\ \A v \in Values : Digits[v] = DigitsAt(Digits, v)
<1>1. MaxUInt \in Nat
  BY CodecAssumption DEF CodecAssumption
<1>2. PICK f : Partial(f, MaxUInt)
  BY <1>1, DigitsExist
<1>3. f = [v \in Values |-> IF v < Base THEN <<v>> ELSE Append(f[v \div Base], v % Base)]
  BY <1>2 DEF Partial, DigitsAt, Values
<1>4. Digits = [v \in Values |-> IF v < Base THEN <<v>> ELSE Append(Digits[v \div Base], v % Base)]
  BY <1>3 DEF Digits
<1>5. \A v \in Values : Digits[v] = DigitsAt(Digits, v)
  BY <1>4 DEF DigitsAt
<1>6. \A v \in Nat : v \in Values => Digits[v] \in Numeral
  <2> DEFINE S == {v \in Nat : v \in Values => Digits[v] \in Numeral}
  <2>1. ASSUME NEW n \in Nat, \A m \in Nat : m < n => m \in S
        PROVE  n \in S
    <3>1. CASE n \in Values
      <4>1. \A m \in Nat : m < n => Digits[m] \in Numeral
        BY <1>1, <2>1, <3>1 DEF Values
      <4> QED
        BY <1>5, <3>1, <4>1, NextNumeral
    <3> QED
      BY <3>1
  <2> HIDE DEF S
  <2>2. Nat \subseteq S
    BY <2>1, InductionBySet
  <2> QED
    BY <2>2 DEF S
<1>7. \A v \in Values : Digits[v] \in Numeral
  BY <1>1, <1>6 DEF Values
<1>8. Digits \in [Values -> Numeral]
  BY ONLY <1>4, <1>7
<1> QED
  BY <1>5, <1>8

-------------------------------------------------------------------------------
(* The value of a text *)

\* What f has to be at a set s of places to be the fold of ds over the places.
FoldAt(ds, f, s) == IF s = {} THEN 0 ELSE f[s \ {Max(s)}] * Base + ds[Max(s)]

\* There is such a fold over the first n places.
LEMMA FoldExists ==
  ASSUME NEW ds
  PROVE  \A n \in Nat : \E f : f = [s \in SUBSET (1 .. n) |-> FoldAt(ds, f, s)]
<1> DEFINE S == {n \in Nat : \E f : f = [s \in SUBSET (1 .. n) |-> FoldAt(ds, f, s)]}
<1>1. ASSUME NEW n \in Nat, \A m \in Nat : m < n => m \in S
      PROVE  n \in S
  <2>1. CASE n = 0
    <3>1. PICK f : f = [s \in SUBSET (1 .. 0) |-> 0]
      OBVIOUS
    <3>2. \A s \in SUBSET (1 .. 0) : s = {}
      OBVIOUS
    <3>3. f = [s \in SUBSET (1 .. 0) |-> FoldAt(ds, f, s)]
      BY <3>1, <3>2 DEF FoldAt
    <3> QED
      BY <2>1, <3>3
  <2>2. CASE n # 0
    <3>1. n - 1 \in Nat /\ n - 1 < n
      BY <2>2
    <3>2. PICK f : f = [s \in SUBSET (1 .. n - 1) |-> FoldAt(ds, f, s)]
      BY <1>1, <3>1
    <3>3. PICK g : g = [s \in SUBSET (1 .. n) |-> IF n \in s THEN f[s \ {n}] * Base + ds[n] ELSE f[s]]
      OBVIOUS
    <3>4. ASSUME NEW s \in SUBSET (1 .. n), n \in s PROVE g[s] = FoldAt(ds, g, s)
      <4>1. Max(s) = n
        <5>1. \A y \in s : y \in Nat /\ n >= y
          OBVIOUS
        <5>2. \A x \in s : (\A y \in s : x >= y) => x = n
          BY <3>4, <5>1
        <5> QED
          BY <3>4, <5>1, <5>2 DEF Max
      <4>2. s \ {n} \in SUBSET (1 .. n) /\ n \notin s \ {n}
        OBVIOUS
      <4>3. g[s \ {n}] = f[s \ {n}]
        BY <3>3, <4>2
      <4> QED
        BY <3>3, <3>4, <4>1, <4>3 DEF FoldAt
    <3>5. ASSUME NEW s \in SUBSET (1 .. n), n \notin s PROVE g[s] = FoldAt(ds, g, s)
      <4>1. s \in SUBSET (1 .. n - 1)
        BY <3>5
      <4>2. g[s] = FoldAt(ds, f, s)
        BY <3>2, <3>3, <3>5, <4>1
      <4>3. s \ {Max(s)} \in SUBSET (1 .. n) /\ n \notin s \ {Max(s)}
        BY <3>5
      <4>4. g[s \ {Max(s)}] = f[s \ {Max(s)}]
        BY <3>3, <4>3
      <4> QED
        BY <4>2, <4>4 DEF FoldAt
    <3>6. g = [s \in SUBSET (1 .. n) |-> FoldAt(ds, g, s)]
      BY <3>3, <3>4, <3>5
    <3> QED
      BY <3>6
  <2> QED
    BY <2>1, <2>2
<1> HIDE DEF S
<1>2. Nat \subseteq S
  BY <1>1, InductionBySet
<1> QED
  BY <1>2 DEF S

\* h counts up the value of ds, digit by digit.
Counts(h, ds) == h[0] = 0 /\ \A m \in 1 .. Len(ds) : h[m] = h[m - 1] * Base + ds[m]

\* ValueOf is the last of these counts.
LEMMA ValueCounted ==
  ASSUME NEW ds \in Seq(Nat)
  PROVE  \E h : Counts(h, ds) /\ ValueOf(ds) = h[Len(ds)]
<1>1. Len(ds) \in Nat /\ DOMAIN ds = 1 .. Len(ds)
  OBVIOUS
<1>2. PICK f : f = (CHOOSE g : g = [s \in SUBSET (DOMAIN ds) |-> FoldAt(ds, g, s)])
  OBVIOUS
<1>3. ValueOf(ds) = f[DOMAIN ds]
  BY <1>2 DEF ValueOf, FoldLeft, MapThenFoldSet, FoldAt
<1>4. f = [s \in SUBSET (DOMAIN ds) |-> FoldAt(ds, f, s)]
  BY <1>1, <1>2, FoldExists
<1>5. PICK h : h = [m \in 0 .. Len(ds) |-> f[1 .. m]]
  OBVIOUS
<1>6. h[0] = 0
  <2>1. 1 .. 0 = {} /\ 0 \in 0 .. Len(ds) /\ {} \in SUBSET (DOMAIN ds)
    BY <1>1
  <2> QED
    BY <1>4, <1>5, <2>1 DEF FoldAt
<1>7. ASSUME NEW m \in 1 .. Len(ds) PROVE h[m] = h[m - 1] * Base + ds[m]
  <2>1. Max(1 .. m) = m
    <3>1. m \in 1 .. m /\ \A y \in 1 .. m : m >= y
      OBVIOUS
    <3>2. \A x \in 1 .. m : (\A y \in 1 .. m : x >= y) => x = m
      BY <3>1
    <3> QED
      BY <3>1, <3>2 DEF Max
  <2>2. (1 .. m) \ {m} = 1 .. m - 1 /\ 1 .. m # {}
    <3>1. m \in Nat /\ m >= 1 /\ m \in 1 .. m
      BY <1>1
    <3>2. \A x : x \in (1 .. m) \ {m} <=> x \in 1 .. m - 1
      BY <3>1
    <3> QED
      BY <3>1, <3>2
  <2>3. 1 .. m \in SUBSET (DOMAIN ds) /\ m \in 0 .. Len(ds) /\ m - 1 \in 0 .. Len(ds)
    BY <1>1
  <2> QED
    BY <1>4, <1>5, <2>1, <2>2, <2>3 DEF FoldAt
<1>8. h[Len(ds)] = f[DOMAIN ds]
  BY <1>1, <1>5
<1> QED
  BY <1>3, <1>6, <1>7, <1>8 DEF Counts

\* Reading one digit more multiplies by the base and adds the digit.
LEMMA ValueOfAppend ==
  ASSUME NEW ds \in Seq(Nat), NEW d \in Nat
  PROVE  ValueOf(Append(ds, d)) = ValueOf(ds) * Base + d
<1>1. PICK n, e : n = Len(ds) /\ e = Append(ds, d)
  OBVIOUS
<1>2. /\ e \in Seq(Nat) /\ n \in Nat /\ Len(e) = n + 1 /\ e[n + 1] = d
      /\ \A m \in 1 .. n : e[m] = ds[m]
  BY <1>1, AppendProperties
<1>3. PICK g : Counts(g, ds) /\ ValueOf(ds) = g[n]
  BY <1>1, ValueCounted
<1>4. PICK h : Counts(h, e) /\ ValueOf(e) = h[n + 1]
  BY <1>2, ValueCounted
<1> DEFINE S == {m \in Nat : m <= n => h[m] = g[m]}
<1>5. ASSUME NEW m \in Nat, \A k \in Nat : k < m => k \in S
      PROVE  m \in S
  <2>1. CASE m = 0
    BY <1>3, <1>4, <2>1 DEF Counts
  <2>2. CASE m \in 1 .. n
    <3>1. h[m - 1] = g[m - 1]
      BY <1>2, <1>5, <2>2
    <3>2. m \in 1 .. Len(ds) /\ m \in 1 .. Len(e)
      BY <1>1, <1>2, <2>2
    <3>3. h[m] = h[m - 1] * Base + e[m] /\ g[m] = g[m - 1] * Base + ds[m]
      BY <1>3, <1>4, <3>2 DEF Counts
    <3> QED
      BY <1>2, <2>2, <3>1, <3>3
  <2> QED
    BY <1>2, <2>1, <2>2
<1> HIDE DEF S
<1>6. Nat \subseteq S
  BY <1>5, InductionBySet
<1>7. h[n] = g[n]
  BY <1>2, <1>6 DEF S
<1>8. h[n + 1] = h[n] * Base + d
  <2>1. n + 1 \in 1 .. Len(e) /\ (n + 1) - 1 = n
    BY <1>2
  <2> QED
    BY <1>2, <1>4, <2>1 DEF Counts
<1> QED
  BY <1>1, <1>3, <1>4, <1>7, <1>8

\* A single digit is its own value.
LEMMA ValueOfOne ==
  ASSUME NEW d \in Nat
  PROVE  ValueOf(<<d>>) = d
<1>1. <<d>> \in Seq(Nat) /\ Len(<<d>>) = 1 /\ <<d>>[1] = d
  OBVIOUS
<1>2. PICK h : Counts(h, <<d>>) /\ ValueOf(<<d>>) = h[1]
  BY <1>1, ValueCounted
<1>3. h[1] = 0 * Base + d
  <2>1. 1 \in 1 .. Len(<<d>>) /\ 1 - 1 = 0
    BY <1>1
  <2> QED
    BY <1>1, <1>2, <2>1 DEF Counts
<1> QED
  BY <1>2, <1>3, CodecAssumption DEF CodecAssumption

\* A number written as text and read again is the same number.
LEMMA ValueOfDigits == \A v \in Values : ValueOf(Digits[v]) = v
<1> DEFINE S == {v \in Nat : v \in Values => ValueOf(Digits[v]) = v}
<1>1. ASSUME NEW v \in Nat, \A m \in Nat : m < v => m \in S
      PROVE  v \in S
  <2> SUFFICES ASSUME v \in Values PROVE ValueOf(Digits[v]) = v
    OBVIOUS
  <2>1. CASE v < Base
    BY <2>1, DigitsDef, ValueOfOne DEF DigitsAt
  <2>2. CASE ~(v < Base)
    <3>1. /\ v \div Base \in Nat /\ v % Base \in Digit
          /\ v = (v \div Base) * Base + (v % Base)
      BY DivMod
    <3>2. v \div Base < v
      <4>1. v \in Nat /\ v >= Base
        BY ONLY <2>2, v \in Nat, CodecAssumption DEF CodecAssumption
      <4> QED
        BY ONLY <4>1, DivLess
    <3>3. v \div Base \in Values
      <4>1. \A q \in Nat : q < v => q \in Values
        BY CodecAssumption DEF CodecAssumption, Values
      <4> QED
        BY <3>1, <3>2, <4>1
    <3>4. ValueOf(Digits[v \div Base]) = v \div Base
      BY <1>1, <3>1, <3>2, <3>3
    <3>5. Digits[v \div Base] \in Seq(Nat)
      <4>1. Digits[v \div Base] \in Seq(Digit) /\ Digit \subseteq Nat
        BY <3>3, DigitsDef, CodecAssumption DEF Numeral, Digit, CodecAssumption
      <4> QED
        BY <4>1, SeqMonotonic
    <3>6. v % Base \in Nat
      BY <3>1, CodecAssumption DEF Digit, CodecAssumption
    <3>7. Digits[v] = Append(Digits[v \div Base], v % Base)
      BY <2>2, DigitsDef DEF DigitsAt
    <3>8. ValueOf(Digits[v]) = (v \div Base) * Base + (v % Base)
      BY <3>4, <3>5, <3>6, <3>7, ValueOfAppend
    <3> QED
      BY <3>1, <3>8
  <2> QED
    BY <2>1, <2>2
<1> HIDE DEF S
<1>2. Nat \subseteq S
  BY <1>1, InductionBySet
<1> QED
  BY <1>2, CodecAssumption DEF S, Values, CodecAssumption

\* A larger number has no shorter text.
LEMMA DigitsGrow ==
  \A v, w \in Values : v <= w => Len(Digits[v]) <= Len(Digits[w])
<1> DEFINE S == {v \in Nat : \A w \in Values : v \in Values /\ v <= w => Len(Digits[v]) <= Len(Digits[w])}
<1>1. ASSUME NEW v \in Nat, \A m \in Nat : m < v => m \in S
      PROVE  v \in S
  <2> SUFFICES ASSUME NEW w \in Values, v \in Values, v <= w
               PROVE  Len(Digits[v]) <= Len(Digits[w])
    OBVIOUS
  <2>0. v \in Nat /\ w \in Nat /\ Base \in Nat
    BY CodecAssumption DEF CodecAssumption, Values
  <2>1. \A u \in Values : Len(Digits[u]) \in Nat /\ Len(Digits[u]) >= 1
    <3>1. \A u \in Values : Digits[u] \in Seq(Digit) /\ Digits[u] # <<>>
      BY DigitsDef DEF Numeral
    <3> QED
      BY <3>1
  <2>2. CASE v < Base
    <3>1. Len(Digits[v]) = 1
      BY <2>2, DigitsDef DEF DigitsAt
    <3> QED
      BY <2>1, <3>1
  <2>3. CASE ~(v < Base)
    <3>1. ~(w < Base)
      BY <2>0, <2>3
    <3>2. /\ v \div Base \in Nat /\ w \div Base \in Nat /\ v % Base \in Digit /\ w % Base \in Digit
      BY <2>0, DivMod
    <3>3. v \div Base < v /\ w \div Base < w
      BY <2>0, <2>3, <3>1, DivLess
    <3>4. v \div Base \in Values /\ w \div Base \in Values
      BY <2>0, <3>2, <3>3, CodecAssumption DEF CodecAssumption, Values
    <3>5. v \div Base <= w \div Base
      BY <2>0, DivMono
    <3>6. Len(Digits[v \div Base]) <= Len(Digits[w \div Base])
      BY <1>1, <3>2, <3>3, <3>4, <3>5
    <3>7. Digits[v \div Base] \in Seq(Digit) /\ Digits[w \div Base] \in Seq(Digit)
      BY <3>4, DigitsDef DEF Numeral
    <3>8. /\ Digits[v] = Append(Digits[v \div Base], v % Base)
          /\ Digits[w] = Append(Digits[w \div Base], w % Base)
      BY <2>3, <3>1, DigitsDef DEF DigitsAt
    <3>9. /\ Len(Digits[v]) = Len(Digits[v \div Base]) + 1
          /\ Len(Digits[w]) = Len(Digits[w \div Base]) + 1
      BY <3>2, <3>7, <3>8, AppendProperties
    <3> QED
      BY <2>1, <3>4, <3>6, <3>9
  <2> QED
    BY <2>2, <2>3
<1> HIDE DEF S
<1>2. Nat \subseteq S
  BY <1>1, InductionBySet
<1> QED
  BY <1>2, CodecAssumption DEF S, Values, CodecAssumption

-------------------------------------------------------------------------------
(* A body that is read exactly *)

Packets == {Packet(v) : v \in Values}

\* A text has a digit at least, consists of digits, and ends inside the area.
LEMMA TextFits ==
  ASSUME NEW ds \in Texts
  PROVE  /\ ds \in Seq(Digit) /\ Len(ds) \in Nat /\ Len(ds) >= 1
         /\ Len(ds) + 1 \in AreaCells
         /\ 1 .. Len(ds) \subseteq AreaCells
<1>1. PICK v \in Values : ds = Digits[v]
  BY DEF Texts
<1>2. ds \in Seq(Digit) /\ ds # <<>>
  BY <1>1, DigitsDef DEF Numeral
<1>3. Len(ds) \in Nat /\ Len(ds) >= 1
  BY <1>2, EmptySeq
<1>4. MaxUInt \in Values /\ v <= MaxUInt /\ PrefixLen \in Nat
  BY CodecAssumption DEF CodecAssumption, Values
<1>5. Len(ds) <= MaxDigits
  BY <1>1, <1>4, DigitsGrow DEF MaxDigits
<1>6. MaxDigits \in Nat
  <2>1. Digits[MaxUInt] \in Seq(Digit)
    BY <1>4, DigitsDef DEF Numeral
  <2> QED
    BY <2>1, LenProperties DEF MaxDigits
<1> QED
  BY <1>2, <1>3, <1>4, <1>5, <1>6 DEF AreaCells

\* A text in front of a cell that is no digit is read as the digits it is.
LEMMA LeadingText ==
  ASSUME NEW ds \in Texts, NEW n \in Nat, Len(ds) < n,
         NEW area, \A i \in 1 .. Len(ds) : area[i] = ds[i], area[Len(ds) + 1] = Fill
  PROVE  LeadingDigits(area, n) = ds
<1>1. PICK l : l = Len(ds)
  OBVIOUS
<1>2. l \in Nat /\ ds \in [1 .. l -> Digit]
  BY <1>1, TextFits, LenProperties
<1>3. Fill \notin Digit
  BY CodecAssumption DEF CodecAssumption, Fill, Digit
<1>4. (\A i \in 1 .. l : area[i] \in Digit) /\ area[l + 1] \notin Digit
  BY <1>1, <1>2, <1>3
<1> DEFINE Ends(k) == (\A i \in 1 .. k : area[i] \in Digit) /\ (k = n \/ area[k + 1] \notin Digit)
<1>5. l \in 0 .. n /\ Ends(l)
  BY <1>1, <1>2, <1>4
<1>6. ASSUME NEW k \in 0 .. n, Ends(k) PROVE k = l
  <2>1. ~(k < l)
    <3> SUFFICES ASSUME k < l PROVE FALSE
      OBVIOUS
    <3>1. k + 1 \in 1 .. l /\ k # n
      BY <1>1, <1>2
    <3> QED
      BY <1>4, <1>6, <3>1
  <2>2. ~(k > l)
    <3> SUFFICES ASSUME k > l PROVE FALSE
      OBVIOUS
    <3>1. l + 1 \in 1 .. k
      BY <1>2
    <3> QED
      BY <1>4, <1>6, <3>1
  <2> QED
    BY <1>2, <2>1, <2>2
<1>7. (CHOOSE k \in 0 .. n : Ends(k)) = l
  <2> HIDE DEF Ends
  <2> QED
    BY <1>5, <1>6
<1>8. LeadingDigits(area, n) = [i \in 1 .. l |-> area[i]]
  BY <1>7 DEF LeadingDigits
<1> QED
  BY <1>1, <1>2, <1>8

\* Such a body is read exactly by the server, which ends its copy, and by the
\* client, which does not but finds the end of the digits in it.
LEMMA ReadExactly ==
  ASSUME NEW p \in Packets, NEW area, NEW leftover,
         \A i \in 1 .. Len(p.digits) : area[i] = p.digits[i],
         area[Len(p.digits) + 1] = Fill
  PROVE  Decode(area, p) = ValueOf(p.digits) /\ DecodeOpen(area, p, leftover) = ValueOf(p.digits)
<1>1. PICK v \in Values : p = Packet(v)
  BY DEF Packets
<1>2. PICK ds : ds = Digits[v]
  OBVIOUS
<1>3. p.digits = ds /\ p.len = 2 * (PrefixLen + Len(ds)) /\ ds \in Texts
  BY <1>1, <1>2 DEF Packet, BodyChars, Texts
<1>4. ValueOf(ds) \in Values
  BY <1>2, ValueOfDigits
<1>5. Window(p) \in Nat /\ Len(ds) < Window(p)
  BY <1>3, TextFits, CodecAssumption DEF Window, CodecAssumption
<1>6. LeadingDigits(area, Window(p)) = ds
  BY <1>3, <1>5, LeadingText
<1>7. Decode(area, p) = ValueOf(ds)
  BY <1>4, <1>6 DEF Decode, Extract
<1>8. DecodeOpen(area, p, leftover) = ValueOf(ds)
  BY <1>4, <1>5, <1>6 DEF DecodeOpen, Extract
<1> QED
  BY <1>3, <1>7, <1>8

-------------------------------------------------------------------------------
(* The inductive invariant *)

\* What is on its way was made of numbers, and what was read came out of packets.
Shape ==
  /\ toSend \in [Clients -> Seq(Values)]
  /\ toServer \in [Clients -> Seq(Packets)]
  /\ toClient \in [Clients -> Seq(Packets)]
  /\ parsed \in [Clients -> Seq(Reads)]
  /\ printed \in [Clients -> Seq(Reads)]
  /\ data \in [Clients -> [AreaCells -> Digit \cup {Fill}]]
  /\ recvBuf \in [Clients -> [AreaCells -> Digit \cup {Fill}]]
  /\ memory \in [data : [Clients -> Areas], recvBuf : [Clients -> Areas]]

\* The bodies that reached the cell i.
Reached(reads, i) == {j \in DOMAIN reads : i \in DOMAIN reads[j].digits}

IsLatest(reads, i, j) == j \in Reached(reads, i) /\ \A k \in Reached(reads, i) : k <= j

\* The cell i of a buffer that held first and had these bodies read into it.
Overlaid(first, reads, i) ==
  IF Reached(reads, i) = {} THEN first[i]
  ELSE reads[CHOOSE j \in Reached(reads, i) : \A k \in Reached(reads, i) : k <= j].digits[i]

Overlay(first, now, reads) ==
  /\ now = [i \in AreaCells |-> Overlaid(first, reads, i)]
  /\ \A i \in AreaCells : Reached(reads, i) # {} => \E j \in DOMAIN reads : IsLatest(reads, i, j)

OverlayInv ==
  \A c \in Clients :
    /\ Overlay(memory.data[c], data[c], parsed[c])
    /\ Overlay(memory.recvBuf[c], recvBuf[c], printed[c])

\* In a buffer that held no digits, a body is read exactly if none before it was longer.
Exact(first, reads) ==
  (\A i \in AreaCells : first[i] = Fill) =>
    \A i \in DOMAIN reads :
      (\A j \in 1 .. i - 1 : Len(reads[j].digits) <= Len(reads[i].digits))
        => reads[i].read = ValueOf(reads[i].digits)

ExactInv ==
  \A c \in Clients : Exact(memory.data[c], parsed[c]) /\ Exact(memory.recvBuf[c], printed[c])

CodecInv == Shape /\ OverlayInv /\ ExactInv

-------------------------------------------------------------------------------
(* One body read into one buffer *)

\* A body is laid over all that was read before it, as far as it reaches.
LEMMA StoreOverlays ==
  ASSUME NEW first, NEW now, NEW reads \in Seq(Reads), NEW x \in Reads,
         Overlay(first, now, reads)
  PROVE  Overlay(first, Store(now, x.digits), Append(reads, x))
<1>1. PICK n, r : n = Len(reads) /\ r = Append(reads, x)
  OBVIOUS
<1>2. /\ n \in Nat /\ DOMAIN reads = 1 .. n /\ DOMAIN r = 1 .. n + 1 /\ r[n + 1] = x
      /\ \A j \in 1 .. n : r[j] = reads[j]
  <2>1. r \in Seq(Reads) /\ Len(r) = n + 1 /\ n \in Nat /\ DOMAIN reads = 1 .. n
    BY <1>1, AppendProperties, LenProperties
  <2>2. r[n + 1] = x /\ \A j \in 1 .. n : r[j] = reads[j]
    BY <1>1, AppendProperties
  <2> QED
    BY <2>1, <2>2, LenProperties
<1>3. ASSUME NEW i \in AreaCells
      PROVE  /\ Reached(r, i) # {} => \E j \in DOMAIN r : IsLatest(r, i, j)
             /\ Overlaid(first, r, i) = IF i \in DOMAIN x.digits THEN x.digits[i] ELSE Overlaid(first, reads, i)
  <2>1. CASE i \in DOMAIN x.digits
    <3>1. n + 1 \in Reached(r, i) /\ \A k \in Reached(r, i) : k <= n + 1 /\ k \in Nat
      BY <1>2, <2>1 DEF Reached
    <3>2. \A j \in Reached(r, i) : (\A k \in Reached(r, i) : k <= j) => j = n + 1
      BY <1>2, <3>1
    <3>3. (CHOOSE j \in Reached(r, i) : \A k \in Reached(r, i) : k <= j) = n + 1
      BY <3>1, <3>2
    <3>4. Overlaid(first, r, i) = x.digits[i]
      BY <1>2, <3>1, <3>3 DEF Overlaid
    <3> QED
      BY <1>2, <2>1, <3>1, <3>4 DEF IsLatest
  <2>2. CASE i \notin DOMAIN x.digits
    <3>1. Reached(r, i) = Reached(reads, i)
      BY <1>2, <2>2 DEF Reached
    <3>2. CASE Reached(reads, i) = {}
      BY <2>2, <3>1, <3>2 DEF Overlaid
    <3>3. CASE Reached(reads, i) # {}
      <4>1. PICK j \in DOMAIN reads : IsLatest(reads, i, j)
        BY <3>3 DEF Overlay
      <4>2. PICK m : m = CHOOSE k \in Reached(reads, i) : \A l \in Reached(reads, i) : l <= k
        OBVIOUS
      <4>3. m \in Reached(reads, i)
        BY <4>1, <4>2 DEF IsLatest
      <4>4. m \in 1 .. n /\ r[m] = reads[m]
        BY <1>2, <4>3 DEF Reached
      <4>5. Overlaid(first, r, i) = r[m].digits[i] /\ Overlaid(first, reads, i) = reads[m].digits[i]
        BY <3>1, <3>3, <4>2 DEF Overlaid
      <4>6. j \in DOMAIN r /\ IsLatest(r, i, j)
        BY <1>2, <3>1, <4>1 DEF IsLatest
      <4> QED
        BY <2>2, <4>4, <4>5, <4>6
    <3> QED
      BY <3>2, <3>3
  <2> QED
    BY <2>1, <2>2
<1>4. \A i \in AreaCells : now[i] = Overlaid(first, reads, i)
  BY DEF Overlay
<1>5. Store(now, x.digits) = [i \in AreaCells |-> Overlaid(first, r, i)]
  BY <1>3, <1>4 DEF Store
<1> QED
  BY <1>1, <1>3, <1>5 DEF Overlay

\* What a body laid into the buffer is read as, if it is no shorter than all before it.
LEMMA StoreReads ==
  ASSUME NEW first, NEW now, NEW reads \in Seq(Reads), NEW p \in Packets, NEW x \in Reads,
         NEW leftover, x.digits = p.digits,
         Overlay(first, now, reads), Exact(first, reads),
         \/ x.read = Decode(Store(now, p.digits), p)
         \/ x.read = DecodeOpen(Store(now, p.digits), p, leftover)
  PROVE  Exact(first, Append(reads, x))
<1>1. PICK n, r : n = Len(reads) /\ r = Append(reads, x)
  OBVIOUS
<1>2. /\ n \in Nat /\ DOMAIN reads = 1 .. n /\ DOMAIN r = 1 .. n + 1 /\ r[n + 1] = x
      /\ \A j \in 1 .. n : r[j] = reads[j]
  <2>1. r \in Seq(Reads) /\ Len(r) = n + 1 /\ n \in Nat /\ DOMAIN reads = 1 .. n
    BY <1>1, AppendProperties, LenProperties
  <2>2. r[n + 1] = x /\ \A j \in 1 .. n : r[j] = reads[j]
    BY <1>1, AppendProperties
  <2> QED
    BY <2>1, <2>2, LenProperties
<1> SUFFICES ASSUME \A i \in AreaCells : first[i] = Fill, NEW i \in 1 .. n + 1,
                    \A j \in 1 .. i - 1 : Len(r[j].digits) <= Len(r[i].digits)
             PROVE  r[i].read = ValueOf(r[i].digits)
  BY <1>1, <1>2 DEF Exact
<1>3. CASE i \in 1 .. n
  <2>1. \A j \in 1 .. i - 1 : j \in 1 .. n
    BY <1>2, <1>3
  <2>2. \A j \in 1 .. i - 1 : Len(reads[j].digits) <= Len(reads[i].digits)
    BY <1>2, <1>3, <2>1
  <2> QED
    BY <1>2, <1>3, <2>2 DEF Exact
<1>4. CASE i = n + 1
  <2>1. PICK ds, l : ds = p.digits /\ l = Len(ds)
    OBVIOUS
  <2>2. ds \in Texts
    BY <2>1 DEF Packets, Packet, Texts
  <2>3. l \in Nat /\ DOMAIN ds = 1 .. l /\ l + 1 \in AreaCells /\ 1 .. l \subseteq AreaCells
    BY <2>1, <2>2, TextFits, LenProperties
  <2>4. \A j \in 1 .. n : Len(reads[j].digits) <= l
    BY <1>2, <1>4, <2>1
  <2>5. \A j \in 1 .. n : reads[j].digits \in Texts
    <3>1. \A j \in 1 .. n : reads[j] \in Reads
      BY <1>1, ElementOfSeq
    <3> QED
      BY <3>1 DEF Reads
  <2>6. \A j \in 1 .. n : l + 1 \notin DOMAIN reads[j].digits
    <3> SUFFICES ASSUME NEW j \in 1 .. n PROVE l + 1 \notin DOMAIN reads[j].digits
      OBVIOUS
    <3>1. PICK e : e = reads[j].digits
      OBVIOUS
    <3>2. Len(e) \in Nat /\ DOMAIN e = 1 .. Len(e) /\ Len(e) <= l
      BY <2>4, <2>5, <3>1, TextFits, LenProperties
    <3> QED
      BY <2>3, <3>1, <3>2
  <2>7. Reached(reads, l + 1) = {}
    BY <1>2, <2>6 DEF Reached
  <2>8. now[l + 1] = Fill
    BY <2>3, <2>7 DEF Overlay, Overlaid
  <2>9. PICK area : area = Store(now, ds)
    OBVIOUS
  <2>10. (\A k \in 1 .. l : area[k] = ds[k]) /\ area[l + 1] = Fill
    BY <2>3, <2>8, <2>9 DEF Store
  <2>11. Decode(area, p) = ValueOf(ds) /\ DecodeOpen(area, p, leftover) = ValueOf(ds)
    BY <2>1, <2>10, ReadExactly
  <2> QED
    BY <1>2, <1>4, <2>1, <2>9, <2>11
<1> QED
  BY <1>2, <1>3, <1>4

\* A body laid into a buffer leaves digits and characters in it.
LEMMA StoreType ==
  ASSUME NEW now \in [AreaCells -> Digit \cup {Fill}], NEW p \in Packets
  PROVE  Store(now, p.digits) \in [AreaCells -> Digit \cup {Fill}]
<1>1. p.digits \in Texts
  BY DEF Packets, Packet, Texts
<1>2. \A i \in DOMAIN p.digits : p.digits[i] \in Digit
  BY <1>1, TextFits, LenProperties, ElementOfSeq
<1> QED
  BY <1>2 DEF Store

\* A new buffer holds what it held.
LEMMA NothingOverlaid ==
  ASSUME NEW first \in Areas
  PROVE  Overlay(first, first, <<>>)
<1>1. first = [i \in AreaCells |-> first[i]]
  BY CodecAssumption DEF CodecAssumption
<1>2. \A i : Reached(<<>>, i) = {}
  BY DEF Reached
<1> QED
  BY <1>1, <1>2 DEF Overlay, Overlaid

\* A number is read or is none.
LEMMA ExtractedType == \A ds : Extract(ds) \in Values \cup {Unreadable}
BY DEF Extract

\* What comes out of a packet is a text that was sent and a number or none.
LEMMA ReadOfPacket ==
  ASSUME NEW p \in Packets, NEW area, NEW leftover
  PROVE  /\ [digits |-> p.digits, read |-> Decode(area, p)] \in Reads
         /\ [digits |-> p.digits, read |-> DecodeOpen(area, p, leftover)] \in Reads
<1>1. p.digits \in Texts
  BY DEF Packets, Packet, Texts
<1>2. Decode(area, p) \in Values \cup {Unreadable} /\ DecodeOpen(area, p, leftover) \in Values \cup {Unreadable}
  BY ExtractedType DEF Decode, DecodeOpen
<1> QED
  BY <1>1, <1>2 DEF Reads

-------------------------------------------------------------------------------
(* Every step keeps the invariant *)

\* A client puts a packet on its way; no buffer sees it yet.
LEMMA SendStep ==
  ASSUME CodecInv, NEW c \in Clients, ClientSend(c)
  PROVE  CodecInv'
<1>1. toSend[c] \in Seq(Values) /\ toSend[c] # <<>> /\ toServer[c] \in Seq(Packets)
  BY DEF CodecInv, Shape, ClientSend
<1>2. Head(toSend[c]) \in Values /\ Tail(toSend[c]) \in Seq(Values)
  BY <1>1, HeadTailProperties
<1>3. Packet(Head(toSend[c])) \in Packets
  BY <1>2 DEF Packets
<1>4. Append(toServer[c], Packet(Head(toSend[c]))) \in Seq(Packets)
  BY <1>1, <1>3, AppendProperties
<1>5. Shape'
  BY <1>2, <1>4 DEF CodecInv, Shape, ClientSend
<1>6. OverlayInv' /\ ExactInv'
  BY DEF CodecInv, OverlayInv, ExactInv, ClientSend
<1> QED
  BY <1>5, <1>6 DEF CodecInv

\* The server reads a body into data_ and answers to everybody.
LEMMA ServerStep ==
  ASSUME CodecInv, NEW c \in Clients, ServerParse(c)
  PROVE  CodecInv'
<1>1. toServer[c] \in Seq(Packets) /\ toServer[c] # <<>> /\ parsed[c] \in Seq(Reads)
  BY DEF CodecInv, Shape, ServerParse
<1>2. PICK p, area, t, x : /\ p = Head(toServer[c]) /\ area = Store(data[c], p.digits)
                           /\ t = Decode(area, p) /\ x = [digits |-> p.digits, read |-> t]
  OBVIOUS
<1>3. p \in Packets /\ Tail(toServer[c]) \in Seq(Packets)
  BY <1>1, <1>2, HeadTailProperties
<1>4. x \in Reads /\ x.digits = p.digits /\ t \in Values \cup {Unreadable}
  BY <1>2, <1>3, ReadOfPacket, ExtractedType DEF Decode
<1>5. /\ data' = [data EXCEPT ![c] = area] /\ parsed' = [parsed EXCEPT ![c] = Append(@, x)]
      /\ toClient' = (IF t = Unreadable THEN toClient ELSE [d \in Clients |-> Append(toClient[d], Packet(t))])
      /\ toServer' = [toServer EXCEPT ![c] = Tail(@)]
      /\ UNCHANGED <<toSend, recvBuf, printed, memory>>
  BY <1>2 DEF ServerParse, Reply
<1>6. Append(parsed[c], x) \in Seq(Reads)
  BY <1>1, <1>4, AppendProperties
<1>7. t # Unreadable => \A d \in Clients : Append(toClient[d], Packet(t)) \in Seq(Packets)
  <2>1. \A d \in Clients : toClient[d] \in Seq(Packets)
    BY DEF CodecInv, Shape
  <2>2. t # Unreadable => Packet(t) \in Packets
    BY <1>4 DEF Packets
  <2> QED
    BY <2>1, <2>2, AppendProperties
<1>8. toClient' \in [Clients -> Seq(Packets)]
  BY <1>5, <1>7 DEF CodecInv, Shape
<1>9. Shape'
  <2>1. data' \in [Clients -> [AreaCells -> Digit \cup {Fill}]]
    BY <1>2, <1>3, <1>5, StoreType DEF CodecInv, Shape
  <2> QED
    BY <1>3, <1>5, <1>6, <1>8, <2>1 DEF CodecInv, Shape
<1>10. Overlay(memory.data[c], area, Append(parsed[c], x))
  <2>1. Overlay(memory.data[c], data[c], parsed[c])
    BY DEF CodecInv, OverlayInv
  <2> QED
    BY <1>1, <1>2, <1>4, <2>1, StoreOverlays
<1>11. OverlayInv'
  BY <1>5, <1>10 DEF CodecInv, Shape, OverlayInv
<1>12. Exact(memory.data[c], Append(parsed[c], x))
  <2>1. Overlay(memory.data[c], data[c], parsed[c]) /\ Exact(memory.data[c], parsed[c])
    BY DEF CodecInv, OverlayInv, ExactInv
  <2>2. x.read = Decode(Store(data[c], p.digits), p)
    BY <1>2
  <2> QED
    BY <1>1, <1>3, <1>4, <2>1, <2>2, StoreReads
<1>13. ExactInv'
  BY <1>5, <1>12 DEF CodecInv, Shape, ExactInv
<1> QED
  BY <1>9, <1>11, <1>13 DEF CodecInv

\* A client reads a body into recv_buf.
LEMMA ClientStep ==
  ASSUME CodecInv, NEW c \in Clients, ClientParse(c)
  PROVE  CodecInv'
<1>1. toClient[c] \in Seq(Packets) /\ toClient[c] # <<>> /\ printed[c] \in Seq(Reads)
  BY DEF CodecInv, Shape, ClientParse
<1>2. PICK p, area : p = Head(toClient[c]) /\ area = Store(recvBuf[c], p.digits)
  OBVIOUS
<1>3. PICK leftover \in Leftovers :
        printed' = [printed EXCEPT ![c] =
                      Append(@, [digits |-> p.digits, read |-> DecodeOpen(area, p, leftover)])]
  BY <1>2 DEF ClientParse
<1>4. PICK x : x = [digits |-> p.digits, read |-> DecodeOpen(area, p, leftover)]
  OBVIOUS
<1>5. p \in Packets /\ Tail(toClient[c]) \in Seq(Packets)
  BY <1>1, <1>2, HeadTailProperties
<1>6. x \in Reads /\ x.digits = p.digits
  BY <1>4, <1>5, ReadOfPacket
<1>7. /\ recvBuf' = [recvBuf EXCEPT ![c] = area] /\ printed' = [printed EXCEPT ![c] = Append(@, x)]
      /\ toClient' = [toClient EXCEPT ![c] = Tail(@)]
      /\ UNCHANGED <<toSend, toServer, data, parsed, memory>>
  BY <1>2, <1>3, <1>4 DEF ClientParse
<1>8. Append(printed[c], x) \in Seq(Reads)
  BY <1>1, <1>6, AppendProperties
<1>9. Shape'
  <2>1. recvBuf' \in [Clients -> [AreaCells -> Digit \cup {Fill}]]
    BY <1>2, <1>5, <1>7, StoreType DEF CodecInv, Shape
  <2> QED
    BY <1>5, <1>7, <1>8, <2>1 DEF CodecInv, Shape
<1>10. Overlay(memory.recvBuf[c], area, Append(printed[c], x))
  <2>1. Overlay(memory.recvBuf[c], recvBuf[c], printed[c])
    BY DEF CodecInv, OverlayInv
  <2> QED
    BY <1>1, <1>2, <1>6, <2>1, StoreOverlays
<1>11. OverlayInv'
  BY <1>7, <1>10 DEF CodecInv, Shape, OverlayInv
<1>12. Exact(memory.recvBuf[c], Append(printed[c], x))
  <2>1. Overlay(memory.recvBuf[c], recvBuf[c], printed[c]) /\ Exact(memory.recvBuf[c], printed[c])
    BY DEF CodecInv, OverlayInv, ExactInv
  <2>2. x.read = DecodeOpen(Store(recvBuf[c], p.digits), p, leftover)
    BY <1>2, <1>4
  <2> QED
    BY <1>1, <1>5, <1>6, <2>1, <2>2, StoreReads
<1>13. ExactInv'
  BY <1>7, <1>12 DEF CodecInv, Shape, ExactInv
<1> QED
  BY <1>9, <1>11, <1>13 DEF CodecInv

\* The invariant holds in new buffers.
LEMMA CodecInit == Init => CodecInv
<1> SUFFICES ASSUME Init PROVE CodecInv
  OBVIOUS
<1>1. \A S : <<>> \in Seq(S)
  OBVIOUS
<1>2. /\ memory.data \in [Clients -> Areas] /\ memory.recvBuf \in [Clients -> Areas]
      /\ data = memory.data /\ recvBuf = memory.recvBuf
  BY DEF Init
<1>3. Programs \subseteq Seq(Values)
  BY CodecAssumption DEF CodecAssumption
<1>4. Shape
  <2>1. Areas \subseteq [AreaCells -> Digit \cup {Fill}]
    BY CodecAssumption DEF CodecAssumption
  <2> QED
    BY <1>1, <1>2, <1>3, <2>1 DEF Init, Shape
<1>5. OverlayInv
  BY <1>2, NothingOverlaid DEF Init, OverlayInv
<1>6. ExactInv
  BY DEF Init, ExactInv, Exact
<1> QED
  BY <1>4, <1>5, <1>6 DEF CodecInv

-------------------------------------------------------------------------------
(* The theorems *)

\* What every send and every read keeps.
THEOREM CodecInvariance == Spec => []CodecInv
<1>1. CodecInv /\ [Next]_vars => CodecInv'
  <2> SUFFICES ASSUME CodecInv, [Next]_vars PROVE CodecInv'
    OBVIOUS
  <2>1. CASE UNCHANGED vars
    BY <2>1 DEF vars, CodecInv, Shape, OverlayInv, ExactInv
  <2> QED
    BY <2>1, SendStep, ServerStep, ClientStep DEF Next
<1> QED
  BY <1>1, CodecInit, PTL DEF Spec

\* Nothing clears data_ or recv_buf between two packets and nothing else writes there:
\* each cell is that of the last body that reached so far.
THEOREM BuffersAreOverlays == Spec => []BufferIsOverlay
<1>1. CodecInv => BufferIsOverlay
  <2> SUFFICES ASSUME CodecInv, NEW b \in Buffers
               PROVE  b.now = [i \in AreaCells |-> LastToReach(b, i)]
    BY DEF BufferIsOverlay
  <2>1. Overlay(b.first, b.now, b.reads)
    BY DEF CodecInv, OverlayInv, Buffers
  <2>2. \A i \in AreaCells : LastToReach(b, i) = Overlaid(b.first, b.reads, i)
    BY DEF LastToReach, Overlaid, Reached
  <2> QED
    BY <2>1, <2>2 DEF Overlay
<1> QED
  BY <1>1, CodecInvariance, PTL

\* No number that is read or answered leaves the range of a UINT, and every packet is
\* one of a number's text with its length.
THEOREM TypeCorrect == Spec => []TypeOK
<1>1. Packets \subseteq PacketType
  <2> SUFFICES ASSUME NEW v \in Values PROVE Packet(v) \in PacketType
    BY DEF Packets
  <2>1. Digits[v] \in Texts
    BY DEF Texts
  <2>2. 2 * BodyChars(v) \in Nat
    BY <2>1, TextFits, CodecAssumption DEF BodyChars, CodecAssumption
  <2> QED
    BY <2>1, <2>2 DEF Packet, PacketType
<1>2. CodecInv => TypeOK
  <2> SUFFICES ASSUME CodecInv PROVE TypeOK
    OBVIOUS
  <2>1. \A s \in Seq(Packets) : s \in Seq(PacketType)
    BY <1>1, SeqMonotonic
  <2> QED
    BY <2>1 DEF CodecInv, Shape, TypeOK
<1> QED
  BY <1>2, CodecInvariance, PTL

\* A buffer is only ever spoilt by longer bodies: in memory that holds no digits at
\* first, a body no shorter than all those before it is read as the number that was
\* sent, by the server's Make_Body and by the client's, which ends its copy nowhere.
THEOREM ExactReads == Spec => []ExactUnlessShorter
<1>1. CodecInv => ExactUnlessShorter
  <2> SUFFICES ASSUME CodecInv, NEW b \in Buffers, \A j \in AreaCells : b.first[j] = Fill,
                      NEW i \in DOMAIN b.reads,
                      \A j \in 1 .. i - 1 : Len(b.reads[j].digits) <= Len(b.reads[i].digits)
               PROVE  b.reads[i].read = ValueOf(b.reads[i].digits)
    BY DEF ExactUnlessShorter
  <2>1. Exact(b.first, b.reads)
    BY DEF CodecInv, ExactInv, Buffers
  <2> QED
    BY <2>1 DEF Exact
<1> QED
  BY <1>1, CodecInvariance, PTL

\* A number written as text and read again is the same number: ValueOf is the inverse
\* of Digits, for every base and every UINT.
THEOREM TextRoundTrip == \A v \in Values : Extract(Digits[v]) = v
BY ValueOfDigits DEF Extract

===============================================================================
