---------------------------- MODULE RtlPrintProofs ----------------------------
(***************************************************************************)
(* Proofs about formatted output, for every size of the output buffer, of  *)
(* a word and of a string buffer, and every number, text, width and        *)
(* precision.                                                              *)
(***************************************************************************)
EXTENDS RtlPrint, Basics

-----------------------------------------------------------------------------
\* The digits.

Bases == {10, 16, 18}

LEMMA DigitFacts ==
  /\ \A i \in 1 .. 18 : conv_digits[i] \in Chars /\ conv_digits[i] # " " /\ conv_digits[i] # "-"
  /\ \A i, j \in 1 .. 18 : conv_digits[i] = conv_digits[j] => i = j
  /\ conv_digits[1] = "0"
  <1>1. DOMAIN conv_digits = 1 .. 18
    BY DEF conv_digits
  <1>2. \A i \in 1 .. 18 : conv_digits[i] \in Chars
    BY <1>1 DEF Chars, Range
  <1>3. \A i \in 1 .. 18 : i \in {1, 2, 3, 4, 5, 6, 7, 8, 9, 10, 11, 12, 13, 14, 15, 16, 17, 18}
    OBVIOUS
  <1>4. \A i, j \in 1 .. 18 : conv_digits[i] = conv_digits[j] => i = j
    BY <1>3 DEF conv_digits
  <1>5. ASSUME NEW i \in 1 .. 18
        PROVE  conv_digits[i] # " " /\ conv_digits[i] # "-"
    <2>1. conv_digits[i] \in {"0", "1", "2", "3", "4", "5", "6", "7", "8", "9",
                             "A", "B", "C", "D", "E", "F", "H", "G"}
      BY <1>3 DEF conv_digits
    <2> QED
      BY <2>1
  <1>6. conv_digits[1] = "0"
    BY DEF conv_digits
  <1> QED
    BY <1>2, <1>4, <1>5, <1>6

LEMMA DigitsOfIs ==
  ASSUME NEW base \in Bases
  PROVE  /\ base \in Nat \ {0, 1} /\ base <= 18 /\ DigitsOf(base) \subseteq Chars
         /\ \A v \in Nat : conv_digits[(v % base) + 1] \in DigitsOf(base)
  <1>1. base \in Nat \ {0, 1} /\ base <= 18
    BY DEF Bases
  <1>2. \A v \in Nat : (v % base) + 1 \in 1 .. base
    BY <1>1
  <1>3. 1 .. base \subseteq 1 .. 18
    BY <1>1
  <1> QED
    BY <1>1, <1>2, <1>3, DigitFacts DEF DigitsOf

\* One step of conv_base_r: the digits f has for the quotient, and the last one.
LastDigit(v, base) == <<conv_digits[(v % base) + 1]>>
Put(f, v, base) == (IF v \div base # 0 THEN f[v \div base] ELSE <<>>) \o LastDigit(v, base)

LEMMA QuotientLess ==
  ASSUME NEW base \in Nat \ {0, 1}, NEW v \in Nat
  PROVE  /\ v \div base \in Nat /\ v \div base <= v
         /\ v # 0 => v \div base < v
         /\ v \div base # 0 => v \div base \in 0 .. v - 1
         /\ v = base * (v \div base) + (v % base) /\ v % base \in 0 .. base - 1
  <1> DEFINE q == v \div base
             r == v % base
  <1>1. q \in Nat /\ r \in 0 .. base - 1 /\ v = base * q + r
    OBVIOUS
  <1> HIDE DEF q, r
  <1>2. base * q >= 2 * q
    BY <1>1
  <1> QED
    BY <1>1, <1>2 DEF q, r

LEMMA PutIs ==
  ASSUME NEW base \in Bases, NEW v \in Nat, NEW f,
         v \div base # 0 => f[v \div base] \in Seq(DigitsOf(base))
  PROVE  Put(f, v, base) \in Seq(DigitsOf(base)) /\ Len(Put(f, v, base)) > 0
  <1> DEFINE high == IF v \div base # 0 THEN f[v \div base] ELSE <<>>
             low == LastDigit(v, base)
  <1>1. high \in Seq(DigitsOf(base))
    OBVIOUS
  <1>2. low \in Seq(DigitsOf(base)) /\ Len(low) = 1
    BY DigitsOfIs DEF LastDigit
  <1> HIDE DEF high, low
  <1>3. high \o low \in Seq(DigitsOf(base)) /\ Len(high \o low) = Len(high) + Len(low)
        /\ Len(high) \in Nat
    BY <1>1, <1>2, ConcatProperties, LenProperties
  <1>4. Put(f, v, base) = high \o low
    BY DEF Put, high, low
  <1> QED
    BY <1>2, <1>3, <1>4

\* The recursion is well-founded: there are such digits.
LEMMA DigitsExist ==
  ASSUME NEW base \in Bases
  PROVE  \E f \in [0 .. WORD - 1 -> Seq(DigitsOf(base))] :
           f = [v \in 0 .. WORD - 1 |-> Put(f, v, base)]
  <1> DEFINE Up(n) == \E f \in [0 .. n -> Seq(DigitsOf(base))] :
                        \A v \in 0 .. n : f[v] = Put(f, v, base)
             T == {n \in Nat : Up(n)}
  <1>1. base \in Nat \ {0, 1}
    BY DigitsOfIs
  <1>2. 0 \in T
    <2> DEFINE f == [v \in 0 .. 0 |-> LastDigit(v, base)]
    <2>1. 0 \div base = 0
      BY <1>1
    <2>2. Put(f, 0, base) = <<>> \o LastDigit(0, base)
      BY <2>1 DEF Put
    <2>3. LastDigit(0, base) \in Seq(DigitsOf(base))
      BY DigitsOfIs DEF LastDigit
    <2>4. Put(f, 0, base) = LastDigit(0, base)
      BY <2>2, <2>3, ConcatEmptySeq
    <2>5. \A v \in 0 .. 0 : v = 0
      OBVIOUS
    <2>6. f \in [0 .. 0 -> Seq(DigitsOf(base))] /\ \A v \in 0 .. 0 : f[v] = Put(f, v, base)
      BY <2>3, <2>4, <2>5
    <2>7. Up(0)
      BY <2>6
    <2> QED
      BY <2>7
  <1>3. ASSUME NEW n \in Nat, n \in T
        PROVE  n + 1 \in T
    <2>1. PICK f \in [0 .. n -> Seq(DigitsOf(base))] : \A v \in 0 .. n : f[v] = Put(f, v, base)
      BY <1>3
    <2> DEFINE h == [v \in 0 .. n + 1 |-> IF v <= n THEN f[v] ELSE Put(f, n + 1, base)]
    <2>2. ASSUME NEW v \in 0 .. n + 1, v \div base # 0
          PROVE  v \div base \in 0 .. n
      <3>1. v \in Nat
        OBVIOUS
      <3>2. v \div base \in 0 .. v - 1
        BY <1>1, <2>2, <3>1, QuotientLess
      <3> QED
        BY <3>2
    <2>3. Put(f, n + 1, base) \in Seq(DigitsOf(base))
      BY <2>2, PutIs
    <2>4. h \in [0 .. n + 1 -> Seq(DigitsOf(base))]
      BY <2>1, <2>3
    <2>5. \A w \in 0 .. n : h[w] = f[w]
      OBVIOUS
    <2>6. h[n + 1] = Put(f, n + 1, base)
      OBVIOUS
    <2> HIDE DEF h
    <2>7. \A v \in 0 .. n + 1 : Put(h, v, base) = Put(f, v, base)
      BY <2>2, <2>5 DEF Put
    <2>8. ASSUME NEW v \in 0 .. n + 1
          PROVE  h[v] = Put(h, v, base)
      <3>1. CASE v = n + 1
        BY <2>6, <2>7, <3>1
      <3>2. CASE v # n + 1
        <4>1. v \in 0 .. n
          BY <3>2
        <4> QED
          BY <2>1, <2>5, <2>7, <4>1
      <3> QED
        BY <3>1, <3>2
    <2>9. Up(n + 1)
      <3>1. \A v \in 0 .. n + 1 : h[v] = Put(h, v, base)
        BY <2>8
      <3> QED
        BY <2>4, <3>1
    <2>10. n + 1 \in Nat
      OBVIOUS
    <2> HIDE DEF Up
    <2> QED
      BY <2>9, <2>10
  <1> HIDE DEF T
  <1>4. WORD - 1 \in T
    BY <1>2, <1>3, Induction, PrintAssumption
  <1>5. PICK f \in [0 .. WORD - 1 -> Seq(DigitsOf(base))] :
          \A v \in 0 .. WORD - 1 : f[v] = Put(f, v, base)
    BY <1>4 DEF T
  <1> QED
    BY <1>5

LEMMA DigitsAre ==
  ASSUME NEW base \in Bases
  PROVE  /\ \A v \in 0 .. WORD - 1 :
              /\ Digits(base)[v] \in Seq(DigitsOf(base)) /\ Len(Digits(base)[v]) > 0
              /\ Digits(base)[v] = Put(Digits(base), v, base)
  <1>1. PICK f \in [0 .. WORD - 1 -> Seq(DigitsOf(base))] :
           f = [v \in 0 .. WORD - 1 |-> Put(f, v, base)]
    BY DigitsExist
  <1>2. f = [v \in 0 .. WORD - 1 |->
               (IF v \div base # 0 THEN f[v \div base] ELSE <<>>)
                 \o <<conv_digits[(v % base) + 1]>>]
    BY <1>1 DEF Put, LastDigit
  <1>3. Digits(base) = [v \in 0 .. WORD - 1 |->
               (IF v \div base # 0 THEN Digits(base)[v \div base] ELSE <<>>)
                 \o <<conv_digits[(v % base) + 1]>>]
    BY <1>2 DEF Digits
  <1>4. \A v \in 0 .. WORD - 1 : Digits(base)[v] = Put(Digits(base), v, base)
    BY <1>3 DEF Put, LastDigit
  <1> DEFINE d == Digits(base)
             T == {v \in Nat : v < WORD => d[v] \in Seq(DigitsOf(base)) /\ Len(d[v]) > 0}
  <1>5. ASSUME NEW v \in Nat, 0 .. v - 1 \subseteq T
        PROVE  v \in T
    <2>1. ASSUME v < WORD PROVE d[v] \in Seq(DigitsOf(base)) /\ Len(d[v]) > 0
      <3>1. v \div base # 0 => v \div base \in 0 .. v - 1
        BY DigitsOfIs, QuotientLess
      <3>2. ASSUME v \div base # 0 PROVE d[v \div base] \in Seq(DigitsOf(base))
        <4>1. v \div base \in 0 .. v - 1 /\ v \div base < WORD
          BY <2>1, <3>1, <3>2, PrintAssumption
        <4>2. v \div base \in T
          BY <1>5, <4>1
        <4> QED
          BY <4>1, <4>2
      <3>3. d[v] = Put(d, v, base)
        BY <1>4, <2>1, PrintAssumption
      <3> QED
        BY <3>2, <3>3, PutIs
    <2> QED
      BY <2>1
  <1> HIDE DEF T
  <1>6. Nat \subseteq T
    BY <1>5, StrongInduction
  <1>7. \A v \in 0 .. WORD - 1 : d[v] \in Seq(DigitsOf(base)) /\ Len(d[v]) > 0
    BY <1>6, PrintAssumption DEF T
  <1> QED
    BY <1>4, <1>7

-----------------------------------------------------------------------------
\* What a conversion asks for.

Numbers == {"d", "u", "o", "x"}

LEMMA ConversionIs ==
  ASSUME NEW c \in Conversions
  PROVE  /\ c.spec \in {"d", "u", "o", "x", "b", "s"}
         /\ c.spec \in Numbers => c.arg \in 0 .. WORD - 1
         /\ c.spec \in {"b", "s"} => c.arg \in Seq(Chars)
         /\ c.zero_padded \in BOOLEAN /\ c.left_adjusted \in BOOLEAN
         /\ c.width \in Nat \cup {NotGiven} /\ c.prec \in Nat \cup {NotGiven}
         /\ c # NoConv
  <1>1. PICK spec \in {"d", "u", "o", "x", "b", "s"} :
          c \in [spec : {spec}, arg : Arguments(spec),
                zero_padded : BOOLEAN, left_adjusted : BOOLEAN,
                width : Widths \cup {NotGiven}, prec : Widths \cup {NotGiven}]
    BY DEF Conversions
  <1>2. c.spec = spec /\ c.arg \in Arguments(spec)
    BY <1>1
  <1>3. /\ spec \in Numbers => Arguments(spec) \subseteq 0 .. WORD - 1
        /\ spec \in {"b", "s"} => Arguments(spec) \subseteq Seq(Chars)
    BY PrintAssumption DEF Arguments, Numbers
  <1>4. c.spec # "none"
    BY <1>2
  <1>5. c # NoConv
    BY <1>4 DEF NoConv
  <1> QED
    BY <1>1, <1>2, <1>3, <1>5, PrintAssumption

\* The value a conversion of a number writes, and its digits.
Value(c) == IF c.spec = "d" /\ IsNegative(c.arg) THEN WORD - c.arg ELSE c.arg
BaseOf(c) == IF c.spec = "d" THEN 10 ELSE Base(c.spec)
DigitsIn(c) == Digits(BaseOf(c))[Value(c)]

LEMMA NumberIs ==
  ASSUME NEW c \in Conversions, c.spec \in Numbers
  PROVE  /\ Value(c) \in 0 .. WORD - 1 /\ BaseOf(c) \in Bases
         /\ DigitsIn(c) \in Seq(DigitsOf(BaseOf(c))) /\ Len(DigitsIn(c)) > 0
         /\ TextOf(c) = IF c.spec = "d" /\ IsNegative(c.arg) THEN <<"-">> \o DigitsIn(c)
                        ELSE DigitsIn(c)
  <1>1. c.arg \in 0 .. WORD - 1 /\ WORD \in Nat \ {0, 1}
    BY ConversionIs, PrintAssumption
  <1>2. IsNegative(c.arg) => c.arg >= 1
    BY <1>1 DEF IsNegative
  <1>3. Value(c) \in 0 .. WORD - 1
    BY <1>1, <1>2 DEF Value
  <1>4. BaseOf(c) \in Bases
    BY DEF BaseOf, Base, Bases, Numbers
  <1>5. TextOf(c) = IF c.spec = "d" /\ IsNegative(c.arg) THEN <<"-">> \o DigitsIn(c)
                   ELSE DigitsIn(c)
    BY DEF TextOf, DigitsIn, Value, BaseOf, Numbers
  <1> QED
    BY <1>3, <1>4, <1>5, DigitsAre DEF DigitsIn

LEMMA TextIs ==
  ASSUME NEW c \in Conversions
  PROVE  TextOf(c) \in Seq(Chars)
  <1>1. CASE c.spec \in Numbers
    <2>1. DigitsIn(c) \in Seq(Chars)
      BY <1>1, NumberIs, DigitsOfIs, SeqMonotonic
    <2>2. "-" \in Chars
      BY DEF Chars
    <2>3. <<"-">> \in Seq(Chars)
      BY <2>2
    <2>4. <<"-">> \o DigitsIn(c) \in Seq(Chars)
      BY <2>1, <2>3, ConcatProperties
    <2> QED
      BY <1>1, <2>1, <2>4, NumberIs
  <1>2. CASE c.spec \in {"b", "s"}
    <2>1. c.arg \in Seq(Chars) /\ "NUL" \in Chars
      BY <1>2, ConversionIs DEF Chars
    <2>2. Append(c.arg, "NUL") \in Seq(Chars)
      BY <2>1, AppendProperties
    <2> QED
      BY <1>2, <2>1, <2>2 DEF TextOf
  <1> QED
    BY <1>1, <1>2, ConversionIs DEF Numbers

LEMMA LengthsAre ==
  ASSUME NEW c \in Conversions
  PROVE  /\ TextLength(c) \in 0 .. Len(TextOf(c)) /\ SpaceCount(c) \in Nat
         /\ SpaceCount(c) = IF c.width > TextLength(c) THEN c.width - TextLength(c) ELSE 0
         /\ PadOf(c) \in {"0", " "} /\ PadOf(c) \in Chars
         /\ c.left_adjusted => PadOf(c) = " "
  <1>1. Len(TextOf(c)) \in Nat
    BY TextIs, LenProperties
  <1>2. TextLength(c) \in 0 .. Len(TextOf(c))
    BY <1>1, ConversionIs DEF TextLength, NotGiven
  <1>3. /\ SpaceCount(c) = IF c.width > TextLength(c) THEN c.width - TextLength(c) ELSE 0
        /\ SpaceCount(c) \in Nat
    BY <1>2, ConversionIs DEF SpaceCount, NotGiven
  <1>4. "0" \in Chars
    <2>1. 1 \in 1 .. 18
      OBVIOUS
    <2> QED
      BY <2>1, DigitFacts
  <1>5. " " \in Chars
    BY DEF Chars
  <1> QED
    BY <1>2, <1>3, <1>4, <1>5 DEF PadOf

-----------------------------------------------------------------------------
\* The inductive invariant.

\* The field a conversion asks for, and what is still to put of it.
Cut(c) == SubSeq(TextOf(c), 1, TextLength(c))
Pads(c, count) == [i \in 1 .. count |-> PadOf(c)]
Asked(c) ==
  IF c.left_adjusted THEN Cut(c) \o Pads(c, SpaceCount(c)) ELSE Pads(c, SpaceCount(c)) \o Cut(c)
Remaining ==
  IF conv.left_adjusted THEN text \o Pads(conv, space_count)
  ELSE Pads(conv, space_count) \o text

InProgress == pc = "text" => conv \in Conversions /\ Field \o Remaining = Asked(conv)

\* Before the end only whole buffers are gone.
WholeBuffers == pc # "done" => (Len(put) - buffer_mark) % BUFFER_SIZE = 0

StrbufIs ==
  /\ sb.length = IF writer = "sb" THEN Smaller(Len(flushed), SIZE) ELSE 0
  /\ writer = "sb" => Contents(sb) = SubSeq(flushed, 1, sb.length)

PrintInv == TypeOK /\ LosesOnlyLast /\ WholeBuffers /\ StrbufIs /\ InProgress

\* The parts that put_char and the flush at the end are about.
BufferOK ==
  /\ buffer \in [0 .. BUFFER_SIZE - 1 -> Bytes]
  /\ buffer_mark \in 0 .. BUFFER_SIZE - 1 /\ write_count \in Nat
  /\ writer \in {"fd", "sb"}
  /\ sb \in [length : 0 .. SIZE, max_length : {SIZE}, data : Seq(Bytes)]
  /\ Len(sb.data) = SIZE
  /\ put \in Seq(Chars) /\ flushed \in Seq(Bytes)
  /\ LosesOnlyLast /\ StrbufIs

-----------------------------------------------------------------------------
\* What is flushed.

LEMMA SizesAre ==
  /\ BUFFER_SIZE \in Nat /\ BUFFER_SIZE >= 2 /\ BUFFER_SIZE <= LEN
  /\ LEN \in Nat /\ LEN >= 2 /\ SIZE \in Nat /\ SIZE <= LEN - 1
  BY PrintAssumption, StrbufAssumption

\* Where the i-th character received was put, and how many are received of counted.
At(i) == i + ((i - 1) \div (BUFFER_SIZE - 1))
Received(counted) == counted - (counted \div BUFFER_SIZE)

\* The first n characters received of those put, p, and the buffer behind k buffers.
FirstOf(p, n) == [i \in 1 .. n |-> p[At(i)]]
Holds(buf, m, p, k) == \A i \in 1 .. m : buf[i - 1] = p[k * BUFFER_SIZE + i]

LEMMA Positions ==
  ASSUME NEW k \in Nat
  PROVE  /\ k * (BUFFER_SIZE - 1) \in Nat /\ k * BUFFER_SIZE \in Nat
         /\ k * BUFFER_SIZE = k * (BUFFER_SIZE - 1) + k
         /\ (k + 1) * BUFFER_SIZE = k * BUFFER_SIZE + BUFFER_SIZE
         /\ (k + 1) * (BUFFER_SIZE - 1) = k * (BUFFER_SIZE - 1) + (BUFFER_SIZE - 1)
         /\ \A j \in 1 .. BUFFER_SIZE - 1 :
              At(k * (BUFFER_SIZE - 1) + j) = k * BUFFER_SIZE + j
         /\ \A m \in 0 .. BUFFER_SIZE - 1 :
              /\ Received(k * BUFFER_SIZE + m) = k * (BUFFER_SIZE - 1) + m
              /\ (k * BUFFER_SIZE + m) % BUFFER_SIZE = m
  <1> DEFINE b == BUFFER_SIZE - 1
             c == BUFFER_SIZE
             x == k * b
             y == k * c
  <1>1. b \in Nat \ {0} /\ c \in Nat \ {0} /\ c = b + 1
    BY SizesAre
  <1>2. x \in Nat /\ y \in Nat /\ y = x + k /\ x = b * k /\ y = c * k
    BY <1>1
  <1>3. (k + 1) * c = y + c /\ (k + 1) * b = x + b
    BY <1>1
  <1>4. ASSUME NEW j \in 1 .. b
        PROVE  At(x + j) = y + j
    <2> HIDE DEF b, c, x, y
    <2> DEFINE a == (x + j) - 1
    <2>1. a \in Int /\ a = b * k + (j - 1) /\ j - 1 \in 0 .. b - 1
      BY <1>1, <1>2
    <2> HIDE DEF a
    <2>2. a \div b = k
      BY <1>1, <2>1, DivisionUnique
    <2>3. At(x + j) = (x + j) + (a \div b)
      BY DEF At, a, b
    <2> QED
      BY <1>1, <1>2, <2>2, <2>3
  <1>5. ASSUME NEW m \in 0 .. b
        PROVE  Received(y + m) = x + m /\ (y + m) % c = m
    <2> HIDE DEF b, c, x, y
    <2> DEFINE a == y + m
    <2>1. a \in Int /\ a = c * k + m /\ m \in 0 .. c - 1
      BY <1>1, <1>2
    <2> HIDE DEF a
    <2>2. a \div c = k /\ a % c = m
      BY <1>1, <2>1, DivisionUnique
    <2>3. Received(y + m) = (y + m) - (a \div c) /\ (y + m) % c = a % c
      BY DEF Received, a, c
    <2> QED
      BY <1>1, <1>2, <2>2, <2>3
  <1> QED
    BY <1>1, <1>2, <1>3, <1>4, <1>5

LEMMA Multiples ==
  ASSUME NEW k \in Nat, NEW m \in 0 .. BUFFER_SIZE - 1
  PROVE  k * BUFFER_SIZE \in Nat /\ (k * BUFFER_SIZE + m) % BUFFER_SIZE = m
  BY Positions

\* The characters of a flush go behind those that were received before.
LEMMA FlushedIs ==
  ASSUME NEW k \in Nat, NEW m \in 0 .. BUFFER_SIZE - 1, NEW p, NEW b, NEW f \in Seq(Bytes),
         NEW buf, f = FirstOf(p, k * (BUFFER_SIZE - 1)), b = [i \in 1 .. m |-> buf[i - 1]],
         b \in [1 .. m -> Bytes], Holds(buf, m, p, k)
  PROVE  f \o b = FirstOf(p, k * (BUFFER_SIZE - 1) + m)
  <1> DEFINE r == k * (BUFFER_SIZE - 1)
             y == k * BUFFER_SIZE
             g == [i \in 1 .. r + m |-> p[At(i)]]
             h == f \o b
  <1>1. r \in Nat /\ m \in Nat /\ \A j \in 1 .. m : At(r + j) = y + j
    <2>1. r \in Nat /\ \A j \in 1 .. BUFFER_SIZE - 1 : At(r + j) = y + j
      BY Positions
    <2> HIDE DEF r, y
    <2>2. m \in Nat /\ 1 .. m \subseteq 1 .. BUFFER_SIZE - 1
      BY SizesAre
    <2> QED
      BY <2>1, <2>2
  <1>2. f \in [1 .. r -> Bytes]
    <2>1. f \in [1 .. Len(f) -> Bytes] /\ DOMAIN f = 1 .. r
      BY LenProperties DEF FirstOf
    <2>2. \A i \in 1 .. r : f[i] \in Bytes
      BY <2>1, ElementOfSeq, LenProperties
    <2> QED
      BY <2>1, <2>2
  <1> HIDE DEF r, y
  <1>3. Len(f) = r /\ b \in Seq(Bytes) /\ Len(b) = m
    BY <1>1, <1>2, TuplesAreSequences
  <1>4. h \in Seq(Bytes) /\ Len(h) = r + m
        /\ \A i \in 1 .. r + m : h[i] = IF i <= r THEN f[i] ELSE b[i - r]
    <2>1. /\ f \o b \in Seq(Bytes) /\ Len(f \o b) = Len(f) + Len(b)
          /\ \A i \in 1 .. Len(f) + Len(b) :
               (f \o b)[i] = IF i <= Len(f) THEN f[i] ELSE b[i - Len(f)]
      <3> DEFINE s == f
                 t == b
      <3>1. s \in Seq(Bytes) /\ t \in Seq(Bytes)
        BY <1>3
      <3> HIDE DEF s, t
      <3>2. /\ s \o t \in Seq(Bytes) /\ Len(s \o t) = Len(s) + Len(t)
            /\ \A i \in 1 .. Len(s) + Len(t) :
                 (s \o t)[i] = IF i <= Len(s) THEN s[i] ELSE t[i - Len(s)]
        BY <3>1, ConcatProperties
      <3> QED
        BY <3>2, Zenon DEF s, t
    <2>2. h = f \o b
      BY Zenon
    <2> HIDE DEF h
    <2>3. /\ h \in Seq(Bytes) /\ Len(h) = Len(f) + Len(b)
          /\ \A i \in 1 .. Len(f) + Len(b) : h[i] = IF i <= Len(f) THEN f[i] ELSE b[i - Len(f)]
      BY <2>1, <2>2, Zenon
    <2> QED
      BY <1>3, <2>3
  <1> HIDE DEF h
  <1>5. h \in [1 .. r + m -> Bytes]
    BY <1>4, LenProperties
  <1>6. ASSUME NEW i \in 1 .. r + m
        PROVE  h[i] = p[At(i)]
    <2>1. CASE i <= r
      <3>2. i \in 1 .. r
        BY <1>1, <2>1
      <3>1. i \in 1 .. r /\ h[i] = f[i]
        BY <1>4, <2>1, <3>2, Zenon
      <3> QED
        BY <3>1 DEF r, FirstOf
    <2>2. CASE ~(i <= r)
      <3>1. i - r \in 1 .. m /\ r + (i - r) = i /\ h[i] = b[i - r]
        <4>1. i - r \in 1 .. m /\ r + (i - r) = i
          BY <1>1, <2>2
        <4> QED
          BY <1>4, <2>2, <4>1
      <3>2. b[i - r] = p[y + (i - r)]
        BY <3>1 DEF y, Holds
      <3>3. At(i) = y + (i - r)
        BY <1>1, <3>1
      <3> QED
        BY <3>1, <3>2, <3>3
    <2> QED
      BY <2>1, <2>2
  <1>7. h = g
    BY <1>5, <1>6
  <1> QED
    BY <1>7 DEF h, r, FirstOf

-----------------------------------------------------------------------------
\* The string buffer takes what fits.

Buffers == [length : 0 .. SIZE, max_length : {SIZE}, data : Seq(Bytes)]

LEMMA AppendedIs ==
  ASSUME NEW s \in Buffers, Len(s.data) = SIZE, NEW b \in Seq(Bytes), Len(b) < LEN
  PROVE  LET n == Smaller(Len(b), SIZE - s.length)
         IN /\ Appended(s, b) \in Buffers /\ Len(Appended(s, b).data) = SIZE
            /\ Appended(s, b).length = s.length + n
            /\ Contents(Appended(s, b)) = Contents(s) \o SubSeq(b, 1, n)
  <1> DEFINE d == s.data
             length == s.length
             n == Smaller(Len(b), SIZE - s.length)
             old == SubSeq(d, 1, length)
             added == SubSeq(b, 1, n)
             rest == SubSeq(d, length + n + 1, Len(d))
             both == old \o added
             data == both \o rest
  <1>1. /\ s = [length |-> length, max_length |-> SIZE, data |-> d]
        /\ length \in 0 .. SIZE /\ d \in Seq(Bytes) /\ Len(d) = SIZE
        /\ Len(b) \in Nat /\ s.max_length = SIZE
    BY LenProperties DEF Buffers
  <1>2. n \in 0 .. SIZE - length /\ n <= Len(b)
    BY <1>1, SizesAre DEF Smaller
  <1>3. ToCopy(s, Len(b) % LEN) = n
    <2>1. Len(b) % LEN = Len(b)
      <3>1. Len(b) = LEN * 0 + Len(b) /\ Len(b) \in 0 .. LEN - 1 /\ LEN \in Nat \ {0}
        BY <1>1, SizesAre
      <3> QED
        BY <3>1, DivisionUnique
    <2> QED
      BY <1>1, <2>1 DEF ToCopy
  <1>4. Appended(s, b) = [s EXCEPT !.length = length + n, !.data = data]
    BY <1>3 DEF Appended
  <1> HIDE DEF d, length, n
  <1>5. /\ old \in Seq(Bytes) /\ Len(old) = length
    BY <1>1, SizesAre, SubSeqProperties, ElementOfSeq
  <1>6. /\ added \in Seq(Bytes) /\ Len(added) = n
    BY <1>1, <1>2, SizesAre, SubSeqProperties, ElementOfSeq
  <1>7. rest \in Seq(Bytes) /\ Len(rest) = SIZE - length - n
    <2>1. \A i \in length + n + 1 .. Len(d) : d[i] \in Bytes
      BY <1>1, <1>2, SizesAre, ElementOfSeq
    <2>2. length + n + 1 \in Int /\ Len(d) \in Int
      BY <1>1, <1>2, SizesAre
    <2> QED
      BY <1>1, <1>2, <2>1, <2>2, SizesAre, SubSeqProperties
  <1> HIDE DEF old, added, rest
  <1>8. both \in Seq(Bytes) /\ Len(both) = length + n
    BY <1>5, <1>6, ConcatProperties
  <1> HIDE DEF both
  <1>9. /\ data \in Seq(Bytes) /\ Len(data) = length + n + (SIZE - length - n)
        /\ \A i \in 1 .. Len(both) + Len(rest) : data[i] =
              IF i <= Len(both) THEN both[i] ELSE rest[i - Len(both)]
    BY <1>7, <1>8, ConcatProperties
  <1> HIDE DEF data
  <1>10. length + n \in 0 .. SIZE /\ length + n + (SIZE - length - n) = SIZE
    BY <1>1, <1>2, SizesAre
  <1>11. Appended(s, b) = [length |-> length + n, max_length |-> SIZE, data |-> data]
    BY <1>1, <1>4
  <1>12. SubSeq(data, 1, length + n) = both
    <2> DEFINE cut == SubSeq(data, 1, length + n)
    <2>1. \A i \in 1 .. length + n : data[i] = both[i] /\ both[i] \in Bytes
      <3> SUFFICES ASSUME NEW i \in 1 .. length + n PROVE data[i] = both[i] /\ both[i] \in Bytes
        OBVIOUS
      <3>1. both[i] \in Bytes
        BY <1>8, ElementOfSeq
      <3>2. i <= Len(both) /\ i \in 1 .. Len(both) + Len(rest)
        BY <1>7, <1>8, <1>10, SizesAre
      <3> QED
        BY <1>9, <3>1, <3>2
    <2>2. /\ cut \in Seq(Bytes) /\ Len(cut) = length + n
          /\ \A i \in 1 .. length + n : cut[i] = data[i]
      <3>1. \A i \in 1 .. length + n : data[i] \in Bytes
        BY <2>1
      <3>2. length + n \in Int /\ 1 \in Int /\ (length + n) - 1 + 1 = length + n
        BY <1>10
      <3>3. /\ cut \in Seq(Bytes) /\ Len(cut) = IF 1 <= length + n THEN (length + n) - 1 + 1 ELSE 0
            /\ \A i \in 1 .. (length + n) - 1 + 1 : cut[i] = data[1 + i - 1]
        BY <3>1, <3>2, SubSeqProperties
      <3> QED
        BY <1>10, <3>2, <3>3
    <2> HIDE DEF cut
    <2> QED
      BY <1>8, <2>1, <2>2, SeqEqual DEF cut
  <1>13. Contents(Appended(s, b)) = both /\ Contents(s) = old
    BY <1>11, <1>12 DEF Contents, old, length, d
  <1>14. Appended(s, b) \in Buffers /\ Len(Appended(s, b).data) = SIZE
        /\ Appended(s, b).length = length + n
    BY <1>9, <1>10, <1>11 DEF Buffers
  <1>15. Contents(Appended(s, b)) = Contents(s) \o SubSeq(b, 1, n)
    BY <1>13 DEF both, added
  <1> QED
    BY <1>14, <1>15 DEF n, length

LEMMA JoinedCut ==
  ASSUME NEW f \in Seq(Bytes), NEW b \in Seq(Bytes), NEW l,
         l = Smaller(Len(f), SIZE)
  PROVE  LET n == Smaller(Len(b), SIZE - l)
         IN /\ l + n = Smaller(Len(f \o b), SIZE)
            /\ SubSeq(f, 1, l) \o SubSeq(b, 1, n) = SubSeq(f \o b, 1, l + n)
  <1> DEFINE n == Smaller(Len(b), SIZE - l)
             left_part == SubSeq(f, 1, l)
             right_part == SubSeq(b, 1, n)
             x == left_part \o right_part
             y == SubSeq(f \o b, 1, l + n)
  <1>1. Len(f) \in Nat /\ Len(b) \in Nat /\ f \o b \in Seq(Bytes)
        /\ Len(f \o b) = Len(f) + Len(b)
    BY ConcatProperties, LenProperties
  <1>2. l \in Nat /\ l <= Len(f) /\ n \in Nat /\ n <= Len(b) /\ (n > 0 => l = Len(f))
        /\ l + n = Smaller(Len(f \o b), SIZE)
    <2> DEFINE p == Len(f)
               q == Len(b)
    <2>1. p \in Nat /\ q \in Nat /\ l = Smaller(p, SIZE) /\ n = Smaller(q, SIZE - l)
          /\ Len(f \o b) = p + q
      BY <1>1
    <2> HIDE DEF p, q, n
    <2>2. l \in Nat /\ l <= p /\ n \in Nat /\ n <= q /\ (n > 0 => l = p)
          /\ l + n = Smaller(p + q, SIZE)
      <3>1. l = (IF p < SIZE THEN p ELSE SIZE) /\ l \in Nat /\ SIZE - l \in Nat /\ SIZE \in Nat
        BY <2>1, SizesAre DEF Smaller
      <3>2. n = (IF q < SIZE - l THEN q ELSE SIZE - l) /\ n \in Nat
        BY <2>1, <3>1 DEF Smaller
      <3>3. Smaller(p + q, SIZE) = IF p + q < SIZE THEN p + q ELSE SIZE
        BY DEF Smaller
      <3>4. CASE p < SIZE
        BY <2>1, <3>1, <3>2, <3>3, <3>4
      <3>5. CASE ~(p < SIZE)
        BY <2>1, <3>1, <3>2, <3>3, <3>5
      <3> QED
        BY <3>4, <3>5
    <2> QED
      BY <2>1, <2>2 DEF p, q
  <1> HIDE DEF n
  <1>3. left_part \in Seq(Bytes) /\ Len(left_part) = l
        /\ \A i \in 1 .. l : left_part[i] = f[i]
    BY <1>1, <1>2, SubSeqProperties, ElementOfSeq
  <1>4. right_part \in Seq(Bytes) /\ Len(right_part) = n
        /\ \A i \in 1 .. n : right_part[i] = b[i]
    BY <1>1, <1>2, SubSeqProperties, ElementOfSeq
  <1>5. y \in Seq(Bytes) /\ Len(y) = l + n /\ \A i \in 1 .. l + n : y[i] = (f \o b)[i]
    <2> DEFINE z == f \o b
    <2>1. z \in Seq(Bytes) /\ Len(z) = Len(f) + Len(b)
      BY <1>1
    <2> HIDE DEF z
    <2>2. SubSeq(z, 1, l + n) \in Seq(Bytes) /\ Len(SubSeq(z, 1, l + n)) = l + n
          /\ \A i \in 1 .. l + n : SubSeq(z, 1, l + n)[i] = z[i]
      BY <1>1, <1>2, <2>1, SubSeqProperties, ElementOfSeq
    <2> QED
      BY <2>2 DEF z
  <1> HIDE DEF left_part, right_part, y
  <1>6. x \in Seq(Bytes) /\ Len(x) = l + n
        /\ \A i \in 1 .. l + n : x[i] = IF i <= l THEN left_part[i] ELSE right_part[i - l]
    <2>1. /\ x \in Seq(Bytes) /\ Len(x) = Len(left_part) + Len(right_part)
          /\ \A i \in 1 .. Len(left_part) + Len(right_part) :
               x[i] = IF i <= Len(left_part) THEN left_part[i]
                      ELSE right_part[i - Len(left_part)]
      BY <1>3, <1>4, ConcatProperties
    <2> QED
      BY <1>3, <1>4, <2>1
  <1>7. ASSUME NEW i \in 1 .. l + n
        PROVE  x[i] = y[i]
    <2>1. (f \o b)[i] = IF i <= Len(f) THEN f[i] ELSE b[i - Len(f)]
      <3>1. i \in 1 .. Len(f) + Len(b)
        BY <1>1, <1>2
      <3> QED
        BY <3>1, ConcatProperties
    <2>2. CASE i <= l
      <3>1. x[i] = left_part[i] /\ left_part[i] = f[i]
        BY <1>2, <1>3, <1>6, <2>2
      <3>2. (f \o b)[i] = f[i]
        BY <1>1, <1>2, <2>1, <2>2
      <3> QED
        BY <1>5, <3>1, <3>2
    <2>3. CASE ~(i <= l)
      <3>1. l = Len(f) /\ i - l \in 1 .. n
        BY <1>1, <1>2, <2>3
      <3>2. x[i] = right_part[i - l] /\ right_part[i - l] = b[i - l]
        BY <1>4, <1>6, <2>3, <3>1
      <3>3. (f \o b)[i] = b[i - l]
        BY <2>1, <2>3, <3>1
      <3> QED
        BY <1>5, <3>2, <3>3
    <2> QED
      BY <2>2, <2>3
  <1> HIDE DEF x
  <1>8. x = y
    BY <1>5, <1>6, <1>7, SeqEqual
  <1> QED
    BY <1>2, <1>8 DEF x, y, left_part, right_part, n

LEMMA FlushIs ==
  ASSUME sb \in Buffers, Len(sb.data) = SIZE, flushed \in Seq(Bytes),
         writer \in {"fd", "sb"}, StrbufIs,
         NEW m \in 0 .. BUFFER_SIZE - 1, NEW buf, [i \in 1 .. m |-> buf[i - 1]] \in [1 .. m -> Bytes],
         Flush(buf, m), writer' = writer
  PROVE  /\ flushed' = flushed \o [i \in 1 .. m |-> buf[i - 1]] /\ flushed' \in Seq(Bytes)
         /\ sb' \in Buffers /\ Len(sb'.data) = SIZE /\ StrbufIs'
  <1> DEFINE b == [i \in 1 .. m |-> buf[i - 1]]
  <1>1. m \in Nat /\ m < LEN
    BY SizesAre
  <1>2. b \in Seq(Bytes) /\ Len(b) = m
    BY <1>1, TuplesAreSequences
  <1>3. flushed' = flushed \o b /\ sb' = IF writer = "sb" THEN Appended(sb, b) ELSE sb
    BY DEF Flush
  <1> HIDE DEF b
  <1>4. flushed' \in Seq(Bytes)
    BY <1>2, <1>3, ConcatProperties
  <1>5. CASE writer = "fd"
    <2>1. sb' = sb
      BY <1>3, <1>5
    <2>2. StrbufIs'
      BY <2>1, <1>5 DEF StrbufIs
    <2> QED
      BY <1>3, <1>4, <2>1, <2>2 DEF b
  <1>6. CASE writer = "sb"
    <2> DEFINE n == Smaller(Len(b), SIZE - sb.length)
    <2>1. sb' = Appended(sb, b)
      BY <1>3, <1>6
    <2>2. /\ Appended(sb, b) \in Buffers /\ Len(Appended(sb, b).data) = SIZE
          /\ Appended(sb, b).length = sb.length + n
          /\ Contents(Appended(sb, b)) = Contents(sb) \o SubSeq(b, 1, n)
      BY <1>1, <1>2, AppendedIs
    <2>3. sb.length = Smaller(Len(flushed), SIZE) /\ Contents(sb) = SubSeq(flushed, 1, sb.length)
      BY <1>6 DEF StrbufIs
    <2>4. /\ sb.length + n = Smaller(Len(flushed \o b), SIZE)
          /\ SubSeq(flushed, 1, sb.length) \o SubSeq(b, 1, n) = SubSeq(flushed \o b, 1, sb.length + n)
      BY <1>2, <2>3, JoinedCut
    <2> HIDE DEF n
    <2>5. sb'.length = Smaller(Len(flushed'), SIZE)
          /\ Contents(sb') = SubSeq(flushed', 1, sb'.length)
      <3>1. Contents(sb') = Contents(Appended(sb, b)) /\ sb'.length = sb.length + n
        BY <2>1, <2>2
      <3> QED
        BY <1>3, <2>2, <2>3, <2>4, <3>1
    <2>6. StrbufIs'
      BY <1>6, <2>5 DEF StrbufIs
    <2> QED
      BY <1>3, <1>4, <2>1, <2>2, <2>6 DEF b
  <1> QED
    BY <1>5, <1>6

-----------------------------------------------------------------------------
\* Every step that puts a character, and the flush at the end.

LEMMA AtIs ==
  ASSUME NEW k \in Nat, NEW i \in 1 .. k * (BUFFER_SIZE - 1)
  PROVE  At(i) \in 1 .. k * BUFFER_SIZE
  <1> DEFINE b == BUFFER_SIZE - 1
             q == (i - 1) \div b
             r == (i - 1) % b
             x == k * b
  <1>1. b \in Nat \ {0} /\ x \in Nat /\ k * BUFFER_SIZE = x + k /\ i \in 1 .. x
    BY Positions, SizesAre
  <1>2. x = b * k
    BY <1>1
  <1> HIDE DEF b
  <1>3. i - 1 \in Nat
    BY <1>1
  <1>4. q \in Nat /\ r \in 0 .. b - 1 /\ i - 1 = b * q + r
    BY <1>1, <1>3
  <1> HIDE DEF q, r, x
  <1>5. q < k
    <2> SUFFICES ASSUME q >= k PROVE FALSE
      BY <1>4
    <2>1. b * q >= b * k
      BY <1>1, <1>4
    <2>2. b * q \in Int /\ b * k \in Int
      BY <1>1, <1>4
    <2> DEFINE bq == b * q
               bk == b * k
    <2>3. bq \in Int /\ bq >= bk /\ x = bk /\ i - 1 = bq + r
      BY <2>1, <2>2, <1>2, <1>4
    <2> HIDE DEF bq, bk
    <2> QED
      BY <1>1, <1>4, <2>3
  <1>6. At(i) = i + q
    BY DEF At, q, b
  <1> QED
    BY <1>1, <1>4, <1>5, <1>6

Lost(p, f, w, buf, mark) ==
  /\ w = Len(p) - mark
  /\ f = FirstOf(p, Received(Len(p) - mark))
  /\ [i \in 1 .. mark |-> buf[i - 1]] = SubSeq(p, Len(p) - mark + 1, Len(p))

LEMMA LostIs ==
  /\ LosesOnlyLast <=> Lost(put, flushed, write_count, buffer, buffer_mark)
  /\ (LosesOnlyLast <=> Lost(put, flushed, write_count, buffer, buffer_mark))'
  BY DEF LosesOnlyLast, Lost, FirstOf, Received, At

\* The same with k whole buffers gone.
LEMMA LostWhole ==
  ASSUME NEW k \in Nat, NEW m \in 0 .. BUFFER_SIZE - 1, NEW p \in Seq(Chars),
         Len(p) = k * BUFFER_SIZE + m, NEW f, NEW w, NEW buf
  PROVE  Lost(p, f, w, buf, m) <=>
           /\ w = k * BUFFER_SIZE /\ f = FirstOf(p, k * (BUFFER_SIZE - 1))
           /\ Holds(buf, m, p, k)
  <1> DEFINE y == k * BUFFER_SIZE
             r == k * (BUFFER_SIZE - 1)
             cut == SubSeq(p, y + 1, y + m)
             b == [i \in 1 .. m |-> buf[i - 1]]
  <1>1. m \in Nat /\ y \in Nat /\ 0 \in 0 .. BUFFER_SIZE - 1 /\ Len(p) = y + m
    BY Positions, SizesAre
  <1>2. Received(y) = r
    <2>1. Received(y + 0) = r + 0 /\ r \in Nat
      BY <1>1, Positions
    <2> HIDE DEF y, r
    <2> QED
      BY <1>1, <2>1
  <1> HIDE DEF y, r
  <1>3. Len(p) - m = y
    BY <1>1
  <1>4. cut \in Seq(Chars) /\ Len(cut) = m /\ \A i \in 1 .. m : cut[i] = p[y + i]
    <2>1. \A i \in y + 1 .. y + m : p[i] \in Chars
      BY <1>1, ElementOfSeq
    <2>2. y + 1 \in Int /\ y + m \in Int
      BY <1>1
    <2>3. /\ cut \in Seq(Chars)
          /\ Len(cut) = IF y + 1 <= y + m THEN (y + m) - (y + 1) + 1 ELSE 0
          /\ \A i \in 1 .. (y + m) - (y + 1) + 1 : cut[i] = p[y + 1 + i - 1]
      BY <2>1, <2>2, SubSeqProperties
    <2>4. (y + m) - (y + 1) + 1 = m /\ \A i \in 1 .. m : y + 1 + i - 1 = y + i
      BY <1>1
    <2> HIDE DEF cut
    <2>5. Len(cut) = m
      BY <1>1, <2>3, <2>4
    <2>6. \A i \in 1 .. m : cut[i] = p[y + i]
      <3>1. \A i \in 1 .. m : cut[i] = p[y + 1 + i - 1]
        BY <2>3, <2>4
      <3> QED
        BY <2>4, <3>1
    <2> QED
      BY <2>3, <2>5, <2>6
  <1> HIDE DEF cut
  <1>5. cut \in [1 .. m -> Chars]
    BY <1>4, LenProperties
  <1>6. b = cut <=> \A i \in 1 .. m : buf[i - 1] = p[y + i]
    <2>1. ASSUME b = cut PROVE \A i \in 1 .. m : buf[i - 1] = p[y + i]
      <3>1. \A i \in 1 .. m : b[i] = p[y + i]
        BY <1>4, <2>1
      <3> QED
        BY <3>1
    <2>2. ASSUME \A i \in 1 .. m : buf[i - 1] = p[y + i] PROVE b = cut
      <3>1. \A i \in 1 .. m : buf[i - 1] = cut[i]
        BY <1>4, <2>2
      <3> QED
        BY <1>5, <3>1
    <2> QED
      BY <2>1, <2>2
  <1>7. Lost(p, f, w, buf, m) <=>
          w = y /\ f = FirstOf(p, Received(y)) /\ b = cut
    BY <1>1, <1>3 DEF Lost, cut
  <1> QED
    BY <1>2, <1>6, <1>7 DEF y, r, Holds

\* The buffers gone: as many as the count.
LEMMA Gone ==
  ASSUME BufferOK, (Len(put) - buffer_mark) % BUFFER_SIZE = 0
  PROVE  \E k \in Nat : Len(put) = k * BUFFER_SIZE + buffer_mark
  <1>1. Len(put) - buffer_mark \in Nat
    <2>1. write_count = Len(put) - buffer_mark /\ write_count \in Nat
      BY DEF BufferOK, LosesOnlyLast
    <2> QED
      BY <2>1
  <1> DEFINE a == Len(put) - buffer_mark
             c == BUFFER_SIZE
             k == a \div c
             r == a % c
  <1>2. c \in Nat \ {0} /\ a \in Nat /\ r = 0
    BY <1>1, SizesAre
  <1>3. Len(put) \in Nat /\ buffer_mark \in Nat /\ Len(put) = a + buffer_mark
    BY LenProperties, SizesAre DEF BufferOK
  <1> HIDE DEF a, c
  <1>4. k \in Nat /\ a = c * k + r /\ c * k = k * c
    BY <1>2
  <1> HIDE DEF k, r
  <1>5. a = k * c
    BY <1>2, <1>4
  <1> QED
    BY <1>3, <1>4, <1>5 DEF c

LEMMA PutKeeps ==
  ASSUME BufferOK, (Len(put) - buffer_mark) % BUFFER_SIZE = 0,
         NEW ch \in Chars, put_char(ch), writer' = writer
  PROVE  /\ BufferOK' /\ ((Len(put) - buffer_mark) % BUFFER_SIZE = 0)'
         /\ put' = Append(put, ch) /\ Len(put') = Len(put) + 1
  <1>1. PICK k \in Nat : Len(put) = k * BUFFER_SIZE + buffer_mark
    BY Gone
  <1> DEFINE m == buffer_mark
             y == k * BUFFER_SIZE
             r == k * (BUFFER_SIZE - 1)
             stored == [buffer EXCEPT ![m] = ch]
             last == BUFFER_SIZE - 1
  <1>2. /\ m \in 0 .. last /\ last \in Nat \ {0} /\ y \in Nat /\ r \in Nat
        /\ BUFFER_SIZE = last + 1 /\ m \in Nat
    BY Positions, SizesAre DEF BufferOK
  <1>3. put \in Seq(Chars) /\ put' = Append(put, ch) /\ put' \in Seq(Chars)
        /\ Len(put) = y + m /\ Len(put') = y + (m + 1)
        /\ \A i \in 1 .. y + m : put'[i] = put[i]
        /\ put'[y + (m + 1)] = ch
    <2>1. put \in Seq(Chars) /\ put' = Append(put, ch)
      BY DEF BufferOK, put_char
    <2>2. /\ put' \in Seq(Chars) /\ Len(put') = Len(put) + 1
          /\ \A i \in 1 .. Len(put) : put'[i] = put[i]
          /\ put'[Len(put) + 1] = ch
      BY <2>1, AppendProperties
    <2> HIDE DEF y
    <2>3. Len(put) = y + m /\ Len(put) + 1 = y + (m + 1)
      BY <1>1, <1>2 DEF y
    <2> QED
      BY <2>1, <2>2, <2>3
  <1>4. /\ write_count = y
        /\ flushed = FirstOf(put, r)
        /\ \A i \in 1 .. m : buffer[i - 1] = put[y + i]
    <2>1. Lost(put, flushed, write_count, buffer, m)
      BY LostIs DEF BufferOK
    <2>2. Lost(put, flushed, write_count, buffer, m) <=>
            /\ write_count = k * BUFFER_SIZE /\ flushed = FirstOf(put, k * (BUFFER_SIZE - 1))
            /\ Holds(buffer, m, put, k)
      <3>1. put \in Seq(Chars) /\ m \in 0 .. BUFFER_SIZE - 1 /\ Len(put) = k * BUFFER_SIZE + m
        BY <1>1, <1>2, <1>3
      <3> HIDE DEF m
      <3> QED
        BY ONLY <3>1, LostWhole, k \in Nat
    <2> QED
      BY <2>1, <2>2 DEF Holds
  <1>5. flushed = FirstOf(put', r)
    <2>1. \A i \in 1 .. r : At(i) \in 1 .. y
      BY AtIs
    <2> HIDE DEF y, r
    <2>2. ASSUME NEW i \in 1 .. r PROVE put'[At(i)] = put[At(i)]
      <3>1. At(i) \in 1 .. y
        BY <2>1
      <3> DEFINE n == At(i)
      <3> HIDE DEF n
      <3>2. n \in 1 .. y => n \in 1 .. y + m
        BY <1>2
      <3>3. n \in 1 .. y + m
        BY <3>1, <3>2 DEF n
      <3>4. put'[n] = put[n]
        BY <1>3, <3>3
      <3> QED
        BY <3>4 DEF n
    <2> QED
      BY <1>4, <2>2 DEF FirstOf
  <1>6. /\ buffer' = stored /\ stored \in [0 .. last -> Bytes]
        /\ \A i \in 1 .. m : stored[i - 1] = put'[y + i]
        /\ stored[m] = put'[y + (m + 1)]
    <2>1. buffer' = stored /\ buffer \in [0 .. last -> Bytes] /\ ch \in Bytes
      BY DEF BufferOK, put_char, Bytes
    <2> HIDE DEF y, r
    <2>2. \A i \in 1 .. m : i - 1 \in 0 .. last /\ i - 1 # m /\ y + i \in 1 .. y + m
      BY <1>2
    <2>3. \A i \in 1 .. m : stored[i - 1] = buffer[i - 1] /\ buffer[i - 1] = put[y + i]
                            /\ put'[y + i] = put[y + i]
      BY <1>3, <1>4, <2>1, <2>2
    <2>4. stored \in [0 .. last -> Bytes] /\ stored[m] = ch
      BY <1>2, <2>1
    <2>5. stored[m] = put'[y + (m + 1)]
      BY <1>3, <2>4
    <2> HIDE DEF stored
    <2>6. \A i \in 1 .. m : stored[i - 1] = put'[y + i]
      BY <2>3
    <2> QED
      BY <2>1, <2>4, <2>5, <2>6
  <1> HIDE DEF stored
  <1>7. CASE ~IsFull(m + 1)
    <2>1. /\ buffer_mark' = m + 1 /\ write_count' = write_count /\ sb' = sb
          /\ flushed' = flushed
      BY <1>7 DEF put_char
    <2>2. m + 1 \in 0 .. last /\ Len(put') = y + (m + 1)
      <3> HIDE DEF y
      <3>1. m + 1 # last + 1
        BY <1>2, <1>7 DEF IsFull
      <3> QED
        BY <1>2, <1>3, <3>1
    <2>3. \A i \in 1 .. m + 1 : buffer'[i - 1] = put'[y + i]
      <3> SUFFICES ASSUME NEW i \in 1 .. m + 1 PROVE buffer'[i - 1] = put'[y + i]
        OBVIOUS
      <3> HIDE DEF y
      <3>1. i \in 1 .. m \/ (i = m + 1 /\ i - 1 = m)
        BY <1>2
      <3> QED
        BY <1>6, <3>1
    <2>4. Lost(put', flushed', write_count', buffer', m + 1)
      <3> DEFINE n == m + 1
                 p == put'
                 f == flushed'
                 w == write_count'
                 buf == buffer'
      <3>1. /\ n \in 0 .. BUFFER_SIZE - 1 /\ p \in Seq(Chars)
            /\ Len(p) = k * BUFFER_SIZE + n
            /\ w = k * BUFFER_SIZE
            /\ f = FirstOf(p, k * (BUFFER_SIZE - 1)) /\ Holds(buf, n, p, k)
        BY <1>3, <1>4, <1>5, <2>1, <2>2, <2>3 DEF Holds
      <3> HIDE DEF n, p, f, w, buf
      <3>2. Lost(p, f, w, buf, n)
        BY <3>1, LostWhole
      <3> QED
        BY <3>2 DEF n, p, f, w, buf
    <2>5. LosesOnlyLast'
      BY <2>1, <2>4, LostIs
    <2>6. StrbufIs'
      <3>1. StrbufIs
        BY DEF BufferOK
      <3> QED
        BY <2>1, <3>1 DEF StrbufIs
    <2>7. BufferOK'
      BY <1>3, <1>6, <2>1, <2>2, <2>5, <2>6 DEF BufferOK
    <2>8. (Len(put') - buffer_mark') % BUFFER_SIZE = 0
      <3>1. 0 \in 0 .. BUFFER_SIZE - 1
        BY <1>2
      <3>2. (y + 0) % BUFFER_SIZE = 0
        BY <3>1, Positions
      <3> HIDE DEF y
      <3>3. Len(put') - buffer_mark' = y /\ y + 0 = y
        <4>1. Len(put') = y + (m + 1) /\ buffer_mark' = m + 1
          BY <1>3, <2>1, Zenon
        <4>2. y \in Nat /\ m \in Nat
          BY <1>2, Zenon
        <4> HIDE DEF m
        <4> QED
          BY <4>1, <4>2
      <3> QED
        BY <3>2, <3>3
    <2> QED
      BY <1>2, <1>3, <2>7, <2>8
  <1>8. CASE IsFull(m + 1)
    <2>1. m = last /\ last \in 0 .. BUFFER_SIZE - 1
      BY <1>2, <1>8 DEF IsFull
    <2>2. Flush(stored, m) /\ buffer_mark' = 0 /\ write_count' = write_count + m + 1
      BY <1>8 DEF put_char, MarkAfter, stored
    <2> DEFINE b == [i \in 1 .. m |-> stored[i - 1]]
    <2>3. b \in [1 .. m -> Bytes]
      <3>1. \A i \in 1 .. m : i - 1 \in 0 .. last
        BY <1>2
      <3> QED
        BY <1>6, <3>1
    <2>4. /\ sb \in Buffers /\ Len(sb.data) = SIZE /\ flushed \in Seq(Bytes)
          /\ writer \in {"fd", "sb"} /\ StrbufIs
      BY DEF BufferOK, Buffers
    <2>5. /\ flushed' = flushed \o b /\ flushed' \in Seq(Bytes)
          /\ sb' \in Buffers /\ Len(sb'.data) = SIZE /\ StrbufIs'
      BY <1>2, <2>2, <2>3, <2>4, FlushIs
    <2>6. Holds(stored, m, put', k)
      BY <1>6 DEF Holds
    <2>7. flushed' = FirstOf(put', r + m)
      <3> DEFINE p == put'
      <3>1. /\ m \in 0 .. BUFFER_SIZE - 1 /\ flushed \in Seq(Bytes)
            /\ flushed = FirstOf(p, k * (BUFFER_SIZE - 1))
            /\ b = [i \in 1 .. m |-> stored[i - 1]]
            /\ b \in [1 .. m -> Bytes] /\ Holds(stored, m, p, k)
        BY <1>2, <1>5, <2>3, <2>4, <2>6
      <3> HIDE DEF p, b, m
      <3>2. flushed \o b = FirstOf(p, k * (BUFFER_SIZE - 1) + m)
        BY <3>1, FlushedIs
      <3> QED
        BY <2>5, <3>2 DEF p
    <2>8. /\ r + m = (k + 1) * (BUFFER_SIZE - 1) /\ write_count' = (k + 1) * BUFFER_SIZE
          /\ Len(put') = (k + 1) * BUFFER_SIZE + 0 /\ k + 1 \in Nat
      <3> DEFINE nr == (k + 1) * (BUFFER_SIZE - 1)
                 ny == (k + 1) * BUFFER_SIZE
      <3>1. nr = r + last /\ ny = y + BUFFER_SIZE
        BY Positions
      <3>2. write_count = y
        BY <1>4
      <3> HIDE DEF y, r, nr, ny
      <3>3. r + m = nr /\ write_count' = ny /\ Len(put') = ny + 0 /\ k + 1 \in Nat
        BY <1>2, <1>3, <2>1, <2>2, <3>1, <3>2
      <3> QED
        BY <3>3 DEF nr, ny
    <2>9. Lost(put', flushed', write_count', buffer', 0)
      <3>1. flushed' = FirstOf(put', (k + 1) * (BUFFER_SIZE - 1))
        BY <2>7, <2>8
      <3>2. 0 \in 0 .. BUFFER_SIZE - 1 /\ 1 .. 0 = {}
        BY <1>2
      <3>3. Holds(buffer', 0, put', k + 1)
        BY <3>2 DEF Holds
      <3> DEFINE n == k + 1
                 p == put'
                 f == flushed'
                 w == write_count'
                 buf == buffer'
      <3>4. /\ n \in Nat /\ 0 \in 0 .. BUFFER_SIZE - 1 /\ p \in Seq(Chars)
            /\ Len(p) = n * BUFFER_SIZE + 0
            /\ w = n * BUFFER_SIZE
            /\ f = FirstOf(p, n * (BUFFER_SIZE - 1)) /\ Holds(buf, 0, p, n)
        BY <1>3, <2>8, <3>1, <3>2, <3>3
      <3> HIDE DEF n, p, f, w, buf
      <3>5. Lost(p, f, w, buf, 0)
        BY <3>4, LostWhole
      <3> QED
        BY <3>5 DEF p, f, w, buf
    <2>10. LosesOnlyLast'
      BY <2>2, <2>9, LostIs
    <2>11. write_count' \in Nat
      BY <1>2, <1>4, <2>2
    <2>12. BufferOK'
      <3>1. buffer_mark' \in 0 .. BUFFER_SIZE - 1
        BY <1>2, <2>2
      <3>2. buffer' \in [0 .. BUFFER_SIZE - 1 -> Bytes]
        BY <1>6
      <3>3. writer' \in {"fd", "sb"}
        BY <2>4
      <3> QED
        BY <1>3, <2>5, <2>10, <2>11, <3>1, <3>2, <3>3 DEF BufferOK, Buffers
    <2>13. (Len(put') - buffer_mark') % BUFFER_SIZE = 0
      <3> DEFINE z == (k + 1) * BUFFER_SIZE
      <3>1. (z + 0) % BUFFER_SIZE = 0 /\ z \in Nat
        <4>1. 0 \in 0 .. BUFFER_SIZE - 1 /\ k + 1 \in Nat
          BY <1>2
        <4> QED
          BY <4>1, Multiples
      <3>2. Len(put') = z + 0
        BY <2>8
      <3> HIDE DEF z
      <3>3. Len(put') - buffer_mark' = z + 0
        BY <2>2, <3>1, <3>2
      <3> QED
        BY <3>1, <3>3
    <2> QED
      BY <1>2, <1>3, <2>12, <2>13
  <1> QED
    BY <1>7, <1>8

-----------------------------------------------------------------------------
RestOK ==
  /\ pc \in {"format", "text", "done", "panic", "undefined"}
  /\ conv \in Conversions \cup {NoConv}
  /\ text \in Seq(Chars) /\ space_count \in Nat
  /\ left \in [directives : Nat, operands : Nat]
  /\ begun \in 0 .. Len(put)

LEMMA InvIs ==
  /\ PrintInv <=> BufferOK /\ RestOK /\ WholeBuffers /\ InProgress
  /\ (PrintInv <=> BufferOK /\ RestOK /\ WholeBuffers /\ InProgress)'
  BY DEF PrintInv, BufferOK, RestOK, TypeOK

LEMMA InitInv == Init => PrintInv
  <1> SUFFICES ASSUME Init PROVE PrintInv
    OBVIOUS
  <1> USE DEF Init
  <1>1. /\ <<>> \in Seq(Chars) /\ <<>> \in Seq(Bytes) /\ Len(put) = 0 /\ Len(flushed) = 0
        /\ put \in Seq(Chars) /\ flushed \in Seq(Bytes)
    OBVIOUS
  <1>2. sb \in Buffers /\ Len(sb.data) = SIZE /\ sb.length = 0
    <2> DEFINE d == [i \in 1 .. SIZE |-> Junk]
    <2>1. sb = [length |-> 0, max_length |-> SIZE, data |-> d]
      BY SizesAre DEF Allocated
    <2>2. d \in [1 .. SIZE -> Bytes]
      BY DEF Bytes
    <2> HIDE DEF d
    <2>3. d \in Seq(Bytes) /\ Len(d) = SIZE
      BY <2>2, SizesAre, TuplesAreSequences
    <2> QED
      BY <2>1, <2>3, SizesAre DEF Buffers
  <1>3. LosesOnlyLast
    <2>1. 0 \in Nat /\ 0 \in 0 .. BUFFER_SIZE - 1 /\ 0 * BUFFER_SIZE = 0
          /\ 0 * (BUFFER_SIZE - 1) = 0
      BY SizesAre
    <2>2. 1 .. 0 = {}
      OBVIOUS
    <2>3. FirstOf(put, 0) = <<>>
      BY <2>2 DEF FirstOf
    <2>4. Holds(buffer, 0, put, 0)
      BY <2>2 DEF Holds
    <2>5. Lost(put, flushed, write_count, buffer, 0)
      <3> DEFINE k == 0
      <3>1. /\ k \in Nat /\ 0 \in 0 .. BUFFER_SIZE - 1
            /\ put \in Seq(Chars) /\ Len(put) = k * BUFFER_SIZE + 0
            /\ write_count = k * BUFFER_SIZE /\ flushed = FirstOf(put, k * (BUFFER_SIZE - 1))
            /\ Holds(buffer, 0, put, k)
        BY <1>1, <2>1, <2>3, <2>4
      <3> HIDE DEF k
      <3> QED
        BY ONLY <3>1, LostWhole
    <2> QED
      BY <2>5, LostIs
  <1>4. StrbufIs
    <2>1. 0 = Smaller(Len(flushed), SIZE)
      BY <1>1, SizesAre DEF Smaller
    <2>2. Contents(sb) = <<>> /\ SubSeq(flushed, 1, 0) = <<>>
      BY <1>2, SubSeqEmpty DEF Contents
    <2> QED
      BY <1>2, <2>1, <2>2 DEF StrbufIs
  <1>5. BufferOK
    <2>1. buffer \in [0 .. BUFFER_SIZE - 1 -> Bytes]
      BY DEF Bytes
    <2>2. buffer_mark \in 0 .. BUFFER_SIZE - 1 /\ write_count \in Nat /\ writer \in {"fd", "sb"}
      BY SizesAre
    <2> QED
      BY <1>1, <1>2, <1>3, <1>4, <2>1, <2>2 DEF BufferOK, Buffers
  <1>6. RestOK
    <2>1. left \in [directives : Nat, operands : Nat]
      BY PrintAssumption
    <2> QED
      BY <1>1, <2>1 DEF RestOK
  <1>7. WholeBuffers
    <2>1. 0 % BUFFER_SIZE = 0
      BY SizesAre
    <2> QED
      BY <1>1, <2>1 DEF WholeBuffers
  <1>8. InProgress
    BY DEF InProgress
  <1> QED
    BY <1>5, <1>6, <1>7, <1>8, InvIs

-----------------------------------------------------------------------------
\* The field grows by what is put.

LEMMA FieldGrows ==
  ASSUME NEW p \in Seq(Chars), NEW ch \in Chars, NEW b \in 0 .. Len(p)
  PROVE  /\ SubSeq(Append(p, ch), b + 1, Len(p) + 1) = SubSeq(p, b + 1, Len(p)) \o <<ch>>
         /\ SubSeq(p, b + 1, Len(p)) \in Seq(Chars)
  <1> DEFINE n == Len(p)
             q == Append(p, ch)
  <1>1. n \in Nat /\ b \in Nat /\ b <= n
    BY LenProperties
  <1>2. q \in Seq(Chars) /\ Len(q) = n + 1 /\ q[n + 1] = ch /\ q = p \o <<ch>>
        /\ <<ch>> \in Seq(Chars)
    BY AppendProperties, AppendIsConcat
  <1>3. SubSeq(p, b + 1, n) \in Seq(Chars)
    BY <1>1, SubSeqProperties, ElementOfSeq
  <1>4. SubSeq(q, b + 1, n + 1) = SubSeq(q, b + 1, n) \o <<ch>>
    <2> HIDE DEF n, q
    <2>1. b + 1 \in 1 .. Len(q) /\ n + 1 \in b + 1 .. Len(q) /\ (n + 1) - 1 = n
      BY <1>1, <1>2
    <2>2. SubSeq(q, b + 1, n + 1) = SubSeq(q, b + 1, (n + 1) - 1) \o <<q[n + 1]>>
      BY <1>2, <2>1, SubSeqRecursiveSecond
    <2> QED
      BY <1>2, <2>1, <2>2
  <1>5. SubSeq(q, b + 1, n) = SubSeq(p, b + 1, n)
    <2>1. CASE b = n
      <3>1. SubSeq(q, b + 1, n) = <<>> /\ SubSeq(p, b + 1, n) = <<>>
        BY <1>1, <2>1, SubSeqEmpty
      <3> QED
        BY <3>1
    <2>2. CASE b # n
      <3>1. b + 1 \in 1 .. Len(p) /\ n \in 1 .. Len(p)
        BY <1>1, <2>2
      <3>2. SubSeq(p \o <<ch>>, b + 1, n) = SubSeq(p, b + 1, n)
        BY <1>2, <3>1, SubSeqOfConcat1
      <3> QED
        BY <1>2, <3>2
    <2> QED
      BY <2>1, <2>2
  <1> QED
    BY <1>3, <1>4, <1>5

LEMMA FieldMoves ==
  ASSUME NEW p \in Seq(Chars), NEW ch \in Chars, NEW b \in 0 .. Len(p),
         NEW rest \in Seq(Chars)
  PROVE  SubSeq(Append(p, ch), b + 1, Len(p) + 1) \o rest
           = SubSeq(p, b + 1, Len(p)) \o (<<ch>> \o rest)
  <1> DEFINE f == SubSeq(p, b + 1, Len(p))
             one == <<ch>>
  <1>1. one \in Seq(Chars) /\ f \in Seq(Chars)
        /\ SubSeq(Append(p, ch), b + 1, Len(p) + 1) = f \o one
    <2>1. one \in Seq(Chars)
      OBVIOUS
    <2> HIDE DEF one
    <2>2. f \in Seq(Chars) /\ SubSeq(Append(p, ch), b + 1, Len(p) + 1) = f \o one
      BY FieldGrows DEF one
    <2> QED
      BY <2>1, <2>2
  <1> HIDE DEF one, f
  <1>2. (f \o one) \o rest = f \o (one \o rest)
    <2>1. f \in Seq(Chars) /\ one \in Seq(Chars) /\ rest \in Seq(Chars)
      BY <1>1
    <2> QED
      BY ONLY <2>1, ConcatAssociative
  <1> QED
    BY <1>1, <1>2 DEF one, f

LEMMA PadsAre ==
  ASSUME NEW c \in Conversions, NEW n \in Nat
  PROVE  /\ Pads(c, n) \in Seq(Chars) /\ Len(Pads(c, n)) = n
         /\ \A i \in 1 .. n : Pads(c, n)[i] = PadOf(c)
         /\ n = 0 => Pads(c, n) = <<>>
         /\ n > 0 => Pads(c, n) = <<PadOf(c)>> \o Pads(c, n - 1)
  <1>1. PadOf(c) \in Chars
    BY LengthsAre
  <1>2. \A m \in Nat : Pads(c, m) \in Seq(Chars) /\ Len(Pads(c, m)) = m
                       /\ \A i \in 1 .. m : Pads(c, m)[i] = PadOf(c)
    <2> SUFFICES ASSUME NEW m \in Nat
                 PROVE  Pads(c, m) \in Seq(Chars) /\ Len(Pads(c, m)) = m
                        /\ \A i \in 1 .. m : Pads(c, m)[i] = PadOf(c)
      OBVIOUS
    <2>1. Pads(c, m) \in [1 .. m -> Chars] /\ \A i \in 1 .. m : Pads(c, m)[i] = PadOf(c)
      BY <1>1 DEF Pads
    <2> QED
      BY <2>1, TuplesAreSequences
  <1>3. ASSUME n > 0
        PROVE  Pads(c, n) = <<PadOf(c)>> \o Pads(c, n - 1)
    <2> DEFINE one == <<PadOf(c)>>
               more == Pads(c, n - 1)
               all == Pads(c, n)
               x == one \o more
    <2>1. n - 1 \in Nat /\ one \in Seq(Chars) /\ Len(one) = 1 /\ one[1] = PadOf(c)
      BY <1>1, <1>3
    <2>2. more \in Seq(Chars) /\ Len(more) = n - 1 /\ \A i \in 1 .. n - 1 : more[i] = PadOf(c)
      BY <1>2, <2>1
    <2>3. all \in Seq(Chars) /\ Len(all) = n /\ \A i \in 1 .. n : all[i] = PadOf(c)
      BY <1>2
    <2> HIDE DEF one, more, all
    <2>4. /\ x \in Seq(Chars) /\ Len(x) = Len(one) + Len(more)
          /\ \A i \in 1 .. Len(one) + Len(more) :
               x[i] = IF i <= Len(one) THEN one[i] ELSE more[i - Len(one)]
      BY <2>1, <2>2, ConcatProperties
    <2> HIDE DEF x
    <2>5. Len(x) = n
      BY <2>1, <2>2, <2>4
    <2>6. ASSUME NEW i \in 1 .. n PROVE x[i] = all[i]
      <3>1. i \in 1 .. Len(one) + Len(more)
        BY <2>1, <2>2
      <3>2. i <= 1 => i = 1
        OBVIOUS
      <3>3. ~(i <= 1) => i - 1 \in 1 .. n - 1
        OBVIOUS
      <3> QED
        BY <2>1, <2>2, <2>3, <2>4, <3>1, <3>2, <3>3
    <2>7. x = all
      BY <2>3, <2>4, <2>5, <2>6, SeqEqual
    <2> QED
      BY <2>7 DEF x, one, more, all
  <1>4. ASSUME n = 0 PROVE Pads(c, n) = <<>>
    <2>1. Pads(c, 0) \in Seq(Chars) /\ Len(Pads(c, 0)) = 0
      BY <1>2
    <2> QED
      BY <1>4, <2>1, EmptySeq
  <1> QED
    BY <1>2, <1>3, <1>4

LEMMA CutIs ==
  ASSUME NEW c \in Conversions
  PROVE  Cut(c) \in Seq(Chars) /\ Len(Cut(c)) = TextLength(c) /\ TextLength(c) \in Nat
  <1>1. TextOf(c) \in Seq(Chars) /\ TextLength(c) \in 0 .. Len(TextOf(c)) /\ Len(TextOf(c)) \in Nat
    BY TextIs, LengthsAre, LenProperties
  <1> QED
    BY <1>1, SubSeqProperties, ElementOfSeq DEF Cut

LEMMA AskedIs ==
  ASSUME NEW c \in Conversions
  PROVE  Asked(c) \in Seq(Chars) /\ Len(Asked(c)) = TextLength(c) + SpaceCount(c)
  <1>1. Cut(c) \in Seq(Chars) /\ Len(Cut(c)) = TextLength(c) /\ TextLength(c) \in Nat
    BY CutIs
  <1>2. /\ Pads(c, SpaceCount(c)) \in Seq(Chars) /\ SpaceCount(c) \in Nat
        /\ Len(Pads(c, SpaceCount(c))) = SpaceCount(c)
    BY LengthsAre, PadsAre
  <1> DEFINE a == Cut(c)
             b == Pads(c, SpaceCount(c))
  <1> HIDE DEF a, b
  <1>3. /\ a \o b \in Seq(Chars) /\ Len(a \o b) = Len(a) + Len(b)
        /\ b \o a \in Seq(Chars) /\ Len(b \o a) = Len(b) + Len(a)
    BY <1>1, <1>2, ConcatProperties DEF a, b
  <1>4. Asked(c) = IF c.left_adjusted THEN a \o b ELSE b \o a
    BY DEF Asked, a, b
  <1>5. Len(a) = TextLength(c) /\ Len(b) = SpaceCount(c)
    BY <1>1, <1>2 DEF a, b
  <1> QED
    BY <1>1, <1>2, <1>3, <1>4, <1>5

-----------------------------------------------------------------------------
\* One lemma for each action.

LEMMA PutRest ==
  ASSUME PrintInv, pc \in {"format", "text"}, NEW ch \in Chars, put_char(ch), writer' = writer,
         pc' = pc, begun' = begun,
         conv' \in Conversions \cup {NoConv}, text' \in Seq(Chars), space_count' \in Nat,
         left' \in [directives : Nat, operands : Nat]
  PROVE  /\ BufferOK' /\ RestOK' /\ WholeBuffers'
         /\ put' = Append(put, ch) /\ Len(put') = Len(put) + 1
  <1>1. BufferOK /\ RestOK /\ (Len(put) - buffer_mark) % BUFFER_SIZE = 0
    BY InvIs DEF WholeBuffers
  <1>2. /\ BufferOK' /\ ((Len(put) - buffer_mark) % BUFFER_SIZE = 0)'
        /\ put' = Append(put, ch) /\ Len(put') = Len(put) + 1
    BY <1>1, PutKeeps
  <1>3. begun' \in 0 .. Len(put')
    <2>1. Len(put) \in Nat /\ begun \in 0 .. Len(put)
      BY <1>1, LenProperties DEF BufferOK, RestOK
    <2> QED
      BY <1>2, <2>1
  <1>4. RestOK'
    BY <1>1, <1>3 DEF RestOK
  <1>5. WholeBuffers'
    BY <1>2 DEF WholeBuffers
  <1> QED
    BY <1>2, <1>4, <1>5

LEMMA SameContext ==
  ASSUME PrintInv, pc \in {"format", "text"}, UNCHANGED <<context, writer>>
  PROVE  BufferOK' /\ WholeBuffers' /\ put' = put
  <1>1. /\ buffer' = buffer /\ buffer_mark' = buffer_mark /\ write_count' = write_count
        /\ sb' = sb /\ put' = put /\ flushed' = flushed /\ writer' = writer
    BY DEF context
  <1>2. BufferOK /\ (Len(put) - buffer_mark) % BUFFER_SIZE = 0
    BY InvIs DEF WholeBuffers
  <1>3. BufferOK'
    BY <1>1, <1>2 DEF BufferOK, LosesOnlyLast, StrbufIs
  <1>4. WholeBuffers'
    BY <1>1, <1>2 DEF WholeBuffers
  <1> QED
    BY <1>1, <1>3, <1>4

LEMMA LeftIs ==
  ASSUME PrintInv, Reads
  PROVE  /\ left \in [directives : Nat, operands : Nat]
         /\ pc = "format" /\ left.directives - 1 \in Nat
         /\ [left EXCEPT !.directives = @ - 1] \in [directives : Nat, operands : Nat]
         /\ left.operands > 0 =>
              [directives |-> left.directives - 1, operands |-> left.operands - 1]
                \in [directives : Nat, operands : Nat]
  <1>1. left \in [directives : Nat, operands : Nat] /\ pc = "format" /\ left.directives > 0
    BY InvIs DEF RestOK, Reads
  <1> QED
    BY <1>1

LEMMA PutFormatInv == PrintInv /\ PutFormat => PrintInv'
  <1> SUFFICES ASSUME PrintInv, PutFormat PROVE PrintInv'
    OBVIOUS
  <1>1. PICK ch \in {"a", "%"} : put_char(ch)
    BY DEF PutFormat
  <1>2. /\ pc' = pc /\ conv' = conv /\ text' = text /\ space_count' = space_count
        /\ writer' = writer /\ begun' = begun /\ pc = "format"
        /\ left' = [left EXCEPT !.directives = @ - 1] /\ Reads
    BY DEF PutFormat, OneLess, Reads
  <1>3. left' \in [directives : Nat, operands : Nat]
    BY <1>2, LeftIs
  <1>4. RestOK /\ ch \in Chars
    BY InvIs DEF Chars
  <1>5. BufferOK' /\ RestOK' /\ WholeBuffers'
    BY <1>1, <1>2, <1>3, <1>4, PutRest DEF RestOK
  <1>6. InProgress'
    BY <1>2 DEF InProgress
  <1> QED
    BY <1>5, <1>6, InvIs

LEMMA PutArgumentInv == PrintInv /\ PutArgument => PrintInv'
  <1> SUFFICES ASSUME PrintInv, PutArgument PROVE PrintInv'
    OBVIOUS
  <1>1. /\ pc' = pc /\ conv' = conv /\ text' = text /\ space_count' = space_count
        /\ writer' = writer /\ begun' = begun /\ put_char("c") /\ Reads
        /\ left.operands > 0 /\ pc = "format"
        /\ left' = [directives |-> left.directives - 1, operands |-> left.operands - 1]
    BY DEF PutArgument, TakesArgument, Reads
  <1>2. left' \in [directives : Nat, operands : Nat]
    BY <1>1, LeftIs
  <1>3. RestOK /\ "c" \in Chars
    BY InvIs DEF Chars
  <1>4. BufferOK' /\ RestOK' /\ WholeBuffers'
    BY <1>1, <1>2, <1>3, PutRest DEF RestOK
  <1>5. InProgress'
    BY <1>1 DEF InProgress
  <1> QED
    BY <1>4, <1>5, InvIs

LEMMA StaysInv ==
  ASSUME PrintInv, pc = "format", UNCHANGED <<conv, text, space_count, context, writer, begun>>,
         left' \in [directives : Nat, operands : Nat],
         pc' \in {"format", "panic", "undefined"}
  PROVE  PrintInv'
  <1>1. BufferOK' /\ WholeBuffers' /\ put' = put /\ RestOK
    BY SameContext, InvIs
  <1>2. RestOK'
    BY <1>1 DEF RestOK
  <1>3. InProgress'
    BY DEF InProgress
  <1> QED
    BY <1>1, <1>2, <1>3, InvIs

LEMMA NoArgumentInv == PrintInv /\ NoArgument => PrintInv'
  BY LeftIs, StaysInv DEF NoArgument, Reads

LEMMA SkipUnknownInv == PrintInv /\ SkipUnknown => PrintInv'
  <1> SUFFICES ASSUME PrintInv, SkipUnknown PROVE PrintInv'
    OBVIOUS
  <1>1. left' \in [directives : Nat, operands : Nat] /\ pc = "format" /\ pc' = pc
        /\ UNCHANGED <<conv, text, space_count, context, writer, begun>>
    BY LeftIs DEF SkipUnknown, TakesArgument
  <1> QED
    BY <1>1, StaysInv

LEMMA RunsOffInv == PrintInv /\ RunsOff => PrintInv'
  <1> SUFFICES ASSUME PrintInv, RunsOff PROVE PrintInv'
    OBVIOUS
  <1>1. left' \in [directives : Nat, operands : Nat] /\ pc = "format" /\ pc' = "undefined"
        /\ UNCHANGED <<conv, text, space_count, context, writer, begun>>
    BY LeftIs DEF RunsOff, TakesArgument
  <1> QED
    BY <1>1, StaysInv

LEMMA ConvertInv == PrintInv /\ Convert => PrintInv'
  <1> SUFFICES ASSUME PrintInv, Convert PROVE PrintInv'
    OBVIOUS
  <1>1. PICK c \in Conversions : /\ conv' = c /\ text' = Cut(c) /\ space_count' = SpaceCount(c)
    BY DEF Convert, Cut
  <1>2. /\ begun' = Len(put) /\ pc' = "text" /\ pc = "format"
        /\ UNCHANGED <<context, writer>>
        /\ left' \in [directives : Nat, operands : Nat]
    BY LeftIs DEF Convert, TakesArgument, Reads
  <1>3. BufferOK' /\ WholeBuffers' /\ put' = put /\ RestOK /\ put \in Seq(Chars)
    BY <1>2, SameContext, InvIs DEF BufferOK
  <1>4. Cut(c) \in Seq(Chars) /\ SpaceCount(c) \in Nat /\ Asked(c) \in Seq(Chars)
    BY CutIs, LengthsAre, AskedIs
  <1>5. RestOK'
    <2>1. begun' \in 0 .. Len(put')
      BY <1>2, <1>3, LenProperties
    <2> QED
      BY <1>1, <1>2, <1>4, <2>1 DEF RestOK
  <1>6. InProgress'
    <2>1. Remaining' = Asked(c)
      BY <1>1 DEF Remaining, Asked
    <2>2. Field' = <<>>
      <3>1. Len(put) \in Nat
        BY <1>3, LenProperties
      <3>2. Field' = SubSeq(put, Len(put) + 1, Len(put))
        BY <1>2, <1>3 DEF Field
      <3>3. SubSeq(put, Len(put) + 1, Len(put)) = <<>>
        BY <3>1, SubSeqEmpty
      <3> QED
        BY <3>2, <3>3
    <2>3. <<>> \o Asked(c) = Asked(c)
      BY <1>4, ConcatEmptySeq
    <2> QED
      BY <1>1, <2>1, <2>2, <2>3 DEF InProgress
  <1> QED
    BY <1>3, <1>5, <1>6, InvIs

\* What is put is the next character asked for.
LEMMA PutNext ==
  ASSUME PrintInv, pc = "text", NEW ch \in Chars, put_char(ch), writer' = writer,
         pc' = pc, begun' = begun, conv' = conv, left' = left,
         text' \in Seq(Chars), space_count' \in Nat,
         Remaining' \in Seq(Chars), Remaining = <<ch>> \o Remaining'
  PROVE  PrintInv'
  <1>1. RestOK /\ InProgress /\ put \in Seq(Chars)
    BY InvIs DEF BufferOK
  <1>2. /\ BufferOK' /\ RestOK' /\ WholeBuffers'
        /\ put' = Append(put, ch) /\ Len(put') = Len(put) + 1
    BY <1>1, PutRest DEF RestOK
  <1>3. Field' = SubSeq(Append(put, ch), begun + 1, Len(put) + 1)
    BY <1>2 DEF Field
  <1>4. Field' \o Remaining' = Field \o Remaining
    <2> DEFINE rest == Remaining'
               p == put
               b == begun
    <2>1. rest \in Seq(Chars) /\ b \in 0 .. Len(p) /\ p \in Seq(Chars) /\ Remaining = <<ch>> \o rest
      BY <1>1 DEF RestOK
    <2>2. Field' = SubSeq(Append(p, ch), b + 1, Len(p) + 1) /\ Field = SubSeq(p, b + 1, Len(p))
      BY <1>3 DEF Field
    <2> HIDE DEF rest, p, b
    <2>3. SubSeq(Append(p, ch), b + 1, Len(p) + 1) \o rest
            = SubSeq(p, b + 1, Len(p)) \o (<<ch>> \o rest)
      BY <2>1, FieldMoves
    <2>4. Field' \o rest = Field \o Remaining
      BY <2>1, <2>2, <2>3
    <2> QED
      BY <2>4 DEF rest
  <1>5. InProgress'
    BY <1>1, <1>4 DEF InProgress
  <1> QED
    BY <1>2, <1>5, InvIs

LEMMA PutTextInv == PrintInv /\ PutText => PrintInv'
  <1> SUFFICES ASSUME PrintInv, PutText PROVE PrintInv'
    OBVIOUS
  <1> DEFINE ch == Head(text)
             rest == Tail(text)
             p == Pads(conv, space_count)
  <1>1. /\ pc = "text" /\ text # <<>> /\ (conv.left_adjusted \/ space_count = 0)
        /\ put_char(ch) /\ text' = rest /\ pc' = pc /\ conv' = conv
        /\ space_count' = space_count /\ writer' = writer /\ left' = left /\ begun' = begun
    BY DEF PutText
  <1>2. text \in Seq(Chars) /\ space_count \in Nat /\ conv \in Conversions
    <2>1. RestOK /\ InProgress /\ pc = "text"
      BY <1>1, InvIs
    <2> QED
      BY <2>1 DEF RestOK, InProgress
  <1>3. ch \in Chars /\ rest \in Seq(Chars) /\ <<ch>> \in Seq(Chars) /\ text = <<ch>> \o rest
    <2> HIDE DEF p
    <2>1. ch \in Chars /\ rest \in Seq(Chars)
      <3>1. text # <<>>
        BY <1>1
      <3> QED
        BY <1>2, <3>1, HeadTailProperties
    <2>2. text = <<ch>> \o rest
      <3>1. text # <<>>
        BY <1>1
      <3> QED
        BY <1>2, <3>1
    <2>3. <<ch>> \in Seq(Chars)
      BY <2>1
    <2> QED
      BY <2>1, <2>2, <2>3
  <1>4. p \in Seq(Chars) /\ (space_count = 0 => p = <<>>)
    BY <1>2, PadsAre
  <1>5. /\ Remaining = IF conv.left_adjusted THEN text \o p ELSE p \o text
        /\ Remaining' = IF conv.left_adjusted THEN rest \o p ELSE p \o rest
    BY <1>1 DEF Remaining
  <1> HIDE DEF ch, rest, p
  <1>6. Remaining' \in Seq(Chars) /\ Remaining = <<ch>> \o Remaining'
    <2>1. CASE conv.left_adjusted
      <3>1. (<<ch>> \o rest) \o p = <<ch>> \o (rest \o p) /\ rest \o p \in Seq(Chars)
        BY <1>3, <1>4, ConcatAssociative, ConcatProperties
      <3> QED
        BY <1>3, <1>5, <2>1, <3>1
    <2>2. CASE ~conv.left_adjusted
      <3>1. p = <<>>
        BY <1>1, <1>4, <2>2
      <3>2. <<>> \o text = text /\ <<>> \o rest = rest
        BY <1>2, <1>3, ConcatEmptySeq
      <3> QED
        BY <1>3, <1>5, <2>2, <3>1, <3>2
    <2> QED
      BY <2>1, <2>2
  <1>7. text' \in Seq(Chars) /\ space_count' \in Nat
    BY <1>1, <1>2, <1>3
  <1>8. /\ pc = "text" /\ put_char(ch) /\ pc' = pc /\ conv' = conv
        /\ writer' = writer /\ left' = left /\ begun' = begun
    BY <1>1
  <1> QED
    BY <1>3, <1>6, <1>7, <1>8, PutNext

LEMMA PutPadInv == PrintInv /\ PutPad => PrintInv'
  <1> SUFFICES ASSUME PrintInv, PutPad PROVE PrintInv'
    OBVIOUS
  <1> DEFINE ch == PadOf(conv)
             p == Pads(conv, space_count)
             rest == Pads(conv, space_count - 1)
  <1>1. /\ pc = "text" /\ space_count > 0 /\ (conv.left_adjusted => text = <<>>)
        /\ put_char(ch) /\ text' = text /\ pc' = pc /\ conv' = conv
        /\ space_count' = space_count - 1 /\ writer' = writer /\ left' = left /\ begun' = begun
    BY DEF PutPad
  <1>2. text \in Seq(Chars) /\ space_count \in Nat /\ conv \in Conversions
    BY <1>1, InvIs DEF RestOK, InProgress
  <1>3. ch \in Chars /\ <<ch>> \in Seq(Chars) /\ space_count - 1 \in Nat
    <2>1. ch \in Chars
      BY <1>2, LengthsAre
    <2> HIDE DEF ch
    <2> QED
      BY <1>1, <1>2, <2>1
  <1>4. p = <<ch>> \o rest /\ rest \in Seq(Chars)
    BY <1>1, <1>2, <1>3, PadsAre
  <1>5. /\ Remaining = IF conv.left_adjusted THEN text \o p ELSE p \o text
        /\ Remaining' = IF conv.left_adjusted THEN text \o rest ELSE rest \o text
    BY <1>1 DEF Remaining
  <1> HIDE DEF ch, rest, p
  <1>6. Remaining' \in Seq(Chars) /\ Remaining = <<ch>> \o Remaining'
    <2>1. CASE ~conv.left_adjusted
      <3>1. (<<ch>> \o rest) \o text = <<ch>> \o (rest \o text) /\ rest \o text \in Seq(Chars)
        BY <1>2, <1>3, <1>4, ConcatAssociative, ConcatProperties
      <3> QED
        BY <1>4, <1>5, <2>1, <3>1
    <2>2. CASE conv.left_adjusted
      <3>1. text = <<>>
        BY <1>1, <2>2
      <3>2. <<ch>> \o rest \in Seq(Chars)
        BY <1>3, <1>4, ConcatProperties
      <3>3. <<>> \o (<<ch>> \o rest) = <<ch>> \o rest /\ <<>> \o rest = rest
        BY <1>4, <3>2, ConcatEmptySeq
      <3> QED
        BY <1>4, <1>5, <2>2, <3>1, <3>3
    <2> QED
      BY <2>1, <2>2
  <1> QED
    BY <1>1, <1>2, <1>3, <1>6, PutNext

LEMMA EndConversionInv == PrintInv /\ EndConversion => PrintInv'
  <1> SUFFICES ASSUME PrintInv, EndConversion PROVE PrintInv'
    OBVIOUS
  <1>1. /\ pc = "text" /\ pc' = "format" /\ conv' = NoConv /\ begun' = 0
        /\ UNCHANGED <<text, space_count, context, writer, left>>
    BY DEF EndConversion, Converted
  <1>2. BufferOK' /\ WholeBuffers' /\ put' = put /\ RestOK /\ put \in Seq(Chars)
    BY <1>1, SameContext, InvIs DEF BufferOK
  <1>3. RestOK'
    <2>1. Len(put) \in Nat
      BY <1>2, LenProperties
    <2> QED
      BY <1>1, <1>2, <2>1 DEF RestOK
  <1>4. InProgress'
    BY <1>1 DEF InProgress
  <1> QED
    BY <1>2, <1>3, <1>4, InvIs

LEMMA EndFormatInv == PrintInv /\ EndFormat => PrintInv'
  <1> SUFFICES ASSUME PrintInv, EndFormat PROVE PrintInv'
    OBVIOUS
  <1>1. /\ pc = "format" /\ pc' = "done" /\ buffer_mark' = 0
        /\ write_count' = write_count + buffer_mark
        /\ UNCHANGED <<conv, text, space_count, buffer, writer, left, put, begun>>
    BY DEF EndFormat
  <1>2. BufferOK /\ RestOK /\ (Len(put) - buffer_mark) % BUFFER_SIZE = 0
    BY <1>1, InvIs DEF WholeBuffers
  <1>3. PICK k \in Nat : Len(put) = k * BUFFER_SIZE + buffer_mark
    BY <1>2, Gone
  <1> DEFINE m == buffer_mark
             b == [i \in 1 .. m |-> buffer[i - 1]]
             n == k * (BUFFER_SIZE - 1)
             y == k * BUFFER_SIZE
  <1>4. /\ m \in 0 .. BUFFER_SIZE - 1 /\ m \in Nat /\ put \in Seq(Chars) /\ flushed \in Seq(Bytes)
        /\ buffer \in [0 .. BUFFER_SIZE - 1 -> Bytes]
        /\ sb \in Buffers /\ Len(sb.data) = SIZE /\ writer \in {"fd", "sb"} /\ StrbufIs
        /\ LosesOnlyLast
    BY <1>2, SizesAre DEF BufferOK, Buffers
  <1>5. b \in [1 .. m -> Bytes]
    <2>1. \A i \in 1 .. m : i - 1 \in 0 .. BUFFER_SIZE - 1
      BY <1>4, SizesAre
    <2> QED
      BY <1>4, <2>1
  <1>6. /\ flushed' = flushed \o b /\ flushed' \in Seq(Bytes)
        /\ sb' \in Buffers /\ Len(sb'.data) = SIZE /\ StrbufIs'
    <2>1. CASE m # 0
      <3>1. Flush(buffer, m)
        BY <2>1 DEF EndFormat
      <3> QED
        BY <1>1, <1>4, <1>5, <3>1, FlushIs
    <2>2. CASE m = 0
      <3>1. sb' = sb /\ flushed' = flushed
        BY <2>2 DEF EndFormat
      <3>2. b = <<>>
        BY <2>2
      <3>3. flushed \o b = flushed
        BY <1>4, <3>2, ConcatEmptySeq
      <3>4. StrbufIs'
        BY <1>1, <1>4, <3>1 DEF StrbufIs
      <3> QED
        BY <1>4, <3>1, <3>3, <3>4
    <2> QED
      BY <2>1, <2>2
  <1> HIDE DEF b
  <1>7. write_count = y /\ flushed = FirstOf(put, n) /\ Holds(buffer, m, put, k)
    <2>1. Lost(put, flushed, write_count, buffer, m)
      BY <1>4, LostIs
    <2>2. put \in Seq(Chars) /\ m \in 0 .. BUFFER_SIZE - 1 /\ Len(put) = k * BUFFER_SIZE + m
      BY <1>3, <1>4
    <2> HIDE DEF m
    <2> QED
      BY ONLY <2>1, <2>2, LostWhole, k \in Nat
  <1>8. flushed' = FirstOf(put, n + m)
    <2>1. /\ m \in 0 .. BUFFER_SIZE - 1 /\ flushed \in Seq(Bytes)
          /\ flushed = FirstOf(put, k * (BUFFER_SIZE - 1))
          /\ b = [i \in 1 .. m |-> buffer[i - 1]]
          /\ b \in [1 .. m -> Bytes] /\ Holds(buffer, m, put, k)
      BY <1>4, <1>5, <1>7 DEF b
    <2> HIDE DEF m
    <2>2. flushed \o b = FirstOf(put, k * (BUFFER_SIZE - 1) + m)
      BY <2>1, FlushedIs
    <2> QED
      BY <1>6, <2>2
  <1>9. Len(put) = y + m /\ y \in Nat /\ Received(Len(put)) = n + m
    <2>1. Received(y + m) = n + m /\ y \in Nat
      BY <1>4, Positions
    <2> QED
      BY <1>3, <2>1
  <1> HIDE DEF m, n, y
  <1>10. write_count' = Len(put) /\ write_count' \in Nat
    BY <1>1, <1>4, <1>7, <1>9 DEF m
  <1>11. LosesOnlyLast'
    <2>1. Len(put) \in Nat /\ Len(put) - 0 = Len(put)
      BY <1>4, <1>9
    <2>2. [i \in 1 .. 0 |-> buffer[i - 1]] = <<>>
      OBVIOUS
    <2>3. SubSeq(put, Len(put) - 0 + 1, Len(put)) = <<>>
      BY <2>1, SubSeqEmpty
    <2>4. Lost(put, flushed', write_count', buffer, 0)
      BY <1>8, <1>9, <1>10, <2>1, <2>2, <2>3 DEF Lost
    <2> QED
      BY <1>1, <2>4, LostIs
  <1>12. BufferOK'
    <2>1. buffer_mark' \in 0 .. BUFFER_SIZE - 1
      BY <1>1, SizesAre
    <2> QED
      BY <1>1, <1>4, <1>6, <1>10, <1>11, <2>1 DEF BufferOK, Buffers
  <1>13. RestOK' /\ WholeBuffers' /\ InProgress'
    BY <1>1, <1>2 DEF RestOK, WholeBuffers, InProgress
  <1> QED
    BY <1>12, <1>13, InvIs

LEMMA NextInv == PrintInv /\ Next => PrintInv'
  BY PutFormatInv, NoArgumentInv, PutArgumentInv, SkipUnknownInv, ConvertInv, RunsOffInv,
     PutTextInv, PutPadInv, EndConversionInv, EndFormatInv DEF Next

LEMMA StutterInv == PrintInv /\ UNCHANGED vars => PrintInv'
  <1> SUFFICES ASSUME PrintInv, UNCHANGED vars PROVE PrintInv'
    OBVIOUS
  <1>1. /\ pc' = pc /\ conv' = conv /\ text' = text /\ space_count' = space_count
        /\ buffer' = buffer /\ buffer_mark' = buffer_mark /\ write_count' = write_count
        /\ writer' = writer /\ sb' = sb /\ left' = left /\ put' = put /\ flushed' = flushed
        /\ begun' = begun
    BY DEF vars, context
  <1> QED
    BY <1>1 DEF PrintInv, TypeOK, LosesOnlyLast, WholeBuffers, StrbufIs, InProgress, Field,
                Remaining

LEMMA SpecInv == Spec => []PrintInv
  BY InitInv, NextInv, StutterInv, PTL DEF Spec

-----------------------------------------------------------------------------
\* A call's types: the mark stays within the buffer, the string buffer within its memory.
\* PrintInv carries them through put_char's wrap and every flush.
THEOREM PrintIsTyped == Spec => []TypeOK
  <1>1. PrintInv => TypeOK
    BY DEF PrintInv
  <1> QED
    BY <1>1, SpecInv, PTL

\* put_char loses the last character of every full buffer and no other: whatever the
\* format, what write(2) or the string buffer got is what was put without every
\* BUFFER_SIZE-th character, and the count returned counts those too.
THEOREM LosesOnlyTheLast == Spec => []LosesOnlyLast
  <1>1. PrintInv => LosesOnlyLast
    BY DEF PrintInv
  <1> QED
    BY <1>1, SpecInv, PTL

\* flush_sb leaves in the string buffer the first characters it was ever given, up to
\* the buffer's size, however many flushes they came in.
THEOREM StrbufHoldsAPrefix == Spec => []StrbufHoldsPrefix
  <1>1. PrintInv => StrbufHoldsPrefix
    BY DEF PrintInv, StrbufIs, StrbufHoldsPrefix
  <1> QED
    BY <1>1, SpecInv, PTL

-----------------------------------------------------------------------------
LEMMA FieldIs ==
  ASSUME PrintInv, Converted
  PROVE  conv \in Conversions /\ Field = Asked(conv)
  <1>1. RestOK /\ InProgress /\ put \in Seq(Chars) /\ pc = "text" /\ text = <<>> /\ space_count = 0
    BY InvIs DEF BufferOK, Converted
  <1>2. conv \in Conversions /\ Field \o Remaining = Asked(conv) /\ begun \in 0 .. Len(put)
    BY <1>1 DEF InProgress, RestOK
  <1>3. Pads(conv, 0) = <<>>
    BY <1>2, PadsAre
  <1>4. <<>> \in Seq(Chars) /\ <<>> \o <<>> = <<>>
    BY ConcatEmptySeq, EmptySeq
  <1>5. Remaining = <<>>
    BY <1>1, <1>3, <1>4 DEF Remaining
  <1>6. Field \in Seq(Chars)
    <2> DEFINE p == put
               b == begun
    <2>1. p \in Seq(Chars) /\ b \in 0 .. Len(p) /\ " " \in Chars
      BY <1>1, <1>2 DEF Chars
    <2>2. Field = SubSeq(p, b + 1, Len(p))
      BY DEF Field
    <2> HIDE DEF p, b
    <2> QED
      BY <2>1, <2>2, FieldGrows
  <1>7. Field \o <<>> = Field
    BY <1>6, ConcatEmptySeq
  <1> QED
    BY <1>2, <1>5, <1>7

\* Where the text and the padding of a field are.
LEMMA AskedParts ==
  ASSUME NEW c \in Conversions
  PROVE  LET cut == Cut(c)
             f == Asked(c)
             l == TextLength(c)
             n == SpaceCount(c)
         IN /\ f \in Seq(Chars) /\ Len(f) = l + n /\ l \in Nat /\ n \in Nat /\ Len(cut) = l
            /\ c.left_adjusted =>
                 /\ SubSeq(f, 1, l) = cut
                 /\ \A i \in l + 1 .. l + n : f[i] = PadOf(c)
            /\ ~c.left_adjusted =>
                 /\ SubSeq(f, n + 1, n + l) = cut
                 /\ \A i \in 1 .. n : f[i] = PadOf(c)
  <1> DEFINE cut == Cut(c)
             f == Asked(c)
             l == TextLength(c)
             n == SpaceCount(c)
             p == Pads(c, n)
  <1>1. cut \in Seq(Chars) /\ Len(cut) = l /\ l \in Nat
    BY CutIs
  <1>2. n \in Nat /\ p \in Seq(Chars) /\ Len(p) = n /\ \A i \in 1 .. n : p[i] = PadOf(c)
    BY LengthsAre, PadsAre
  <1>3. f \in Seq(Chars) /\ Len(f) = l + n
    BY AskedIs
  <1>4. f = IF c.left_adjusted THEN cut \o p ELSE p \o cut
    BY DEF Asked
  <1>5. /\ \A i \in 1 .. l + n : (cut \o p)[i] = IF i <= l THEN cut[i] ELSE p[i - l]
        /\ \A i \in 1 .. n + l : (p \o cut)[i] = IF i <= n THEN p[i] ELSE cut[i - n]
    <2> HIDE DEF cut, p, l, n
    <2> QED
      BY <1>1, <1>2, ConcatProperties
  <1> HIDE DEF cut, f, l, n, p
  <1>6. ASSUME c.left_adjusted
        PROVE  SubSeq(f, 1, l) = cut /\ \A i \in l + 1 .. l + n : f[i] = PadOf(c)
    <2>1. \A i \in 1 .. l : f[i] = cut[i]
      BY <1>1, <1>2, <1>4, <1>5, <1>6
    <2>2. \A i \in l + 1 .. l + n : f[i] = PadOf(c)
      <3> SUFFICES ASSUME NEW i \in l + 1 .. l + n PROVE f[i] = PadOf(c)
        OBVIOUS
      <3>1. i \in 1 .. l + n /\ ~(i <= l) /\ i - l \in 1 .. n
        BY <1>1, <1>2
      <3> QED
        BY <1>2, <1>4, <1>5, <1>6, <3>1
    <2>3. SubSeq(f, 1, l) \in Seq(Chars) /\ Len(SubSeq(f, 1, l)) = l
          /\ \A i \in 1 .. l : SubSeq(f, 1, l)[i] = f[i]
      BY <1>1, <1>2, <1>3, SubSeqProperties, ElementOfSeq
    <2>4. SubSeq(f, 1, l) = cut
      BY <1>1, <2>1, <2>3, SeqEqual
    <2> QED
      BY <2>2, <2>4
  <1>7. ASSUME ~c.left_adjusted
        PROVE  SubSeq(f, n + 1, n + l) = cut /\ \A i \in 1 .. n : f[i] = PadOf(c)
    <2> DEFINE s == SubSeq(f, n + 1, n + l)
    <2>1. \A i \in 1 .. l : f[n + i] = cut[i]
      <3> SUFFICES ASSUME NEW i \in 1 .. l PROVE f[n + i] = cut[i]
        OBVIOUS
      <3>1. n + i \in 1 .. n + l /\ ~(n + i <= n) /\ (n + i) - n = i
        BY <1>1, <1>2
      <3> QED
        BY <1>4, <1>5, <1>7, <3>1
    <2>2. \A i \in 1 .. n : f[i] = PadOf(c)
      <3> SUFFICES ASSUME NEW i \in 1 .. n PROVE f[i] = PadOf(c)
        OBVIOUS
      <3>1. i \in 1 .. n + l /\ i <= n
        BY <1>1, <1>2
      <3> QED
        BY <1>2, <1>4, <1>5, <1>7, <3>1
    <2>3. s \in Seq(Chars) /\ Len(s) = l /\ \A i \in 1 .. l : s[i] = f[n + i]
      <3>1. \A i \in n + 1 .. n + l : f[i] \in Chars
        BY <1>1, <1>2, <1>3, ElementOfSeq
      <3>2. n + 1 \in Int /\ n + l \in Int
        BY <1>1, <1>2
      <3>3. /\ s \in Seq(Chars)
            /\ Len(s) = IF n + 1 <= n + l THEN (n + l) - (n + 1) + 1 ELSE 0
            /\ \A i \in 1 .. (n + l) - (n + 1) + 1 : s[i] = f[n + 1 + i - 1]
        BY <3>1, <3>2, SubSeqProperties
      <3> HIDE DEF s
      <3>4. (n + l) - (n + 1) + 1 = l /\ \A i \in 1 .. l : n + 1 + i - 1 = n + i
        BY <1>1, <1>2
      <3>5. Len(s) = l
        BY <1>1, <1>2, <3>3, <3>4
      <3>6. \A i \in 1 .. l : s[i] = f[n + i]
        <4>1. \A i \in 1 .. l : s[i] = f[n + 1 + i - 1]
          BY <3>3, <3>4
        <4> QED
          BY <3>4, <4>1
      <3> QED
        BY <3>3, <3>5, <3>6
    <2> HIDE DEF s
    <2>4. s = cut
      BY <1>1, <2>1, <2>3, SeqEqual
    <2> QED
      BY <2>2, <2>4 DEF s
  <1>8. /\ f \in Seq(Chars) /\ Len(f) = l + n /\ l \in Nat /\ n \in Nat /\ Len(cut) = l
    BY <1>1, <1>2, <1>3
  <1> QED
    BY <1>6, <1>7, <1>8 DEF cut, f, l, n

LEMMA FieldsIf ==
  ASSUME PrintInv
  PROVE  FieldsAsAsked
  <1> SUFFICES ASSUME Converted
               PROVE  LET cut == Cut(conv)
                          pads == Len(Field) - Len(cut)
                      IN /\ pads >= 0 /\ Len(Field) >= conv.width
                         /\ pads > 0 => Len(Field) = conv.width
                         /\ IF conv.left_adjusted
                            THEN /\ SubSeq(Field, 1, Len(cut)) = cut
                                 /\ \A i \in Len(cut) + 1 .. Len(Field) : Field[i] = " "
                            ELSE /\ SubSeq(Field, pads + 1, Len(Field)) = cut
                                 /\ \A i, j \in 1 .. pads : Field[i] = Field[j]
    BY DEF FieldsAsAsked, Cut
  <1> DEFINE cut == Cut(conv)
             f == Field
             l == TextLength(conv)
             n == SpaceCount(conv)
             pad == PadOf(conv)
  <1>1. conv \in Conversions /\ f = Asked(conv)
    BY FieldIs
  <1>2. /\ f \in Seq(Chars) /\ Len(f) = l + n /\ l \in Nat /\ n \in Nat /\ Len(cut) = l
        /\ conv.left_adjusted =>
             /\ SubSeq(f, 1, l) = cut
             /\ \A i \in l + 1 .. l + n : f[i] = pad
        /\ ~conv.left_adjusted =>
             /\ SubSeq(f, n + 1, n + l) = cut
             /\ \A i \in 1 .. n : f[i] = pad
    BY <1>1, AskedParts
  <1>3. /\ n = IF conv.width > l THEN conv.width - l ELSE 0
        /\ conv.left_adjusted => pad = " "
        /\ conv.width \in Int
    <2>1. /\ n = IF conv.width > l THEN conv.width - l ELSE 0
          /\ conv.left_adjusted => pad = " "
      BY <1>1, LengthsAre
    <2>2. conv.width \in Nat \cup {-1}
      BY <1>1, ConversionIs DEF NotGiven
    <2>3. conv.width \in Int
      BY <2>2
    <2> QED
      BY <2>1, <2>3
  <1> HIDE DEF cut, f, l, n, pad
  <1>4. Len(f) - Len(cut) = n /\ Len(f) >= conv.width /\ n >= 0 /\ (n > 0 => Len(f) = conv.width)
    <2> DEFINE w == conv.width
               length == Len(f)
               cut_length == Len(cut)
    <2>1. /\ w \in Int /\ n = (IF w > l THEN w - l ELSE 0) /\ l \in Nat
          /\ length = l + n /\ cut_length = l
      BY <1>2, <1>3
    <2> HIDE DEF w, length, cut_length
    <2>2. length - cut_length = n /\ length >= w /\ n >= 0 /\ (n > 0 => length = w)
      BY <2>1
    <2> QED
      BY <2>2 DEF w, length, cut_length
  <1>5. n + l = l + n /\ n + l = Len(f)
    BY <1>2
  <1>6. CASE conv.left_adjusted
    <2>1. SubSeq(f, 1, Len(cut)) = cut /\ \A i \in Len(cut) + 1 .. Len(f) : f[i] = " "
      BY <1>2, <1>3, <1>6
    <2> QED
      BY <1>4, <1>6, <2>1 DEF f, cut
  <1>7. CASE ~conv.left_adjusted
    <2>1. SubSeq(f, n + 1, Len(f)) = cut /\ \A i, j \in 1 .. n : f[i] = f[j]
      BY <1>2, <1>5, <1>7
    <2> QED
      BY <1>4, <1>7, <2>1 DEF f, cut
  <1> QED
    BY <1>6, <1>7

\* conv_text's field: for every text, width and precision it is the text, cut, and as much
\* padding as the width wants, at the side asked for, whatever buffers it went through.
THEOREM FieldsAreAsAsked == Spec => []FieldsAsAsked
  <1>1. PrintInv => FieldsAsAsked
    BY FieldsIf
  <1> QED
    BY <1>1, SpecInv, PTL

-----------------------------------------------------------------------------
\* The number a sequence of digits writes.

DigitValue(d, base) == (CHOOSE i \in 1 .. base : conv_digits[i] = d) - 1

LEMMA DigitValues ==
  ASSUME NEW base \in Bases
  PROVE  /\ \A d \in DigitsOf(base) : DigitValue(d, base) \in 0 .. base - 1
         /\ \A v \in 0 .. base - 1 : DigitValue(conv_digits[v + 1], base) = v
         /\ "0" \in DigitsOf(base) /\ DigitValue("0", base) = 0
  <1>1. base \in Nat /\ base >= 10 /\ 1 .. base \subseteq 1 .. 18
    BY DEF Bases
  <1>2. ASSUME NEW i \in 1 .. base
        PROVE  DigitValue(conv_digits[i], base) = i - 1
    <2>1. \A j \in 1 .. base : conv_digits[j] = conv_digits[i] => j = i
      BY <1>1, DigitFacts
    <2>2. (CHOOSE j \in 1 .. base : conv_digits[j] = conv_digits[i]) = i
      BY <2>1
    <2> QED
      BY <2>2 DEF DigitValue
  <1>3. ASSUME NEW d \in DigitsOf(base) PROVE DigitValue(d, base) \in 0 .. base - 1
    <2>1. PICK i \in 1 .. base : d = conv_digits[i]
      BY DEF DigitsOf
    <2>2. i - 1 \in 0 .. base - 1
      BY <1>1
    <2> QED
      BY <1>2, <2>1, <2>2
  <1>4. ASSUME NEW v \in 0 .. base - 1 PROVE DigitValue(conv_digits[v + 1], base) = v
    <2>1. v + 1 \in 1 .. base /\ (v + 1) - 1 = v
      BY <1>1
    <2> QED
      BY <1>2, <2>1
  <1>5. 1 \in 1 .. base /\ 1 - 1 = 0
    BY <1>1
  <1>6. "0" \in DigitsOf(base) /\ DigitValue("0", base) = 0
    <2>1. "0" = conv_digits[1]
      BY DigitFacts
    <2>2. conv_digits[1] \in DigitsOf(base)
      BY <1>5 DEF DigitsOf
    <2>3. DigitValue(conv_digits[1], base) = 0
      BY <1>2, <1>5
    <2> QED
      BY <2>1, <2>2, <2>3
  <1> QED
    BY <1>3, <1>4, <1>6

\* v reads the digits s from its a-th value on.
Evaluates(v, a, s, base) ==
  \A k \in 1 .. Len(s) : v[a + k] = v[(a + k) - 1] * base + DigitValue(s[k], base)

LEMMA ValueIs ==
  ASSUME NEW base \in Bases, NEW s \in Seq(DigitsOf(base))
  PROVE  \E v \in [0 .. Len(s) -> Nat] :
           v[0] = 0 /\ Evaluates(v, 0, s, base) /\ ValueOf(s, base) = v[Len(s)]
  <1> DEFINE m == Len(s)
             G == [k \in 1 .. m |-> [n \in Nat |-> n * base + DigitValue(s[k], base)]]
  <1>1. base \in Nat /\ m \in Nat
    BY LenProperties DEF Bases
  <1>2. \A k \in 1 .. m : DigitValue(s[k], base) \in Nat
    BY <1>1, DigitValues, ElementOfSeq
  <1>3. G \in [1 .. m -> [Nat -> Nat]]
    <2> HIDE DEF m
    <2>1. ASSUME NEW k \in 1 .. m, NEW n \in Nat
          PROVE  n * base + DigitValue(s[k], base) \in Nat
      <3>1. n * base \in Nat /\ DigitValue(s[k], base) \in Nat
        BY <1>1, <1>2
      <3> QED
        BY <3>1
    <2> QED
      BY <2>1
  <1>4. \A k \in 1 .. m : \A n \in Nat : G[k][n] = n * base + DigitValue(s[k], base)
    OBVIOUS
  <1> HIDE DEF G, m
  <1>5. PICK v \in [0 .. m -> Nat] : v[0] = 0 /\ \A k \in 1 .. m : v[k] = G[k][v[k - 1]]
    <2>1. 0 \in Nat /\ m \in Nat /\ G \in [1 .. m -> [Nat -> Nat]]
      BY <1>1, <1>3
    <2>2. \E f \in [0 .. m -> Nat] : Builds(f, 0, m, G)
      BY <2>1, Recursion
    <2> QED
      BY <2>2 DEF Builds
  <1>6. ASSUME NEW k \in 1 .. m
        PROVE  v[k] = v[k - 1] * base + DigitValue(s[k], base)
    <2>1. k - 1 \in 0 .. m
      BY <1>1
    <2>2. v[k - 1] \in Nat
      BY <2>1
    <2> QED
      BY <1>4, <1>5, <2>2
  <1>7. v = [n \in 0 .. Len(s) |->
               IF n = 0 THEN 0
               ELSE v[n - 1] * base + (CHOOSE i \in 1 .. base : conv_digits[i] = s[n]) - 1]
    <2>1. \A n \in 0 .. m : n # 0 => n \in 1 .. m
      BY <1>1
    <2>2. ASSUME NEW n \in 1 .. m
          PROVE  v[n] = v[n - 1] * base + (CHOOSE i \in 1 .. base : conv_digits[i] = s[n]) - 1
      <3> DEFINE i == CHOOSE i \in 1 .. base : conv_digits[i] = s[n]
      <3>1. n - 1 \in 0 .. m /\ s[n] \in DigitsOf(base)
        BY <1>1, ElementOfSeq DEF m
      <3>2. i \in 1 .. base
        BY <3>1 DEF DigitsOf
      <3>3. v[n] = v[n - 1] * base + (i - 1)
        BY <1>6 DEF DigitValue
      <3> HIDE DEF i
      <3>4. v[n - 1] * base \in Int /\ i \in Int
        BY <1>1, <3>1, <3>2
      <3> DEFINE x == v[n - 1] * base
      <3>5. x + (i - 1) = x + i - 1
        <4>1. x \in Int
          BY <3>4
        <4> HIDE DEF x
        <4> QED
          BY <3>4, <4>1
      <3> QED
        BY <3>3, <3>5 DEF i
    <2> QED
      BY <1>5, <2>1, <2>2 DEF m
  <1>8. ValueOf(s, base) = v[Len(s)]
    <2> DEFINE digit(n) == CHOOSE i \in 1 .. base : conv_digits[i] = s[n]
               value == CHOOSE f : f = [n \in 0 .. Len(s) |->
                                          IF n = 0 THEN 0 ELSE f[n - 1] * base + digit(n) - 1]
    <2>1. value = [n \in 0 .. Len(s) |->
                     IF n = 0 THEN 0 ELSE value[n - 1] * base + digit(n) - 1]
      BY <1>7
    <2>2. ValueOf(s, base) = value[Len(s)]
      BY DEF ValueOf
    <2> HIDE DEF value, digit
    <2> DEFINE T == {n \in Nat : n <= m => value[n] = v[n]}
    <2>3. 0 \in T
      <3>1. 0 \in 0 .. Len(s)
        BY <1>1 DEF m
      <3>2. value[0] = 0
        BY <2>1, <3>1
      <3> QED
        BY <1>5, <3>2
    <2>4. ASSUME NEW n \in Nat, n \in T PROVE n + 1 \in T
      <3>1. ASSUME n + 1 <= m PROVE value[n + 1] = v[n + 1]
        <4>1. n + 1 \in 0 .. Len(s) /\ n + 1 # 0 /\ (n + 1) - 1 = n /\ n <= m
          BY <1>1, <3>1 DEF m
        <4>2. value[n + 1] = value[n] * base + digit(n + 1) - 1
          BY <2>1, <4>1
        <4>3. v[n + 1] = v[n] * base + digit(n + 1) - 1
          BY <1>7, <4>1 DEF digit
        <4> QED
          BY <2>4, <4>1, <4>2, <4>3
      <3> QED
        BY <3>1
    <2> HIDE DEF T
    <2>5. m \in T
      BY <1>1, <2>3, <2>4, Induction
    <2>6. value[m] = v[m]
      BY <1>1, <2>5 DEF T
    <2> QED
      BY <2>2, <2>6 DEF m
  <1>9. Evaluates(v, 0, s, base)
    <2>1. \A k \in 1 .. m : 0 + k = k
      BY <1>1
    <2> QED
      BY <1>6, <2>1 DEF Evaluates, m
  <1> QED
    BY <1>5, <1>8, <1>9 DEF m

\* Two readings of the same digits agree where they agree at first.
LEMMA ReadAlike ==
  ASSUME NEW base \in Bases, NEW s \in Seq(DigitsOf(base)),
         NEW v, NEW w, NEW a \in Nat, NEW b \in Nat, v[a] = w[b],
         Evaluates(v, a, s, base), Evaluates(w, b, s, base)
  PROVE  v[a + Len(s)] = w[b + Len(s)]
  <1> DEFINE T == {k \in Nat : k <= Len(s) => v[a + k] = w[b + k]}
  <1>1. Len(s) \in Nat
    BY LenProperties
  <1>2. 0 \in T
    <2>1. a + 0 = a /\ b + 0 = b
      OBVIOUS
    <2> QED
      BY <2>1
  <1>3. ASSUME NEW k \in Nat, k \in T PROVE k + 1 \in T
    <2>1. ASSUME k + 1 <= Len(s) PROVE v[a + (k + 1)] = w[b + (k + 1)]
      <3>1. k + 1 \in 1 .. Len(s) /\ (a + (k + 1)) - 1 = a + k /\ (b + (k + 1)) - 1 = b + k
            /\ k <= Len(s)
        BY <1>1, <2>1
      <3>2. v[a + k] = w[b + k]
        BY <1>3, <3>1
      <3>3. /\ v[a + (k + 1)] = v[(a + (k + 1)) - 1] * base + DigitValue(s[k + 1], base)
            /\ w[b + (k + 1)] = w[(b + (k + 1)) - 1] * base + DigitValue(s[k + 1], base)
        BY <3>1 DEF Evaluates
      <3> QED
        BY <3>1, <3>2, <3>3
    <2> QED
      BY <2>1
  <1> HIDE DEF T
  <1>4. Len(s) \in T
    BY <1>1, <1>2, <1>3, Induction
  <1> QED
    BY <1>4 DEF T

\* The value of digits in front is that of the whole, before the rest is read.
LEMMA ReadTwo ==
  ASSUME NEW base \in Bases, NEW s \in Seq(DigitsOf(base)), NEW t \in Seq(DigitsOf(base))
  PROVE  \E v \in [0 .. Len(s) + Len(t) -> Nat] :
           /\ v[Len(s)] = ValueOf(s, base) /\ Evaluates(v, Len(s), t, base)
           /\ ValueOf(s \o t, base) = v[Len(s) + Len(t)]
  <1> DEFINE m == Len(s)
             n == Len(t)
             st == s \o t
  <1>1. /\ m \in Nat /\ n \in Nat /\ st \in Seq(DigitsOf(base)) /\ Len(st) = m + n
        /\ \A k \in 1 .. m + n : st[k] = IF k <= m THEN s[k] ELSE t[k - m]
    BY ConcatProperties, LenProperties
  <1> HIDE DEF m, n, st
  <1>2. PICK v \in [0 .. Len(st) -> Nat] :
          v[0] = 0 /\ Evaluates(v, 0, st, base) /\ ValueOf(st, base) = v[Len(st)]
    BY <1>1, ValueIs
  <1>3. PICK w \in [0 .. m -> Nat] :
          w[0] = 0 /\ Evaluates(w, 0, s, base) /\ ValueOf(s, base) = w[m]
    BY ValueIs DEF m
  <1>4. Evaluates(v, 0, s, base)
    <2> SUFFICES ASSUME NEW k \in 1 .. Len(s)
                 PROVE  v[0 + k] = v[(0 + k) - 1] * base + DigitValue(s[k], base)
      BY DEF Evaluates
    <2>1. k \in 1 .. Len(st) /\ st[k] = s[k]
      BY <1>1 DEF m
    <2> QED
      BY <1>2, <2>1 DEF Evaluates
  <1>5. v[0 + m] = w[0 + m] /\ 0 + m = m
    BY <1>1, <1>2, <1>3, <1>4, ReadAlike DEF m
  <1>6. Evaluates(v, m, t, base)
    <2> SUFFICES ASSUME NEW k \in 1 .. Len(t)
                 PROVE  v[m + k] = v[(m + k) - 1] * base + DigitValue(t[k], base)
      BY DEF Evaluates
    <2>1. m + k \in 1 .. Len(st) /\ ~(m + k <= m) /\ (m + k) - m = k /\ 0 + (m + k) = m + k
      BY <1>1 DEF n
    <2>2. st[m + k] = t[k]
      BY <1>1, <2>1
    <2> QED
      BY <1>2, <2>1, <2>2 DEF Evaluates
  <1>7. v \in [0 .. m + n -> Nat] /\ v[m] = ValueOf(s, base) /\ ValueOf(st, base) = v[m + n]
    BY <1>1, <1>2, <1>3, <1>5
  <1> QED
    BY <1>6, <1>7 DEF m, n, st

LEMMA ValueOfNone ==
  ASSUME NEW base \in Bases
  PROVE  ValueOf(<<>>, base) = 0
  <1>1. <<>> \in Seq(DigitsOf(base)) /\ Len(<<>>) = 0
    BY EmptySeq
  <1> QED
    BY <1>1, ValueIs

\* A digit behind: the value times the base, and the digit.
LEMMA ValueOfLast ==
  ASSUME NEW base \in Bases, NEW s \in Seq(DigitsOf(base)), NEW d \in DigitsOf(base)
  PROVE  /\ ValueOf(s \o <<d>>, base) = ValueOf(s, base) * base + DigitValue(d, base)
         /\ ValueOf(s, base) \in Nat
  <1> DEFINE t == <<d>>
             m == Len(s)
  <1>1. t \in Seq(DigitsOf(base)) /\ Len(t) = 1 /\ t[1] = d
    OBVIOUS
  <1>2. m \in Nat
    BY LenProperties
  <1> HIDE DEF t
  <1> DEFINE n == Len(t)
  <1>6. PICK v \in [0 .. m + n -> Nat] :
           /\ v[m] = ValueOf(s, base) /\ Evaluates(v, m, t, base)
           /\ ValueOf(s \o t, base) = v[m + n]
    BY <1>1, ReadTwo, Zenon
  <1> HIDE DEF m
  <1>7. n = 1
    BY <1>1
  <1> HIDE DEF n
  <1>3. /\ v \in [0 .. m + 1 -> Nat]
        /\ v[m] = ValueOf(s, base) /\ Evaluates(v, m, t, base)
        /\ ValueOf(s \o t, base) = v[m + 1]
    BY <1>6, <1>7, Zenon
  <1>4. v[m + 1] = v[(m + 1) - 1] * base + DigitValue(d, base)
    <2>1. 1 \in 1 .. Len(t)
      BY <1>1
    <2> QED
      BY <1>1, <1>3, <2>1 DEF Evaluates
  <1>5. (m + 1) - 1 = m /\ m \in 0 .. m + 1
    BY <1>2
  <1> QED
    BY <1>3, <1>4, <1>5 DEF t

\* Zeros in front change nothing.
LEMMA ValueOfZeros ==
  ASSUME NEW base \in Bases, NEW s \in Seq(DigitsOf(base)), NEW z \in Seq(DigitsOf(base)),
         \A k \in 1 .. Len(z) : z[k] = "0"
  PROVE  ValueOf(z \o s, base) = ValueOf(s, base)
  <1>1. Len(z) \in Nat /\ Len(s) \in Nat /\ base \in Nat
    BY LenProperties DEF Bases
  <1>2. ValueOf(z, base) = 0
    <2>1. PICK v \in [0 .. Len(z) -> Nat] :
           v[0] = 0 /\ Evaluates(v, 0, z, base) /\ ValueOf(z, base) = v[Len(z)]
      BY ValueIs
    <2> DEFINE T == {k \in Nat : k <= Len(z) => v[k] = 0}
    <2>2. 0 \in T
      BY <2>1
    <2>3. ASSUME NEW k \in Nat, k \in T PROVE k + 1 \in T
      <3>1. ASSUME k + 1 <= Len(z) PROVE v[k + 1] = 0
        <4>1. k + 1 \in 1 .. Len(z) /\ 0 + (k + 1) = k + 1 /\ (k + 1) - 1 = k /\ k <= Len(z)
          BY <1>1, <3>1
        <4>2. v[k + 1] = v[k] * base + DigitValue(z[k + 1], base)
          BY <2>1, <4>1 DEF Evaluates
        <4>3. v[k] = 0 /\ DigitValue(z[k + 1], base) = 0
          BY <2>3, <4>1, DigitValues
        <4>4. 0 * base + 0 = 0
          BY <1>1
        <4> QED
          BY <4>2, <4>3, <4>4
      <3> QED
        BY <3>1
    <2> HIDE DEF T
    <2>4. Len(z) \in T
      BY <1>1, <2>2, <2>3, Induction
    <2> QED
      BY <1>1, <2>1, <2>4 DEF T
  <1>3. PICK v \in [0 .. Len(z) + Len(s) -> Nat] :
           /\ v[Len(z)] = ValueOf(z, base) /\ Evaluates(v, Len(z), s, base)
           /\ ValueOf(z \o s, base) = v[Len(z) + Len(s)]
    BY ReadTwo
  <1>4. PICK w \in [0 .. Len(s) -> Nat] :
          w[0] = 0 /\ Evaluates(w, 0, s, base) /\ ValueOf(s, base) = w[Len(s)]
    BY ValueIs
  <1>5. v[Len(z) + Len(s)] = w[0 + Len(s)]
    <2>1. v[Len(z)] = w[0] /\ 0 \in Nat /\ Len(z) \in Nat
      BY <1>1, <1>2, <1>3, <1>4
    <2> QED
      BY <1>3, <1>4, <2>1, ReadAlike
  <1> QED
    BY <1>1, <1>3, <1>4, <1>5

\* conv_base_r writes the number it is given.
LEMMA DigitsWrite ==
  ASSUME NEW base \in Bases, NEW v \in 0 .. WORD - 1
  PROVE  ValueOf(Digits(base)[v], base) = v
  <1> DEFINE d == Digits(base)
             T == {n \in Nat : n < WORD => ValueOf(d[n], base) = n}
  <1>1. base \in Nat \ {0, 1}
    BY DigitsOfIs
  <1>2. ASSUME NEW n \in Nat, 0 .. n - 1 \subseteq T
        PROVE  n \in T
    <2>1. ASSUME n < WORD PROVE ValueOf(d[n], base) = n
      <3> DEFINE q == n \div base
                 r == n % base
                 high == IF q # 0 THEN d[q] ELSE <<>>
                 last == conv_digits[r + 1]
      <3>1. /\ q \in Nat /\ (q # 0 => q \in 0 .. n - 1) /\ r \in 0 .. base - 1
            /\ n = base * q + r
        BY <1>1, QuotientLess
      <3>2. d[n] = high \o <<last>>
        <4>1. n \in 0 .. WORD - 1
          BY <2>1, PrintAssumption
        <4>2. d[n] = Put(d, n, base)
          BY <4>1, DigitsAre
        <4> QED
          BY <4>2 DEF Put, LastDigit
      <3>3. last \in DigitsOf(base)
        BY DigitsOfIs
      <3> HIDE DEF q, r
      <3>4. high \in Seq(DigitsOf(base)) /\ ValueOf(high, base) = q
        <4>1. CASE q # 0
          <5>1. q \in T /\ q < WORD /\ q \in 0 .. WORD - 1
            BY <1>2, <2>1, <3>1, <4>1, PrintAssumption
          <5>2. d[q] \in Seq(DigitsOf(base))
            BY <5>1, DigitsAre
          <5> QED
            BY <4>1, <5>1, <5>2
        <4>2. CASE q = 0
          BY <4>2, ValueOfNone, EmptySeq
        <4> QED
          BY <4>1, <4>2
      <3>5. DigitValue(last, base) = r
        BY <3>1, DigitValues
      <3> HIDE DEF high, last, d
      <3>6. ValueOf(high \o <<last>>, base) = ValueOf(high, base) * base + DigitValue(last, base)
        BY <3>3, <3>4, ValueOfLast
      <3>7. q * base + r = n
        BY <1>1, <3>1
      <3> QED
        BY <3>2, <3>4, <3>5, <3>6, <3>7
    <2> QED
      BY <2>1
  <1> HIDE DEF T
  <1>3. Nat \subseteq T
    BY <1>2, StrongInduction
  <1>4. v \in Nat /\ v < WORD
    BY PrintAssumption
  <1> QED
    BY <1>3, <1>4 DEF T

-----------------------------------------------------------------------------
\* Reading a number back from its field.

LEMMA DigitsAreNotBlank ==
  ASSUME NEW base \in Bases, NEW s \in Seq(DigitsOf(base)), NEW i \in 1 .. Len(s)
  PROVE  s[i] # " " /\ s[i] # "-"
  <1>1. s[i] \in DigitsOf(base)
    BY ElementOfSeq
  <1>2. PICK j \in 1 .. base : s[i] = conv_digits[j]
    BY <1>1 DEF DigitsOf
  <1>3. j \in 1 .. 18
    BY DEF Bases
  <1> QED
    BY <1>2, <1>3, DigitFacts

\* The text itself is the number, and has no blank.
LEMMA TextWrites ==
  ASSUME NEW c \in Conversions, c.spec \in Numbers
  PROVE  /\ Len(TextOf(c)) > 0 /\ \A i \in 1 .. Len(TextOf(c)) : TextOf(c)[i] # " "
         /\ Writes(TextOf(c), BaseOf(c), c)
  <1> DEFINE s == DigitsIn(c)
             base == BaseOf(c)
             negative == c.spec = "d" /\ IsNegative(c.arg)
  <1>1. /\ base \in Bases /\ s \in Seq(DigitsOf(base)) /\ Len(s) > 0
        /\ TextOf(c) = IF negative THEN <<"-">> \o s ELSE s
        /\ ValueOf(s, base) = Value(c)
    BY NumberIs, DigitsWrite DEF DigitsIn
  <1>2. Value(c) = IF negative THEN WORD - c.arg ELSE c.arg
    BY DEF Value
  <1> HIDE DEF s, base, negative
  <1>3. Len(s) \in Nat /\ DOMAIN s = 1 .. Len(s) /\ s # <<>>
        /\ \A i \in DOMAIN s : s[i] \in DigitsOf(base)
    <2>1. Len(s) \in Nat /\ DOMAIN s = 1 .. Len(s)
      BY <1>1, LenProperties
    <2>2. s # <<>>
      BY <1>1
    <2> QED
      BY <1>1, <2>1, <2>2, ElementOfSeq
  <1>4. \A i \in 1 .. Len(s) : s[i] # " "
    BY <1>1, DigitsAreNotBlank
  <1>5. CASE ~negative
    <2>1. TextOf(c) = s
      BY <1>1, <1>5
    <2>2. Writes(s, base, c)
      BY <1>1, <1>2, <1>3, <1>5 DEF Writes, negative
    <2> QED
      BY <1>1, <1>4, <2>1, <2>2 DEF base
  <1>6. CASE negative
    <2> DEFINE t == <<"-">> \o s
               one == <<"-">>
               All == DigitsOf(base) \cup {"-"}
    <2>1. one \in Seq(All) /\ s \in Seq(All) /\ Len(one) = 1 /\ one[1] = "-"
      <3>1. s \in Seq(All)
        BY <1>1, SeqMonotonic
      <3> QED
        BY <3>1
    <2> HIDE DEF one, All
    <2>2. /\ t \in Seq(All) /\ Len(t) = 1 + Len(s)
          /\ \A i \in 1 .. 1 + Len(s) : t[i] = IF i <= 1 THEN one[i] ELSE s[i - 1]
      <3>1. /\ one \o s \in Seq(All) /\ Len(one \o s) = Len(one) + Len(s)
            /\ \A i \in 1 .. Len(one) + Len(s) : (one \o s)[i] =
                 IF i <= Len(one) THEN one[i] ELSE s[i - Len(one)]
        BY <2>1, ConcatProperties
      <3> QED
        BY <2>1, <3>1 DEF one
    <2>3. TextOf(c) = t
      BY <1>1, <1>6
    <2> HIDE DEF t
    <2>4. t # <<>> /\ t[1] = "-" /\ \A i \in 1 .. Len(s) : t[i + 1] = s[i]
      <3>1. 1 \in 1 .. 1 + Len(s) /\ 1 <= 1
        BY <1>3
      <3>2. ASSUME NEW i \in 1 .. Len(s) PROVE t[i + 1] = s[i]
        <4>1. i + 1 \in 1 .. 1 + Len(s) /\ ~(i + 1 <= 1) /\ (i + 1) - 1 = i
          BY <1>3
        <4> QED
          BY <2>2, <4>1
      <3>3. Len(t) > 0
        BY <1>3, <2>2
      <3> QED
        BY <2>1, <2>2, <3>1, <3>2, <3>3
    <2>5. Head(t) = "-" /\ Tail(t) = s
      <3>1. /\ Head(t) = t[1] /\ Tail(t) \in Seq(All) /\ Len(Tail(t)) = Len(t) - 1
            /\ \A i \in 1 .. Len(Tail(t)) : Tail(t)[i] = t[i + 1]
        BY <2>2, <2>4, HeadTailProperties
      <3>2. Len(Tail(t)) = Len(s)
        BY <1>3, <2>2, <3>1
      <3>3. \A i \in 1 .. Len(Tail(t)) : Tail(t)[i] = s[i]
        BY <2>4, <3>1, <3>2
      <3>4. Tail(t) = s
        BY <2>1, <3>1, <3>2, <3>3, SeqEqual
      <3> QED
        BY <2>4, <3>1, <3>4
    <2>6. Writes(t, base, c)
      BY <1>1, <1>2, <1>3, <1>6, <2>5 DEF Writes, negative
    <2>7. \A i \in 1 .. Len(t) : t[i] # " "
      <3> SUFFICES ASSUME NEW i \in 1 .. Len(t) PROVE t[i] # " "
        OBVIOUS
      <3>1. CASE i = 1
        BY <2>4, <3>1
      <3>2. CASE i # 1
        <4>1. i - 1 \in 1 .. Len(s) /\ (i - 1) + 1 = i
          BY <1>3, <2>2, <3>2
        <4> QED
          BY <1>4, <2>4, <4>1
      <3> QED
        BY <3>1, <3>2
    <2>8. Len(t) > 0
      BY <1>3, <2>2
    <2> QED
      BY <2>3, <2>6, <2>7, <2>8 DEF base
  <1> QED
    BY <1>5, <1>6

\* Padded with zeros it is no less the number.
LEMMA ZerosWrite ==
  ASSUME NEW c \in Conversions, PadOf(c) = "0", NEW n \in Nat
  PROVE  /\ c.spec \in Numbers /\ ~c.left_adjusted
         /\ Writes(Pads(c, n) \o TextOf(c), BaseOf(c), c)
         /\ \A i \in 1 .. Len(Pads(c, n) \o TextOf(c)) : (Pads(c, n) \o TextOf(c))[i] # " "
  <1> DEFINE s == DigitsIn(c)
             base == BaseOf(c)
             z == Pads(c, n)
             t == z \o s
  <1>1. c.spec \in Numbers /\ ~c.left_adjusted /\ ~(c.spec = "d" /\ IsNegative(c.arg))
    BY DEF PadOf, Numbers
  <1>2. /\ base \in Bases /\ s \in Seq(DigitsOf(base)) /\ Len(s) > 0 /\ TextOf(c) = s
        /\ ValueOf(s, base) = c.arg
    BY <1>1, NumberIs, DigitsWrite DEF DigitsIn, Value
  <1>3. Len(z) = n /\ \A i \in 1 .. n : z[i] = "0"
    BY PadsAre
  <1>4. z \in Seq(DigitsOf(base))
    <2>1. "0" \in DigitsOf(base)
      BY <1>2, DigitValues
    <2>2. z \in [1 .. n -> DigitsOf(base)]
      BY <2>1 DEF Pads
    <2> QED
      BY <2>2, TuplesAreSequences
  <1> HIDE DEF s, base, z
  <1>5. t \in Seq(DigitsOf(base)) /\ Len(t) = Len(z) + Len(s)
    BY <1>2, <1>4, ConcatProperties
  <1>6. ValueOf(t, base) = c.arg
    BY <1>2, <1>3, <1>4, ValueOfZeros
  <1> HIDE DEF t
  <1>7. Len(t) > 0 /\ DOMAIN t = 1 .. Len(t) /\ \A i \in DOMAIN t : t[i] \in DigitsOf(base)
    <2>1. Len(z) \in Nat /\ Len(s) \in Nat /\ DOMAIN t = 1 .. Len(t)
      BY <1>2, <1>4, <1>5, LenProperties
    <2>2. \A i \in 1 .. Len(t) : t[i] \in DigitsOf(base)
      BY <1>5, ElementOfSeq
    <2> QED
      BY <1>2, <1>5, <2>1, <2>2
  <1>8. t # <<>>
    BY <1>7
  <1>9. Writes(t, base, c)
    BY <1>1, <1>6, <1>7, <1>8 DEF Writes
  <1>10. \A i \in 1 .. Len(t) : t[i] # " "
    BY <1>2, <1>5, DigitsAreNotBlank
  <1>11. t = Pads(c, n) \o TextOf(c)
    BY <1>2 DEF t, z
  <1> QED
    BY <1>1, <1>9, <1>10, <1>11 DEF base

LEMMA AskedReads ==
  ASSUME NEW c \in Conversions, c.spec \in Numbers, TextLength(c) = Len(TextOf(c))
  PROVE  ReadsAs(Asked(c), BaseOf(c), c)
  <1> DEFINE f == Asked(c)
             s == TextOf(c)
             l == Len(s)
             n == SpaceCount(c)
             base == BaseOf(c)
  <1>1. s \in Seq(Chars) /\ Cut(c) = s
    <2>1. s \in Seq(Chars)
      BY TextIs
    <2> QED
      BY <2>1, SubSeqFull DEF Cut
  <1>2. /\ f \in Seq(Chars) /\ Len(f) = l + n /\ l \in Nat /\ n \in Nat
        /\ c.left_adjusted =>
             /\ SubSeq(f, 1, l) = s
             /\ \A i \in l + 1 .. l + n : f[i] = PadOf(c)
        /\ ~c.left_adjusted =>
             /\ SubSeq(f, n + 1, n + l) = s
             /\ \A i \in 1 .. n : f[i] = PadOf(c)
    BY <1>1, AskedParts
  <1>3. l > 0 /\ (\A i \in 1 .. l : s[i] # " ") /\ Writes(s, base, c)
    BY TextWrites
  <1>4. PadOf(c) \in {"0", " "} /\ (c.left_adjusted => PadOf(c) = " ")
    BY LengthsAre
  <1>5. f = IF c.left_adjusted THEN s \o Pads(c, n) ELSE Pads(c, n) \o s
    BY <1>1 DEF Asked
  <1>6. PadOf(c) = "0" =>
          /\ ~c.left_adjusted
          /\ Writes(Pads(c, n) \o s, base, c)
          /\ \A i \in 1 .. Len(Pads(c, n) \o s) : (Pads(c, n) \o s)[i] # " "
    BY <1>2, ZerosWrite
  <1> HIDE DEF f, s, l, n, base
  <1>7. DOMAIN f = 1 .. l + n /\ l \in Nat /\ n \in Nat /\ l > 0
    <2>1. DOMAIN f = 1 .. l + n
      BY <1>2, LenProperties
    <2>2. l \in Nat /\ n \in Nat /\ l > 0
      BY <1>2, <1>3
    <2> QED
      BY <2>1, <2>2
  <1>8. ASSUME NEW i \in 1 .. l + n, NEW j \in 1 .. l + n, i <= j,
               Writes(SubSeq(f, i, j), base, c),
               \A k \in 1 .. l + n : k \in i .. j => f[k] # " ",
               \A k \in 1 .. l + n : k \notin i .. j => f[k] = " "
        PROVE  ReadsAs(f, base, c)
    <2>1. \A k \in DOMAIN f : f[k] = " " <=> k \notin i .. j
      BY <1>7, <1>8
    <2> QED
      BY <1>7, <1>8, <2>1 DEF ReadsAs
  <1>9. CASE PadOf(c) = "0"
    <2>1. f = Pads(c, n) \o s
      BY <1>5, <1>6, <1>9
    <2>2. Writes(f, base, c) /\ \A i \in 1 .. l + n : f[i] # " "
      BY <1>2, <1>6, <1>9, <2>1
    <2>3. 1 \in 1 .. l + n /\ l + n \in 1 .. l + n /\ 1 <= l + n
      BY <1>7
    <2>4. SubSeq(f, 1, l + n) = f
      BY <1>2, SubSeqFull
    <2> QED
      BY <1>8, <2>2, <2>3, <2>4 DEF f, base
  <1>10. CASE PadOf(c) = " " /\ c.left_adjusted
    <2>1. 1 \in 1 .. l + n /\ l \in 1 .. l + n /\ 1 <= l
      BY <1>7
    <2>2. SubSeq(f, 1, l) = s
      BY <1>2, <1>10
    <2>3. ASSUME NEW k \in 1 .. l PROVE f[k] # " "
      <3>1. s[k] = f[k]
        <4>1. /\ SubSeq(f, 1, l) \in Seq(Chars)
              /\ \A i \in 1 .. l : SubSeq(f, 1, l)[i] = f[i]
          BY <1>2, SubSeqProperties, ElementOfSeq
        <4> QED
          BY <2>2, <4>1
      <3> QED
        BY <1>3, <3>1
    <2>4. \A k \in 1 .. l + n : k \notin 1 .. l => f[k] = " "
      <3> SUFFICES ASSUME NEW k \in 1 .. l + n, k \notin 1 .. l PROVE f[k] = " "
        OBVIOUS
      <3>1. k \in l + 1 .. l + n
        BY <1>2
      <3> QED
        BY <1>2, <1>10, <3>1
    <2> QED
      BY <1>3, <1>8, <2>1, <2>2, <2>3, <2>4 DEF f, base
  <1>11. CASE PadOf(c) = " " /\ ~c.left_adjusted
    <2>1. n + 1 \in 1 .. l + n /\ n + l \in 1 .. l + n /\ n + 1 <= n + l
      BY <1>7
    <2>2. SubSeq(f, n + 1, n + l) = s
      BY <1>2, <1>11
    <2>3. ASSUME NEW k \in n + 1 .. n + l PROVE f[k] # " "
      <3> DEFINE g == SubSeq(f, n + 1, n + l)
      <3>1. g[k - n] = f[k] /\ k - n \in 1 .. l
        <4>1. \A i \in n + 1 .. n + l : f[i] \in Chars
          BY <1>2, ElementOfSeq
        <4>2. n + 1 \in Int /\ n + l \in Int
          BY <1>2
        <4>3. \A i \in 1 .. (n + l) - (n + 1) + 1 : g[i] = f[n + 1 + i - 1]
          BY <4>1, <4>2, SubSeqProperties
        <4> HIDE DEF g
        <4>4. k - n \in 1 .. l /\ (n + l) - (n + 1) + 1 = l /\ n + 1 + (k - n) - 1 = k
          BY <1>2
        <4> QED
          BY <4>3, <4>4
      <3> QED
        BY <1>3, <2>2, <3>1
    <2>4. \A k \in 1 .. l + n : k \notin n + 1 .. n + l => f[k] = " "
      <3> SUFFICES ASSUME NEW k \in 1 .. l + n, k \notin n + 1 .. n + l PROVE f[k] = " "
        OBVIOUS
      <3>1. k \in 1 .. n
        BY <1>2
      <3> QED
        BY <1>2, <1>11, <3>1
    <2> QED
      BY <1>3, <1>8, <2>1, <2>2, <2>3, <2>4 DEF f, base
  <1> QED
    BY <1>4, <1>9, <1>10, <1>11

\* A number that no precision cuts reads back as itself from the field conv_d or
\* conv_uox leave of it, in every base, of every width, with zeros or blanks.
THEOREM NumbersReadBack == Spec => []ReadsBack
  <1>1. ASSUME PrintInv PROVE ReadsBack
    <2> SUFFICES ASSUME Converted, Whole
                 PROVE  ReadsAs(Field, BaseOf(conv), conv)
      BY DEF ReadsBack, BaseOf
    <2>1. conv \in Conversions /\ Field = Asked(conv)
      BY <1>1, FieldIs
    <2>2. conv.spec \in Numbers /\ TextLength(conv) = Len(TextOf(conv))
      BY DEF Whole, Numbers
    <2> QED
      BY <2>1, <2>2, AskedReads
  <1>2. PrintInv => ReadsBack
    BY <1>1
  <1> QED
    BY <1>2, SpecInv, PTL

=============================================================================
