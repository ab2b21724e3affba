---------------------------- MODULE VmThunksProofs ----------------------------
(***************************************************************************)
(* Proofs about VmThunks, for every size of the memory, of a buffer, of a  *)
(* byte and of an int, and every set of descriptors, texts and addresses.  *)
(***************************************************************************)
EXTENDS VmThunks, Basics

LEMMA ByteFacts ==
  /\ BYTE \in Nat /\ BYTE > 1 /\ SHORT \in Nat /\ SHORT > BYTE /\ WORD \in Nat
  /\ WORD > SHORT /\ BYTE \in Nat \ {0} /\ SHORT \in Nat \ {0}
  <1>1. BYTE \in Nat /\ BYTE > 1
    BY ThunksAssumption
  <1>2. SHORT \in Nat /\ SHORT > BYTE
    BY <1>1 DEF SHORT
  <1>3. WORD \in Nat /\ WORD > SHORT
    BY <1>1, <1>2 DEF WORD
  <1> QED
    BY <1>1, <1>2, <1>3

LEMMA SmallerIs ==
  ASSUME NEW a \in Int, NEW b \in Int
  PROVE  Smaller(a, b) \in {a, b} /\ Smaller(a, b) <= a /\ Smaller(a, b) <= b
  BY DEF Smaller

LEMMA ReverseIs ==
  ASSUME NEW S
  PROVE  /\ \A b \in [1 .. 4 -> S] : Reverse(b) = <<b[4], b[3], b[2], b[1]>>
         /\ \A b \in [1 .. 2 -> S] : Reverse(b) = <<b[2], b[1]>>
  <1>1. ASSUME NEW b \in [1 .. 4 -> S] PROVE Reverse(b) = <<b[4], b[3], b[2], b[1]>>
    <2>1. Len(b) = 4
      BY TuplesAreSequences
    <2> QED
      BY <2>1 DEF Reverse
  <1>2. ASSUME NEW b \in [1 .. 2 -> S] PROVE Reverse(b) = <<b[2], b[1]>>
    <2>1. Len(b) = 2
      BY TuplesAreSequences
    <2> QED
      BY <2>1 DEF Reverse
  <1> QED
    BY <1>1, <1>2

LEMMA ReversedIs ==
  ASSUME NEW S
  PROVE  /\ \A b \in [1 .. 4 -> S] :
              Reverse(b) \in [1 .. 4 -> S] /\ Reverse(Reverse(b)) = b
         /\ \A b \in [1 .. 2 -> S] :
              Reverse(b) \in [1 .. 2 -> S] /\ Reverse(Reverse(b)) = b
  <1>1. ASSUME NEW b \in [1 .. 4 -> S]
        PROVE  Reverse(b) \in [1 .. 4 -> S] /\ Reverse(Reverse(b)) = b
    <2> DEFINE c == Reverse(b)
    <2>1. c = <<b[4], b[3], b[2], b[1]>> /\ c \in [1 .. 4 -> S]
      BY ReverseIs
    <2> HIDE DEF c
    <2>2. Reverse(c) = <<c[4], c[3], c[2], c[1]>>
      BY <2>1, ReverseIs
    <2>3. Reverse(c) = b
      BY <2>1, <2>2
    <2> QED
      BY <2>1, <2>3 DEF c
  <1>2. ASSUME NEW b \in [1 .. 2 -> S]
        PROVE  Reverse(b) \in [1 .. 2 -> S] /\ Reverse(Reverse(b)) = b
    <2> DEFINE c == Reverse(b)
    <2>1. c = <<b[2], b[1]>> /\ c \in [1 .. 2 -> S]
      BY ReverseIs
    <2> HIDE DEF c
    <2>2. Reverse(c) = <<c[2], c[1]>>
      BY <2>1, ReverseIs
    <2>3. Reverse(c) = b
      BY <2>1, <2>2
    <2> QED
      BY <2>1, <2>3 DEF c
  <1> QED
    BY <1>1, <1>2

LEMMA JoinsTwo ==
  ASSUME NEW b \in [1 .. 2 -> 0 .. BYTE - 1]
  PROVE  Join2(b) \in 0 .. SHORT - 1 /\ Split2(Join2(b)) = b
  <1>1. /\ b[1] * BYTE + b[2] \in 0 .. BYTE * BYTE - 1
        /\ (b[1] * BYTE + b[2]) \div BYTE = b[1] /\ (b[1] * BYTE + b[2]) % BYTE = b[2]
    <2>1. BYTE \in Nat \ {0} /\ b[1] \in 0 .. BYTE - 1 /\ b[2] \in 0 .. BYTE - 1
      BY ByteFacts
    <2> QED
      BY <2>1, Joined
  <1>2. b[1] % BYTE = b[1]
    BY ByteFacts
  <1>3. b = <<b[1], b[2]>>
    OBVIOUS
  <1> QED
    BY <1>1, <1>2, <1>3 DEF Join2, Split2, SHORT

LEMMA SplitsTwo ==
  ASSUME NEW x \in Nat
  PROVE  /\ Split2(x) \in [1 .. 2 -> 0 .. BYTE - 1]
         /\ Join2(Split2(x)) = x % SHORT
  <1>1. (x \div BYTE) % BYTE \in 0 .. BYTE - 1 /\ x % BYTE \in 0 .. BYTE - 1
    BY ByteFacts
  <1>2. Split2(x) \in [1 .. 2 -> 0 .. BYTE - 1]
    BY <1>1 DEF Split2
  <1>3. Join2(Split2(x)) = ((x \div BYTE) % BYTE) * BYTE + (x % BYTE)
    BY DEF Split2, Join2
  <1>4. Join2(Split2(x)) = x % (BYTE * BYTE)
    BY <1>3, Halves, ByteFacts
  <1> QED
    BY <1>2, <1>4 DEF SHORT

LEMMA SplitFourIs ==
  ASSUME NEW x \in Nat
  PROVE  /\ Split4(x) \in [1 .. 4 -> 0 .. BYTE - 1]
         /\ Split4(x) = <<Split2(x \div SHORT)[1], Split2(x \div SHORT)[2],
                         Split2(x)[1], Split2(x)[2]>>
  <1>1. x \div SHORT \in Nat
    BY ByteFacts
  <1>2. /\ Split2(x \div SHORT) \in [1 .. 2 -> 0 .. BYTE - 1]
        /\ Split2(x) \in [1 .. 2 -> 0 .. BYTE - 1]
    BY <1>1, SplitsTwo
  <1>3. Split4(x) = <<Split2(x \div SHORT)[1], Split2(x \div SHORT)[2],
                      Split2(x)[1], Split2(x)[2]>>
    <2> DEFINE s == Split2(x \div SHORT)
               t == Split2(x)
    <2> DEFINE u == s \o t
    <2> HIDE DEF s, t
    <2>1. /\ s \in Seq(0 .. BYTE - 1) /\ Len(s) = 2
          /\ t \in Seq(0 .. BYTE - 1) /\ Len(t) = 2
      BY <1>2, TuplesAreSequences DEF s, t
    <2>2. u = <<s[1], s[2], t[1], t[2]>>
      <3>1. /\ u \in Seq(0 .. BYTE - 1) /\ Len(u) = 4
            /\ u[1] = s[1] /\ u[2] = s[2] /\ u[3] = t[1] /\ u[4] = t[2]
        <4>1. /\ u \in Seq(0 .. BYTE - 1) /\ Len(u) = Len(s) + Len(t)
              /\ \A i \in 1 .. Len(s) + Len(t) :
                   u[i] = IF i <= Len(s) THEN s[i] ELSE t[i - Len(s)]
          BY <2>1, ConcatProperties, Zenon
        <4> HIDE DEF u
        <4> QED
          BY <2>1, <4>1
      <3> HIDE DEF u
      <3> QED
        BY <3>1
    <2> QED
      BY <2>2 DEF Split4, s, t
  <1> QED
    BY <1>2, <1>3

LEMMA SplitsFour ==
  ASSUME NEW x \in Nat
  PROVE  /\ Split4(x) \in [1 .. 4 -> 0 .. BYTE - 1]
         /\ Join4(Split4(x)) = x % WORD
  <1> DEFINE y == x \div SHORT
             s == Split2(y)
             t == Split2(x)
  <1>1. y \in Nat
    BY ByteFacts
  <1>2. /\ s \in [1 .. 2 -> 0 .. BYTE - 1] /\ Join2(s) = y % SHORT
        /\ t \in [1 .. 2 -> 0 .. BYTE - 1] /\ Join2(t) = x % SHORT
    BY <1>1, SplitsTwo
  <1>3. Split4(x) = <<s[1], s[2], t[1], t[2]>>
    BY SplitFourIs
  <1> HIDE DEF s, t
  <1>4. Join4(Split4(x)) = (Join2(s) * SHORT + t[1] * BYTE) + t[2]
    BY <1>3 DEF Join4, Join2
  <1>5. Join4(Split4(x)) = (y % SHORT) * SHORT + (x % SHORT)
    <2>1. Join2(s) * SHORT \in Nat /\ t[1] * BYTE \in Nat /\ t[2] \in Nat
      BY <1>1, <1>2, ByteFacts
    <2> QED
      BY <1>2, <1>4, <2>1 DEF Join2
  <1>6. (y % SHORT) * SHORT + (x % SHORT) = x % (SHORT * SHORT)
    BY ByteFacts, Halves
  <1> QED
    BY <1>5, <1>6, SplitFourIs DEF WORD

LEMMA JoinsFour ==
  ASSUME NEW b \in [1 .. 4 -> 0 .. BYTE - 1]
  PROVE  Join4(b) \in 0 .. WORD - 1 /\ Split4(Join4(b)) = b
  <1> DEFINE high == <<b[1], b[2]>>
             low == <<b[3], b[4]>>
             x == Join2(high) * SHORT + Join2(low)
  <1>1. high \in [1 .. 2 -> 0 .. BYTE - 1] /\ low \in [1 .. 2 -> 0 .. BYTE - 1]
    OBVIOUS
  <1>2. /\ Join2(high) \in 0 .. SHORT - 1 /\ Split2(Join2(high)) = high
        /\ Join2(low) \in 0 .. SHORT - 1 /\ Split2(Join2(low)) = low
    BY <1>1, JoinsTwo
  <1>3. Join4(b) = x
    <2>1. b[1] * BYTE + b[2] \in Nat /\ b[3] * BYTE \in Nat /\ b[4] \in Nat
      BY ByteFacts
    <2>2. (b[1] * BYTE + b[2]) * SHORT \in Nat
      BY <2>1, ByteFacts
    <2> QED
      BY <2>1, <2>2 DEF Join4, Join2
  <1>4. x \in 0 .. WORD - 1 /\ x \div SHORT = Join2(high) /\ x % SHORT = Join2(low)
    <2> DEFINE h == Join2(high)
               l == Join2(low)
    <2>1. SHORT \in Nat \ {0} /\ h \in 0 .. SHORT - 1 /\ l \in 0 .. SHORT - 1
      BY <1>2, ByteFacts
    <2> HIDE DEF h, l
    <2>2. /\ h * SHORT + l \in 0 .. SHORT * SHORT - 1
          /\ (h * SHORT + l) \div SHORT = h /\ (h * SHORT + l) % SHORT = l
      BY <2>1, Joined
    <2> QED
      BY <2>2 DEF WORD, h, l
  <1>5. Split2(x) = low
    <2> HIDE DEF x, high, low
    <2>1. Split2(x) \in [1 .. 2 -> 0 .. BYTE - 1] /\ Join2(Split2(x)) = Join2(low)
      BY <1>4, SplitsTwo
    <2>2. Split2(Join2(Split2(x))) = Split2(x)
      BY <2>1, JoinsTwo
    <2> QED
      BY <1>2, <2>1, <2>2
  <1>6. Split4(x) = <<high[1], high[2], low[1], low[2]>>
    <2> HIDE DEF x, high, low
    <2>1. x \in Nat
      BY <1>4, ByteFacts
    <2>2. Split4(x) = <<Split2(x \div SHORT)[1], Split2(x \div SHORT)[2],
                        Split2(x)[1], Split2(x)[2]>>
      BY <2>1, SplitFourIs
    <2>3. Split2(x \div SHORT) = high
      BY <1>2, <1>4
    <2> QED
      BY <2>2, <2>3, <1>5
  <1>7. b = <<b[1], b[2], b[3], b[4]>>
    OBVIOUS
  <1> QED
    BY <1>3, <1>4, <1>6, <1>7 DEF high, low

-----------------------------------------------------------------------------
\* Objects.

LEMMA LenFacts == LEN \in Nat /\ LEN > 1 /\ Chars \subseteq Bytes /\ Junk \in Bytes
                  /\ "zero" \in Chars /\ "one" \in Chars /\ Junk \notin Chars
  BY StrbufAssumption, ThunksAssumption DEF Bytes, Chars

LEMMA WrittenIs ==
  ASSUME NEW s \in Seq(Chars), NEW count \in Nat, count <= Len(s)
  PROVE  Written(s, count)
  BY LenFacts DEF Written

\* What is good in memory: an object, and a string buffer that has what somebody wrote.
Good(object) ==
  /\ object \in Objects
  /\ object.kind = "strbuf" => Written(object.data, object.length)

LEMMA StrbufFacts ==
  ASSUME NEW sb \in Objects, sb.kind = "strbuf"
  PROVE  /\ sb \in StrbufObjects /\ sb.data \in Seq(Bytes)
         /\ sb.length \in 0 .. sb.max_length /\ sb.max_length \in 0 .. LEN - 1
         /\ Len(sb.data) = sb.max_length
         /\ sb = [kind |-> "strbuf", length |-> sb.length,
                   max_length |-> sb.max_length, data |-> sb.data]
  <1>1. sb \in StrbufObjects
    BY DEF Objects, BlockObjects, SockaddrObjects, FdsetObjects
  <1> QED
    BY <1>1, LenFacts DEF StrbufObjects, StrbufOK

LEMMA BlockFacts ==
  ASSUME NEW b \in Objects, b.kind = "block"
  PROVE  b \in BlockObjects /\ b.data \in Seq(Bytes) /\ b = [kind |-> "block", data |-> b.data]
  <1>1. b \in BlockObjects
    BY DEF Objects, StrbufObjects, SockaddrObjects, FdsetObjects
  <1> QED
    BY <1>1 DEF BlockObjects

LEMMA GoodStrbuf ==
  ASSUME NEW length \in Nat, NEW max \in 0 .. LEN - 1, NEW data \in Seq(Bytes),
         length <= max, Len(data) = max, Written(data, length)
  PROVE  Good([kind |-> "strbuf", length |-> length, max_length |-> max, data |-> data])
  <1>1. [kind |-> "strbuf", length |-> length, max_length |-> max, data |-> data]
          \in StrbufObjects
    BY LenFacts DEF StrbufObjects, StrbufOK
  <1> QED
    BY <1>1 DEF Good, Objects

LEMMA GoodBlock ==
  ASSUME NEW data \in Seq(Bytes)
  PROVE  Good([kind |-> "block", data |-> data])
  BY DEF Good, Objects, BlockObjects

\* A sequence of bytes nobody wrote.
LEMMA JunkIs ==
  ASSUME NEW n \in Nat
  PROVE  /\ [i \in 1 .. n |-> Junk] \in Seq(Bytes)
         /\ Len([i \in 1 .. n |-> Junk]) = n
  BY LenFacts, TuplesAreSequences

LEMMA AllocatedIs ==
  ASSUME NEW size \in Nat
  PROVE  LET sb == Allocated(size)
         IN /\ sb = [length |-> 0, max_length |-> sb.max_length, data |-> sb.data]
            /\ sb.max_length = Smaller(size, LEN - 1) /\ sb.max_length \in 0 .. LEN - 1
            /\ sb.data \in Seq(Bytes) /\ Len(sb.data) = sb.max_length
  <1> DEFINE max == IF size > LEN - 1 THEN LEN - 1 ELSE size
  <1>1. max \in 0 .. LEN - 1 /\ max = Smaller(size, LEN - 1)
    BY LenFacts DEF Smaller
  <1>2. [i \in 1 .. max |-> Junk] \in Seq(Bytes) /\ Len([i \in 1 .. max |-> Junk]) = max
    <2> HIDE DEF max
    <2> QED
      BY <1>1, LenFacts, JunkIs
  <1> QED
    BY <1>1, <1>2 DEF Allocated

LEMMA AllocatedGood ==
  ASSUME NEW size \in Nat
  PROVE  Good(Buffer(Allocated(size))) /\ Good(Block(size))
  <1>1. Written(Allocated(size).data, 0)
    BY AllocatedIs DEF Written
  <1>2. Good(Buffer(Allocated(size)))
    BY <1>1, AllocatedIs, GoodStrbuf DEF Buffer
  <1>3. Good(Block(size))
    BY JunkIs, GoodBlock DEF Block
  <1> QED
    BY <1>2, <1>3

\* Bytes written over the start of some data.
LEMMA FilledIs ==
  ASSUME NEW data \in Seq(Bytes), NEW bytes \in Seq(Bytes), Len(bytes) <= Len(data)
  PROVE  LET new == bytes \o SubSeq(data, Len(bytes) + 1, Len(data))
         IN /\ new \in Seq(Bytes) /\ Len(new) = Len(data)
            /\ \A i \in 1 .. Len(bytes) : new[i] = bytes[i]
            /\ \A i \in Len(bytes) + 1 .. Len(data) : new[i] = data[i]
  <1> DEFINE rest == SubSeq(data, Len(bytes) + 1, Len(data))
  <1>1. Len(data) \in Nat /\ Len(bytes) \in Nat
    OBVIOUS
  <1>2. /\ rest \in Seq(Bytes) /\ Len(rest) = Len(data) - Len(bytes)
        /\ \A i \in 1 .. Len(data) - Len(bytes) : rest[i] = data[Len(bytes) + i]
    BY <1>1
  <1> HIDE DEF rest
  <1>3. /\ bytes \o rest \in Seq(Bytes) /\ Len(bytes \o rest) = Len(data)
        /\ \A i \in 1 .. Len(data) :
             (bytes \o rest)[i] = IF i <= Len(bytes) THEN bytes[i] ELSE rest[i - Len(bytes)]
    BY <1>1, <1>2, ConcatProperties
  <1>4. ASSUME NEW i \in Len(bytes) + 1 .. Len(data) PROVE (bytes \o rest)[i] = data[i]
    BY <1>1, <1>2, <1>3
  <1>5. ASSUME NEW i \in 1 .. Len(bytes) PROVE (bytes \o rest)[i] = bytes[i]
    BY <1>1, <1>3
  <1> QED
    BY <1>3, <1>4, <1>5 DEF rest

LEMMA FilledRecord ==
  ASSUME NEW object, NEW bytes, NEW data,
         data = bytes \o SubSeq(object.data, Len(bytes) + 1, Len(object.data))
  PROVE  Filled(object, bytes) = [object EXCEPT !.data = data]
  BY DEF Filled

LEMMA FilledGood ==
  ASSUME NEW object, Good(object), object.kind \in {"block", "strbuf"},
         NEW bytes \in Seq(Chars), Len(bytes) <= Len(object.data)
  PROVE  /\ Good(Filled(object, bytes)) /\ Filled(object, bytes).kind = object.kind
         /\ Len(Filled(object, bytes).data) = Len(object.data)
  <1> DEFINE data == bytes \o SubSeq(object.data, Len(bytes) + 1, Len(object.data))
  <1>1. bytes \in Seq(Bytes)
    BY LenFacts
  <1>2. object.data \in Seq(Bytes)
    BY BlockFacts, StrbufFacts DEF Good
  <1>3. /\ data \in Seq(Bytes) /\ Len(data) = Len(object.data)
        /\ \A i \in 1 .. Len(bytes) : data[i] = bytes[i]
        /\ \A i \in Len(bytes) + 1 .. Len(object.data) : data[i] = object.data[i]
    BY <1>1, <1>2, FilledIs
  <1> HIDE DEF data
  <1>4. CASE object.kind = "block"
    <2>1. object = [kind |-> "block", data |-> object.data]
      BY <1>4, BlockFacts DEF Good
    <2>2. Filled(object, bytes) = [kind |-> "block", data |-> data]
      <3>1. Filled(object, bytes) = [object EXCEPT !.data = data]
        BY FilledRecord DEF data
      <3> QED
        BY <2>1, <3>1
    <2> QED
      BY <1>3, <1>4, <2>2, GoodBlock
  <1>5. CASE object.kind = "strbuf"
    <2>1. /\ object = [kind |-> "strbuf", length |-> object.length,
                       max_length |-> object.max_length, data |-> object.data]
          /\ object.length \in 0 .. object.max_length /\ object.max_length \in 0 .. LEN - 1
          /\ Len(object.data) = object.max_length
      BY <1>5, StrbufFacts DEF Good
    <2>2. Filled(object, bytes) = [kind |-> "strbuf", length |-> object.length,
                                   max_length |-> object.max_length, data |-> data]
      <3>1. Filled(object, bytes) = [object EXCEPT !.data = data]
        BY FilledRecord DEF data
      <3> QED
        BY <2>1, <3>1
    <2>3. Written(data, object.length)
      <3>1. Written(object.data, object.length)
        BY <1>5 DEF Good
      <3>2. ASSUME NEW i \in 1 .. object.length PROVE data[i] # Junk
        <4>1. CASE i <= Len(bytes)
          <5>1. i \in 1 .. Len(bytes) /\ bytes[i] \in Chars
            BY <4>1
          <5> QED
            BY <5>1, <1>3, LenFacts
        <4>2. CASE i > Len(bytes)
          BY <4>2, <3>1, <2>1, <1>3, LenFacts DEF Written
        <4> QED
          BY <4>1, <4>2
      <3> QED
        BY <3>2, <1>3, <2>1, LenFacts DEF Written
    <2> QED
      BY <1>3, <1>5, <2>1, <2>2, <2>3, LenFacts, GoodStrbuf
  <1> QED
    BY <1>4, <1>5

LEMMA MemsetGood ==
  ASSUME NEW object, Good(object), object.kind \in {"block", "strbuf"},
         NEW byte \in {"zero", "one"}, NEW size \in Nat, size <= Len(object.data)
  PROVE  /\ Good(Filled(object, [i \in 1 .. size |-> byte]))
         /\ Filled(object, [i \in 1 .. size |-> byte]).kind = object.kind
         /\ Len(Filled(object, [i \in 1 .. size |-> byte]).data) = Len(object.data)
  <1> DEFINE bytes == [i \in 1 .. size |-> byte]
  <1>1. bytes \in [1 .. size -> Chars]
    BY LenFacts
  <1> HIDE DEF bytes
  <1>2. bytes \in Seq(Chars) /\ Len(bytes) = size
    BY <1>1, TuplesAreSequences
  <1>3. /\ Good(Filled(object, bytes)) /\ Filled(object, bytes).kind = object.kind
        /\ Len(Filled(object, bytes).data) = Len(object.data)
    BY <1>2, FilledGood
  <1> QED
    BY <1>3 DEF bytes

\* Data of which the first bytes were written are so many bytes somebody wrote.
LEMMA WrittenPart ==
  ASSUME NEW data \in Seq(Bytes), NEW count \in Nat, Written(data, count)
  PROVE  SubSeq(data, 1, count) \in Seq(Chars) /\ Len(SubSeq(data, 1, count)) = count
  <1> DEFINE part == SubSeq(data, 1, count)
  <1>1. count <= Len(data) /\ \A i \in 1 .. count : data[i] # Junk
    BY DEF Written
  <1>2. /\ part \in Seq(Bytes) /\ Len(part) = count
        /\ \A i \in 1 .. count : part[i] = data[i]
    BY <1>1
  <1>3. \A i \in 1 .. count : part[i] \in Chars
    BY <1>1, <1>2 DEF Bytes
  <1> HIDE DEF part
  <1>4. part \in [1 .. count -> Chars]
    BY <1>2, <1>3
  <1>5. part \in Seq(Chars) /\ Len(part) = count
    BY <1>4, TuplesAreSequences
  <1> QED
    BY <1>5 DEF part

LEMMA MemcpyGood ==
  ASSUME NEW object, Good(object), object.kind \in {"block", "strbuf"},
         NEW data \in Seq(Bytes), NEW size \in Nat, Written(data, size),
         size <= Len(object.data)
  PROVE  /\ Good(Filled(object, SubSeq(data, 1, size)))
         /\ Filled(object, SubSeq(data, 1, size)).kind = object.kind
  BY WrittenPart, FilledGood

\* What is received is as long as what came, as far as it was asked for and 16 bits go,
\* and is just that.
LEMMA ReceivedIs ==
  ASSUME NEW size \in Nat, NEW bytes \in Seq(Chars)
  PROVE  /\ Good(Received(size, bytes)) /\ Received(size, bytes).kind = "strbuf"
         /\ Contents(Received(size, bytes)) =
              SubSeq(bytes, 1, Smaller(Len(bytes), Smaller(size, LEN - 1)))
  <1> DEFINE sb == Allocated(size)
             max == Smaller(size, LEN - 1)
             n == Smaller(Len(bytes), max)
             came == SubSeq(bytes, 1, n)
             data == came \o SubSeq(sb.data, Len(came) + 1, Len(sb.data))
  <1>1. /\ sb = [length |-> 0, max_length |-> max, data |-> sb.data]
        /\ max \in 0 .. LEN - 1 /\ sb.data \in Seq(Bytes) /\ Len(sb.data) = max
    BY AllocatedIs
  <1>2. n \in 0 .. max /\ n <= Len(bytes)
    BY <1>1, LenFacts DEF Smaller
  <1> HIDE DEF sb, max, n
  <1>3. came \in Seq(Chars) /\ Len(came) = n
    BY <1>1, <1>2, LenFacts
  <1> HIDE DEF came
  <1>4. /\ data \in Seq(Bytes) /\ Len(data) = max
        /\ \A i \in 1 .. n : data[i] = came[i]
    <2>1. came \in Seq(Bytes) /\ Len(came) <= Len(sb.data)
      BY <1>1, <1>2, <1>3, LenFacts
    <2> QED
      BY <2>1, <1>1, <1>3, FilledIs
  <1> HIDE DEF data
  <1>5. n % LEN = n /\ Smaller(max, n) = n
    <2>1. n \in 0 .. LEN - 1 /\ max \in Nat /\ LEN \in Nat
      BY <1>1, <1>2, LenFacts
    <2> QED
      BY <2>1, <1>2 DEF Smaller
  <1>6. Received(size, bytes) =
          [kind |-> "strbuf", length |-> n, max_length |-> max, data |-> data]
    <2>1. Filled(sb, came) = [length |-> 0, max_length |-> max, data |-> data]
      <3>1. Filled(sb, came) = [sb EXCEPT !.data = data]
        BY FilledRecord DEF data
      <3> QED
        BY <1>1, <3>1
    <2>2. LengthOf(sb, came) = n /\ Room(sb, size) = max
      BY <1>1, <1>3 DEF LengthOf, Room
    <2>3. WithLength(Filled(sb, came), n) = [length |-> n, max_length |-> max, data |-> data]
      BY <2>1, <1>5 DEF WithLength
    <2> QED
      BY <2>2, <2>3 DEF Received, Buffer, sb, came, n
  <1>7. Written(data, n)
    <2>1. \A i \in 1 .. n : came[i] \in Chars
      BY <1>3
    <2> QED
      BY <2>1, <1>1, <1>2, <1>4, LenFacts DEF Written
  <1>8. Good(Received(size, bytes))
    BY <1>1, <1>2, <1>4, <1>6, <1>7, LenFacts, GoodStrbuf
  <1>9. SubSeq(data, 1, n) = came
    <2>1. /\ SubSeq(data, 1, n) \in Seq(Bytes) /\ Len(SubSeq(data, 1, n)) = n
          /\ \A i \in 1 .. n : SubSeq(data, 1, n)[i] = data[i]
      BY <1>1, <1>2, <1>4, LenFacts
    <2> HIDE DEF data
    <2> DEFINE part == SubSeq(data, 1, n)
    <2>2. part \in Seq(Bytes) /\ Len(part) = Len(came) /\ came \in Seq(Bytes)
      BY <2>1, <1>3, LenFacts
    <2>3. \A i \in 1 .. Len(part) : part[i] = came[i]
      BY <2>1, <1>3, <1>4
    <2> HIDE DEF part
    <2>4. part = came
      BY <2>2, <2>3, SeqEqual
    <2> QED
      BY <2>4 DEF part
  <1>10. Contents(Received(size, bytes)) = SubSeq(data, 1, n)
    <2> DEFINE new == Received(size, bytes)
    <2> HIDE DEF new
    <2>1. new.data = data /\ new.length = n
      BY <1>6 DEF new
    <2>2. Contents(new) = SubSeq(data, 1, n)
      BY <2>1 DEF Contents
    <2> QED
      BY <2>2 DEF new
  <1>11. Received(size, bytes).kind = "strbuf"
    BY <1>6
  <1> QED
    BY <1>8, <1>9, <1>10, <1>11 DEF came, n, max

LEMMA AppendedGood ==
  ASSUME NEW sb, Good(sb), sb.kind = "strbuf", NEW bytes \in Seq(Chars)
  PROVE  Good(Appended(sb, bytes))
  <1> DEFINE d == sb.data
             length == sb.length
             n == ToCopy(sb, Len(bytes) % LEN)
             old == SubSeq(d, 1, length)
             added == SubSeq(bytes, 1, n)
             rest == SubSeq(d, length + n + 1, Len(d))
             data == old \o added \o rest
  <1>1. /\ sb = [kind |-> "strbuf", length |-> length,
                 max_length |-> sb.max_length, data |-> d]
        /\ length \in 0 .. sb.max_length /\ sb.max_length \in 0 .. LEN - 1
        /\ d \in Seq(Bytes) /\ Len(d) = sb.max_length /\ Written(d, length)
    BY StrbufFacts DEF Good
  <1>2. n \in 0 .. sb.max_length - length /\ n <= Len(bytes)
    <2>1. Len(bytes) \in Nat /\ Len(bytes) % LEN \in Nat /\ Len(bytes) % LEN <= Len(bytes)
      BY LenFacts
    <2> QED
      BY <1>1, <2>1, LenFacts DEF ToCopy, Smaller
  <1> HIDE DEF d, length, n
  <1>3. /\ old \in Seq(Bytes) /\ Len(old) = length
        /\ \A i \in 1 .. length : old[i] = d[i]
    BY <1>1, LenFacts
  <1>4. /\ added \in Seq(Chars) /\ added \in Seq(Bytes) /\ Len(added) = n
    BY <1>1, <1>2, LenFacts
  <1>5. rest \in Seq(Bytes) /\ Len(rest) = sb.max_length - length - n
    BY <1>1, <1>2, LenFacts
  <1> HIDE DEF old, added, rest
  <1>6. /\ old \o added \in Seq(Bytes) /\ Len(old \o added) = length + n
        /\ \A i \in 1 .. length + n :
             (old \o added)[i] = IF i <= length THEN old[i] ELSE added[i - length]
    BY <1>3, <1>4, ConcatProperties
  <1>7. /\ data \in Seq(Bytes) /\ Len(data) = sb.max_length
        /\ \A i \in 1 .. length + n : data[i] = (old \o added)[i]
    <2> DEFINE both == old \o added
    <2> HIDE DEF both
    <2>1. both \in Seq(Bytes) /\ Len(both) = length + n
      BY <1>6 DEF both
    <2>2. /\ both \o rest \in Seq(Bytes) /\ Len(both \o rest) = Len(both) + Len(rest)
          /\ \A i \in 1 .. Len(both) + Len(rest) : (both \o rest)[i] =
                IF i <= Len(both) THEN both[i] ELSE rest[i - Len(both)]
      BY <2>1, <1>5, ConcatProperties
    <2>3. data = both \o rest
      BY DEF both
    <2> HIDE DEF data
    <2>4. Len(both) + Len(rest) = sb.max_length /\ length + n <= sb.max_length
      BY <2>1, <1>1, <1>2, <1>5, LenFacts
    <2>5. data \in Seq(Bytes) /\ Len(data) = sb.max_length
      BY <2>2, <2>3, <2>4
    <2>6. \A i \in 1 .. length + n : data[i] = both[i]
      BY <2>1, <2>2, <2>3, <2>4, <1>1, <1>2, LenFacts
    <2> QED
      BY <2>5, <2>6 DEF both
  <1> HIDE DEF data
  <1>8. Written(data, length + n)
    <2>1. ASSUME NEW i \in 1 .. length + n PROVE data[i] # Junk
      <3>1. data[i] = IF i <= length THEN d[i] ELSE added[i - length]
        <4>1. data[i] = (old \o added)[i]
          BY <1>7
        <4>2. (old \o added)[i] = IF i <= length THEN old[i] ELSE added[i - length]
          BY <1>6
        <4>3. i <= length => i \in 1 .. length
          BY <1>1, <1>2, LenFacts
        <4> QED
          BY <4>1, <4>2, <4>3, <1>3
      <3>2. CASE i <= length
        BY <3>1, <3>2, <1>1, LenFacts DEF Written
      <3>3. CASE i > length
        <4>1. i - length \in 1 .. Len(added)
          BY <3>3, <1>1, <1>2, <1>4, LenFacts
        <4>2. added[i - length] \in Chars
          BY <4>1, <1>4
        <4> QED
          BY <4>2, <3>1, <3>3, <1>1, LenFacts
      <3> QED
        BY <3>2, <3>3, <1>1, <1>2, LenFacts
    <2> QED
      BY <2>1, <1>1, <1>2, <1>7, LenFacts DEF Written
  <1>9. Appended(sb, bytes) = [kind |-> "strbuf", length |-> length + n,
                               max_length |-> sb.max_length, data |-> data]
    <2>1. Appended(sb, bytes) = [sb EXCEPT !.length = length + n, !.data = data]
      BY DEF Appended, data, old, added, rest, n, length, d
    <2> QED
      BY <1>1, <2>1
  <1>10. length + n \in Nat /\ length + n <= sb.max_length
    BY <1>1, <1>2, LenFacts
  <1> QED
    BY <1>1, <1>7, <1>8, <1>9, <1>10, LenFacts, GoodStrbuf

LEMMA WithLengthGood ==
  ASSUME NEW sb, Good(sb), sb.kind = "strbuf", NEW length \in Nat,
         Written(sb.data, WithLength(sb, length).length)
  PROVE  Good(WithLength(sb, length))
  <1> DEFINE d == sb.data
             max == sb.max_length
             n == Smaller(max, length % LEN)
  <1>1. /\ sb = [kind |-> "strbuf", length |-> sb.length, max_length |-> max, data |-> d]
        /\ max \in 0 .. LEN - 1 /\ d \in Seq(Bytes) /\ Len(d) = max
    BY StrbufFacts DEF Good
  <1>2. n \in 0 .. max
    BY <1>1, LenFacts DEF Smaller
  <1> HIDE DEF d, n
  <1>3. WithLength(sb, length) = [kind |-> "strbuf", length |-> n,
                                  max_length |-> max, data |-> d]
    BY <1>1 DEF WithLength, n, d
  <1> QED
    BY <1>1, <1>2, <1>3, LenFacts, GoodStrbuf DEF d

\* A buffer that grows keeps what is in it, and is as large as asked, but for the bits of
\* the size above 16.
LEMMA ResizedIs ==
  ASSUME NEW sb, Good(sb), sb.kind = "strbuf", NEW size \in Nat, Grows(sb, size)
  PROVE  /\ Good(Resized(sb, size)) /\ Resized(sb, size).kind = "strbuf"
         /\ Contents(Resized(sb, size)) = Contents(sb)
         /\ Resized(sb, size).max_length = size % LEN
  <1> DEFINE d == sb.data
             length == sb.length
             max == size % LEN
             data == [i \in 1 .. max |-> IF i <= Len(d) THEN d[i] ELSE Junk]
  <1>1. /\ sb = [kind |-> "strbuf", length |-> length,
                 max_length |-> sb.max_length, data |-> d]
        /\ length \in 0 .. sb.max_length /\ sb.max_length \in 0 .. LEN - 1
        /\ d \in Seq(Bytes) /\ Len(d) = sb.max_length /\ Written(d, length)
    BY StrbufFacts DEF Good
  <1>2. max \in 0 .. LEN - 1 /\ max > sb.max_length
    BY LenFacts DEF Grows
  <1> HIDE DEF d, length, max
  <1>3. data \in [1 .. max -> Bytes]
    BY <1>1, <1>2, LenFacts
  <1>4. data \in Seq(Bytes) /\ Len(data) = max
    BY <1>2, <1>3, LenFacts, TuplesAreSequences
  <1>5. \A i \in 1 .. length : data[i] = d[i]
    BY <1>1, <1>2, LenFacts
  <1>6. Written(data, length)
    BY <1>1, <1>2, <1>4, <1>5, LenFacts DEF Written
  <1>7. Smaller(length, max) = length
    BY <1>1, <1>2, LenFacts DEF Smaller
  <1>8. Resized(sb, size) = [kind |-> "strbuf", length |-> length,
                             max_length |-> max, data |-> data]
    <2>1. Resized(sb, size) = [sb EXCEPT !.length = Smaller(length, max),
                                         !.max_length = max, !.data = data]
      BY DEF Resized, data, d, length, max
    <2> HIDE DEF data
    <2> QED
      BY <2>1, <1>1, <1>7
  <1> HIDE DEF data
  <1>9. Good(Resized(sb, size))
    BY <1>1, <1>2, <1>4, <1>6, <1>8, LenFacts, GoodStrbuf
  <1>10. SubSeq(data, 1, length) = SubSeq(d, 1, length)
    <2> DEFINE new == SubSeq(data, 1, length)
               old == SubSeq(d, 1, length)
    <2>1. /\ new \in Seq(Bytes) /\ Len(new) = length
          /\ \A i \in 1 .. length : new[i] = data[i]
      BY <1>1, <1>2, <1>4, LenFacts
    <2>2. /\ old \in Seq(Bytes) /\ Len(old) = length
          /\ \A i \in 1 .. length : old[i] = d[i]
      BY <1>1, LenFacts
    <2> HIDE DEF new, old
    <2>3. new = old
      BY <2>1, <2>2, <1>5, SeqEqual
    <2> QED
      BY <2>3 DEF new, old
  <1>11. Contents(Resized(sb, size)) = Contents(sb)
    <2> DEFINE new == Resized(sb, size)
    <2> HIDE DEF new
    <2>1. new.data = data /\ new.length = length
      BY <1>8 DEF new
    <2> QED
      BY <2>1, <1>10 DEF Contents, new, d, length
  <1>12. Resized(sb, size).kind = "strbuf" /\ Resized(sb, size).max_length = max
    BY <1>8
  <1> QED
    BY <1>9, <1>11, <1>12 DEF max

\* The block rtl_realloc gives.
LEMMA ReallocGood ==
  ASSUME NEW b, Good(b), b.kind = "block", NEW size \in Nat
  PROVE  LET data == [i \in 1 .. size |-> IF i <= Len(b.data) THEN b.data[i] ELSE Junk]
         IN  Good([b EXCEPT !.data = data])
  <1> DEFINE d == b.data
             data == [i \in 1 .. size |-> IF i <= Len(d) THEN d[i] ELSE Junk]
  <1>1. b = [kind |-> "block", data |-> d] /\ d \in Seq(Bytes)
    BY BlockFacts DEF Good
  <1>2. data \in [1 .. size -> Bytes]
    BY <1>1, LenFacts
  <1> HIDE DEF data, d
  <1>3. data \in Seq(Bytes)
    BY <1>2, TuplesAreSequences
  <1>4. [b EXCEPT !.data = data] = [kind |-> "block", data |-> data]
    BY <1>1
  <1> QED
    BY <1>3, <1>4, GoodBlock DEF data, d

-----------------------------------------------------------------------------
\* Addresses.

\* On both machines the module reads in an address what the kernel reads.
LEMMA ReadBack ==
  ASSUME machine \in {"i386", "mips"}, NEW sa \in SockaddrObjects
  PROVE  AddressIn(sa) = <<sockaddr_get_ip(sa), sockaddr_get_port(sa)>>
  <1> DEFINE a == sa.s_addr
             b == sa.sin_port
  <1>1. a \in [1 .. 4 -> 0 .. BYTE - 1] /\ b \in [1 .. 2 -> 0 .. BYTE - 1]
    BY DEF SockaddrObjects
  <1> HIDE DEF a, b
  <1>2. CASE machine = "mips"
    BY <1>2 DEF AddressIn, sockaddr_get_ip, sockaddr_get_port, InMemory, rtl_htonl,
                rtl_htons
  <1>3. CASE machine = "i386"
    <2>1. /\ Reverse(a) \in [1 .. 4 -> 0 .. BYTE - 1] /\ Reverse(Reverse(a)) = a
          /\ Reverse(b) \in [1 .. 2 -> 0 .. BYTE - 1] /\ Reverse(Reverse(b)) = b
      BY <1>1, ReversedIs
    <2>2. Split4(Join4(Reverse(a))) = Reverse(a) /\ Split2(Join2(Reverse(b))) = Reverse(b)
      BY <2>1, JoinsFour, JoinsTwo
    <2>3. /\ rtl_htonl(Join4(Reverse(a))) = Join4(a)
          /\ rtl_htons(Join2(Reverse(b))) = Join2(b)
      BY <1>3, <2>1, <2>2 DEF rtl_htonl, rtl_htons
    <2> QED
      BY <1>3, <2>3 DEF AddressIn, sockaddr_get_ip, sockaddr_get_port, InMemory, a, b
  <1> QED
    BY <1>2, <1>3

LEMMA SockaddrIs ==
  ASSUME machine \in {"i386", "mips"}, NEW ip \in 0 .. WORD - 1, NEW port \in Nat
  PROVE  /\ Sockaddr(ip, port) \in SockaddrObjects
         /\ AddressIn(Sockaddr(ip, port)) = <<ip, port % SHORT>>
  <1> DEFINE sa == Sockaddr(ip, port)
  <1>1. ip \in Nat /\ ip % WORD = ip
    BY ByteFacts
  <1>2. /\ Split4(ip) \in [1 .. 4 -> 0 .. BYTE - 1] /\ Join4(Split4(ip)) = ip
        /\ Split2(port) \in [1 .. 2 -> 0 .. BYTE - 1] /\ Join2(Split2(port)) = port % SHORT
    BY <1>1, SplitsFour, SplitsTwo
  <1>3. sa.s_addr = Split4(ip) /\ sa.sin_port = Split2(port)
    <2>1. CASE machine = "mips"
      BY <2>1 DEF Sockaddr, InMemory, rtl_htonl, rtl_htons
    <2>2. CASE machine = "i386"
      <3> DEFINE a == Split4(ip)
                 b == Split2(port)
      <3>1. /\ Reverse(a) \in [1 .. 4 -> 0 .. BYTE - 1] /\ Reverse(Reverse(a)) = a
            /\ Reverse(b) \in [1 .. 2 -> 0 .. BYTE - 1] /\ Reverse(Reverse(b)) = b
        BY <1>2, ReversedIs
      <3>2. Split4(Join4(Reverse(a))) = Reverse(a) /\ Split2(Join2(Reverse(b))) = Reverse(b)
        BY <3>1, JoinsFour, JoinsTwo
      <3> QED
        BY <2>2, <3>1, <3>2 DEF Sockaddr, InMemory, rtl_htonl, rtl_htons
    <2> QED
      BY <2>1, <2>2
  <1>4. sa = [kind |-> "sockaddr", s_addr |-> sa.s_addr, sin_port |-> sa.sin_port]
    BY DEF Sockaddr
  <1>5. sa \in SockaddrObjects
    BY <1>2, <1>3, <1>4 DEF SockaddrObjects
  <1> QED
    BY <1>2, <1>3, <1>5 DEF AddressIn

\* An address the kernel writes is read again as it was.
LEMMA WithAddressIs ==
  ASSUME NEW sa \in SockaddrObjects, NEW address \in Addresses
  PROVE  /\ WithAddress(sa, address) \in SockaddrObjects
         /\ AddressIn(WithAddress(sa, address)) = address
  <1> DEFINE new == WithAddress(sa, address)
  <1>1. /\ address[1] \in 0 .. WORD - 1 /\ address[2] \in 0 .. SHORT - 1
        /\ address = <<address[1], address[2]>>
    BY DEF Addresses
  <1>2. /\ address[1] \in Nat /\ address[1] % WORD = address[1]
        /\ address[2] \in Nat /\ address[2] % SHORT = address[2]
    BY <1>1, ByteFacts
  <1>3. /\ Split4(address[1]) \in [1 .. 4 -> 0 .. BYTE - 1]
        /\ Join4(Split4(address[1])) = address[1]
        /\ Split2(address[2]) \in [1 .. 2 -> 0 .. BYTE - 1]
        /\ Join2(Split2(address[2])) = address[2]
    BY <1>2, SplitsFour, SplitsTwo
  <1>4. /\ new \in SockaddrObjects
        /\ new.s_addr = Split4(address[1]) /\ new.sin_port = Split2(address[2])
    BY <1>3 DEF SockaddrObjects, WithAddress
  <1> QED
    BY <1>1, <1>3, <1>4 DEF AddressIn

LEMMA AddressInIs ==
  ASSUME NEW sa \in SockaddrObjects
  PROVE  AddressIn(sa) \in Addresses
  BY JoinsFour, JoinsTwo DEF SockaddrObjects, AddressIn, Addresses

LEMMA SockaddrFacts ==
  ASSUME NEW sa \in Objects, sa.kind = "sockaddr"
  PROVE  sa \in SockaddrObjects
  BY DEF Objects, BlockObjects, StrbufObjects, FdsetObjects

LEMMA SockaddrGood ==
  ASSUME NEW sa \in SockaddrObjects
  PROVE  Good(sa) /\ sa.kind = "sockaddr"
  BY DEF Good, Objects, SockaddrObjects

LEMMA FdsetGood ==
  ASSUME NEW set \in SUBSET Fds
  PROVE  /\ Good([kind |-> "fdset", set |-> set])
         /\ \A object \in Objects : object.kind = "fdset" =>
              /\ object.set \subseteq Fds
              /\ [object EXCEPT !.set = set] = [kind |-> "fdset", set |-> set]
  <1>1. Good([kind |-> "fdset", set |-> set])
    BY DEF Good, Objects, FdsetObjects
  <1>2. ASSUME NEW object \in Objects, object.kind = "fdset"
        PROVE  /\ object.set \subseteq Fds
               /\ [object EXCEPT !.set = set] = [kind |-> "fdset", set |-> set]
    <2>1. object \in FdsetObjects
      BY <1>2 DEF Objects, BlockObjects, StrbufObjects, SockaddrObjects
    <2> QED
      BY <2>1 DEF FdsetObjects
  <1> QED
    BY <1>1, <1>2

-----------------------------------------------------------------------------
\* The inductive invariant.  It is TypeOK, NothingMadeUp and Owned: what is in a buffer is
\* good because what is copied and sent was, and a block given back is not used again
\* because the module has all there are.
Datagrams == [src : Addresses, dst : Addresses, bytes : Seq(Chars)]

HeapOK ==
  /\ heap \in [Ptrs -> Objects \cup {NoBlock}]
  /\ \A p \in Ptrs : heap[p] = NoBlock \/ Good(heap[p])
  /\ held = Blocks

RestOK ==
  /\ machine \in {"i386", "mips"}
  /\ fds \in [Fds -> Files \cup {Closed}]
  /\ net \subseteq Datagrams

Ends == {"no", "exit", "trap", "panic", "undefined"}

Inv == TypeOK /\ NothingMadeUp /\ Owned

LEMMA InvIs ==
  ASSUME RestOK, HeapOK, ended \in Ends
  PROVE  Inv
  <1>1. held \subseteq Ptrs /\ \A p \in Blocks : heap[p] # NoBlock
    BY DEF HeapOK, Blocks, Free
  <1> QED
    BY <1>1 DEF Inv, RestOK, HeapOK, TypeOK, NothingMadeUp, Owned, Datagrams, Ends, Blocks,
            Free, Good

LEMMA InvIsNext ==
  ASSUME RestOK', HeapOK', ended' \in Ends
  PROVE  Inv'
  <1>1. held' \subseteq Ptrs /\ \A p \in Blocks' : heap'[p] # NoBlock
    BY DEF HeapOK, Blocks, Free
  <1> QED
    BY <1>1 DEF Inv, RestOK, HeapOK, TypeOK, NothingMadeUp, Owned, Datagrams, Ends, Blocks,
            Free, Good

LEMMA InvGives ==
  ASSUME Inv, ended = "no"
  PROVE  RestOK /\ HeapOK
  <1>1. ASSUME NEW p \in Ptrs, heap[p] # NoBlock PROVE Good(heap[p])
    BY <1>1 DEF Inv, TypeOK, NothingMadeUp, Blocks, Free, Good
  <1> QED
    BY <1>1 DEF Inv, RestOK, HeapOK, TypeOK, Owned, Datagrams

LEMMA InitInv == Init => Inv
  <1> SUFFICES ASSUME Init PROVE Inv
    OBVIOUS
  <1>1. HeapOK
    BY DEF Init, HeapOK, Blocks, Free
  <1>2. RestOK
    BY DEF Init, RestOK
  <1> QED
    BY <1>1, <1>2, InvIs DEF Init, Ends

\* What is held is good.
LEMMA HeldIsGood ==
  ASSUME HeapOK, NEW p \in held
  PROVE  p \in Ptrs /\ heap[p] \in Objects /\ Good(heap[p]) /\ heap[p] # NoBlock
  BY DEF HeapOK, Blocks, Free, Good

LEMMA GoodIsObject ==
  ASSUME NEW object, Good(object)
  PROVE  object \in Objects /\ object # NoBlock
  BY ThunksAssumption DEF Good

LEMMA ObtainsHeap ==
  ASSUME HeapOK, NEW object, Good(object), NEW r, Obtains(object, r)
  PROVE  HeapOK' /\ r \in Ptrs /\ r \notin held /\ heap'[r] = object
  <1>1. r \in Ptrs /\ heap[r] = NoBlock /\ r \notin held
    BY DEF Obtains, HeapOK, Blocks, Free
  <1>2. heap' \in [Ptrs -> Objects \cup {NoBlock}] /\ heap'[r] = object
        /\ \A p \in Ptrs \ {r} : heap'[p] = heap[p]
    BY <1>1, GoodIsObject DEF Obtains, HeapOK
  <1>3. held' = held \cup {r}
    BY DEF Obtains
  <1>4. held' = Blocks'
    BY <1>1, <1>2, <1>3, GoodIsObject DEF HeapOK, Blocks, Free
  <1>5. \A p \in Ptrs : heap'[p] = NoBlock \/ Good(heap'[p])
    BY <1>1, <1>2 DEF HeapOK
  <1> QED
    BY <1>1, <1>2, <1>4, <1>5 DEF HeapOK

LEMMA MovesHeap ==
  ASSUME HeapOK, NEW p \in held, NEW object, Good(object), NEW r, Moves(p, object, r)
  PROVE  HeapOK' /\ r \in Ptrs /\ heap'[r] = object /\ held' = (held \ {p}) \cup {r}
  <1>1. p \in Ptrs /\ r \in Ptrs
    BY HeldIsGood DEF Moves, Free
  <1>2. heap' \in [Ptrs -> Objects \cup {NoBlock}] /\ heap'[r] = object
    BY <1>1, GoodIsObject DEF Moves, HeapOK
  <1>3. \A q \in Ptrs \ {r} : heap'[q] = IF q = p THEN NoBlock ELSE heap[q]
    BY DEF Moves
  <1>4. held' = (held \ {p}) \cup {r}
    BY DEF Moves
  <1>5. held' = Blocks'
    BY <1>1, <1>2, <1>3, <1>4, GoodIsObject DEF HeapOK, Blocks, Free
  <1>6. \A q \in Ptrs : heap'[q] = NoBlock \/ Good(heap'[q])
    BY <1>1, <1>2, <1>3 DEF HeapOK
  <1> QED
    BY <1>1, <1>2, <1>4, <1>5, <1>6 DEF HeapOK

LEMMA ReleasesHeap ==
  ASSUME HeapOK, NEW p \in held \cup {NULL}, Releases(p)
  PROVE  HeapOK'
  <1>1. heap' = [q \in Ptrs |-> IF q = p THEN NoBlock ELSE heap[q]]
        /\ held' = held \ {p}
    BY DEF Releases
  <1>2. heap' \in [Ptrs -> Objects \cup {NoBlock}]
    BY <1>1 DEF HeapOK
  <1>3. held' = Blocks'
    BY <1>1, ThunksAssumption DEF HeapOK, Blocks, Free
  <1>4. \A q \in Ptrs : heap'[q] = NoBlock \/ Good(heap'[q])
    BY <1>1 DEF HeapOK
  <1> QED
    BY <1>2, <1>3, <1>4 DEF HeapOK

LEMMA ChangesHeap ==
  ASSUME HeapOK, NEW p \in held, NEW object, Good(object),
         heap' = [heap EXCEPT ![p] = object], held' = held
  PROVE  HeapOK' /\ heap'[p] = object
  <1>1. p \in Ptrs /\ heap[p] # NoBlock
    BY HeldIsGood
  <1>2. heap' \in [Ptrs -> Objects \cup {NoBlock}] /\ heap'[p] = object
        /\ \A q \in Ptrs \ {p} : heap'[q] = heap[q]
    BY <1>1, GoodIsObject DEF HeapOK
  <1>3. held' = Blocks'
    BY <1>1, <1>2, GoodIsObject DEF HeapOK, Blocks, Free
  <1>4. \A q \in Ptrs : heap'[q] = NoBlock \/ Good(heap'[q])
    BY <1>2 DEF HeapOK
  <1> QED
    BY <1>2, <1>3, <1>4 DEF HeapOK

LEMMA SameHeap ==
  ASSUME HeapOK, heap' = heap, held' = held
  PROVE  HeapOK'
  BY DEF HeapOK, Blocks, Free

\* A step that leaves the descriptors, the network and the process.
LEMMA HeapStep ==
  ASSUME Inv, ended = "no", HeapOK', UNCHANGED <<machine, fds, net, ended>>
  PROVE  Inv'
  <1>1. RestOK
    BY InvGives
  <1>2. RestOK'
    BY <1>1 DEF RestOK
  <1>3. ended' \in Ends
    BY DEF Ends
  <1> QED
    BY <1>2, <1>3, InvIsNext

LEMMA TrapsInv ==
  ASSUME Inv, ended = "no", ended' \in Ends,
         UNCHANGED <<machine, heap, held, fds, net>>
  PROVE  Inv'
  <1>1. RestOK /\ HeapOK
    BY InvGives
  <1>2. RestOK'
    BY <1>1 DEF RestOK
  <1>3. HeapOK'
    BY <1>1, SameHeap
  <1> QED
    BY <1>2, <1>3, InvIsNext

\* A step that leaves the memory.
LEMMA RestStep ==
  ASSUME Inv, ended = "no", UNCHANGED <<machine, heap, held, ended>>,
         fds' \in [Fds -> Files \cup {Closed}], net' \subseteq Datagrams
  PROVE  Inv'
  <1>1. RestOK /\ HeapOK
    BY InvGives
  <1>2. RestOK'
    BY <1>1 DEF RestOK
  <1>3. HeapOK'
    BY <1>1, SameHeap
  <1>4. ended' \in Ends
    BY DEF Ends
  <1> QED
    BY <1>2, <1>3, <1>4, InvIsNext

-----------------------------------------------------------------------------
\* Every routine, called by a module that keeps the rules, keeps the invariant.

LEMMA ObtainsOrTrapsInv ==
  ASSUME Inv, ended = "no", NEW object, Good(object), NEW r, ObtainsOrTraps(object, r)
  PROVE  Inv'
  <1>1. CASE Obtains(object, r) /\ Unchecked /\ UNCHANGED <<fds, net, ended>>
    BY <1>1, InvGives, ObtainsHeap, HeapStep DEF Unchecked
  <1>2. CASE Traps
    BY <1>2, TrapsInv DEF Traps, Ends
  <1> QED
    BY <1>1, <1>2 DEF ObtainsOrTraps

LEMMA FreeInv ==
  ASSUME Inv, ended = "no", NEW p \in held \cup {NULL}, RtlFree(p)
  PROVE  Inv'
  <1>1. Releases(p) /\ Unchecked /\ UNCHANGED <<fds, net, ended>>
    BY DEF RtlFree
  <1> QED
    BY <1>1, InvGives, ReleasesHeap, HeapStep DEF Unchecked

LEMMA AllocInv ==
  ASSUME Inv, ended = "no", NEW size \in Nat, NEW r, RtlAlloc(size, r)
  PROVE  Inv'
  <1>1. Unchecked /\ UNCHANGED <<fds, net, ended>>
    BY DEF RtlAlloc
  <1>2. CASE Obtains(Block(size), r)
    BY <1>1, <1>2, AllocatedGood, InvGives, ObtainsHeap, HeapStep DEF Unchecked
  <1>3. CASE Refused(r)
    BY <1>1, <1>3, TrapsInv DEF Unchecked, Refused, Ends
  <1> QED
    BY <1>2, <1>3 DEF RtlAlloc

LEMMA ReallocInv ==
  ASSUME Inv, ended = "no", NEW p \in Holds("block") \cup {NULL}, NEW size \in Nat, NEW r,
         RtlRealloc(p, size, r)
  PROVE  Inv'
  <1>1. Unchecked /\ UNCHANGED <<fds, net, ended>>
    BY DEF RtlRealloc
  <1>2. HeapOK
    BY InvGives
  <1>3. CASE Obtains(Block(size), r)
    BY <1>1, <1>2, <1>3, AllocatedGood, ObtainsHeap, HeapStep DEF Unchecked
  <1>4. CASE Refused(r)
    BY <1>1, <1>4, TrapsInv DEF Unchecked, Refused, Ends
  <1>5. CASE p # NULL /\ Releases(p)
    <2>1. p \in held
      BY <1>5 DEF Holds
    <2> QED
      BY <1>1, <1>2, <1>5, <2>1, ReleasesHeap, HeapStep DEF Unchecked
  <1> DEFINE data == [i \in 1 .. size |->
                        IF i <= Len(heap[p].data) THEN heap[p].data[i] ELSE Junk]
             object == [heap[p] EXCEPT !.data = data]
  <1>6. CASE p # NULL /\ Moves(p, object, r)
    <2>1. p \in held /\ heap[p].kind = "block"
      BY <1>6 DEF Holds
    <2>2. Good(object)
      BY <2>1, <1>2, HeldIsGood, ReallocGood
    <2> HIDE DEF object
    <2>3. HeapOK'
      BY <1>2, <1>6, <2>1, <2>2, MovesHeap
    <2> QED
      BY <1>1, <2>3, HeapStep DEF Unchecked
  <1> QED
    BY <1>3, <1>4, <1>5, <1>6 DEF RtlRealloc

LEMMA ChangesInv ==
  ASSUME Inv, ended = "no", NEW p \in held, NEW object, Good(object), Changes(p, object)
  PROVE  Inv'
  BY InvGives, ChangesHeap, HeapStep DEF Changes, Unchecked

LEMMA MemsetInv ==
  ASSUME Inv, ended = "no", NEW p \in Memory, NEW byte \in {"zero", "one"},
         NEW size \in Nat, size <= Len(heap[p].data), RtlMemset(p, byte, size)
  PROVE  Inv'
  <1>1. p \in held /\ heap[p].kind \in {"block", "strbuf"}
    BY DEF Memory, Holds
  <1>2. Good(heap[p])
    BY <1>1, InvGives, HeldIsGood
  <1> DEFINE object == Filled(heap[p], [i \in 1 .. size |-> byte])
  <1>3. Good(object)
    BY <1>1, <1>2, MemsetGood
  <1>4. Changes(p, object)
    BY DEF RtlMemset
  <1> HIDE DEF object
  <1> QED
    BY <1>1, <1>3, <1>4, ChangesInv

LEMMA MemcpyInv ==
  ASSUME Inv, ended = "no", NEW dest \in Memory, NEW src \in Memory, NEW size \in Nat,
         size <= Len(heap[dest].data), Written(heap[src].data, size),
         RtlMemcpy(dest, src, size)
  PROVE  Inv'
  <1>1. /\ dest \in held /\ heap[dest].kind \in {"block", "strbuf"}
        /\ src \in held /\ heap[src].kind \in {"block", "strbuf"}
    BY DEF Memory, Holds
  <1>2. Good(heap[dest]) /\ heap[src] \in Objects
    BY <1>1, InvGives, HeldIsGood
  <1>3. heap[src].data \in Seq(Bytes)
    BY <1>1, <1>2, BlockFacts, StrbufFacts
  <1> DEFINE object == Filled(heap[dest], SubSeq(heap[src].data, 1, size))
  <1>4. Good(object)
    BY <1>1, <1>2, <1>3, MemcpyGood
  <1>5. Changes(dest, object)
    BY DEF RtlMemcpy
  <1> HIDE DEF object
  <1> QED
    BY <1>1, <1>4, <1>5, ChangesInv

LEMMA UsesMemoryInv ==
  ASSUME Inv, ended = "no", UsesMemory
  PROVE  Inv'
  <1>1. ASSUME NEW size \in Sizes, NEW r \in Given, RtlAlloc(size, r) PROVE Inv'
    BY <1>1, ThunksAssumption, AllocInv
  <1>2. ASSUME NEW p \in Holds("block") \cup {NULL}, NEW size \in Sizes \cup {0},
               NEW r \in Given, RtlRealloc(p, size, r)
        PROVE  Inv'
    BY <1>2, ThunksAssumption, ReallocInv
  <1>3. ASSUME NEW p \in Memory, NEW size \in Sizes, size <= Len(heap[p].data),
               RtlMemset(p, "zero", size)
        PROVE  Inv'
    BY <1>3, ThunksAssumption, MemsetInv
  <1>4. ASSUME NEW dest \in Memory, NEW src \in Memory, NEW size \in Sizes,
               size <= Len(heap[dest].data), Written(heap[src].data, size),
               RtlMemcpy(dest, src, size)
        PROVE  Inv'
    BY <1>4, ThunksAssumption, MemcpyInv
  <1> QED
    BY <1>1, <1>2, <1>3, <1>4 DEF UsesMemory

LEMMA ResizeInv ==
  ASSUME Inv, ended = "no", NEW p \in Holds("strbuf"), NEW size \in Nat, NEW r,
         RtlStrbufResize(p, size, r)
  PROVE  Inv'
  <1>1. p \in held /\ heap[p].kind = "strbuf" /\ HeapOK /\ Good(heap[p])
    BY InvGives, HeldIsGood DEF Holds
  <1>2. CASE Traps
    BY <1>2, TrapsInv DEF Traps, Ends
  <1>3. CASE /\ Grows(heap[p], size) /\ Moves(p, Resized(heap[p], size), r)
             /\ UNCHANGED <<machine, fds, net, ended>>
    <2>1. Good(Resized(heap[p], size))
      BY <1>1, <1>3, ResizedIs
    <2> QED
      BY <1>1, <1>3, <2>1, MovesHeap, HeapStep
  <1>4. CASE UNCHANGED <<heap, held, machine, fds, net, ended>>
    BY <1>4, TrapsInv DEF Ends
  <1> QED
    BY <1>2, <1>3, <1>4 DEF RtlStrbufResize

LEMMA PrintInv ==
  ASSUME Inv, ended = "no", NEW p \in Holds("strbuf"), NEW text \in Texts,
         RtlPrintSb(p, text)
  PROVE  Inv'
  <1>1. p \in held /\ heap[p].kind = "strbuf" /\ Good(heap[p])
    BY InvGives, HeldIsGood DEF Holds
  <1>2. Good(Appended(heap[p], text))
    BY <1>1, ThunksAssumption, AppendedGood
  <1> QED
    BY <1>1, <1>2, ChangesInv DEF RtlPrintSb

LEMMA SetLengthInv ==
  ASSUME Inv, ended = "no", NEW p \in Holds("strbuf"), NEW length \in Nat,
         Written(heap[p].data, WithLength(heap[p], length).length),
         RtlStrbufSetLength(p, length)
  PROVE  Inv'
  <1>1. p \in held /\ heap[p].kind = "strbuf" /\ Good(heap[p])
    BY InvGives, HeldIsGood DEF Holds
  <1>2. Good(WithLength(heap[p], length))
    BY <1>1, WithLengthGood
  <1> QED
    BY <1>1, <1>2, ChangesInv DEF RtlStrbufSetLength

LEMMA UsesBuffersInv ==
  ASSUME Inv, ended = "no", UsesBuffers
  PROVE  Inv'
  <1>1. ASSUME NEW size \in Sizes, NEW r \in Given, RtlStrbufAlloc(size, r) PROVE Inv'
    BY <1>1, ThunksAssumption, AllocatedGood, ObtainsOrTrapsInv DEF RtlStrbufAlloc
  <1>2. ASSUME NEW p \in Holds("strbuf"), RtlStrbufFree(p) PROVE Inv'
    BY <1>2, FreeInv DEF RtlStrbufFree, Holds
  <1>3. ASSUME NEW p \in Holds("strbuf"), NEW size \in Sizes, NEW r \in Given,
               RtlStrbufResize(p, size, r)
        PROVE  Inv'
    BY <1>3, ThunksAssumption, ResizeInv
  <1>4. ASSUME NEW p \in Holds("strbuf"), NEW text \in Texts, RtlPrintSb(p, text)
        PROVE  Inv'
    BY <1>4, PrintInv
  <1>5. ASSUME NEW p \in Holds("strbuf"), NEW length \in Sizes \cup {0},
               Written(heap[p].data, WithLength(heap[p], length).length),
               RtlStrbufSetLength(p, length)
        PROVE  Inv'
    BY <1>5, ThunksAssumption, SetLengthInv
  <1> QED
    BY <1>1, <1>2, <1>3, <1>4, <1>5 DEF UsesBuffers

\* A descriptor that is open changes its mode, its address or what it is.
FileKinds == {"file", "stream", "dgram", "raw", "listening", "connected"}

LEMMA FileUpdates ==
  ASSUME NEW f \in Files
  PROVE  /\ f.kind \in FileKinds /\ f.flags \subseteq Flags
         /\ f.bound \in Addresses \cup {NoAddress}
         /\ \A a \in Addresses \cup {NoAddress} : [f EXCEPT !.bound = a] \in Files
         /\ \A k \in FileKinds : [f EXCEPT !.kind = k] \in Files
         /\ \A flags \in SUBSET Flags :
              /\ [f EXCEPT !.flags = flags] \in Files
              /\ [f EXCEPT !.flags = flags].flags = flags
  BY DEF Files, FileKinds

LEMMA OpenIs ==
  ASSUME RestOK, NEW fd, Open(fd)
  PROVE  fd \in Fds /\ fds[fd] \in Files
  BY DEF RestOK, Open

LEMMA FileIs ==
  ASSUME NEW kind \in FileKinds, NEW flags \in SUBSET Flags
  PROVE  File(kind, flags) \in Files
  BY DEF File, Files, FileKinds

LEMMA FdsUpdate ==
  ASSUME RestOK, NEW fd \in Fds, NEW f \in Files \cup {Closed}
  PROVE  [fds EXCEPT ![fd] = f] \in [Fds -> Files \cup {Closed}]
  BY DEF RestOK

LEMMA OpensOrFailsInv ==
  ASSUME Inv, ended = "no", NEW file \in Files, NEW r, OpensOrFails(file, r)
  PROVE  Inv'
  <1>1. RestOK
    BY InvGives
  <1>2. fds' \in [Fds -> Files \cup {Closed}]
    BY <1>1, FdsUpdate DEF OpensOrFails, RestOK
  <1>3. UNCHANGED <<machine, heap, held, ended>> /\ net' \subseteq Datagrams
    BY <1>1 DEF OpensOrFails, Unchecked, RestOK
  <1> QED
    BY <1>2, <1>3, RestStep

LEMMA FailingInv ==
  ASSUME Inv, ended = "no", NEW r, Failing(r)
  PROVE  Inv'
  BY TrapsInv DEF Failing, Unchecked, Ends

LEMMA ReadInv ==
  ASSUME Inv, ended = "no", NEW fd, NEW size \in Nat, NEW r, IoRead(fd, size, r)
  PROVE  Inv'
  <1>1. CASE Traps
    BY <1>1, TrapsInv DEF Traps, Ends
  <1>2. ASSUME NEW bytes \in Texts, Obtains(Received(size, bytes), r),
               UNCHANGED <<machine, fds, net, ended>>
        PROVE  Inv'
    <2>1. Good(Received(size, bytes))
      BY ThunksAssumption, ReceivedIs
    <2> QED
      BY <1>2, <2>1, InvGives, ObtainsHeap, HeapStep
  <1>3. CASE /\ r \in Free /\ held' = held \cup {r} /\ ended' = "undefined"
             /\ UNCHANGED <<machine, heap, fds, net>>
    BY <1>3 DEF Inv, TypeOK, NothingMadeUp, Owned, Blocks, Free
  <1> QED
    BY <1>1, <1>2, <1>3 DEF IoRead

LEMMA CloseInv ==
  ASSUME Inv, ended = "no", NEW fd, IoClose(fd)
  PROVE  Inv'
  <1>1. RestOK
    BY InvGives
  <1>2. fds' \in [Fds -> Files \cup {Closed}]
    BY <1>1 DEF IoClose, RestOK
  <1>3. UNCHANGED <<machine, heap, held, ended>> /\ net' \subseteq Datagrams
    BY <1>1 DEF IoClose, Unchecked, RestOK
  <1> QED
    BY <1>2, <1>3, RestStep

LEMMA WritesInv ==
  ASSUME Inv, ended = "no", NEW fd, NEW p, NEW r, Writes(fd, p, r)
  PROVE  Inv'
  BY TrapsInv DEF Writes, Unchecked, Ends

LEMMA IoctlInv ==
  ASSUME Inv, ended = "no", NEW fd, NEW p \in Holds("block"), NEW r, IoIoctl(fd, p, r)
  PROVE  Inv'
  <1>1. p \in Memory /\ p \in held /\ heap[p].kind = "block"
    BY DEF Memory, Holds
  <1>2. heap[p].data \in Seq(Bytes)
    BY <1>1, InvGives, HeldIsGood, BlockFacts
  <1>3. Len(heap[p].data) \in Nat
    BY <1>2
  <1>4. ASSUME NEW byte \in {"zero", "one"}, RtlMemset(p, byte, Len(heap[p].data))
        PROVE  Inv'
    BY <1>1, <1>3, <1>4, MemsetInv
  <1> QED
    BY <1>4, FailingInv DEF IoIoctl

LEMMA UsesFilesInv ==
  ASSUME Inv, ended = "no", UsesFiles
  PROVE  Inv'
  <1>1. File("file", {"O_APPEND"}) \in Files
    BY FileIs DEF FileKinds, Flags
  <1>2. ASSUME NEW r \in AnyFd, IoOpen({"O_APPEND"}, r) PROVE Inv'
    BY <1>1, <1>2, OpensOrFailsInv DEF IoOpen
  <1>3. ASSUME NEW fd \in AnyFd, NEW size \in Sizes, NEW r \in Given, IoRead(fd, size, r)
        PROVE  Inv'
    BY <1>3, ThunksAssumption, ReadInv
  <1> QED
    BY <1>2, <1>3, WritesInv, CloseInv, IoctlInv DEF UsesFiles

LEMMA SocketCreateInv ==
  ASSUME Inv, ended = "no", NEW type, NEW r, SocketCreate(type, r)
  PROVE  Inv'
  <1>1. CASE type \in DOMAIN SocketType
    <2>1. SocketType[type] \in FileKinds
      BY <1>1 DEF SocketType, FileKinds
    <2>2. File(SocketType[type], {}) \in Files
      BY <2>1, FileIs
    <2> QED
      BY <1>1, <2>2, OpensOrFailsInv DEF SocketCreate
  <1>2. CASE type \notin DOMAIN SocketType
    BY <1>2, FailingInv DEF SocketCreate
  <1> QED
    BY <1>1, <1>2

\* The flags F_SETFL is given are flags.
LEMMA NewFlagsAre ==
  ASSUME RestOK, NEW fd, NEW blocking
  PROVE  NewFlags(fd, blocking) \in SUBSET Flags
  <1>1. Open(fd) => fds[fd].flags \subseteq Flags
    BY OpenIs, FileUpdates
  <1> QED
    BY <1>1 DEF NewFlags, Flags

LEMMA SetBlockingInv ==
  ASSUME Inv, ended = "no", NEW fd, NEW blocking, NEW r, SocketSetBlocking(fd, blocking, r)
  PROVE  Inv'
  <1>1. RestOK
    BY InvGives
  <1>2. UNCHANGED <<machine, heap, held, ended>> /\ net' \subseteq Datagrams
    BY <1>1 DEF SocketSetBlocking, RestOK
  <1>3. CASE Open(fd) /\ fds' = [fds EXCEPT ![fd].flags = NewFlags(fd, blocking)]
    <2>1. fd \in Fds /\ [fds[fd] EXCEPT !.flags = NewFlags(fd, blocking)] \in Files
      BY <1>1, <1>3, OpenIs, FileUpdates, NewFlagsAre
    <2>2. fds' \in [Fds -> Files \cup {Closed}]
      BY <1>1, <1>3, <2>1, FdsUpdate
    <2> QED
      BY <1>2, <2>2, RestStep
  <1>4. CASE UNCHANGED fds
    BY <1>1, <1>2, <1>4, RestStep DEF RestOK
  <1> QED
    BY <1>3, <1>4 DEF SocketSetBlocking

LEMMA UsesModesInv ==
  ASSUME Inv, ended = "no", UsesModes
  PROVE  Inv'
  <1>1. File("file", {"O_APPEND"}) \in Files
    BY FileIs DEF FileKinds, Flags
  <1>2. ASSUME NEW r \in AnyFd, IoOpen({"O_APPEND"}, r) PROVE Inv'
    BY <1>1, <1>2, OpensOrFailsInv DEF IoOpen
  <1> QED
    BY <1>2, SocketCreateInv, CloseInv, SetBlockingInv DEF UsesModes

LEMMA UsesAddressesInv ==
  ASSUME Inv, ended = "no", UsesAddresses
  PROVE  Inv'
  <1>1. PICK ip \in Ips, port \in Ports, r \in Given : SockaddrCreate(ip, port, r)
    BY DEF UsesAddresses
  <1>2. Good(Sockaddr(ip, port))
    BY InvGives, ThunksAssumption, SockaddrIs, SockaddrGood DEF RestOK
  <1> QED
    BY <1>1, <1>2, ObtainsOrTrapsInv DEF SockaddrCreate

LEMMA BindsFds ==
  ASSUME RestOK, NEW fd, Open(fd), NEW address \in Addresses \cup {NoAddress},
         Binds(fd, address)
  PROVE  fds' \in [Fds -> Files \cup {Closed}]
  <1>1. fd \in Fds /\ [fds[fd] EXCEPT !.bound = address] \in Files
    BY OpenIs, FileUpdates
  <1> QED
    BY <1>1, FdsUpdate DEF Binds

LEMMA HeldSockaddr ==
  ASSUME HeapOK, NEW sa \in Holds("sockaddr")
  PROVE  sa \in held /\ heap[sa] \in SockaddrObjects /\ AddressIn(heap[sa]) \in Addresses
  BY HeldIsGood, SockaddrFacts, AddressInIs DEF Holds

LEMMA BindInv ==
  ASSUME Inv, ended = "no", NEW fd, NEW sa \in Holds("sockaddr"), NEW r,
         SocketBind(fd, sa, r)
  PROVE  Inv'
  <1>1. RestOK /\ AddressIn(heap[sa]) \in Addresses
    BY InvGives, HeldSockaddr
  <1>2. CASE Failing(r)
    BY <1>2, FailingInv
  <1>3. CASE /\ Socket(fd) /\ Binds(fd, AddressIn(heap[sa]))
             /\ Unchecked /\ UNCHANGED <<heap, held, net, ended>>
    <2>1. fds' \in [Fds -> Files \cup {Closed}]
      BY <1>1, <1>3, BindsFds DEF Socket
    <2> QED
      BY <1>1, <1>3, <2>1, RestStep DEF Unchecked, RestOK
  <1> QED
    BY <1>2, <1>3 DEF SocketBind

LEMMA BecomesInv ==
  ASSUME Inv, ended = "no", NEW fd, NEW from, NEW kind \in FileKinds, NEW r,
         Becomes(fd, from, kind, r)
  PROVE  Inv'
  <1>1. RestOK
    BY InvGives
  <1>2. CASE Failing(r)
    BY <1>2, FailingInv
  <1>3. CASE /\ Open(fd) /\ fds' = [fds EXCEPT ![fd].kind = kind]
             /\ Unchecked /\ UNCHANGED <<heap, held, net, ended>>
    <2>1. fd \in Fds /\ [fds[fd] EXCEPT !.kind = kind] \in Files
      BY <1>1, <1>3, OpenIs, FileUpdates
    <2>2. fds' \in [Fds -> Files \cup {Closed}]
      BY <1>1, <1>3, <2>1, FdsUpdate
    <2> QED
      BY <1>1, <1>3, <2>2, RestStep DEF Unchecked, RestOK
  <1> QED
    BY <1>2, <1>3 DEF Becomes

LEMMA AcceptInv ==
  ASSUME Inv, ended = "no", NEW fd, NEW sa, NEW r, SocketAccept(fd, sa, r)
  PROVE  Inv'
  <1>1. File("connected", {}) \in Files
    BY FileIs DEF FileKinds
  <1> QED
    BY <1>1, OpensOrFailsInv, FailingInv DEF SocketAccept

\* What a string buffer has is what somebody wrote.
LEMMA ContentsAre ==
  ASSUME NEW sb, Good(sb), sb.kind = "strbuf"
  PROVE  Contents(sb) \in Seq(Chars)
  <1>1. sb.data \in Seq(Bytes) /\ sb.length \in Nat /\ Written(sb.data, sb.length)
    BY StrbufFacts, LenFacts DEF Good
  <1> QED
    BY <1>1, WrittenPart DEF Contents

LEMMA SourceIs ==
  ASSUME RestOK, NEW fd, Open(fd)
  PROVE  SourceOf(fd) \in Addresses
  <1>1. fds[fd].bound \in Addresses \cup {NoAddress}
    BY OpenIs, FileUpdates
  <1>2. <<0, EPHEMERAL>> \in Addresses
    BY ThunksAssumption, ByteFacts DEF Addresses
  <1> QED
    BY <1>1, <1>2 DEF SourceOf

LEMMA SendtoInv ==
  ASSUME Inv, ended = "no", NEW fd, NEW p \in Holds("strbuf"), NEW sa \in Holds("sockaddr"),
         NEW r, SocketSendto(fd, p, sa, r)
  PROVE  Inv'
  <1>1. RestOK /\ HeapOK /\ AddressIn(heap[sa]) \in Addresses
    BY InvGives, HeldSockaddr
  <1>2. CASE Failing(r)
    BY <1>2, FailingInv
  <1> DEFINE d == [src |-> SourceOf(fd), dst |-> AddressIn(heap[sa]),
                   bytes |-> Contents(heap[p])]
  <1>3. CASE /\ Open(fd) /\ net' = net \cup {d} /\ Binds(fd, SourceOf(fd))
             /\ Unchecked /\ UNCHANGED <<heap, held, ended>>
    <2>1. SourceOf(fd) \in Addresses
      BY <1>1, <1>3, SourceIs
    <2>2. Contents(heap[p]) \in Seq(Chars)
      BY <1>1, HeldIsGood, ContentsAre DEF Holds
    <2>3. d \in Datagrams
      BY <1>1, <2>1, <2>2 DEF Datagrams
    <2>4. net' \subseteq Datagrams
      BY <1>1, <1>3, <2>3 DEF RestOK
    <2>5. fds' \in [Fds -> Files \cup {Closed}]
      BY <1>1, <1>3, <2>1, BindsFds
    <2> QED
      BY <1>3, <2>4, <2>5, RestStep DEF Unchecked
  <1> QED
    BY <1>2, <1>3 DEF SocketSendto

LEMMA ArrivedIs ==
  ASSUME RestOK, NEW fd, NEW d \in Arrived(fd)
  PROVE  /\ d.bytes \in Seq(Chars) /\ d.src \in Addresses
         /\ fd \in Fds /\ fds[fd] \in Files
  <1>1. Open(fd)
    BY DEF Arrived
  <1>2. d \in net \/ d \in [src : Senders, dst : {NoAddress}, bytes : Texts]
    <2>1. CASE fds[fd].kind = "dgram"
      BY <1>1, <2>1 DEF Arrived
    <2>2. CASE fds[fd].kind = "connected"
      BY <1>1, <2>2 DEF Arrived
    <2>3. CASE fds[fd].kind # "dgram" /\ fds[fd].kind # "connected"
      BY <1>1, <2>3 DEF Arrived
    <2> QED
      BY <2>1, <2>2, <2>3
  <1>3. CASE d \in net
    BY <1>1, <1>3, OpenIs DEF RestOK, Datagrams
  <1>4. CASE d \in [src : Senders, dst : {NoAddress}, bytes : Texts]
    BY <1>1, <1>4, OpenIs, ThunksAssumption
  <1> QED
    BY <1>2, <1>3, <1>4

\* The heap once a receive has put object at r, and the sender's address at sa.
WithReceived(r, object, sa, filled, address) ==
  [p \in Ptrs |->
     CASE p = r -> object
       [] p = sa /\ filled -> WithAddress(heap[sa], address)
       [] OTHER -> heap[p]]

\* The buffer a receive gives is new, and the address it fills in is the module's.
LEMMA ReceiveHeap ==
  ASSUME HeapOK, NEW object, Good(object), NEW r \in Free,
         NEW sa \in Holds("sockaddr") \cup {NULL}, NEW filled \in BOOLEAN,
         NEW address \in Addresses,
         heap' = WithReceived(r, object, sa, filled, address), held' = held \cup {r}
  PROVE  /\ HeapOK' /\ r \in Ptrs /\ heap'[r] = object
         /\ filled /\ sa # NULL =>
              /\ sa \in Ptrs /\ heap'[sa] \in SockaddrObjects
              /\ AddressIn(heap'[sa]) = address
  <1>1. r \in Ptrs /\ heap[r] = NoBlock /\ r \notin held /\ sa # r
    BY ThunksAssumption DEF Free, HeapOK, Blocks, Holds
  <1>2. heap'[r] = object
    BY <1>1 DEF WithReceived
  <1>3. ASSUME NEW p \in Ptrs \ {r}, ~(p = sa /\ filled) PROVE heap'[p] = heap[p]
    BY <1>3 DEF WithReceived
  <1>4. ASSUME filled, sa # NULL
        PROVE  /\ sa \in held /\ sa \in Ptrs /\ sa # r
               /\ heap'[sa] \in SockaddrObjects /\ AddressIn(heap'[sa]) = address
    <2>1. sa \in held /\ sa \in Ptrs /\ sa # r /\ heap[sa] \in SockaddrObjects
      BY <1>1, <1>4, HeldSockaddr, HeldIsGood
    <2>2. heap'[sa] = WithAddress(heap[sa], address)
      BY <1>4, <2>1 DEF WithReceived
    <2> QED
      BY <2>1, <2>2, WithAddressIs
  <1>5. ASSUME NEW p \in Ptrs
        PROVE  \/ p = r /\ Good(heap'[p])
               \/ p # r /\ p \in held /\ Good(heap'[p])
               \/ p # r /\ heap'[p] = heap[p]
    <2>1. CASE p = r
      BY <1>2, <2>1
    <2>2. CASE p # r /\ p = sa /\ filled
      <3>1. sa # NULL
        BY <2>2, ThunksAssumption
      <3> QED
        BY <1>4, <2>2, <3>1, SockaddrGood
    <2>3. CASE p # r /\ ~(p = sa /\ filled)
      BY <1>3, <2>3
    <2> QED
      BY <2>1, <2>2, <2>3
  <1>6. heap' \in [Ptrs -> Objects \cup {NoBlock}]
    <2>1. \A p \in Ptrs : heap'[p] \in Objects \cup {NoBlock}
      BY <1>5, GoodIsObject DEF HeapOK
    <2>2. heap' = [p \in Ptrs |-> heap'[p]]
      BY DEF WithReceived
    <2> QED
      BY <2>1, <2>2
  <1>7. \A p \in Ptrs : heap'[p] = NoBlock \/ Good(heap'[p])
    BY <1>5 DEF HeapOK
  <1>8. held' = Blocks'
    <2>1. held' \subseteq Ptrs
      BY <1>1 DEF HeapOK, Blocks
    <2>2. ASSUME NEW p \in Ptrs PROVE p \in held' <=> heap'[p] # NoBlock
      <3>1. p \in held <=> heap[p] # NoBlock
        BY DEF HeapOK, Blocks, Free
      <3> QED
        BY <1>1, <1>5, <3>1, GoodIsObject
    <2> QED
      BY <2>1, <2>2 DEF Blocks, Free
  <1>9. HeapOK'
    BY <1>6, <1>7, <1>8 DEF HeapOK
  <1> QED
    BY <1>1, <1>2, <1>4, <1>9

LEMMA RecvfromInv ==
  ASSUME Inv, ended = "no", NEW fd, NEW size \in Nat,
         NEW sa \in Holds("sockaddr") \cup {NULL}, NEW r, SocketRecvfrom(fd, size, sa, r)
  PROVE  Inv'
  <1>1. RestOK /\ HeapOK
    BY InvGives
  <1>2. CASE Traps
    BY <1>2, TrapsInv DEF Traps, Ends
  <1>3. ASSUME NEW d \in Arrived(fd), r \in Free,
               heap' = [p \in Ptrs |->
                  CASE p = r -> Received(size, d.bytes)
                    [] p = sa /\ fds[fd].kind = "dgram" -> WithAddress(heap[sa], d.src)
                    [] OTHER -> heap[p]],
               held' = held \cup {r}, net' \in {net, net \ {d}},
               UNCHANGED <<machine, fds, ended>>
        PROVE  Inv'
    <2>1. d.bytes \in Seq(Chars) /\ d.src \in Addresses
      BY <1>1, ArrivedIs
    <2>2. Good(Received(size, d.bytes))
      BY <2>1, ReceivedIs
    <2> DEFINE object == Received(size, d.bytes)
               filled == fds[fd].kind = "dgram"
    <2>3. filled \in BOOLEAN
      OBVIOUS
    <2>4. Good(object)
      BY <2>2
    <2>5. heap' = WithReceived(r, object, sa, filled, d.src)
      BY <1>3 DEF WithReceived
    <2> HIDE DEF object, filled
    <2>6. HeapOK'
      BY <1>1, <1>3, <2>1, <2>3, <2>4, <2>5, ReceiveHeap
    <2>7. RestOK'
      BY <1>1, <1>3 DEF RestOK
    <2> QED
      BY <1>3, <2>6, <2>7, InvIsNext DEF Ends
  <1>4. ASSUME NEW p \in Free, heap' = [heap EXCEPT ![p] = Dropped(Buffer(Allocated(size)))],
               Unchecked, UNCHANGED <<held, fds, net, ended>>
        PROVE  Inv'
    <2>1. heap' = heap
      BY <1>1, <1>4 DEF Dropped, Free, HeapOK
    <2> QED
      BY <1>4, <2>1, TrapsInv DEF Unchecked, Ends
  <1> QED
    BY <1>2, <1>3, <1>4 DEF SocketRecvfrom

LEMMA UsesSocketsInv ==
  ASSUME Inv, ended = "no", NEW type, UsesSockets(type)
  PROVE  Inv'
  <1>1. ASSUME NEW fd \in AnyFd, NEW size \in Sizes, NEW sa \in Holds("sockaddr") \cup {NULL},
               NEW r \in Given, SocketRecvfrom(fd, size, sa, r)
        PROVE  Inv'
    BY <1>1, ThunksAssumption, RecvfromInv
  <1> QED
    BY <1>1, SocketCreateInv, CloseInv DEF UsesSockets

LEMMA UsesDatagramsInv ==
  ASSUME Inv, ended = "no", UsesDatagrams
  PROVE  Inv'
  BY UsesSocketsInv, BindInv, SendtoInv DEF UsesDatagrams

LEMMA UsesStreamsInv ==
  ASSUME Inv, ended = "no", UsesStreams
  PROVE  Inv'
  <1>1. ASSUME NEW fd, NEW r,
               SocketListen(fd, r) \/ SocketConnect(fd, r) \/ SocketShutdown(fd, r)
        PROVE  Inv'
    BY <1>1, BecomesInv DEF SocketListen, SocketConnect, SocketShutdown, FileKinds
  <1> QED
    BY <1>1, UsesSocketsInv, AcceptInv, WritesInv DEF UsesStreams

LEMMA FdsetInv ==
  ASSUME Inv, ended = "no", NEW p \in Holds("fdset"), NEW set \in SUBSET Fds,
         heap' = [heap EXCEPT ![p].set = set], UNCHANGED <<machine, held, fds, net, ended>>
  PROVE  Inv'
  <1>1. p \in held /\ p \in Ptrs /\ heap[p] \in Objects /\ heap[p].kind = "fdset" /\ HeapOK
    BY InvGives, HeldIsGood DEF Holds
  <1>2. Good([heap[p] EXCEPT !.set = set])
    BY <1>1, FdsetGood
  <1>3. HeapOK'
    BY <1>1, <1>2, ChangesHeap
  <1> QED
    BY <1>3, HeapStep

LEMMA SelectInv ==
  ASSUME Inv, ended = "no", NEW p \in Holds("fdset"), NEW timeout, NEW r,
         IoSelect(p, timeout, r)
  PROVE  Inv'
  <1>1. UNCHANGED <<machine, held, fds, net, ended>>
    BY DEF IoSelect
  <1>2. p \in held /\ heap[p].set \subseteq Fds
    BY InvGives, HeldIsGood, FdsetGood DEF Holds
  <1>3. CASE UNCHANGED heap
    BY <1>1, <1>3, TrapsInv DEF Ends
  <1>4. ASSUME NEW ready \in Ready(p), heap' = [heap EXCEPT ![p].set = ready] PROVE Inv'
    <2>1. ready \in SUBSET Fds
      BY <1>2 DEF Ready
    <2> QED
      BY <1>1, <1>4, <2>1, FdsetInv
  <1> QED
    BY <1>3, <1>4 DEF IoSelect

LEMMA UsesSetsInv ==
  ASSUME Inv, ended = "no", UsesSets
  PROVE  Inv'
  <1>1. ASSUME NEW r \in Given, FdsetCreate(r) PROVE Inv'
    <2>1. Good([kind |-> "fdset", set |-> {}])
      BY FdsetGood
    <2> QED
      BY <1>1, <2>1, ObtainsOrTrapsInv DEF FdsetCreate
  <1>2. ASSUME NEW p \in Holds("fdset"), NEW fd \in Fds, FdsetSet(p, fd) \/ FdsetClear(p, fd)
        PROVE  Inv'
    <2>1. p \in held /\ heap[p] \in Objects /\ heap[p].kind = "fdset"
          /\ heap[p].set \subseteq Fds
      BY InvGives, HeldIsGood, FdsetGood DEF Holds
    <2> DEFINE Changed(set) == [heap[p] EXCEPT !.set = set]
    <2>2. CASE FdsetSet(p, fd)
      <3>1. Good(Changed(heap[p].set \cup {fd}))
        BY <2>1, FdsetGood
      <3>2. Changes(p, Changed(heap[p].set \cup {fd}))
        BY <2>2 DEF FdsetSet
      <3> HIDE DEF Changed
      <3> QED
        BY <2>1, <3>1, <3>2, ChangesInv
    <2>3. CASE FdsetClear(p, fd)
      <3>1. Good(Changed(heap[p].set \ {fd}))
        BY <2>1, FdsetGood
      <3>2. Changes(p, Changed(heap[p].set \ {fd}))
        BY <2>3 DEF FdsetClear
      <3> HIDE DEF Changed
      <3> QED
        BY <2>1, <3>1, <3>2, ChangesInv
    <2> QED
      BY <1>2, <2>2, <2>3
  <1> QED
    BY <1>1, <1>2, SelectInv DEF UsesSets

LEMMA NetworkInv ==
  ASSUME Inv, ended = "no", Network
  PROVE  Inv'
  <1>1. RestOK
    BY InvGives
  <1>2. ASSUME NEW src \in Senders, NEW fd \in Fds, NEW bytes \in Texts,
               Open(fd), fds[fd].bound # NoAddress,
               net' = net \cup {[src |-> src, dst |-> <<HOST, fds[fd].bound[2]>>,
                                 bytes |-> bytes]}
        PROVE  net' \subseteq Datagrams
    <2>1. fds[fd].bound \in Addresses
      BY <1>1, <1>2, OpenIs, FileUpdates
    <2>2. <<HOST, fds[fd].bound[2]>> \in Addresses
      BY <2>1, ThunksAssumption DEF Addresses
    <2>3. [src |-> src, dst |-> <<HOST, fds[fd].bound[2]>>, bytes |-> bytes] \in Datagrams
      BY <2>2, ThunksAssumption DEF Datagrams
    <2> QED
      BY <1>1, <1>2, <2>3 DEF RestOK
  <1>3. CASE Arrives
    <2>1. net' \subseteq Datagrams
      BY <1>2, <1>3 DEF Arrives
    <2> QED
      BY <1>1, <1>3, <2>1, RestStep DEF Arrives, Unchecked, RestOK
  <1>4. CASE Lost
    <2>1. net' \subseteq Datagrams
      BY <1>1, <1>4 DEF Lost, RestOK
    <2> QED
      BY <1>1, <1>4, <2>1, RestStep DEF Lost, Unchecked, RestOK
  <1> QED
    BY <1>3, <1>4 DEF Network

LEMMA UsesInv ==
  ASSUME Inv, ended = "no", NEW group \in Groups, Uses(group)
  PROVE  Inv'
  <1>1. \/ UsesMemory \/ UsesBuffers \/ UsesFiles \/ UsesModes
        \/ UsesAddresses \/ UsesDatagrams \/ UsesStreams \/ UsesSets
    BY DEF Groups, Uses
  <1> QED
    BY <1>1, UsesMemoryInv, UsesBuffersInv, UsesFilesInv, UsesModesInv, UsesAddressesInv,
       UsesDatagramsInv, UsesStreamsInv, UsesSetsInv

LEMMA NextInv ==
  ASSUME Inv, Next
  PROVE  Inv'
  <1>1. ended = "no"
    BY DEF Next
  <1>2. CASE Frees
    BY <1>1, <1>2, FreeInv DEF Frees
  <1>3. CASE SysExit
    BY <1>1, <1>3, TrapsInv DEF SysExit, Ends
  <1>4. CASE Network
    BY <1>1, <1>4, NetworkInv
  <1>5. ASSUME NEW group \in Groups, Uses(group) PROVE Inv'
    BY <1>1, <1>5, UsesInv
  <1> QED
    BY <1>2, <1>3, <1>4, <1>5 DEF Next, Calls

LEMMA StutterInv == Inv /\ UNCHANGED vars => Inv'
  BY DEF Inv, TypeOK, NothingMadeUp, Owned, Blocks, Free, Written, vars

LEMMA SpecInv == Spec => []Inv
  <1>1. Inv /\ [Next]_vars => Inv'
    BY NextInv, StutterInv
  <1> QED
    BY <1>1, InitInv, PTL DEF Spec

\* Memory, descriptors and the network keep their form, whatever the module calls
\* (src/src/vm_thunks).
THEOREM TypeCorrect == Spec => []TypeOK
  BY SpecInv, PTL DEF Inv

\* The module has every block there is and no other, until it uses what a failed io_read
\* gave it (vmt_io.c:32).
THEOREM OwnedByTheModule == Spec => []Owned
  BY SpecInv, PTL DEF Inv

\* Up to its length a string buffer has bytes somebody wrote, the module, a routine or the
\* kernel, and none of memory that was only allocated.
THEOREM NothingIsMadeUp == Spec => []NothingMadeUp
  BY SpecInv, PTL DEF Inv

\* The kernel and the module read the same in every address, on machines of both byte
\* orders.
LEMMA AddressesAgreeIf == Inv => AddressesAgree
  <1> SUFFICES ASSUME Inv PROVE AddressesAgree
    OBVIOUS
  <1>1. machine \in {"i386", "mips"}
    BY DEF Inv, TypeOK
  <1>2. ASSUME NEW p \in Blocks, heap[p].kind = "sockaddr"
        PROVE  AddressIn(heap[p]) = <<sockaddr_get_ip(heap[p]), sockaddr_get_port(heap[p])>>
    <2>1. heap[p] \in Objects
      BY DEF Inv, TypeOK, Blocks, Free
    <2>2. heap[p] \in SockaddrObjects
      BY <1>2, <2>1, SockaddrFacts
    <2> QED
      BY <1>1, <2>2, ReadBack
  <1>3. ASSUME NEW ip \in Ips, NEW port \in Ports
        PROVE  AddressIn(Sockaddr(ip, port)) = <<ip, port % SHORT>>
    BY <1>1, ThunksAssumption, SockaddrIs
  <1> QED
    BY <1>2, <1>3 DEF AddressesAgree

THEOREM AddressesAreTheSame == Spec => []AddressesAgree
  BY SpecInv, AddressesAgreeIf, PTL

-----------------------------------------------------------------------------
\* What the last call was given and gave.  A step records one of five routines, or nothing,
\* or it leaves the record and what it is about.
Quiet == call' = NoCall \/ UNCHANGED <<machine, heap, fds, call>>

Reads ==
  \E size \in Nat, bytes \in Seq(Chars), r \in Ptrs :
    /\ HeapOK' /\ heap'[r] = Received(size, bytes)
    /\ call' = [routine |-> "io_read", bytes |-> bytes, size |-> size, result |-> r]

Receives ==
  \E fd \in Fds, size \in Nat, sa \in Holds("sockaddr") \cup {NULL}, r \in Ptrs :
  \E d \in Arrived(fd) :
    /\ heap'[r] = Received(size, d.bytes) /\ d.bytes \in Seq(Chars)
    /\ fds[fd].kind = "dgram" /\ sa # NULL =>
         /\ heap'[sa] \in SockaddrObjects /\ AddressIn(heap'[sa]) = d.src
    /\ UNCHANGED <<machine, fds>>
    /\ call' = [routine |-> "recv", fd |-> fd, bytes |-> d.bytes, size |-> size,
                src |-> d.src, sa |-> sa, result |-> r]

Resizes ==
  \E p \in Holds("strbuf") \cap Blocks, size \in Nat, r \in Given :
    /\ \/ Grows(heap[p], size) /\ Moves(p, Resized(heap[p], size), r)
       \/ ~Grows(heap[p], size) /\ r = p /\ UNCHANGED heap
    /\ call' = [routine |-> "resize", size |-> size, before |-> heap[p], result |-> r]

SetsBlocking ==
  \E fd \in AnyFd, blocking \in BOOLEAN, r \in {0, Failed} :
    /\ \/ Open(fd) /\ r = 0 /\ fds' = [fds EXCEPT ![fd].flags = NewFlags(fd, blocking)]
       \/ r = Failed /\ UNCHANGED fds
    /\ call' = [routine |-> "set_blocking", fd |-> fd, blocking |-> blocking,
                before |-> fds, result |-> r]

Selects ==
  \E p \in Holds("fdset"), timeout \in Int, r \in Int :
    /\ Refuses(timeout) => r = Failed
    /\ call' = [routine |-> "select", ptr |-> p, timeout |-> timeout, result |-> r]

LEMMA ReadRecorded ==
  ASSUME Inv, ended = "no", NEW fd, NEW size \in Nat, NEW r, IoRead(fd, size, r)
  PROVE  Quiet \/ Reads
  <1>1. CASE Traps \/ UNCHANGED <<machine, heap, fds, call>>
    BY <1>1 DEF Traps, Quiet
  <1>2. ASSUME NEW bytes \in Texts, Obtains(Received(size, bytes), r),
               call' = [routine |-> "io_read", bytes |-> bytes, size |-> size, result |-> r]
        PROVE  Reads
    <2>1. bytes \in Seq(Chars) /\ Good(Received(size, bytes))
      BY ThunksAssumption, ReceivedIs
    <2>2. HeapOK' /\ r \in Ptrs /\ heap'[r] = Received(size, bytes)
      BY <1>2, <2>1, InvGives, ObtainsHeap
    <2> QED
      BY <1>2, <2>1, <2>2 DEF Reads
  <1> QED
    BY <1>1, <1>2 DEF IoRead

LEMMA RecvfromRecorded ==
  ASSUME Inv, ended = "no", NEW fd, NEW size \in Nat,
         NEW sa \in Holds("sockaddr") \cup {NULL}, NEW r, SocketRecvfrom(fd, size, sa, r)
  PROVE  Quiet \/ Receives
  <1>1. RestOK /\ HeapOK
    BY InvGives
  <1>2. CASE Traps \/ Unchecked
    BY <1>2 DEF Traps, Unchecked, Quiet
  <1>3. ASSUME NEW d \in Arrived(fd), r \in Free,
               heap' = [p \in Ptrs |->
                  CASE p = r -> Received(size, d.bytes)
                    [] p = sa /\ fds[fd].kind = "dgram" -> WithAddress(heap[sa], d.src)
                    [] OTHER -> heap[p]],
               held' = held \cup {r}, UNCHANGED <<machine, fds, ended>>,
               call' = [routine |-> "recv", fd |-> fd, bytes |-> d.bytes, size |-> size,
                        src |-> d.src, sa |-> sa, result |-> r]
        PROVE  Receives
    <2>1. d.bytes \in Seq(Chars) /\ d.src \in Addresses /\ fd \in Fds
      BY <1>1, ArrivedIs
    <2>2. Good(Received(size, d.bytes))
      BY <2>1, ReceivedIs
    <2> DEFINE object == Received(size, d.bytes)
               filled == fds[fd].kind = "dgram"
    <2>3. filled \in BOOLEAN
      OBVIOUS
    <2>4. Good(object)
      BY <2>2
    <2>5. heap' = WithReceived(r, object, sa, filled, d.src)
      BY <1>3 DEF WithReceived
    <2> HIDE DEF object, filled
    <2>6. /\ r \in Ptrs /\ heap'[r] = object
          /\ filled /\ sa # NULL =>
               heap'[sa] \in SockaddrObjects /\ AddressIn(heap'[sa]) = d.src
      BY <1>1, <1>3, <2>1, <2>3, <2>4, <2>5, ReceiveHeap
    <2>7. /\ r \in Ptrs /\ heap'[r] = Received(size, d.bytes)
          /\ fds[fd].kind = "dgram" /\ sa # NULL =>
               heap'[sa] \in SockaddrObjects /\ AddressIn(heap'[sa]) = d.src
      BY <2>6 DEF object, filled
    <2> QED
      BY <1>3, <2>1, <2>7 DEF Receives
  <1> QED
    BY <1>2, <1>3 DEF SocketRecvfrom

LEMMA SocketsRecorded ==
  ASSUME Inv, ended = "no", NEW type, UsesSockets(type)
  PROVE  Quiet \/ Receives
  <1>1. ASSUME NEW r, SocketCreate(type, r) PROVE Quiet
    BY <1>1 DEF SocketCreate, OpensOrFails, Failing, Unchecked, Quiet
  <1>2. ASSUME NEW fd, IoClose(fd) PROVE Quiet
    BY <1>2 DEF IoClose, Unchecked, Quiet
  <1>3. ASSUME NEW fd \in AnyFd, NEW size \in Sizes, NEW sa \in Holds("sockaddr") \cup {NULL},
               NEW r \in Given, SocketRecvfrom(fd, size, sa, r)
        PROVE  Quiet \/ Receives
    BY <1>3, ThunksAssumption, RecvfromRecorded
  <1> QED
    BY <1>1, <1>2, <1>3 DEF UsesSockets

LEMMA GroupsRecorded ==
  ASSUME Inv, ended = "no"
  PROVE  /\ UsesMemory => Quiet
         /\ UsesBuffers => Quiet \/ Resizes
         /\ UsesFiles => Quiet \/ Reads
         /\ UsesModes => Quiet \/ SetsBlocking
         /\ UsesAddresses => Quiet
         /\ UsesDatagrams \/ UsesStreams => Quiet \/ Receives
         /\ UsesSets => Quiet \/ Selects
  <1>1. UsesMemory => Quiet
    BY DEF UsesMemory, RtlAlloc, RtlRealloc, RtlMemset, RtlMemcpy, Changes, Unchecked, Quiet
  <1>2. UsesBuffers => Quiet \/ Resizes
    <2>1. ASSUME NEW p \in Holds("strbuf"), NEW size \in Sizes, NEW r \in Given,
                 RtlStrbufResize(p, size, r)
          PROVE  Quiet \/ Resizes
      <3>1. CASE Traps
        BY <3>1 DEF Traps, Quiet
      <3>2. CASE /\ IF Grows(heap[p], size)
                    THEN Moves(p, Resized(heap[p], size), r)
                    ELSE r = p /\ UNCHANGED <<heap, held>>
                 /\ call' = [routine |-> "resize", size |-> size, before |-> heap[p],
                             result |-> r]
        <4>1. p \in Blocks
          BY InvGives DEF HeapOK, Holds
        <4> QED
          BY <3>2, <4>1, ThunksAssumption DEF Resizes
      <3> QED
        BY <2>1, <3>1, <3>2 DEF RtlStrbufResize
    <2>2. ASSUME NEW size, NEW r, RtlStrbufAlloc(size, r) PROVE Quiet
      BY <2>2 DEF RtlStrbufAlloc, ObtainsOrTraps, Traps, Unchecked, Quiet
    <2>3. ASSUME NEW p, RtlStrbufFree(p) PROVE Quiet
      BY <2>3 DEF RtlStrbufFree, RtlFree, Unchecked, Quiet
    <2>4. ASSUME NEW p, NEW object, Changes(p, object) PROVE Quiet
      BY <2>4 DEF Changes, Unchecked, Quiet
    <2> QED
      BY <2>1, <2>2, <2>3, <2>4 DEF UsesBuffers, RtlPrintSb, RtlStrbufSetLength
  <1>3. UsesFiles => Quiet \/ Reads
    <2>1. ASSUME NEW fd, NEW size \in Sizes, NEW r, IoRead(fd, size, r)
          PROVE  Quiet \/ Reads
      BY <2>1, ThunksAssumption, ReadRecorded
    <2>2. ASSUME NEW flags, NEW r, IoOpen(flags, r) PROVE Quiet
      BY <2>2 DEF IoOpen, OpensOrFails, Unchecked, Quiet
    <2>3. ASSUME NEW fd, NEW p, NEW r, Writes(fd, p, r) \/ IoClose(fd) \/ IoIoctl(fd, p, r)
          PROVE  Quiet
      BY <2>3 DEF Writes, IoClose, IoIoctl, Failing, RtlMemset, Changes, Unchecked, Quiet
    <2> QED
      BY <2>1, <2>2, <2>3 DEF UsesFiles
  <1>4. UsesModes => Quiet \/ SetsBlocking
    <2>1. ASSUME NEW fd \in AnyFd, NEW blocking \in BOOLEAN, NEW r \in {0, Failed},
                 SocketSetBlocking(fd, blocking, r)
          PROVE  SetsBlocking
      BY <2>1 DEF SocketSetBlocking, SetsBlocking
    <2>2. ASSUME NEW flags, NEW r, IoOpen(flags, r) PROVE Quiet
      BY <2>2 DEF IoOpen, OpensOrFails, Unchecked, Quiet
    <2>3. ASSUME NEW type, NEW r, SocketCreate(type, r) PROVE Quiet
      BY <2>3 DEF SocketCreate, OpensOrFails, Failing, Unchecked, Quiet
    <2>4. ASSUME NEW fd, IoClose(fd) PROVE Quiet
      BY <2>4 DEF IoClose, Unchecked, Quiet
    <2> QED
      BY <2>1, <2>2, <2>3, <2>4 DEF UsesModes
  <1>5. UsesAddresses => Quiet
    BY DEF UsesAddresses, SockaddrCreate, ObtainsOrTraps, Traps, Unchecked, Quiet
  <1>6. UsesDatagrams \/ UsesStreams => Quiet \/ Receives
    <2>1. ASSUME NEW fd, NEW sa, NEW r, SocketBind(fd, sa, r) PROVE Quiet
      BY <2>1 DEF SocketBind, Failing, Unchecked, Quiet
    <2>2. ASSUME NEW fd, NEW p, NEW sa, NEW r, SocketSendto(fd, p, sa, r) PROVE Quiet
      BY <2>2 DEF SocketSendto, Failing, Unchecked, Quiet
    <2>3. ASSUME NEW fd, NEW r,
                 SocketListen(fd, r) \/ SocketConnect(fd, r) \/ SocketShutdown(fd, r)
          PROVE  Quiet
      BY <2>3 DEF SocketListen, SocketConnect, SocketShutdown, Becomes, Failing, Unchecked,
                  Quiet
    <2>4. ASSUME NEW fd, NEW sa, NEW r, SocketAccept(fd, sa, r) PROVE Quiet
      BY <2>4 DEF SocketAccept, OpensOrFails, Failing, Unchecked, Quiet
    <2>5. ASSUME NEW fd, NEW p, NEW r, Writes(fd, p, r) PROVE Quiet
      BY <2>5 DEF Writes, Unchecked, Quiet
    <2> QED
      BY <2>1, <2>2, <2>3, <2>4, <2>5, SocketsRecorded DEF UsesDatagrams, UsesStreams
  <1>7. UsesSets => Quiet \/ Selects
    <2>1. ASSUME NEW r, FdsetCreate(r) PROVE Quiet
      BY <2>1 DEF FdsetCreate, ObtainsOrTraps, Traps, Unchecked, Quiet
    <2>2. ASSUME NEW p, NEW fd, FdsetSet(p, fd) \/ FdsetClear(p, fd) PROVE Quiet
      BY <2>2 DEF FdsetSet, FdsetClear, Changes, Unchecked, Quiet
    <2>3. ASSUME NEW p \in Holds("fdset"), NEW timeout \in Timeouts,
                 NEW r \in Failed .. Cardinality(Fds), IoSelect(p, timeout, r)
          PROVE  Selects
      <3>1. timeout \in Int /\ r \in Int
        BY ThunksAssumption
      <3>2. Refuses(timeout) => r = Failed
        BY <2>3 DEF IoSelect
      <3>3. call' = [routine |-> "select", ptr |-> p, timeout |-> timeout, result |-> r]
        BY <2>3 DEF IoSelect
      <3> QED
        BY <3>1, <3>2, <3>3 DEF Selects
    <2> QED
      BY <2>1, <2>2, <2>3 DEF UsesSets
  <1> QED
    BY <1>1, <1>2, <1>3, <1>4, <1>5, <1>6, <1>7

LEMMA NextRecorded ==
  ASSUME Inv, [Next]_vars
  PROVE  Quiet \/ Reads \/ Receives \/ Resizes \/ SetsBlocking \/ Selects
  <1>1. CASE UNCHANGED vars
    BY <1>1 DEF vars, Quiet
  <1>2. CASE Next
    <2>1. ended = "no"
      BY <1>2 DEF Next
    <2>2. CASE Frees \/ SysExit
      BY <2>2 DEF Frees, RtlFree, SysExit, Unchecked, Quiet
    <2>3. CASE Network
      BY <2>3 DEF Network, Arrives, Lost, Unchecked, Quiet
    <2>4. ASSUME NEW group \in Groups, Uses(group)
          PROVE  Quiet \/ Reads \/ Receives \/ Resizes \/ SetsBlocking \/ Selects
      <3>1. \/ UsesMemory \/ UsesBuffers \/ UsesFiles \/ UsesModes
            \/ UsesAddresses \/ UsesDatagrams \/ UsesStreams \/ UsesSets
        BY <2>4 DEF Groups, Uses
      <3> QED
        BY <2>1, <3>1, GroupsRecorded
    <2> QED
      BY <1>2, <2>2, <2>3, <2>4 DEF Next, Calls
  <1> QED
    BY <1>1, <1>2

LEMMA RecordsDiffer ==
  /\ Reads => call'.routine = "io_read"
  /\ Receives => call'.routine = "recv"
  /\ Resizes => call'.routine = "resize"
  /\ SetsBlocking => call'.routine = "set_blocking"
  /\ Selects => call'.routine = "select"
  BY DEF Reads, Receives, Resizes, SetsBlocking, Selects

\* The record of one routine says nothing of a property about another's.
LEMMA BlockingKept ==
  ASSUME Inv, [Next]_vars, BlockingAsAnswered
  PROVE  BlockingAsAnswered'
  <1>1. CASE Quiet
    BY <1>1 DEF Quiet, BlockingAsAnswered
  <1>2. CASE Reads \/ Receives \/ Resizes \/ Selects
    BY <1>2, RecordsDiffer DEF BlockingAsAnswered
  <1>3. CASE SetsBlocking
    <2>1. PICK fd \in AnyFd, blocking \in BOOLEAN, r \in {0, Failed} :
            /\ \/ Open(fd) /\ r = 0 /\ fds' = [fds EXCEPT ![fd].flags = NewFlags(fd, blocking)]
               \/ r = Failed /\ UNCHANGED fds
            /\ call' = [routine |-> "set_blocking", fd |-> fd, blocking |-> blocking,
                        before |-> fds, result |-> r]
      BY <1>3 DEF SetsBlocking
    <2>2. /\ call'.fd = fd /\ call'.blocking = blocking
          /\ call'.before = fds /\ call'.result = r
      BY <2>1
    <2>3. CASE r = Failed
      <3>1. fds' = fds
        BY <2>1, <2>3 DEF Failed
      <3> QED
        BY <2>2, <2>3, <3>1 DEF BlockingAsAnswered
    <2>4. CASE r = 0
      <3> DEFINE new == NewFlags(fd, blocking)
      <3>1. Open(fd) /\ fds' = [fds EXCEPT ![fd].flags = new] /\ r # Failed
        BY <2>1, <2>4 DEF Failed
      <3>2. RestOK
        BY DEF Inv, TypeOK, RestOK, Datagrams
      <3>3. fd \in Fds /\ fds[fd] \in Files /\ fds \in [Fds -> Files \cup {Closed}]
        BY <3>1, <3>2, OpenIs DEF RestOK
      <3>4. new \in SUBSET Flags
        BY <3>2, NewFlagsAre
      <3>5. /\ ("O_NONBLOCK" \in new) = ~blocking
            /\ new \ {"O_NONBLOCK"} = fds[fd].flags \ {"O_NONBLOCK"}
        BY <3>1 DEF NewFlags
      <3> HIDE DEF new
      <3>6. /\ fds'[fd] = [fds[fd] EXCEPT !.flags = new]
            /\ \A other \in Fds \ {fd} : fds'[other] = fds[other]
        BY <3>1, <3>3
      <3>7. fds'[fd].flags = new
        BY <3>3, <3>4, <3>6, FileUpdates
      <3> QED
        BY <2>2, <3>1, <3>5, <3>6, <3>7 DEF BlockingAsAnswered
    <2> QED
      BY <2>3, <2>4
  <1> QED
    BY <1>1, <1>2, <1>3, NextRecorded

\* A socket is in the mode asked for when socket_set_blocking answers 0, and as before when
\* it answers -1 (vmt_sockets.c:137).
THEOREM BlockingIsAsAnswered == Spec => []BlockingAsAnswered
  <1>1. Init => BlockingAsAnswered
    BY DEF Init, BlockingAsAnswered
  <1>2. Inv /\ [Next]_vars /\ BlockingAsAnswered => BlockingAsAnswered'
    BY BlockingKept
  <1> QED
    BY <1>1, <1>2, SpecInv, PTL DEF Spec

LEMMA ResizeKept ==
  ASSUME Inv, [Next]_vars, ResizeKeeps
  PROVE  ResizeKeeps'
  <1>1. CASE Quiet
    BY <1>1 DEF Quiet, ResizeKeeps
  <1>2. CASE Reads \/ Receives \/ SetsBlocking \/ Selects
    BY <1>2, RecordsDiffer DEF ResizeKeeps
  <1>3. CASE Resizes
    <2>1. PICK p \in Holds("strbuf") \cap Blocks, size \in Nat, r \in Given :
            /\ \/ Grows(heap[p], size) /\ Moves(p, Resized(heap[p], size), r)
               \/ ~Grows(heap[p], size) /\ r = p /\ UNCHANGED heap
            /\ call' = [routine |-> "resize", size |-> size, before |-> heap[p], result |-> r]
      BY <1>3 DEF Resizes
    <2>2. call'.size = size /\ call'.before = heap[p] /\ call'.result = r
      BY <2>1
    <2>3. p \in Ptrs /\ heap[p].kind = "strbuf" /\ Good(heap[p])
      BY DEF Inv, TypeOK, NothingMadeUp, Holds, Blocks, Free, Good, Objects, BlockObjects,
             StrbufObjects, SockaddrObjects, FdsetObjects
    <2>4. heap[p].max_length \in Nat /\ (size < LEN => size % LEN = size) /\ size % LEN \in Nat
      <3>1. heap[p].max_length \in 0 .. LEN - 1
        BY <2>3, StrbufFacts, Zenon DEF Good
      <3>2. LEN \in Nat /\ LEN > 1 /\ size \in Nat
        BY LenFacts, Zenon
      <3> QED
        BY <3>1, <3>2
    <2>5. CASE Grows(heap[p], size) /\ Moves(p, Resized(heap[p], size), r)
      <3>1. heap'[r] = Resized(heap[p], size)
        BY <2>3, <2>5 DEF Moves, Free
      <3> DEFINE new == Resized(heap[p], size)
      <3>2. Contents(new) = Contents(heap[p]) /\ new.max_length = size % LEN
        BY <2>3, <2>5, ResizedIs
      <3>3. size % LEN > heap[p].max_length
        BY <2>5 DEF Grows
      <3> HIDE DEF new
      <3>4. new.max_length >= heap[p].max_length /\ (size < LEN => new.max_length >= size)
        BY <2>4, <3>2, <3>3
      <3> QED
        BY <2>2, <3>1, <3>2, <3>4 DEF ResizeKeeps, new
    <2>6. CASE ~Grows(heap[p], size) /\ r = p /\ UNCHANGED heap
      <3>1. heap[p].max_length >= size % LEN
        BY <2>4, <2>6 DEF Grows
      <3>2. size < LEN => heap[p].max_length >= size
        BY <2>4, <3>1
      <3> QED
        BY <2>2, <2>4, <2>6, <3>2 DEF ResizeKeeps
    <2> QED
      BY <2>1, <2>5, <2>6
  <1> QED
    BY <1>1, <1>2, <1>3, NextRecorded

\* rtl_strbuf_resize keeps what is in the buffer, and the buffer is as large as asked but
\* for the bits of the size above 16 (rtl_strbuf.c:33).
THEOREM ResizeAlwaysKeeps == Spec => []ResizeKeeps
  <1>1. Init => ResizeKeeps
    BY DEF Init, ResizeKeeps
  <1>2. Inv /\ [Next]_vars /\ ResizeKeeps => ResizeKeeps'
    BY ResizeKept
  <1> QED
    BY <1>1, <1>2, SpecInv, PTL DEF Spec

\* What was sent is what is in the buffer and in the address.
AsSent ==
  call # NoCall /\ call.routine \in {"recv", "io_read"} =>
    /\ Contents(heap[call.result]) =
         SubSeq(call.bytes, 1, Smaller(Len(call.bytes), Smaller(call.size, LEN - 1)))
    /\ call.routine = "recv" /\ call.sa # NULL /\ fds[call.fd].kind = "dgram" =>
         heap[call.sa] \in SockaddrObjects /\ call.src = AddressIn(heap[call.sa])

LEMMA AsSentKept ==
  ASSUME Inv, [Next]_vars, AsSent
  PROVE  AsSent'
  <1>1. CASE Quiet
    BY <1>1 DEF Quiet, AsSent
  <1>2. CASE Resizes \/ SetsBlocking \/ Selects
    BY <1>2, RecordsDiffer DEF AsSent
  <1>3. CASE Reads
    <2>1. PICK size \in Nat, bytes \in Seq(Chars), r \in Ptrs :
            /\ heap'[r] = Received(size, bytes)
            /\ call' = [routine |-> "io_read", bytes |-> bytes, size |-> size, result |-> r]
      BY <1>3 DEF Reads
    <2>2. /\ call'.routine = "io_read" /\ call'.bytes = bytes /\ call'.size = size
          /\ call'.result = r
      BY <2>1
    <2>3. Contents(heap'[r]) = SubSeq(bytes, 1, Smaller(Len(bytes), Smaller(size, LEN - 1)))
      BY <2>1, ReceivedIs
    <2> QED
      BY <2>2, <2>3 DEF AsSent
  <1>4. CASE Receives
    <2>1. PICK fd \in Fds, size \in Nat, sa \in Holds("sockaddr") \cup {NULL}, r \in Ptrs :
          \E d \in Arrived(fd) :
            /\ heap'[r] = Received(size, d.bytes) /\ d.bytes \in Seq(Chars)
            /\ fds[fd].kind = "dgram" /\ sa # NULL =>
                 /\ heap'[sa] \in SockaddrObjects /\ AddressIn(heap'[sa]) = d.src
            /\ UNCHANGED <<machine, fds>>
            /\ call' = [routine |-> "recv", fd |-> fd, bytes |-> d.bytes, size |-> size,
                        src |-> d.src, sa |-> sa, result |-> r]
      BY <1>4 DEF Receives
    <2>2. PICK d \in Arrived(fd) :
            /\ heap'[r] = Received(size, d.bytes) /\ d.bytes \in Seq(Chars)
            /\ fds[fd].kind = "dgram" /\ sa # NULL =>
                 /\ heap'[sa] \in SockaddrObjects /\ AddressIn(heap'[sa]) = d.src
            /\ UNCHANGED <<machine, fds>>
            /\ call' = [routine |-> "recv", fd |-> fd, bytes |-> d.bytes, size |-> size,
                        src |-> d.src, sa |-> sa, result |-> r]
      BY <2>1
    <2>3. /\ call'.routine = "recv" /\ call'.bytes = d.bytes /\ call'.size = size
          /\ call'.result = r /\ call'.fd = fd /\ call'.sa = sa /\ call'.src = d.src
      BY <2>2
    <2>4. Contents(heap'[r]) =
            SubSeq(d.bytes, 1, Smaller(Len(d.bytes), Smaller(size, LEN - 1)))
      BY <2>2, ReceivedIs
    <2> QED
      BY <2>2, <2>3, <2>4 DEF AsSent
  <1> QED
    BY <1>1, <1>2, <1>3, <1>4, NextRecorded

LEMMA HoldsIf == Inv /\ AsSent => HoldsWhatCame
  <1> SUFFICES ASSUME Inv, AsSent PROVE HoldsWhatCame
    OBVIOUS
  <1>1. ASSUME heap[call.sa] \in SockaddrObjects
        PROVE  AddressIn(heap[call.sa]) =
                 <<sockaddr_get_ip(heap[call.sa]), sockaddr_get_port(heap[call.sa])>>
    BY <1>1, ReadBack DEF Inv, TypeOK
  <1> QED
    BY <1>1 DEF AsSent, HoldsWhatCame

\* A buffer that was read or received has what came, and the sender's address is where the
\* module asked for it (vmt_sockets.c:258).
THEOREM BuffersHoldWhatCame == Spec => []HoldsWhatCame
  <1>1. Init => AsSent
    BY DEF Init, AsSent
  <1>2. Inv /\ [Next]_vars /\ AsSent => AsSent'
    BY AsSentKept
  <1> QED
    BY <1>1, <1>2, SpecInv, HoldsIf, PTL DEF Spec

\* Seconds, microseconds and an int.
LEMMA TimeFacts ==
  /\ SECOND \in Nat \ {0} /\ MICRO = SECOND * SECOND /\ MICRO \in Nat \ {0}
  /\ INT \in Nat \ {0}
  <1>1. SECOND \in Nat \ {0} /\ INT \in Nat \ {0}
    BY ThunksAssumption
  <1> QED
    BY <1>1 DEF MICRO

LEMMA AsIntIs ==
  ASSUME NEW n \in -(INT \div 2) .. (INT \div 2) - 1
  PROVE  AsInt(n) = n
  <1> DEFINE half == INT \div 2
  <1>1. half \in Nat /\ 2 * half <= INT
    BY TimeFacts
  <1>2. n + half \in 0 .. INT - 1 /\ n \in Int
    BY <1>1, TimeFacts
  <1> HIDE DEF half
  <1>3. (n + half) % INT = n + half
    BY <1>2, TimeFacts
  <1>4. ((n + half) % INT) - half = n
    BY <1>1, <1>2, <1>3
  <1> QED
    BY <1>4 DEF AsInt, half

LEMMA WaitIs ==
  ASSUME NEW timeout \in Nat, timeout * SECOND \in -(INT \div 2) .. (INT \div 2) - 1
  PROVE  LET asked == timeout * SECOND
         IN /\ ~Refuses(timeout)
            /\ Wait(timeout) \in asked .. 2 * asked
            /\ timeout < SECOND => Wait(timeout) = asked
  <1> DEFINE asked == timeout * SECOND
             q == timeout \div SECOND
             u == asked \div MICRO
  <1>1. asked \in Nat /\ q \in Nat /\ u \in Nat
    BY TimeFacts
  <1>2. tv_sec(timeout) = q
    BY TimeFacts DEF tv_sec, Quot
  <1>3. tv_usec(timeout) = asked
    BY AsIntIs DEF tv_usec
  <1>4. Quot(asked, MICRO) = u
    BY <1>1 DEF Quot
  <1>5. asked - (MICRO * u) >= 0 /\ MICRO * u \in Nat
    BY <1>1, TimeFacts
  <1>6. q * MICRO <= asked /\ q * MICRO \in Nat
    <2>1. q * (SECOND * SECOND) <= asked
      BY <1>1, TimeFacts, SquareQuotient
    <2>2. q * MICRO \in Nat
      BY <1>1, TimeFacts
    <2> QED
      BY <2>1, <2>2, TimeFacts
  <1>7. timeout < SECOND => q = 0
    BY TimeFacts
  <1> HIDE DEF asked, q, u
  <1>8. WaitSec(timeout) = q + u /\ WaitUsec(timeout) = asked - (MICRO * u)
    BY <1>2, <1>3, <1>4 DEF WaitSec, WaitUsec
  <1>9. (q + u) * MICRO = q * MICRO + MICRO * u
    BY <1>1, TimeFacts
  <1>10. Wait(timeout) = q * MICRO + asked
    BY <1>1, <1>5, <1>6, <1>8, <1>9 DEF Wait
  <1>11. ~Refuses(timeout)
    BY <1>1, <1>5, <1>8 DEF Refuses
  <1>12. q = 0 => Wait(timeout) = asked
    BY <1>1, <1>10, TimeFacts
  <1>13. Wait(timeout) \in asked .. 2 * asked
    BY <1>1, <1>6, <1>10
  <1> QED
    BY <1>7, <1>11, <1>12, <1>13 DEF asked

LEMMA NegativeRefused ==
  ASSUME NEW timeout \in Int, timeout < 0,
         timeout * SECOND \in -(INT \div 2) .. (INT \div 2) - 1
  PROVE  Refuses(timeout)
  <1> DEFINE t == -timeout
             asked == timeout * SECOND
             q == t \div SECOND
  <1>1. t \in Nat /\ t > 0 /\ timeout = -t
    OBVIOUS
  <1>2. asked = -(t * SECOND) /\ t * SECOND \in Nat /\ t * SECOND > 0 /\ asked < 0
    BY <1>1, TimeFacts
  <1>3. q \in Nat
    BY <1>1, TimeFacts
  <1>4. tv_sec(timeout) = -q
    BY TimeFacts DEF tv_sec, Quot
  <1>5. tv_usec(timeout) = asked
    BY AsIntIs DEF tv_usec
  <1>6. (t * SECOND) \div MICRO = q /\ q * MICRO <= t * SECOND /\ (q = 0 => t < SECOND)
    BY <1>1, TimeFacts, SquareQuotient
  <1>7. Quot(asked, MICRO) = -q
    <2>1. -asked = t * SECOND
      BY <1>2
    <2> QED
      BY <1>2, <1>6, <2>1 DEF Quot
  <1> HIDE DEF t, asked, q
  <1>8. WaitSec(timeout) = (-q) + (-q) /\ WaitUsec(timeout) = asked - (MICRO * (-q))
    BY <1>4, <1>5, <1>7 DEF WaitSec, WaitUsec
  <1>9. CASE q > 0
    BY <1>3, <1>8, <1>9 DEF Refuses
  <1>10. CASE q = 0
    <2>1. MICRO * (-q) = 0
      BY <1>10, TimeFacts
    <2>2. WaitUsec(timeout) < 0
      BY <1>2, <1>8, <2>1
    <2> QED
      BY <2>2 DEF Refuses
  <1> QED
    BY <1>3, <1>9, <1>10

LEMMA WaitsKept ==
  ASSUME Inv, [Next]_vars, WaitsAsAsked
  PROVE  WaitsAsAsked'
  <1>1. CASE Quiet
    BY <1>1 DEF Quiet, WaitsAsAsked
  <1>2. CASE Reads \/ Receives \/ Resizes \/ SetsBlocking
    BY <1>2, RecordsDiffer DEF WaitsAsAsked
  <1>3. CASE Selects
    <2>1. PICK p \in Holds("fdset"), timeout \in Int, r \in Int :
            /\ Refuses(timeout) => r = Failed
            /\ call' = [routine |-> "select", ptr |-> p, timeout |-> timeout, result |-> r]
      BY <1>3 DEF Selects
    <2>2. call'.timeout = timeout /\ call'.result = r
      BY <2>1
    <2>3. ASSUME timeout * SECOND \in -(INT \div 2) .. (INT \div 2) - 1, timeout < 0
          PROVE  r = Failed
      BY <2>1, <2>3, NegativeRefused
    <2>4. ASSUME timeout * SECOND \in -(INT \div 2) .. (INT \div 2) - 1, ~(timeout < 0)
          PROVE  LET asked == timeout * SECOND
                 IN /\ ~Refuses(timeout)
                    /\ Wait(timeout) \in asked .. 2 * asked
                    /\ timeout < SECOND => Wait(timeout) = asked
      <3>1. timeout \in Nat
        BY <2>4
      <3> QED
        BY <2>4, <3>1, WaitIs
    <2> QED
      BY <2>2, <2>3, <2>4 DEF WaitsAsAsked
  <1> QED
    BY <1>1, <1>2, <1>3, NextRecorded

\* A wait lasts as long as asked, or at most twice that, and a negative one is refused, as
\* far as an int holds the microseconds (vmt_select.c:66).
THEOREM WaitsAreAsAsked == Spec => []WaitsAsAsked
  <1>1. Init => WaitsAsAsked
    BY DEF Init, WaitsAsAsked
  <1>2. Inv /\ [Next]_vars /\ WaitsAsAsked => WaitsAsAsked'
    BY WaitsKept
  <1> QED
    BY <1>1, <1>2, SpecInv, PTL DEF Spec

===============================================================================
