----------------------------- MODULE VmCoreProofs -----------------------------
(***************************************************************************)
(* Proofs about VmCore, for every word size, stack limit, number of        *)
(* objects and table of native routines.                                   *)
(***************************************************************************)
EXTENDS VmCore, SequenceTheorems, TLAPS

\* A word holds 0, 1 and every remainder, and no shift count makes a power of two 0.
LEMMA WordFacts ==
  /\ WORD \in Nat /\ WORD > 1 /\ BITS \in Nat /\ BITS > 0
  /\ 0 \in Operands /\ 1 \in Operands
  /\ \A n \in Int : n % WORD \in Operands
  /\ \A a \in Operands : a \in Nat
  BY WordAssumption DEF WORD, Operands

LEMMA TruthIsOperand ==
  ASSUME NEW condition
  PROVE  Truth(condition) \in Operands
  BY WordFacts DEF Truth

LEMMA SignedIsInt ==
  ASSUME NEW v \in Operands
  PROVE  Signed(v) \in Int
  BY WordFacts DEF Signed

LEMMA PowerFacts ==
  ASSUME NEW a \in Operands
  PROVE  2^Count(a) \in Nat /\ 2^Count(a) > 0
  <1>1. Count(a) \in 0 .. BITS
    BY WordFacts DEF Count
  <1> QED
    BY <1>1, WordAssumption

\* A division, towards zero, of one integer by another that is not 0.
LEMMA DivisionIsInt ==
  ASSUME NEW n \in Int, NEW d \in Int, d # 0
  PROVE  Quot(n, d) \in Int /\ Rem(n, d) \in Int
  <1>1. Magnitude(n) \in Int /\ Magnitude(d) \in Int /\ Magnitude(d) > 0
    BY DEF Magnitude, Sign
  <1>2. Magnitude(n) \div Magnitude(d) \in Int
    BY <1>1
  <1>3. Quot(n, d) \in Int
    BY <1>2 DEF Quot, Sign
  <1> QED
    BY <1>3 DEF Rem

LEMMA ShiftedDown ==
  ASSUME NEW b \in Nat, NEW p \in Nat, p > 0
  PROVE  b \div p \in Nat /\ b \div p <= b
  OBVIOUS

\* What an instruction that computes leaves on the stack is one or two operands.
LEMMA ResultsType ==
  ASSUME NEW op \in Computing, NEW a \in Operands, NEW b \in Operands,
         NEW r \in Results(op, a, b)
  PROVE  r \in Seq(Operands)
  <1>1. \A v \in Operands : <<v>> \in Seq(Operands)
    OBVIOUS
  <1>2. \A v, w \in Operands : <<v, w>> \in Seq(Operands)
    OBVIOUS
  <1>3. ASSUME NEW n \in Int, NEW d \in Int, r \in Division(n, d) PROVE r \in Seq(Operands)
    <2>1. d # 0 /\ r = <<Rem(n, d) % WORD, Quot(n, d) % WORD>>
      BY <1>3 DEF Division
    <2>2. Rem(n, d) % WORD \in Operands /\ Quot(n, d) % WORD \in Operands
      BY <2>1, DivisionIsInt, WordFacts
    <2> QED
      BY <1>2, <2>1, <2>2
  <1>4. ASSUME NEW p \in Int, r \in Product(p) PROVE r \in Seq(Operands)
    <2>1. p \div WORD \in Int
      BY WordFacts
    <2> QED
      BY <1>2, <1>4, <2>1, WordFacts DEF Product
  <1>5. ASSUME NEW bit(_), r \in WithBits(bit) PROVE r \in Seq(Operands)
    BY <1>1, <1>5 DEF WithBits
  <1>6. a \in Int /\ b \in Int /\ Signed(a) \in Int /\ Signed(b) \in Int
        /\ a * b \in Int /\ Signed(a) * Signed(b) \in Int
    BY WordFacts, SignedIsInt
  <1>7. CASE op \in {"MULU", "MULS"}
    BY <1>4, <1>6, <1>7 DEF Results
  <1>8. CASE op \in {"DIVU", "DIVS"}
    BY <1>3, <1>6, <1>8 DEF Results
  <1>9. CASE op \in {"AND", "OR", "XOR", "NOT"}
    BY <1>5, <1>9 DEF Results
  <1>10. CASE op \in {"CMP.LT", "CMP.GT", "CMP.B", "CMP.A", "CMP.EQ"}
    <2>1. ASSUME NEW condition, r = <<Truth(condition)>> PROVE r \in Seq(Operands)
      BY <1>1, <2>1, TruthIsOperand
    <2>2. CASE op = "CMP.LT"
      BY <2>1, <2>2 DEF Results
    <2>3. CASE op = "CMP.GT"
      BY <2>1, <2>3 DEF Results
    <2>4. CASE op = "CMP.B"
      BY <2>1, <2>4 DEF Results
    <2>5. CASE op = "CMP.A"
      BY <2>1, <2>5 DEF Results
    <2>6. CASE op = "CMP.EQ"
      BY <2>1, <2>6 DEF Results
    <2> QED
      BY <1>10, <2>2, <2>3, <2>4, <2>5, <2>6
  <1>11. CASE op \in {"ADD", "SUB"}
    <2>1. b + a \in Int /\ b - a \in Int
      BY <1>6
    <2>2. ASSUME NEW v \in Int PROVE v % WORD \in Operands
      BY WordFacts
    <2>3. (b + a) % WORD \in Operands /\ (b - a) % WORD \in Operands
      BY <2>1, <2>2
    <2> QED
      BY <1>1, <1>11, <2>3 DEF Results, Sub
  <1>12. CASE op \in {"LSL", "LSR", "ASR"}
    <2> DEFINE p == 2^Count(a)
    <2>1. p \in Nat /\ p > 0
      BY PowerFacts
    <2> HIDE DEF p
    <2>2. b * p \in Int /\ Signed(b) \div p \in Int
      BY <1>6, <2>1
    <2>3. b \div p \in Nat /\ b \div p <= b
      BY WordFacts, <2>1, ShiftedDown
    <2>4. (b * p) % WORD \in Operands /\ (Signed(b) \div p) % WORD \in Operands
          /\ b \div p \in Operands
      BY <2>2, <2>3, WordFacts DEF Operands
    <2>5. r \in {<<(b * p) % WORD>>, <<b \div p>>, <<(Signed(b) \div p) % WORD>>}
      BY <1>12 DEF Results, p
    <2> QED
      BY <1>1, <2>4, <2>5
  <1> QED
    BY <1>7, <1>8, <1>9, <1>10, <1>11, <1>12 DEF Computing

-----------------------------------------------------------------------------
(***************************************************************************)
(* The data stack.                                                         *)
(***************************************************************************)
LEMMA StackInRange == \A op : StackIn(op) \in 0 .. 2
  BY DEF StackIn

\* A stack that loses its k topmost operands and gets results.
LEMMA Replaced ==
  ASSUME NEW s \in Seq(Operands), NEW k \in Nat, k <= Len(s), NEW results \in Seq(Operands)
  PROVE  /\ results \o SubSeq(s, k + 1, Len(s)) \in Seq(Operands)
         /\ Len(results \o SubSeq(s, k + 1, Len(s))) = Len(results) + Len(s) - k
  <1> DEFINE rest == SubSeq(s, k + 1, Len(s))
  <1>1. Len(s) \in Nat
    BY LenProperties
  <1>2. \A i \in k + 1 .. Len(s) : s[i] \in Operands
    BY <1>1, ElementOfSeq
  <1>3. rest \in Seq(Operands) /\ Len(rest) = Len(s) - k
    BY <1>1, <1>2, SubSeqProperties
  <1> HIDE DEF rest
  <1>4. results \o rest \in Seq(Operands) /\ Len(results \o rest) = Len(results) + Len(rest)
    BY <1>3, ConcatProperties
  <1>5. Len(results) \in Nat
    BY LenProperties
  <1> QED
    BY <1>1, <1>3, <1>4, <1>5 DEF rest

LEMMA DstackType ==
  ASSUME TypeOK, NEW op, Fetches(op), NEW results \in Seq(Operands)
  PROVE  /\ Dstack(op, results) \in Seq(Operands)
         /\ Len(Dstack(op, results)) = Len(results) + Len(dstack) - StackIn(op)
  <1> DEFINE k == StackIn(op)
  <1>1. dstack \in Seq(Operands) /\ k \in Nat /\ k <= Len(dstack)
    BY StackInRange DEF TypeOK, Fetches
  <1>2. Dstack(op, results) = results \o SubSeq(dstack, k + 1, Len(dstack))
    BY DEF Dstack
  <1> HIDE DEF k
  <1>3. /\ results \o SubSeq(dstack, k + 1, Len(dstack)) \in Seq(Operands)
        /\ Len(results \o SubSeq(dstack, k + 1, Len(dstack))) = Len(results) + Len(dstack) - k
    BY <1>1, Replaced
  <1> QED
    BY <1>2, <1>3 DEF k

\* The operands an instruction pops are there, and are operands.
LEMMA ArgumentType ==
  ASSUME TypeOK, NEW op, Fetches(op)
  PROVE  /\ StackIn(op) >= 1 => ARG1 \in Operands
         /\ StackIn(op) = 2 => ARG2 \in Operands
  BY StackInRange, LenProperties, ElementOfSeq DEF TypeOK, Fetches, ARG1, ARG2

-----------------------------------------------------------------------------
(***************************************************************************)
(* Types and ownership are inductive together: what STLOC writes to, and   *)
(* what RET takes a frame from, is what ownership says it is.              *)
(***************************************************************************)
VmInv == TypeOK /\ OwnedOnce

LEMMA InitVmInv == Init => VmInv
  <1> SUFFICES ASSUME Init PROVE VmInv
    OBVIOUS
  <1>1. TypeOK
    BY CoreAssumption DEF Init, TypeOK, Running
  <1>2. OwnedOnce
    BY <1>1 DEF Init, TypeOK, OwnedOnce, LocalsAt
  <1> QED
    BY <1>1, <1>2 DEF VmInv

\* A step that leaves frames and locals alone.
LEMMA QuietStep ==
  ASSUME VmInv, UNCHANGED <<cstack, locals, heap, ncalls_table>>,
         status' \in Running, pc' \in Nat,
         dstack' \in Seq(Operands), Len(dstack') <= DSTACK
  PROVE  VmInv'
  BY DEF VmInv, TypeOK, OwnedOnce, LocalsAt

LEMMA EndsStep ==
  ASSUME VmInv, NEW how \in Running, Ends(how)
  PROVE  VmInv'
  BY QuietStep DEF Ends, VmInv, TypeOK

LEMMA LeavesStep ==
  ASSUME VmInv, NEW op, Fetches(op), NEW results \in Seq(Operands), Leaves(op, results)
  PROVE  VmInv'
  <1>1. dstack' \in Seq(Operands) /\ Len(dstack') <= DSTACK
    BY DstackType DEF Leaves, Pushes, Fits, VmInv, TypeOK
  <1>2. status' \in Running /\ pc' \in Nat
    BY DEF Leaves, Pushes, VmInv, TypeOK, Running
  <1> QED
    BY <1>1, <1>2, QuietStep DEF Leaves

LEMMA PoppedType ==
  ASSUME TypeOK, NEW op, Fetches(op)
  PROVE  Dstack(op, <<>>) \in Seq(Operands) /\ Len(Dstack(op, <<>>)) <= DSTACK
  <1>1. <<>> \in Seq(Operands) /\ Len(<<>>) = 0
    BY EmptySeq
  <1>2. Len(dstack) \in Nat /\ StackIn(op) \in Nat
    BY LenProperties, StackInRange DEF TypeOK
  <1>3. Dstack(op, <<>>) \in Seq(Operands)
        /\ Len(Dstack(op, <<>>)) = Len(<<>>) + Len(dstack) - StackIn(op)
    BY <1>1, DstackType
  <1> QED
    BY <1>1, <1>2, <1>3, CoreAssumption DEF TypeOK

LEMMA GoesStep ==
  ASSUME VmInv, NEW op, Fetches(op), NEW target \in Nat, Goes(op, target)
  PROVE  VmInv'
  <1>1. dstack' \in Seq(Operands) /\ Len(dstack') <= DSTACK
    BY PoppedType DEF Goes, VmInv
  <1> QED
    BY <1>1, QuietStep DEF Goes, VmInv, TypeOK

\* A call suspends the running activation: every activation is one further up.
LEMMA CallsStep ==
  ASSUME VmInv, NEW op, Fetches(op), NEW target \in Nat, Calls(op, target)
  PROVE  VmInv'
  <1>1. TypeOK /\ OwnedOnce
    BY DEF VmInv
  <1> PICK o \in Given :
        IF o = NULL THEN Ends("trap")
        ELSE IF Len(cstack) = CSTACK THEN Ends("panic")
        ELSE /\ heap' = [heap EXCEPT ![o] = Frame(pc + 1, locals)]
             /\ cstack' = <<o>> \o cstack
             /\ locals' = NULL
             /\ dstack' = Dstack(op, <<>>)
             /\ pc' = target
             /\ UNCHANGED <<status, ncalls_table>>
    BY DEF Calls, SavedLocals, CalleeLocals
  <1>2. CASE o = NULL \/ Len(cstack) = CSTACK
    BY <1>2, EndsStep DEF Running
  <1>3. CASE o # NULL /\ Len(cstack) # CSTACK
    <2>1. o \in Objects /\ heap[o] = Unused
      BY <1>3 DEF Given
    <2>2. Len(cstack) \in Nat /\ cstack' = <<o>> \o cstack
      BY <1>1, <1>3, LenProperties DEF TypeOK
    <2>3. /\ cstack' \in Seq(Objects) /\ Len(cstack') = Len(cstack) + 1
          /\ cstack'[1] = o /\ \A i \in 1 .. Len(cstack) : cstack'[i + 1] = cstack[i]
      <3>1. <<o>> \in Seq(Objects) /\ Len(<<o>>) = 1 /\ <<o>>[1] = o
        BY <2>1
      <3>2. \A i \in 1 .. 1 + Len(cstack) :
              cstack'[i] = IF i <= 1 THEN <<o>>[i] ELSE cstack[i - 1]
        BY <1>1, <2>2, <3>1, ConcatProperties DEF TypeOK
      <3> QED
        BY <1>1, <2>2, <3>1, <3>2, ConcatProperties DEF TypeOK
    <2>4. \A x \in Objects : heap'[x] = IF x = o THEN Frame(pc + 1, locals) ELSE heap[x]
      BY <1>1, <1>3 DEF TypeOK
    <2>5. \A i \in 1 .. Len(cstack) : cstack[i] \in Objects /\ cstack[i] # o
      BY <1>1, <2>1, LenProperties, ElementOfSeq DEF TypeOK, OwnedOnce, Unused
    <2>6. LocalsAt(0)' = NULL /\ \A i \in 0 .. Len(cstack) : LocalsAt(i + 1)' = LocalsAt(i)
      BY <1>3, <2>1, <2>2, <2>3, <2>4, <2>5 DEF LocalsAt, Frame
    <2>7. \A i \in 0 .. Len(cstack) : LocalsAt(i) # NULL =>
            LocalsAt(i) \in Objects /\ heap'[LocalsAt(i)] = heap[LocalsAt(i)]
      <3>1. \A i \in 0 .. Len(cstack) : LocalsAt(i) # NULL =>
              LocalsAt(i) \in Objects /\ heap[LocalsAt(i)].kind = "locals"
        <4>1. \A i \in 1 .. Len(cstack) : heap[cstack[i]] \in Frames
          BY <1>1, <2>5 DEF TypeOK, OwnedOnce, Unused, Variables
        <4> QED
          BY <1>1, <4>1 DEF TypeOK, OwnedOnce, LocalsAt, Frames
      <3> QED
        BY <2>1, <2>4, <3>1 DEF Unused
    <2>8. TypeOK'
      <3>1. dstack' \in Seq(Operands) /\ Len(dstack') <= DSTACK
        BY <1>1, <1>3, PoppedType
      <3>2. heap' \in [Objects -> {Unused} \cup Frames \cup Variables]
        <4>1. Frame(pc + 1, locals) \in Frames
          BY <1>1 DEF TypeOK, Frame, Frames
        <4> QED
          BY <1>1, <1>3, <4>1 DEF TypeOK
      <3> QED
        BY <1>1, <1>3, <2>2, <2>3, <3>1, <3>2, CoreAssumption DEF TypeOK
    <2>9. OwnedOnce'
      <3>1. \A i \in 1 .. Len(cstack) : heap'[cstack[i]] = heap[cstack[i]]
        BY <2>4, <2>5
      <3>2. \A i \in 1 .. Len(cstack') :
              i # 1 => i - 1 \in 1 .. Len(cstack) /\ cstack'[i] = cstack[i - 1]
        <4> SUFFICES ASSUME NEW i \in 1 .. Len(cstack'), i # 1
                     PROVE  i - 1 \in 1 .. Len(cstack) /\ cstack'[i] = cstack[i - 1]
          OBVIOUS
        <4>1. i - 1 \in 1 .. Len(cstack)
          BY <2>2, <2>3
        <4>2. cstack'[(i - 1) + 1] = cstack[i - 1]
          BY <2>3, <4>1
        <4> QED
          BY <4>1, <4>2
      <3>3. \A i \in 0 .. Len(cstack') :
              i # 0 => i - 1 \in 0 .. Len(cstack) /\ LocalsAt(i)' = LocalsAt(i - 1)
        <4> SUFFICES ASSUME NEW i \in 0 .. Len(cstack'), i # 0
                     PROVE  i - 1 \in 0 .. Len(cstack) /\ LocalsAt(i)' = LocalsAt(i - 1)
          OBVIOUS
        <4>1. i - 1 \in 0 .. Len(cstack)
          BY <2>2, <2>3
        <4>2. LocalsAt((i - 1) + 1)' = LocalsAt(i - 1)
          BY <2>6, <4>1
        <4> QED
          BY <4>1, <4>2
      <3>4. \A i \in 1 .. Len(cstack') : heap'[cstack'[i]].kind = "frame"
        <4> SUFFICES ASSUME NEW i \in 1 .. Len(cstack')
                     PROVE  heap'[cstack'[i]].kind = "frame"
          OBVIOUS
        <4>1. CASE i = 1
          BY <2>1, <2>3, <2>4, <4>1 DEF Frame
        <4>2. CASE i # 1
          BY <1>1, <3>1, <3>2, <4>2 DEF OwnedOnce
        <4> QED
          BY <4>1, <4>2
      <3>5. \A i, j \in 1 .. Len(cstack') : cstack'[i] = cstack'[j] => i = j
        <4> SUFFICES ASSUME NEW i \in 1 .. Len(cstack'), NEW j \in 1 .. Len(cstack'),
                            cstack'[i] = cstack'[j]
                     PROVE  i = j
          OBVIOUS
        <4>1. CASE i = 1 \/ j = 1
          BY <2>3, <2>5, <3>2, <4>1
        <4>2. CASE i # 1 /\ j # 1
          <5>1. i - 1 = j - 1
            BY <1>1, <3>2, <4>2 DEF OwnedOnce
          <5> QED
            BY <5>1
        <4> QED
          BY <4>1, <4>2
      <3>6. \A i \in 0 .. Len(cstack') : LocalsAt(i)' # NULL => heap'[LocalsAt(i)'].kind = "locals"
        <4> SUFFICES ASSUME NEW i \in 0 .. Len(cstack'), LocalsAt(i)' # NULL
                     PROVE  heap'[LocalsAt(i)'].kind = "locals"
          OBVIOUS
        <4>1. i # 0
          BY <2>6
        <4> DEFINE h == i - 1
        <4>2. h \in 0 .. Len(cstack) /\ LocalsAt(i)' = LocalsAt(h)
          BY <3>3, <4>1
        <4> HIDE DEF h
        <4>3. LocalsAt(h) # NULL
          BY <4>2
        <4>4. heap'[LocalsAt(h)] = heap[LocalsAt(h)] /\ heap[LocalsAt(h)].kind = "locals"
          BY <1>1, <2>7, <4>2, <4>3 DEF OwnedOnce
        <4> QED
          BY <4>2, <4>4
      <3>7. \A i, j \in 0 .. Len(cstack') :
              LocalsAt(i)' # NULL /\ LocalsAt(i)' = LocalsAt(j)' => i = j
        BY <1>1, <2>6, <3>3 DEF OwnedOnce
      <3> QED
        BY <3>4, <3>5, <3>6, <3>7 DEF OwnedOnce
    <2> QED
      BY <2>8, <2>9 DEF VmInv
  <1> QED
    BY <1>2, <1>3

\* The objects of suspended activations: their frames, and the locals of every one.
LEMMA ActivationFacts ==
  ASSUME VmInv
  PROVE  /\ Len(cstack) \in Nat
         /\ \A i \in 1 .. Len(cstack) :
              cstack[i] \in Objects /\ heap[cstack[i]] \in Frames
         /\ \A i \in 0 .. Len(cstack) :
              LocalsAt(i) \in Objects \cup {NULL}
              /\ (LocalsAt(i) # NULL => heap[LocalsAt(i)] \in Variables)
  <1>1. TypeOK /\ OwnedOnce
    BY DEF VmInv
  <1>2. Len(cstack) \in Nat /\ \A i \in 1 .. Len(cstack) : cstack[i] \in Objects
    BY <1>1, LenProperties, ElementOfSeq DEF TypeOK
  <1>3. \A i \in 1 .. Len(cstack) : heap[cstack[i]] \in Frames
    BY <1>1, <1>2 DEF TypeOK, OwnedOnce, Unused, Variables
  <1>4. \A i \in 0 .. Len(cstack) : LocalsAt(i) \in Objects \cup {NULL}
    BY <1>1, <1>2, <1>3 DEF TypeOK, LocalsAt, Frames
  <1>5. \A i \in 0 .. Len(cstack) : LocalsAt(i) # NULL => heap[LocalsAt(i)] \in Variables
    BY <1>1, <1>4 DEF TypeOK, OwnedOnce, Unused, Frames
  <1> QED
    BY <1>2, <1>3, <1>4, <1>5

\* RET frees the running activation's locals and the top frame; every other activation
\* is one further down, with its objects as they were.
LEMMA RetFacts ==
  ASSUME VmInv, Ret, cstack # <<>>
  PROVE  /\ Len(cstack) > 0 /\ cstack' \in Seq(Objects) /\ Len(cstack') = Len(cstack) - 1
         /\ \A i \in 1 .. Len(cstack') : cstack'[i] = cstack[i + 1]
         /\ \A x \in Objects :
              heap'[x] = IF x = cstack[1] \/ x = locals THEN Unused ELSE heap[x]
         /\ \A i \in 1 .. Len(cstack') : heap'[cstack'[i]] = heap[cstack[i + 1]]
         /\ \A i \in 0 .. Len(cstack') : LocalsAt(i)' = LocalsAt(i + 1)
         /\ \A i \in 1 .. Len(cstack) : LocalsAt(i) # NULL => heap'[LocalsAt(i)] = heap[LocalsAt(i)]
  <1>1. TypeOK /\ OwnedOnce
    BY DEF VmInv
  <1>2. /\ heap' = Freed(Freed(heap, locals), Head(cstack))
        /\ locals' = heap[Head(cstack)].locals
        /\ cstack' = Tail(cstack)
    BY DEF Ret, AfterReturn
  <1>3. /\ Len(cstack) > 0 /\ Head(cstack) = cstack[1]
        /\ cstack' \in Seq(Objects) /\ Len(cstack') = Len(cstack) - 1
        /\ \A i \in 1 .. Len(cstack') : cstack'[i] = cstack[i + 1]
    BY <1>1, <1>2, EmptySeq, HeadTailProperties DEF TypeOK
  <1>4. \A x \in Objects :
          heap'[x] = IF x = cstack[1] \/ x = locals THEN Unused ELSE heap[x]
    BY <1>2, <1>3 DEF Freed
  <1>5. \A i \in 2 .. Len(cstack) :
          cstack[i] \in Objects /\ cstack[i] # cstack[1] /\ cstack[i] # locals
    <2> SUFFICES ASSUME NEW i \in 2 .. Len(cstack)
                 PROVE  cstack[i] \in Objects /\ cstack[i] # cstack[1] /\ cstack[i] # locals
      OBVIOUS
    <2>1. i \in 1 .. Len(cstack) /\ 1 \in 1 .. Len(cstack) /\ i # 1 /\ 0 \in 0 .. Len(cstack)
      BY <1>3, ActivationFacts
    <2>2. cstack[i] \in Objects /\ heap[cstack[i]] \in Frames
      BY <2>1, ActivationFacts
    <2>3. locals # NULL => heap[locals] \in Variables
      BY <2>1, ActivationFacts DEF LocalsAt
    <2> QED
      BY <1>1, <2>1, <2>2, <2>3, CoreAssumption DEF OwnedOnce, Frames, Variables
  <1>6. \A i \in 1 .. Len(cstack') : heap'[cstack'[i]] = heap[cstack[i + 1]]
    <2> SUFFICES ASSUME NEW i \in 1 .. Len(cstack')
                 PROVE  heap'[cstack'[i]] = heap[cstack[i + 1]]
      OBVIOUS
    <2>1. i + 1 \in 2 .. Len(cstack)
      BY <1>3, ActivationFacts
    <2> QED
      BY <1>3, <1>4, <1>5, <2>1
  <1>7. \A i \in 0 .. Len(cstack') : LocalsAt(i)' = LocalsAt(i + 1)
    BY <1>2, <1>3, <1>6, ActivationFacts DEF LocalsAt
  <1>8. \A i \in 1 .. Len(cstack) : LocalsAt(i) # NULL => heap'[LocalsAt(i)] = heap[LocalsAt(i)]
    <2> SUFFICES ASSUME NEW i \in 1 .. Len(cstack), LocalsAt(i) # NULL
                 PROVE  heap'[LocalsAt(i)] = heap[LocalsAt(i)]
      OBVIOUS
    <2>1. LocalsAt(i) \in Objects /\ heap[LocalsAt(i)] \in Variables
      BY ActivationFacts
    <2>2. LocalsAt(i) # cstack[1]
      BY <1>3, <2>1, ActivationFacts DEF Frames, Variables
    <2>3. LocalsAt(i) # locals
      BY <1>1, <1>3, ActivationFacts DEF OwnedOnce, LocalsAt
    <2> QED
      BY <1>4, <2>1, <2>2, <2>3
  <1> QED
    BY <1>3, <1>4, <1>6, <1>7, <1>8

LEMMA RetStep ==
  ASSUME VmInv, Ret
  PROVE  VmInv'
  <1>1. TypeOK /\ OwnedOnce
    BY DEF VmInv
  <1>2. CASE cstack = <<>>
    BY <1>2, EndsStep DEF Ret, Running
  <1>3. CASE cstack # <<>>
    <2>1. TypeOK'
      <3>1. Head(cstack) = cstack[1] /\ heap[cstack[1]] \in Frames
        BY <1>3, RetFacts, ActivationFacts
      <3>2. heap' \in [Objects -> {Unused} \cup Frames \cup Variables]
        BY <1>1, <1>3 DEF Ret, AfterReturn, Freed, TypeOK
      <3> QED
        <4>1. locals' \in Objects \cup {NULL} /\ pc' \in Nat
          BY <1>3, <3>1 DEF Ret, Frames
        <4>2. cstack' \in Seq(Objects) /\ Len(cstack') <= CSTACK
          BY <1>1, <1>3, RetFacts, ActivationFacts, CoreAssumption DEF TypeOK
        <4> QED
          BY <1>1, <1>3, <3>2, <4>1, <4>2 DEF TypeOK, Ret
    <2>2. OwnedOnce'
      <3>1. Len(cstack) \in Nat /\ Len(cstack') = Len(cstack) - 1 /\ Len(cstack) > 0
        BY <1>3, RetFacts, ActivationFacts
      <3>2. /\ \A i \in 1 .. Len(cstack') : i + 1 \in 1 .. Len(cstack)
            /\ \A i \in 0 .. Len(cstack') : i + 1 \in 1 .. Len(cstack)
        BY <3>1
      <3>3. \A i \in 1 .. Len(cstack') : heap'[cstack'[i]].kind = "frame"
        BY <1>3, <3>2, RetFacts, ActivationFacts DEF Frames
      <3>4. \A i, j \in 1 .. Len(cstack') : cstack'[i] = cstack'[j] => i = j
        BY <1>1, <1>3, <3>1, <3>2, RetFacts DEF OwnedOnce
      <3>5. \A i \in 0 .. Len(cstack') : LocalsAt(i)' # NULL => heap'[LocalsAt(i)'].kind = "locals"
        BY <1>1, <1>3, <3>1, <3>2, RetFacts DEF OwnedOnce
      <3>6. \A i, j \in 0 .. Len(cstack') :
              LocalsAt(i)' # NULL /\ LocalsAt(i)' = LocalsAt(j)' => i = j
        BY <1>1, <1>3, <3>1, <3>2, RetFacts DEF OwnedOnce
      <3> QED
        BY <3>3, <3>4, <3>5, <3>6 DEF OwnedOnce
    <2> QED
      BY <2>1, <2>2 DEF VmInv
  <1> QED
    BY <1>2, <1>3

\* LOCALS gives the running activation a fresh object; the others keep theirs.
LEMMA DeclareFacts ==
  ASSUME VmInv, NEW o \in Objects, heap[o] = Unused,
         NEW data, data \in Seq(Operands),
         heap' = [heap EXCEPT ![o] = Locals(data)], locals' = o, cstack' = cstack
  PROVE  /\ \A x \in Objects : heap'[x] = IF x = o THEN Locals(data) ELSE heap[x]
         /\ \A i \in 1 .. Len(cstack) :
              cstack[i] # o /\ heap'[cstack[i]] = heap[cstack[i]]
         /\ LocalsAt(0)' = o
         /\ \A i \in 1 .. Len(cstack) : LocalsAt(i)' = LocalsAt(i) /\ LocalsAt(i) # o
         /\ \A i \in 1 .. Len(cstack) : LocalsAt(i) # NULL => heap'[LocalsAt(i)] = heap[LocalsAt(i)]
  <1>1. \A x \in Objects : heap'[x] = IF x = o THEN Locals(data) ELSE heap[x]
    BY DEF VmInv, TypeOK
  <1>2. \A i \in 1 .. Len(cstack) : cstack[i] # o /\ heap'[cstack[i]] = heap[cstack[i]]
    BY <1>1, ActivationFacts DEF Frames, Unused
  <1>3. \A i \in 1 .. Len(cstack) : LocalsAt(i) # o
    BY ActivationFacts, CoreAssumption DEF Variables, Unused
  <1>4. LocalsAt(0)' = o /\ \A i \in 1 .. Len(cstack) : LocalsAt(i)' = LocalsAt(i)
    BY <1>2 DEF LocalsAt
  <1> QED
    BY <1>1, <1>2, <1>3, <1>4, ActivationFacts

LEMMA DeclareStep ==
  ASSUME VmInv, Declare
  PROVE  VmInv'
  <1>1. TypeOK /\ OwnedOnce /\ Fetches("LOCALS")
    BY DEF VmInv, Declare
  <1> PICK o \in Given :
        IF o = NULL THEN Ends("trap")
        ELSE /\ \E count \in 0 .. MAX_COUNT : \E data \in [1 .. count -> Operands] :
                  heap' = [heap EXCEPT ![o] = Locals(data)]
             /\ locals' = o
             /\ pc' = pc + 1
             /\ UNCHANGED <<status, dstack, cstack, ncalls_table>>
    BY DEF Declare
  <1>2. CASE o = NULL
    BY <1>2, EndsStep DEF Running
  <1>3. CASE o # NULL
    <2> PICK count \in 0 .. MAX_COUNT :
          \E data \in [1 .. count -> Operands] : heap' = [heap EXCEPT ![o] = Locals(data)]
      BY <1>3
    <2> PICK data \in [1 .. count -> Operands] : heap' = [heap EXCEPT ![o] = Locals(data)]
      OBVIOUS
    <2>1. o \in Objects /\ heap[o] = Unused
      BY <1>3 DEF Given
    <2>2. data \in Seq(Operands) /\ Locals(data) \in Variables
      BY CoreAssumption, SeqDef DEF Locals, Variables
    <2>3. locals' = o /\ cstack' = cstack /\ pc' = pc + 1
          /\ UNCHANGED <<status, dstack, ncalls_table>>
      BY <1>3
    <2>4. TypeOK'
      BY <1>1, <2>1, <2>2, <2>3 DEF TypeOK
    <2>5. OwnedOnce'
      <3>1. 0 \in 0 .. Len(cstack) /\ \A i \in 0 .. Len(cstack) : i = 0 \/ i \in 1 .. Len(cstack)
        <4>1. Len(cstack) \in Nat
          BY ActivationFacts
        <4> QED
          BY <4>1
      <3>2. /\ heap'[o] = Locals(data) /\ LocalsAt(0)' = o
            /\ \A i \in 1 .. Len(cstack) :
                 /\ heap'[cstack[i]] = heap[cstack[i]]
                 /\ LocalsAt(i)' = LocalsAt(i) /\ LocalsAt(i) # o
                 /\ LocalsAt(i) # NULL => heap'[LocalsAt(i)] = heap[LocalsAt(i)]
        <4>1. heap' = [heap EXCEPT ![o] = Locals(data)]
          OBVIOUS
        <4>2. /\ \A x \in Objects : heap'[x] = IF x = o THEN Locals(data) ELSE heap[x]
              /\ \A i \in 1 .. Len(cstack) :
                   cstack[i] # o /\ heap'[cstack[i]] = heap[cstack[i]]
              /\ LocalsAt(0)' = o
              /\ \A i \in 1 .. Len(cstack) : LocalsAt(i)' = LocalsAt(i) /\ LocalsAt(i) # o
              /\ \A i \in 1 .. Len(cstack) :
                   LocalsAt(i) # NULL => heap'[LocalsAt(i)] = heap[LocalsAt(i)]
          BY <2>1, <2>2, <2>3, <4>1, DeclareFacts
        <4> QED
          BY <2>1, <4>2
      <3>3. \A i \in 1 .. Len(cstack') : heap'[cstack'[i]].kind = "frame"
        BY <1>1, <2>3, <3>2 DEF OwnedOnce
      <3>4. \A i \in 0 .. Len(cstack') : LocalsAt(i)' # NULL => heap'[LocalsAt(i)'].kind = "locals"
        BY <1>1, <2>3, <3>1, <3>2 DEF OwnedOnce, Locals
      <3>5. \A i, j \in 0 .. Len(cstack') :
              LocalsAt(i)' # NULL /\ LocalsAt(i)' = LocalsAt(j)' => i = j
        BY <1>1, <2>3, <3>1, <3>2 DEF OwnedOnce
      <3> QED
        BY <1>1, <2>3, <3>3, <3>4, <3>5 DEF OwnedOnce
    <2> QED
      BY <2>4, <2>5 DEF VmInv
  <1> QED
    BY <1>2, <1>3

\* STLOC changes one variable of the running activation.
LEMMA AssignFacts ==
  ASSUME VmInv, NEW index \in Nat, InBounds(index), NEW v \in Operands,
         heap' = [heap EXCEPT ![locals].data[index + 1] = v], UNCHANGED <<cstack, locals>>
  PROVE  /\ locals \in Objects /\ heap[locals] \in Variables
         /\ index + 1 \in DOMAIN heap[locals].data
         /\ heap'[locals] = Locals([heap[locals].data EXCEPT ![index + 1] = v])
         /\ heap'[locals] \in Variables
         /\ \A x \in Objects \ {locals} : heap'[x] = heap[x]
         /\ \A i \in 1 .. Len(cstack) : heap'[cstack[i]] = heap[cstack[i]]
         /\ \A i \in 0 .. Len(cstack) : LocalsAt(i)' = LocalsAt(i)
  <1>1. locals \in Objects /\ heap[locals] \in Variables
    BY ActivationFacts DEF InBounds, LocalsAt
  <1>2. index + 1 \in 1 .. Len(heap[locals].data) /\ heap[locals].data \in Seq(Operands)
    BY <1>1, LenProperties DEF InBounds, Variables
  <1>3. /\ heap' = [heap EXCEPT ![locals] =
                      [heap[locals] EXCEPT !.data = [heap[locals].data EXCEPT ![index + 1] = v]]]
        /\ heap \in [Objects -> {Unused} \cup Frames \cup Variables]
    BY DEF VmInv, TypeOK
  <1>4. heap'[locals] = Locals([heap[locals].data EXCEPT ![index + 1] = v])
    BY <1>1, <1>3 DEF Variables, Locals
  <1>5. heap'[locals] \in Variables
    <2> DEFINE data == [heap[locals].data EXCEPT ![index + 1] = v]
    <2>1. data \in Seq(Operands)
      BY <1>2, ExceptSeq
    <2> HIDE DEF data
    <2>2. Locals(data) \in Variables
      BY <2>1 DEF Variables, Locals
    <2> QED
      BY <1>4, <2>2, Zenon DEF data
  <1>6. \A x \in Objects \ {locals} : heap'[x] = heap[x]
    BY <1>3
  <1>7. \A i \in 1 .. Len(cstack) : heap'[cstack[i]] = heap[cstack[i]]
    BY <1>1, <1>6, ActivationFacts DEF Frames, Variables
  <1>8. \A i \in 0 .. Len(cstack) : LocalsAt(i)' = LocalsAt(i)
    BY <1>7, ActivationFacts DEF LocalsAt
  <1> QED
    BY <1>1, <1>2, <1>4, <1>5, <1>6, <1>7, <1>8, LenProperties

LEMMA StLocStep ==
  ASSUME VmInv, StLoc
  PROVE  VmInv'
  <1>1. TypeOK /\ OwnedOnce /\ Fetches("STLOC")
    BY DEF VmInv, StLoc
  <1> PICK index \in 0 .. MAX_COUNT :
        IF InBounds(index)
        THEN /\ heap' = [heap EXCEPT ![locals].data[index + 1] = ARG1]
             /\ dstack' = Dstack("STLOC", <<>>)
             /\ pc' = pc + 1
             /\ UNCHANGED <<status, cstack, locals, ncalls_table>>
        ELSE Ends("panic")
    BY DEF StLoc
  <1>2. CASE ~InBounds(index)
    BY <1>2, EndsStep DEF Running
  <1>3. CASE InBounds(index)
    <2>1. heap' = [heap EXCEPT ![locals].data[index + 1] = ARG1]
          /\ UNCHANGED <<cstack, locals, status, ncalls_table>> /\ pc' = pc + 1
          /\ dstack' = Dstack("STLOC", <<>>)
      BY <1>3
    <2>2. ARG1 \in Operands /\ index \in Nat
      BY <1>1, ArgumentType, CoreAssumption
      DEF StackIn, TakesOne, TakesTwo, Computing, Stores
    <2>3. /\ locals \in Objects /\ heap[locals] \in Variables /\ heap'[locals] \in Variables
          /\ \A x \in Objects \ {locals} : heap'[x] = heap[x]
          /\ \A i \in 1 .. Len(cstack) : heap'[cstack[i]] = heap[cstack[i]]
          /\ \A i \in 0 .. Len(cstack) : LocalsAt(i)' = LocalsAt(i)
      BY <1>3, <2>1, <2>2, AssignFacts
    <2>4. TypeOK'
      <3>1. heap' \in [Objects -> {Unused} \cup Frames \cup Variables]
        BY <1>1, <2>1, <2>3 DEF TypeOK
      <3>2. dstack' \in Seq(Operands) /\ Len(dstack') <= DSTACK
        BY <1>1, <2>1, PoppedType
      <3> QED
        BY <1>1, <2>1, <3>1, <3>2 DEF TypeOK
    <2>5. OwnedOnce'
      <3>1. \A i \in 0 .. Len(cstack) : LocalsAt(i) # NULL =>
              heap[LocalsAt(i)].kind = "locals" /\ LocalsAt(i) \in Objects
        BY ActivationFacts DEF Variables
      <3>2. \A i \in 0 .. Len(cstack) : LocalsAt(i) # NULL => heap'[LocalsAt(i)].kind = "locals"
        BY <2>3, <3>1 DEF Variables
      <3> QED
        BY <1>1, <2>1, <2>3, <3>2 DEF OwnedOnce
    <2> QED
      BY <2>4, <2>5 DEF VmInv
  <1> QED
    BY <1>2, <1>3

\* A native routine of the table leaves frames and locals alone, whatever it pops and
\* pushes.
LEMMA NCallStep ==
  ASSUME VmInv, NCall
  PROVE  VmInv'
  <1>1. TypeOK
    BY DEF VmInv
  <1>2. CASE \E how \in {"panic", "undefined", "exit"} : Ends(how)
    BY <1>2, EndsStep DEF Running
  <1>3. CASE ~ \E how \in {"panic", "undefined", "exit"} : Ends(how)
    <2>1. PICK i \in DOMAIN ncalls_table : \E thunk \in ncalls_table[i] :
            \E results \in [1 .. thunk.out -> Operands] :
              LET rest == SubSeq(dstack, thunk.in + 1, Len(dstack))
              IN /\ ~(thunk.in > Len(dstack) \/ ~Fits(results \o rest))
                 /\ dstack' = results \o rest
                 /\ pc' = pc + 1
                 /\ UNCHANGED <<status, cstack, locals, heap, ncalls_table>>
      BY <1>3 DEF NCall
    <2>0. PICK thunk \in ncalls_table[i] :
          \E results \in [1 .. thunk.out -> Operands] :
            LET rest == SubSeq(dstack, thunk.in + 1, Len(dstack))
            IN /\ ~(thunk.in > Len(dstack) \/ ~Fits(results \o rest))
               /\ dstack' = results \o rest
               /\ pc' = pc + 1
               /\ UNCHANGED <<status, cstack, locals, heap, ncalls_table>>
      BY <2>1
    <2>2. PICK results \in [1 .. thunk.out -> Operands] :
            LET rest == SubSeq(dstack, thunk.in + 1, Len(dstack))
            IN /\ ~(thunk.in > Len(dstack) \/ ~Fits(results \o rest))
               /\ dstack' = results \o rest
               /\ pc' = pc + 1
               /\ UNCHANGED <<status, cstack, locals, heap, ncalls_table>>
      BY <2>0
    <2>3. ncalls_table[i] \in SUBSET [in : Nat, out : Nat]
      <3>1. ncalls_table \in Seq(SUBSET [in : Nat, out : Nat])
        BY <1>1, CoreAssumption, EmptySeq DEF TypeOK
      <3> QED
        BY <3>1, LenProperties, ElementOfSeq
    <2> DEFINE k == thunk.in
    <2>4. k \in Nat /\ thunk.out \in Nat
      BY <2>3
    <2>5. results \in Seq(Operands)
      BY <2>4, SeqDef
    <2>6. k <= Len(dstack) /\ dstack' = results \o SubSeq(dstack, k + 1, Len(dstack))
          /\ Len(dstack') <= DSTACK
      BY <1>1, <2>2, <2>4, LenProperties DEF TypeOK, Fits
    <2>7. dstack' \in Seq(Operands)
      BY <1>1, <2>4, <2>5, <2>6, Replaced DEF TypeOK
    <2> QED
      BY <1>1, <2>2, <2>6, <2>7, QuietStep DEF TypeOK
  <1> QED
    BY <1>2, <1>3

-----------------------------------------------------------------------------
LEMMA NextVmInv ==
  ASSUME VmInv, [Next]_vars
  PROVE  VmInv'
  <1>1. TypeOK
    BY DEF VmInv
  <1>2. CASE Create
    BY <1>1, <1>2, QuietStep DEF Create, TypeOK, Running
  <1>3. CASE StepUnknown \/ StepUnderflows \/ StepRunsOff
    BY <1>3, EndsStep DEF StepUnknown, StepUnderflows, StepRunsOff, Running
  <1>4. CASE Compute
    <2> PICK op \in Computing : Computes(op)
      BY <1>4 DEF Compute
    <2>1. CASE Ends("trap")
      BY <2>1, EndsStep DEF Running
    <2>2. CASE \E results \in Results(op, ARG1, ARG2) : Leaves(op, results)
      <3> PICK results \in Results(op, ARG1, ARG2) : Leaves(op, results)
        BY <2>2
      <3>1. StackIn(op) = 2
        BY DEF StackIn, TakesTwo
      <3>2. results \in Seq(Operands)
        BY <1>1, <3>1, ArgumentType, ResultsType DEF Computes
      <3> QED
        BY <3>2, LeavesStep DEF Computes
    <2> QED
      BY <2>1, <2>2 DEF Computes
  <1>5. CASE Load
    <2> PICK op \in Constants \cup Loads : Fetches(op) /\
          \E v \in CASE op = "LDC.0" -> {0} [] op = "LDC.1" -> {1} [] op = "LDC.2" -> {2}
                     [] OTHER -> Operands : Leaves(op, <<v>>)
      BY <1>5 DEF Load
    <2>1. PICK v \in Operands : Leaves(op, <<v>>)
      <3>1. 2 \in Operands
        BY WordAssumption, CoreAssumption, WordFacts DEF Operands, WORD
      <3> QED
        BY <3>1, WordFacts
    <2>2. <<v>> \in Seq(Operands)
      OBVIOUS
    <2> QED
      BY <2>1, <2>2, LeavesStep
  <1>6. CASE StoreMem \/ Pop
    <2>1. <<>> \in Seq(Operands)
      BY EmptySeq
    <2> QED
      BY <1>6, <2>1, LeavesStep DEF StoreMem, Pop
  <1>7. CASE Dup \/ Swap
    <2>1. StackIn("DUP") = 1 /\ StackIn("SWAP") = 2
      BY DEF StackIn, TakesOne, TakesTwo, Computing, Stores
    <2>2. \A v, w \in Operands : <<v, w>> \in Seq(Operands)
      OBVIOUS
    <2>3. CASE Dup
      <3>1. <<ARG1, ARG1>> \in Seq(Operands)
        BY <1>1, <2>1, <2>2, <2>3, ArgumentType DEF Dup
      <3> QED
        BY <2>3, <3>1, LeavesStep DEF Dup
    <2>4. CASE Swap
      <3>1. <<ARG2, ARG1>> \in Seq(Operands)
        BY <1>1, <2>1, <2>2, <2>4, ArgumentType DEF Swap
      <3> QED
        BY <2>4, <3>1, LeavesStep DEF Swap
    <2> QED
      BY <1>7, <2>3, <2>4
  <1>8. CASE Declare
    BY <1>8, DeclareStep
  <1>9. CASE LdLoc
    <2> PICK index \in 0 .. MAX_COUNT :
          IF InBounds(index) THEN Leaves("LDLOC", <<heap[locals].data[index + 1]>>)
          ELSE Ends("panic")
      BY <1>9 DEF LdLoc
    <2>1. CASE InBounds(index)
      <3>1. locals # NULL /\ locals = LocalsAt(0) /\ 0 \in 0 .. Len(cstack)
        BY <2>1, ActivationFacts DEF InBounds, LocalsAt
      <3>2. heap[locals].data \in Seq(Operands) /\ index + 1 \in 1 .. Len(heap[locals].data)
        BY <2>1, <3>1, ActivationFacts, CoreAssumption, LenProperties DEF InBounds, Variables
      <3>3. heap[locals].data[index + 1] \in Operands
        BY <3>2, ElementOfSeq
      <3>4. <<heap[locals].data[index + 1]>> \in Seq(Operands)
        BY <3>3
      <3> QED
        BY <1>9, <2>1, <3>4, LeavesStep DEF LdLoc
    <2>2. CASE ~InBounds(index)
      BY <2>2, EndsStep DEF Running
    <2> QED
      BY <2>1, <2>2
  <1>10. CASE StLoc
    BY <1>10, StLocStep
  <1>11. CASE Branch
    <2> PICK op \in {"BR", "BR.T", "BR.F"}, target \in 0 .. CODE :
          /\ Fetches(op)
          /\ Goes(op, IF \/ op = "BR"
                         \/ op = "BR.T" /\ ARG1 # 0
                         \/ op = "BR.F" /\ ARG1 = 0
                      THEN target ELSE pc + 1)
      BY <1>11 DEF Branch
    <2>1. PICK next \in Nat : Goes(op, next)
      BY <1>1, CoreAssumption DEF TypeOK
    <2> QED
      BY <2>1, GoesStep
  <1>12. CASE IJmp \/ ICall
    <2>1. StackIn("IJMP") = 1 /\ StackIn("ICALL") = 1
      BY DEF StackIn, TakesOne, TakesTwo, Computing, Stores
    <2>2. ARG1 \in Nat
      BY <1>1, <1>12, <2>1, ArgumentType, WordFacts DEF IJmp, ICall
    <2> QED
      BY <1>12, <2>2, GoesStep, CallsStep DEF IJmp, ICall
  <1>13. CASE Call
    BY <1>13, CallsStep, CoreAssumption DEF Call
  <1>14. CASE Ret
    BY <1>14, RetStep
  <1>15. CASE NCall
    BY <1>15, NCallStep
  <1>16. CASE UNCHANGED vars
    BY <1>16, <1>1, QuietStep DEF vars, TypeOK
  <1> QED
    BY <1>2, <1>3, <1>4, <1>5, <1>6, <1>7, <1>8, <1>9, <1>10, <1>11, <1>12, <1>13, <1>14,
       <1>15, <1>16 DEF Next

LEMMA VmInvariant == Spec => []VmInv
  BY InitVmInv, NextVmInv, PTL DEF Spec

\* No stack passes its limit and every variable keeps its type, whatever program runs
\* (vm_stack_push3, vm_stack_pop3).
THEOREM TypeCorrect == Spec => []TypeOK
  <1>1. VmInv => TypeOK
    BY DEF VmInv
  <1> QED
    BY <1>1, VmInvariant, PTL

\* Every frame and every object of locals has one owner, so that RET never frees one that
\* is free already or still used (op_RET).
THEOREM FreedOnce == Spec => []OwnedOnce
  <1>1. VmInv => OwnedOnce
    BY DEF VmInv
  <1> QED
    BY <1>1, VmInvariant, PTL

-----------------------------------------------------------------------------
(***************************************************************************)
(* VmCore implements VmCalls.                                              *)
(***************************************************************************)
Variants == {<<>>} \cup {<<data>> : data \in Seq(Operands)}
Suspended == [return_pc : Nat, locals : Variants]
Callers == [i \in 1 .. Len(cstack) |->
              [return_pc |-> heap[cstack[i]].return_pc, locals |-> VariablesAt(i)]]

LEMMA CallersType ==
  ASSUME VmInv
  PROVE  /\ Len(cstack) \in Nat
         /\ \A i \in 0 .. Len(cstack) : VariablesAt(i) \in Variants
         /\ Callers \in Seq(Suspended) /\ Len(Callers) = Len(cstack)
         /\ \A i \in 1 .. Len(cstack) :
              Callers[i] = [return_pc |-> heap[cstack[i]].return_pc, locals |-> VariablesAt(i)]
  <1>1. Len(cstack) \in Nat
    BY ActivationFacts
  <1>2. \A i \in 0 .. Len(cstack) : VariablesAt(i) \in Variants
    BY ActivationFacts DEF VariablesAt, Variants, Variables
  <1>3. \A i \in 1 .. Len(cstack) : heap[cstack[i]].return_pc \in Nat /\ VariablesAt(i) \in Variants
    BY <1>1, <1>2, ActivationFacts DEF Frames
  <1>4. Callers \in [1 .. Len(cstack) -> Suspended]
    BY <1>3 DEF Callers, Suspended
  <1>5. Callers \in Seq(Suspended)
    BY <1>1, <1>4, SeqDef
  <1>6. Len(Callers) = Len(cstack)
    <2>1. DOMAIN Callers = 1 .. Len(cstack)
      BY DEF Callers
    <2>2. DOMAIN Callers = 1 .. Len(Callers) /\ Len(Callers) \in Nat
      BY <1>5, LenProperties
    <2> QED
      BY <1>1, <2>1, <2>2
  <1> QED
    BY <1>1, <1>2, <1>5, <1>6 DEF Callers

LEMMA InitCalls == Init => Calling!Init
  <1> SUFFICES ASSUME Init PROVE Calling!Init
    OBVIOUS
  <1>1. VmInv
    BY InitVmInv
  <1>2. Len(Callers) = 0 /\ Callers \in Seq(Suspended)
    BY <1>1, CallersType, EmptySeq DEF Init
  <1>3. Callers = <<>>
    BY <1>2, EmptySeq
  <1>4. VariablesAt(0) = <<>>
    BY DEF Init, VariablesAt, LocalsAt
  <1> QED
    BY <1>3, <1>4 DEF Init, Calling!Init, Callers

\* A step that leaves every activation's variables alone.
LEMMA QuietCalls ==
  ASSUME VmInv, UNCHANGED <<cstack, locals, heap>>, pc' \in Nat
  PROVE  Calling!Continue
  <1>1. \A i \in 0 .. Len(cstack) : VariablesAt(i)' = VariablesAt(i)
    BY DEF VariablesAt, LocalsAt
  <1>2. VariablesAt(0)' = VariablesAt(0)
    BY DEF VariablesAt, LocalsAt
  <1>3. Callers' = Callers
    BY DEF Callers, VariablesAt, LocalsAt
  <1> QED
    BY <1>2, <1>3 DEF Calling!Continue, Callers

LEMMA RetCalls ==
  ASSUME VmInv, VmInv', Ret, cstack # <<>>
  PROVE  Calling!Return
  <1>1. Len(cstack) \in Nat /\ Len(cstack) > 0 /\ Len(cstack') = Len(cstack) - 1
    BY RetFacts, ActivationFacts
  <1>2. \A i \in 0 .. Len(cstack') : VariablesAt(i)' = VariablesAt(i + 1)
    BY <1>1, RetFacts DEF VariablesAt
  <1>3. /\ Callers \in Seq(Suspended) /\ Len(Callers) = Len(cstack)
        /\ \A i \in 1 .. Len(cstack) :
             Callers[i] = [return_pc |-> heap[cstack[i]].return_pc, locals |-> VariablesAt(i)]
    BY CallersType
  <1>4. Callers # <<>>
    BY <1>1, <1>3, EmptySeq
  <1>5. Callers' = Tail(Callers)
    <2>1. Tail(Callers) \in Seq(Suspended) /\ Len(Tail(Callers)) = Len(cstack) - 1
          /\ \A i \in 1 .. Len(Tail(Callers)) : Tail(Callers)[i] = Callers[i + 1]
      BY <1>3, <1>4, HeadTailProperties
    <2>2. Callers' \in Seq(Suspended) /\ Len(Callers') = Len(cstack')
      <3>1. (Callers \in Seq(Suspended) /\ Len(Callers) = Len(cstack))'
        BY CallersType, PTL
      <3> QED
        BY <3>1 DEF Suspended, Variants
    <2>3. \A i \in 1 .. Len(cstack') : Callers'[i] = Callers[i + 1]
      <3> SUFFICES ASSUME NEW i \in 1 .. Len(cstack') PROVE Callers'[i] = Callers[i + 1]
        OBVIOUS
      <3>1. i + 1 \in 1 .. Len(cstack) /\ i \in 0 .. Len(cstack')
        BY <1>1
      <3>2. Callers'[i] = [return_pc |-> heap'[cstack'[i]].return_pc, locals |-> VariablesAt(i)']
        BY DEF Callers
      <3> QED
        BY <1>2, <1>3, <3>1, <3>2, RetFacts
    <2> QED
      BY <1>1, <2>1, <2>2, <2>3, SeqEqual
  <1>6. Head(Callers) = [return_pc |-> heap[cstack[1]].return_pc, locals |-> VariablesAt(1)]
    <2>1. Head(Callers) = Callers[1]
      OBVIOUS
    <2>2. 1 \in 1 .. Len(cstack)
      BY <1>1
    <2> QED
      BY <1>3, <2>1, <2>2
  <1>7. pc' = Head(Callers).return_pc
    <2>1. Head(cstack) = cstack[1]
      OBVIOUS
    <2> QED
      BY <1>6, <2>1 DEF Ret
  <1>8. VariablesAt(0)' = Head(Callers).locals
    <2>1. VariablesAt(0)' = VariablesAt(0 + 1)
      BY <1>1, <1>2
    <2> QED
      BY <1>6, <2>1
  <1> QED
    BY <1>4, <1>5, <1>7, <1>8 DEF Calling!Return, Callers

\* A call pushes the running activation's variables on those of its callers.
LEMMA CallCalls ==
  ASSUME VmInv, VmInv', NEW op, NEW target \in Nat, NEW o \in Objects, heap[o] = Unused,
         heap' = [heap EXCEPT ![o] = Frame(pc + 1, locals)], cstack' = <<o>> \o cstack,
         locals' = NULL, pc' = target
  PROVE  Calling!Call
  <1>1. Len(cstack) \in Nat /\ cstack \in Seq(Objects)
    BY ActivationFacts DEF VmInv, TypeOK
  <1>2. /\ Len(cstack') = Len(cstack) + 1 /\ cstack'[1] = o
        /\ \A i \in 1 .. Len(cstack') : i # 1 => cstack'[i] = cstack[i - 1]
    <2>1. <<o>> \in Seq(Objects) /\ Len(<<o>>) = 1 /\ <<o>>[1] = o
      OBVIOUS
    <2> QED
      BY <1>1, <2>1, ConcatProperties
  <1>3. \A x \in Objects : heap'[x] = IF x = o THEN Frame(pc + 1, locals) ELSE heap[x]
    BY DEF VmInv, TypeOK
  <1>4. \A i \in 1 .. Len(cstack) : heap'[cstack[i]] = heap[cstack[i]]
    BY <1>3, ActivationFacts DEF Frames, Unused
  <1>5. \A i \in 0 .. Len(cstack) : LocalsAt(i) # NULL => heap'[LocalsAt(i)] = heap[LocalsAt(i)]
    BY <1>3, ActivationFacts DEF Variables, Unused
  <1>6. \A i \in 1 .. Len(cstack') : LocalsAt(i)' = LocalsAt(i - 1)
    <2> SUFFICES ASSUME NEW i \in 1 .. Len(cstack') PROVE LocalsAt(i)' = LocalsAt(i - 1)
      OBVIOUS
    <2>1. CASE i = 1
      BY <1>2, <1>3, <2>1 DEF LocalsAt, Frame
    <2>2. CASE i # 1
      <3>1. i - 1 \in 1 .. Len(cstack)
        BY <1>1, <1>2, <2>2
      <3> QED
        BY <1>2, <1>4, <2>2, <3>1 DEF LocalsAt
    <2> QED
      BY <2>1, <2>2
  <1>7. \A i \in 1 .. Len(cstack') : VariablesAt(i)' = VariablesAt(i - 1)
    <2> SUFFICES ASSUME NEW i \in 1 .. Len(cstack') PROVE VariablesAt(i)' = VariablesAt(i - 1)
      OBVIOUS
    <2>1. i - 1 \in 0 .. Len(cstack)
      BY <1>1, <1>2
    <2>2. LocalsAt(i)' = LocalsAt(i - 1)
      BY <1>6, Zenon
    <2>3. LocalsAt(i - 1) # NULL => heap'[LocalsAt(i - 1)] = heap[LocalsAt(i - 1)]
      BY <1>5, <2>1, Zenon
    <2> QED
      BY <2>2, <2>3 DEF VariablesAt
  <1> DEFINE caller == [return_pc |-> pc + 1, locals |-> VariablesAt(0)]
  <1>8. caller \in Suspended
    <2>1. VariablesAt(0) \in Variants
      BY CallersType
    <2> QED
      BY <2>1 DEF VmInv, TypeOK, Suspended
  <1>9. Callers' = <<caller>> \o Callers
    <2>1. /\ Callers \in Seq(Suspended) /\ Len(Callers) = Len(cstack)
          /\ \A i \in 1 .. Len(cstack) :
               Callers[i] = [return_pc |-> heap[cstack[i]].return_pc, locals |-> VariablesAt(i)]
      BY CallersType
    <2> HIDE DEF caller
    <2>2. <<caller>> \in Seq(Suspended) /\ Len(<<caller>>) = 1 /\ <<caller>>[1] = caller
      BY <1>8
    <2>3. /\ <<caller>> \o Callers \in Seq(Suspended)
          /\ Len(<<caller>> \o Callers) = Len(cstack) + 1
          /\ \A i \in 1 .. Len(cstack) + 1 :
               (<<caller>> \o Callers)[i] = IF i <= 1 THEN <<caller>>[i] ELSE Callers[i - 1]
      BY <1>1, <2>1, <2>2, ConcatProperties
    <2>4. Callers' \in Seq(Suspended) /\ Len(Callers') = Len(cstack')
      <3>1. (Callers \in Seq(Suspended) /\ Len(Callers) = Len(cstack))'
        BY CallersType, PTL
      <3> QED
        BY <3>1 DEF Suspended, Variants
    <2>5. \A i \in 1 .. Len(cstack') : Callers'[i] = (<<caller>> \o Callers)[i]
      <3> SUFFICES ASSUME NEW i \in 1 .. Len(cstack')
                   PROVE  Callers'[i] = (<<caller>> \o Callers)[i]
        OBVIOUS
      <3>1. Callers'[i] = [return_pc |-> heap'[cstack'[i]].return_pc, locals |-> VariablesAt(i)']
        BY DEF Callers
      <3>2. CASE i = 1
        <4>1. heap'[cstack'[1]].return_pc = pc + 1
          BY <1>2, <1>3 DEF Frame
        <4>2. VariablesAt(i)' = VariablesAt(0)
          BY <1>7, <3>2
        <4>3. (<<caller>> \o Callers)[i] = caller
          BY <1>1, <2>2, <2>3, <3>2
        <4> QED
          BY <3>1, <3>2, <4>1, <4>2, <4>3 DEF caller
      <3>3. CASE i # 1
        <4>1. i - 1 \in 1 .. Len(cstack) /\ i \in 1 .. Len(cstack) + 1 /\ ~(i <= 1)
          BY <1>1, <1>2, <3>3
        <4>2. cstack'[i] = cstack[i - 1] /\ heap'[cstack[i - 1]] = heap[cstack[i - 1]]
          BY <1>2, <1>4, <3>3, <4>1
        <4>3. VariablesAt(i)' = VariablesAt(i - 1)
          BY <1>7
        <4> QED
          BY <2>1, <2>3, <3>1, <4>1, <4>2, <4>3
      <3> QED
        BY <3>2, <3>3
    <2> QED
      BY <1>2, <2>3, <2>4, <2>5, SeqEqual
  <1>10. VariablesAt(0)' = <<>>
    BY DEF VariablesAt, LocalsAt
  <1> QED
    BY <1>9, <1>10 DEF Calling!Call, Callers

LEMMA DeclareCalls ==
  ASSUME VmInv, Declare
  PROVE  Calling!Declare \/ Calling!Continue
  <1> PICK o \in Given :
        IF o = NULL THEN Ends("trap")
        ELSE /\ \E count \in 0 .. MAX_COUNT : \E data \in [1 .. count -> Operands] :
                  heap' = [heap EXCEPT ![o] = Locals(data)]
             /\ locals' = o
             /\ pc' = pc + 1
             /\ UNCHANGED <<status, dstack, cstack, ncalls_table>>
    BY DEF Declare
  <1>1. CASE o = NULL
    BY <1>1, QuietCalls DEF Ends, VmInv, TypeOK
  <1>2. CASE o # NULL
    <2> PICK count \in 0 .. MAX_COUNT :
          \E data \in [1 .. count -> Operands] : heap' = [heap EXCEPT ![o] = Locals(data)]
      BY <1>2
    <2> PICK data \in [1 .. count -> Operands] : heap' = [heap EXCEPT ![o] = Locals(data)]
      OBVIOUS
    <2>1. o \in Objects /\ heap[o] = Unused /\ data \in Seq(Operands)
      BY <1>2, CoreAssumption, SeqDef DEF Given
    <2>2. locals' = o /\ cstack' = cstack /\ pc' = pc + 1
      BY <1>2
    <2>3. /\ \A x \in Objects : heap'[x] = IF x = o THEN Locals(data) ELSE heap[x]
          /\ \A i \in 1 .. Len(cstack) :
               cstack[i] # o /\ heap'[cstack[i]] = heap[cstack[i]]
          /\ LocalsAt(0)' = o
          /\ \A i \in 1 .. Len(cstack) : LocalsAt(i)' = LocalsAt(i) /\ LocalsAt(i) # o
          /\ \A i \in 1 .. Len(cstack) :
               LocalsAt(i) # NULL => heap'[LocalsAt(i)] = heap[LocalsAt(i)]
      BY <2>1, <2>2, DeclareFacts
    <2>4. VariablesAt(0)' = <<data>>
      BY <1>2, <2>1, <2>3 DEF VariablesAt, Locals
    <2>5. \A i \in 1 .. Len(cstack) : VariablesAt(i)' = VariablesAt(i)
      BY <2>3 DEF VariablesAt
    <2>6. Callers' = Callers
      BY <2>2, <2>3, <2>5 DEF Callers
    <2> QED
      BY <2>2, <2>4, <2>6 DEF Calling!Declare, Callers
  <1> QED
    BY <1>1, <1>2

LEMMA StLocCalls ==
  ASSUME VmInv, StLoc
  PROVE  Calling!Assign \/ Calling!Continue
  <1> PICK index \in 0 .. MAX_COUNT :
        IF InBounds(index)
        THEN /\ heap' = [heap EXCEPT ![locals].data[index + 1] = ARG1]
             /\ dstack' = Dstack("STLOC", <<>>)
             /\ pc' = pc + 1
             /\ UNCHANGED <<status, cstack, locals, ncalls_table>>
        ELSE Ends("panic")
    BY DEF StLoc
  <1>1. CASE ~InBounds(index)
    BY <1>1, QuietCalls DEF Ends, VmInv, TypeOK
  <1>2. CASE InBounds(index)
    <2>1. heap' = [heap EXCEPT ![locals].data[index + 1] = ARG1]
          /\ UNCHANGED <<cstack, locals>> /\ pc' = pc + 1
      BY <1>2
    <2>2. ARG1 \in Operands /\ index \in Nat
      BY ArgumentType, CoreAssumption
      DEF StackIn, TakesOne, TakesTwo, Computing, Stores, VmInv, StLoc
    <2>3. /\ locals \in Objects /\ heap[locals] \in Variables
          /\ index + 1 \in DOMAIN heap[locals].data
          /\ heap'[locals] = Locals([heap[locals].data EXCEPT ![index + 1] = ARG1])
          /\ \A x \in Objects \ {locals} : heap'[x] = heap[x]
          /\ \A i \in 1 .. Len(cstack) : heap'[cstack[i]] = heap[cstack[i]]
          /\ \A i \in 0 .. Len(cstack) : LocalsAt(i)' = LocalsAt(i)
      BY <1>2, <2>1, <2>2, AssignFacts
    <2>4. locals # NULL /\ LocalsAt(0) = locals /\ LocalsAt(0)' = locals
      BY <1>2, <2>1 DEF InBounds, LocalsAt
    <2>5. VariablesAt(0) = <<heap[locals].data>>
      BY <2>4 DEF VariablesAt
    <2>6. VariablesAt(0)' = <<[heap[locals].data EXCEPT ![index + 1] = ARG1]>>
      BY <2>3, <2>4 DEF VariablesAt, Locals
    <2>7. VariablesAt(0)' = [VariablesAt(0) EXCEPT ![1][index + 1] = ARG1]
      BY <2>5, <2>6
    <2>8. \A i \in 1 .. Len(cstack) : VariablesAt(i)' = VariablesAt(i)
      <3> SUFFICES ASSUME NEW i \in 1 .. Len(cstack) PROVE VariablesAt(i)' = VariablesAt(i)
        OBVIOUS
      <3>1. i \in 0 .. Len(cstack) /\ 0 \in 0 .. Len(cstack) /\ i # 0
        BY ActivationFacts
      <3>2. LocalsAt(i) # NULL => LocalsAt(i) \in Objects \ {locals}
        BY <2>4, <3>1, ActivationFacts DEF VmInv, OwnedOnce
      <3> QED
        BY <2>3, <3>1, <3>2 DEF VariablesAt
    <2>9. Callers' = Callers
      BY <2>1, <2>3, <2>8 DEF Callers
    <2>10. VariablesAt(0) # <<>> /\ VariablesAt(0)[1] = heap[locals].data
      BY <2>5
    <2> QED
      BY <2>1, <2>2, <2>3, <2>7, <2>9, <2>10 DEF Calling!Assign, Callers
  <1> QED
    BY <1>1, <1>2

LEMMA CallsRefine ==
  ASSUME VmInv, VmInv', NEW op, Fetches(op), NEW target \in Nat, Calls(op, target)
  PROVE  Calling!Call \/ Calling!Continue
  <1> PICK o \in Given :
        IF o = NULL THEN Ends("trap")
        ELSE IF Len(cstack) = CSTACK THEN Ends("panic")
        ELSE /\ heap' = [heap EXCEPT ![o] = Frame(pc + 1, locals)]
             /\ cstack' = <<o>> \o cstack
             /\ locals' = NULL
             /\ dstack' = Dstack(op, <<>>)
             /\ pc' = target
             /\ UNCHANGED <<status, ncalls_table>>
    BY DEF Calls, SavedLocals, CalleeLocals
  <1>1. CASE o = NULL \/ Len(cstack) = CSTACK
    BY <1>1, QuietCalls DEF Ends, VmInv, TypeOK
  <1>2. CASE o # NULL /\ Len(cstack) # CSTACK
    <2>1. o \in Objects /\ heap[o] = Unused
      BY <1>2 DEF Given
    <2> QED
      BY <1>2, <2>1, CallCalls
  <1> QED
    BY <1>1, <1>2

\* Every step that is no call, return, LOCALS or STLOC leaves all variables alone.
LEMMA OthersKeep ==
  ASSUME \/ Create \/ StepUnknown \/ StepUnderflows \/ StepRunsOff \/ Compute \/ Load
         \/ StoreMem \/ Dup \/ Swap \/ Pop \/ LdLoc \/ Branch \/ IJmp \/ NCall
  PROVE  UNCHANGED <<cstack, locals, heap>>
  <1>1. CASE Create \/ StepUnknown \/ StepUnderflows \/ StepRunsOff \/ NCall
    BY <1>1 DEF Create, StepUnknown, StepUnderflows, StepRunsOff, NCall, Ends
  <1>2. CASE Compute \/ Load \/ StoreMem \/ Dup \/ Swap \/ Pop \/ LdLoc
    BY <1>2 DEF Compute, Computes, Load, StoreMem, Dup, Swap, Pop, LdLoc, Leaves, Ends
  <1>3. CASE Branch \/ IJmp
    BY <1>3 DEF Branch, IJmp, Goes
  <1> QED
    BY <1>1, <1>2, <1>3

LEMMA NextCalls ==
  ASSUME VmInv, VmInv', [Next]_vars
  PROVE  [Calling!Next]_(Calling!vars)
  <1>1. CASE Ret
    <2>1. CASE cstack = <<>>
      BY <1>1, <2>1, QuietCalls DEF Ret, Ends, VmInv, TypeOK, Calling!Next
    <2>2. CASE cstack # <<>>
      BY <1>1, <2>2, RetCalls DEF Calling!Next
    <2> QED
      BY <2>1, <2>2
  <1>2. CASE Call \/ ICall
    <2>1. StackIn("ICALL") = 1
      BY DEF StackIn, TakesOne, TakesTwo, Computing, Stores
    <2>2. ICall => ARG1 \in Nat
      BY <2>1, ArgumentType, WordFacts DEF ICall, VmInv
    <2>3. \E op, target : Fetches(op) /\ target \in Nat /\ Calls(op, target)
      BY <1>2, <2>2, CoreAssumption DEF Call, ICall
    <2> QED
      BY <2>3, CallsRefine DEF Calling!Next
  <1>3. CASE Declare
    BY <1>3, DeclareCalls DEF Calling!Next
  <1>4. CASE StLoc
    BY <1>4, StLocCalls DEF Calling!Next
  <1>5. CASE UNCHANGED vars
    <2>1. Callers' = Callers /\ VariablesAt(0)' = VariablesAt(0) /\ pc' = pc
      BY <1>5 DEF vars, Callers, VariablesAt, LocalsAt
    <2> QED
      BY <2>1 DEF Calling!vars, Callers
  <1>6. CASE \/ Create \/ StepUnknown \/ StepUnderflows \/ StepRunsOff \/ Compute \/ Load
             \/ StoreMem \/ Dup \/ Swap \/ Pop \/ LdLoc \/ Branch \/ IJmp \/ NCall
    BY <1>6, OthersKeep, QuietCalls DEF Calling!Next, VmInv, TypeOK
  <1> QED
    BY <1>1, <1>2, <1>3, <1>4, <1>5, <1>6 DEF Next

\* Whatever program runs, every activation keeps its own locals, and RET resumes the
\* caller behind its call with the caller's locals as they were (op_CALL, op_ICALL,
\* op_RET, op_LOCALS, op_STLOC).
THEOREM CallsImplemented == Spec => ImplementsCalls
  <1>1. VmInv /\ VmInv' /\ [Next]_vars => [Calling!Next]_(Calling!vars)
    BY NextCalls
  <1> QED
    BY <1>1, InitCalls, VmInvariant, PTL DEF Spec, ImplementsCalls, Calling!Spec

-----------------------------------------------------------------------------
(***************************************************************************)
(* What leaks.                                                             *)
(***************************************************************************)
LeaksOnlyLocals ==
    \A o \in Leaked' \ Leaked : o = locals /\ locals' \notin {locals, NULL} /\ cstack' = cstack

\* An object used before that nothing reaches after the step was lost by it.
LEMMA LeaksNone ==
  ASSUME \A x \in Objects : heap'[x] # Unused /\ x \notin Reachable' =>
           heap[x] # Unused /\ x \notin Reachable
  PROVE  LeaksOnlyLocals
  BY DEF LeaksOnlyLocals, Leaked

LEMMA QuietLeaks ==
  ASSUME UNCHANGED <<cstack, locals, heap>>
  PROVE  LeaksOnlyLocals
  <1>1. Reachable' = Reachable
    BY DEF Reachable, LocalsAt
  <1> QED
    BY <1>1, LeaksNone

LEMMA CallLeaks ==
  ASSUME VmInv, NEW op, NEW target, Calls(op, target)
  PROVE  LeaksOnlyLocals
  <1> PICK o \in Given :
        IF o = NULL THEN Ends("trap")
        ELSE IF Len(cstack) = CSTACK THEN Ends("panic")
        ELSE /\ heap' = [heap EXCEPT ![o] = Frame(pc + 1, locals)]
             /\ cstack' = <<o>> \o cstack
             /\ locals' = NULL
    BY DEF Calls, SavedLocals, CalleeLocals
  <1>1. CASE o = NULL \/ Len(cstack) = CSTACK
    BY <1>1, QuietLeaks DEF Ends
  <1>2. CASE o # NULL /\ Len(cstack) # CSTACK
    <2>1. o \in Objects /\ heap[o] = Unused
      BY <1>2 DEF Given
    <2>2. \A x \in Objects : heap'[x] = IF x = o THEN Frame(pc + 1, locals) ELSE heap[x]
      BY <1>2 DEF VmInv, TypeOK
    <2>3. /\ Len(cstack) \in Nat /\ Len(cstack') = Len(cstack) + 1 /\ cstack'[1] = o
          /\ \A i \in 1 .. Len(cstack) : cstack'[i + 1] = cstack[i]
      <3>1. Len(cstack) \in Nat /\ cstack \in Seq(Objects)
        BY ActivationFacts DEF VmInv, TypeOK
      <3>2. <<o>> \in Seq(Objects) /\ Len(<<o>>) = 1 /\ <<o>>[1] = o
        BY <2>1
      <3>3. \A i \in 1 .. 1 + Len(cstack) :
              cstack'[i] = IF i <= 1 THEN <<o>>[i] ELSE cstack[i - 1]
        BY <1>2, <3>1, <3>2, ConcatProperties
      <3> QED
        BY <1>2, <3>1, <3>2, <3>3, ConcatProperties
    <2>4. \A i \in 1 .. Len(cstack) : heap'[cstack[i]] = heap[cstack[i]]
      BY <2>1, <2>2, ActivationFacts DEF Frames, Unused
    <2>5. \A i \in 0 .. Len(cstack) : LocalsAt(i + 1)' = LocalsAt(i)
      BY <2>1, <2>2, <2>3, <2>4 DEF LocalsAt, Frame
    <2>6. o \in Reachable' /\ Reachable \subseteq Reachable'
      <3>1. 1 \in 1 .. Len(cstack') /\ \A i \in 1 .. Len(cstack) : i + 1 \in 1 .. Len(cstack')
        BY <2>3
      <3>2. \A i \in 0 .. Len(cstack) : i + 1 \in 0 .. Len(cstack')
        BY <2>3
      <3> QED
        BY <2>3, <2>5, <3>1, <3>2 DEF Reachable
    <2> QED
      BY <2>2, <2>6, LeaksNone
  <1> QED
    BY <1>1, <1>2

LEMMA RetLeaks ==
  ASSUME VmInv, Ret
  PROVE  LeaksOnlyLocals
  <1>1. CASE cstack = <<>>
    BY <1>1, QuietLeaks DEF Ret, Ends
  <1>2. CASE cstack # <<>>
    <2> SUFFICES ASSUME NEW x \in Objects, heap'[x] # Unused, x \notin Reachable'
                 PROVE  heap[x] # Unused /\ x \notin Reachable
      BY LeaksNone
    <2>1. x # cstack[1] /\ x # locals /\ heap[x] # Unused
      BY <1>2, RetFacts
    <2>2. Len(cstack) \in Nat /\ Len(cstack) > 0 /\ Len(cstack') = Len(cstack) - 1
      BY <1>2, RetFacts, ActivationFacts
    <2>3. \A i \in 1 .. Len(cstack) : x # cstack[i]
      <3> SUFFICES ASSUME NEW i \in 1 .. Len(cstack), i # 1 PROVE x # cstack[i]
        BY <2>1
      <3>1. i - 1 \in 1 .. Len(cstack') /\ (i - 1) + 1 = i
        BY <2>2
      <3>2. cstack'[i - 1] = cstack[i]
        BY <1>2, <3>1, RetFacts
      <3> QED
        BY <3>1, <3>2 DEF Reachable
    <2>4. \A i \in 0 .. Len(cstack) : x # LocalsAt(i)
      <3> SUFFICES ASSUME NEW i \in 0 .. Len(cstack), i # 0 PROVE x # LocalsAt(i)
        BY <2>1 DEF LocalsAt
      <3>1. i - 1 \in 0 .. Len(cstack') /\ (i - 1) + 1 = i
        BY <2>2
      <3>2. LocalsAt(i - 1)' = LocalsAt(i)
        BY <1>2, <3>1, RetFacts
      <3> QED
        BY <3>1, <3>2 DEF Reachable
    <2> QED
      BY <2>1, <2>3, <2>4 DEF Reachable
  <1> QED
    BY <1>1, <1>2

LEMMA DeclareLeaks ==
  ASSUME VmInv, Declare
  PROVE  LeaksOnlyLocals
  <1> PICK o \in Given :
        IF o = NULL THEN Ends("trap")
        ELSE /\ \E count \in 0 .. MAX_COUNT : \E data \in [1 .. count -> Operands] :
                  heap' = [heap EXCEPT ![o] = Locals(data)]
             /\ locals' = o
             /\ UNCHANGED cstack
    BY DEF Declare
  <1>1. CASE o = NULL
    BY <1>1, QuietLeaks DEF Ends
  <1>2. CASE o # NULL
    <2> PICK count \in 0 .. MAX_COUNT :
          \E data \in [1 .. count -> Operands] : heap' = [heap EXCEPT ![o] = Locals(data)]
      BY <1>2
    <2> PICK data \in [1 .. count -> Operands] : heap' = [heap EXCEPT ![o] = Locals(data)]
      OBVIOUS
    <2>1. o \in Objects /\ heap[o] = Unused /\ data \in Seq(Operands)
      BY <1>2, CoreAssumption, SeqDef DEF Given
    <2>2. locals' = o /\ cstack' = cstack
      BY <1>2
    <2>3. /\ \A x \in Objects : heap'[x] = IF x = o THEN Locals(data) ELSE heap[x]
          /\ LocalsAt(0)' = o
          /\ \A i \in 1 .. Len(cstack) : LocalsAt(i)' = LocalsAt(i)
      <3>1. heap' = [heap EXCEPT ![o] = Locals(data)]
        OBVIOUS
      <3>2. \A i \in 1 .. Len(cstack) : LocalsAt(i)' = LocalsAt(i) /\ LocalsAt(i) # o
        BY <2>1, <2>2, <3>1, DeclareFacts
      <3> QED
        BY <2>1, <2>2, <3>1, <3>2, DeclareFacts
    <2>4. locals # o
      <3>1. locals # NULL => heap[locals] \in Variables
        BY ActivationFacts DEF LocalsAt
      <3> QED
        BY <1>2, <2>1, <3>1 DEF Variables, Unused
    <2>5. ASSUME NEW x \in Objects, heap'[x] # Unused, x \notin Reachable'
          PROVE  heap[x] # Unused /\ (x \in Reachable => x = locals)
      <3>1. Len(cstack) \in Nat
        BY ActivationFacts
      <3>2. x # o
        BY <2>3, <2>5, <3>1 DEF Reachable
      <3>3. \A i \in 1 .. Len(cstack) : x # cstack[i]
        BY <2>2, <2>5 DEF Reachable
      <3>4. \A i \in 1 .. Len(cstack) : x # LocalsAt(i)
        BY <2>2, <2>3, <2>5, <3>1 DEF Reachable
      <3>5. x \in Reachable => x = LocalsAt(0)
        BY <3>1, <3>3, <3>4 DEF Reachable
      <3> QED
        BY <2>3, <2>5, <3>2, <3>5 DEF LocalsAt
    <2> QED
      BY <1>2, <2>2, <2>4, <2>5 DEF LeaksOnlyLocals, Leaked
  <1> QED
    BY <1>1, <1>2

LEMMA StLocLeaks ==
  ASSUME VmInv, StLoc
  PROVE  LeaksOnlyLocals
  <1> PICK index \in 0 .. MAX_COUNT :
        IF InBounds(index)
        THEN /\ heap' = [heap EXCEPT ![locals].data[index + 1] = ARG1]
             /\ UNCHANGED <<cstack, locals>>
        ELSE Ends("panic")
    BY DEF StLoc
  <1>1. CASE ~InBounds(index)
    BY <1>1, QuietLeaks DEF Ends
  <1>2. CASE InBounds(index)
    <2>1. ARG1 \in Operands /\ index \in Nat
      BY ArgumentType, CoreAssumption
      DEF StackIn, TakesOne, TakesTwo, Computing, Stores, VmInv, StLoc
    <2>2. /\ locals \in Objects /\ heap[locals] \in Variables
          /\ \A x \in Objects \ {locals} : heap'[x] = heap[x]
          /\ \A i \in 0 .. Len(cstack) : LocalsAt(i)' = LocalsAt(i)
      BY <1>2, <2>1, AssignFacts
    <2>3. Reachable' = Reachable
      BY <1>2, <2>2 DEF Reachable
    <2> QED
      BY <2>2, <2>3, LeaksNone DEF Variables, Unused
  <1> QED
    BY <1>1, <1>2

\* Whatever program runs, nothing but a LOCALS in an activation that has locals loses an
\* object (op_LOCALS, vm_save_frame, op_RET).
THEOREM NothingElseLeaks == Spec => OnlyLocalsLeaks
  <1>1. VmInv /\ [Next]_vars => [LeaksOnlyLocals]_vars
    <2> SUFFICES ASSUME VmInv, [Next]_vars PROVE [LeaksOnlyLocals]_vars
      OBVIOUS
    <2>1. CASE \/ Create \/ StepUnknown \/ StepUnderflows \/ StepRunsOff \/ Compute \/ Load
               \/ StoreMem \/ Dup \/ Swap \/ Pop \/ LdLoc \/ Branch \/ IJmp \/ NCall
      BY <2>1, OthersKeep, QuietLeaks
    <2>2. CASE Call \/ ICall
      BY <2>2, CallLeaks DEF Call, ICall
    <2>3. CASE Ret
      BY <2>3, RetLeaks
    <2>4. CASE Declare
      BY <2>4, DeclareLeaks
    <2>5. CASE StLoc
      BY <2>5, StLocLeaks
    <2>6. CASE UNCHANGED vars
      BY <2>6
    <2> QED
      BY <2>1, <2>2, <2>3, <2>4, <2>5, <2>6 DEF Next
  <1> QED
    BY <1>1, VmInvariant, PTL DEF Spec, OnlyLocalsLeaks, LeaksOnlyLocals

-----------------------------------------------------------------------------
(***************************************************************************)
(* The laws of arithmetic, for words of any width.                         *)
(***************************************************************************)

\* Integers: a quotient and a remainder in range are the quotient and the remainder.
LEMMA DivMod ==
  ASSUME NEW m \in Nat \ {0}, NEW x \in Int
  PROVE  /\ x = m * (x \div m) + (x % m) /\ x % m \in 0 .. m - 1 /\ x \div m \in Int
         /\ x \in Nat => x \div m \in Nat
  <1>1. x = m * (x \div m) + (x % m) /\ x % m \in 0 .. m - 1 /\ x \div m \in Int
    OBVIOUS
  <1>2. x \in Nat => x \div m \in Nat
    BY ShiftedDown
  <1> QED
    BY <1>1, <1>2

LEMMA Unique ==
  ASSUME NEW m \in Nat \ {0}, NEW k \in Int, NEW r \in 0 .. m - 1
  PROVE  (m * k + r) % m = r /\ (m * k + r) \div m = k
  <1> DEFINE x == m * k + r  q == x \div m  s == x % m
  <1>1. x \in Int /\ m * k \in Int
    OBVIOUS
  <1>2. q \in Int /\ s \in 0 .. m - 1 /\ x = m * q + s
    BY <1>1, DivMod
  <1> HIDE DEF q, s
  <1>3. m * (k - q) = s - r
    <2>1. m * k + r = m * q + s
      BY <1>2
    <2>2. m * (k - q) = m * k - m * q /\ m * q \in Int
      BY <1>2
    <2> QED
      BY <1>1, <1>2, <2>1, <2>2
  <1>4. k - q = 0
    <2> DEFINE j == k - q
    <2>1. j \in Int /\ m * j < m /\ m * j > -m
      BY <1>2, <1>3
    <2> HIDE DEF j
    <2>2. ~ (j >= 1)
      <3> SUFFICES ASSUME j >= 1 PROVE FALSE
        OBVIOUS
      <3>1. m * j >= m * 1
        BY <2>1
      <3> QED
        BY <2>1, <3>1
    <2>3. ~ (j <= -1)
      <3> SUFFICES ASSUME j <= -1 PROVE FALSE
        OBVIOUS
      <3>1. m * j <= m * (-1)
        BY <2>1
      <3> QED
        BY <2>1, <3>1
    <2>4. j = 0
      BY <2>1, <2>2, <2>3
    <2> QED
      BY <2>4 DEF j
  <1>5. q = k /\ s = r
    BY <1>2, <1>3, <1>4
  <1> QED
    BY <1>5 DEF q, s

\* A remainder differs from its number by a multiple.
LEMMA Congruent ==
  ASSUME NEW m \in Nat \ {0}, NEW x \in Int, NEW y \in Int, NEW k \in Int, x = y + m * k
  PROVE  ((x % m) - y) % m = 0
  <1> DEFINE q == x \div m  s == x % m
  <1>1. q \in Int /\ s \in 0 .. m - 1 /\ x = m * q + s
    BY DivMod
  <1> HIDE DEF q, s
  <1>2. s - y = m * (k - q) + 0
    <2>1. m * (k - q) = m * k - m * q /\ m * q \in Int /\ m * k \in Int
      BY <1>1
    <2> QED
      BY <1>1, <2>1
  <1> DEFINE j == k - q  d == s - y
  <1>3. j \in Int /\ 0 \in 0 .. m - 1 /\ d = m * j + 0
    BY <1>1, <1>2
  <1> HIDE DEF j, d
  <1>4. (m * j + 0) % m = 0
    BY <1>3, Unique
  <1>5. d % m = 0
    BY <1>3, <1>4, Zenon
  <1> QED
    BY <1>5 DEF d, s

LEMMA OwnRemainder ==
  ASSUME NEW m \in Nat \ {0}, NEW x \in Int
  PROVE  ((x % m) - x) % m = 0
  <1>1. x \in Int /\ 0 \in Int /\ x = x + m * 0
    OBVIOUS
  <1> QED
    BY <1>1, Congruent

\* A word has two halves; the lower one holds the numbers that are not negative.
LEMMA Halves ==
  /\ WORD \in Nat /\ WORD \div 2 \in Nat /\ WORD \div 2 > 1
  /\ WORD = 2 * (WORD \div 2)
  <1>1. BITS - 1 \in 0 .. BITS - 1 /\ BITS - 1 \in 0 .. BITS /\ (BITS - 1) + 1 = BITS
        /\ BITS - 1 >= 1
    BY WordAssumption, CoreAssumption
  <1> DEFINE h == 2^(BITS - 1)
  <1>2. h \in Nat /\ h > 1
    <2>1. h \in Nat /\ h > BITS - 1
      BY <1>1, WordAssumption
    <2> QED
      BY <1>1, <2>1
  <1>3. WORD = 2 * h
    BY <1>1, WordAssumption DEF WORD
  <1> HIDE DEF h
  <1>4. WORD \div 2 = h
    BY <1>2, <1>3
  <1> QED
    BY <1>2, <1>3, <1>4

LEMMA SignedFacts ==
  ASSUME NEW v \in Operands
  PROVE  /\ v \in Nat /\ v < WORD /\ Signed(v) \in Int
         /\ -(WORD \div 2) <= Signed(v) /\ Signed(v) < WORD \div 2
         /\ \E k \in {0, 1} : Signed(v) = v - WORD * k
         /\ Biased(v) = Signed(v) + WORD \div 2
  <1> DEFINE h == WORD \div 2
  <1>1. h \in Nat /\ h > 1 /\ WORD = 2 * h
    BY Halves
  <1>2. v \in Nat /\ v < 2 * h
    BY <1>1 DEF Operands
  <1>3. Signed(v) = IF v < h THEN v ELSE v - 2 * h
    BY <1>1 DEF Signed
  <1>4. Biased(v) = (v + h) % (2 * h)
    BY <1>1 DEF Biased
  <1> HIDE DEF h
  <1>5. (v + h) % (2 * h) = IF v < h THEN v + h ELSE v - h
    <2>1. CASE v < h
      <3>1. v + h \in 0 .. 2 * h - 1 /\ v + h = (2 * h) * 0 + (v + h)
        BY <1>1, <1>2, <2>1
      <3>2. ((2 * h) * 0 + (v + h)) % (2 * h) = v + h
        BY <1>1, <3>1, Unique
      <3> QED
        BY <2>1, <3>1, <3>2
    <2>2. CASE ~(v < h)
      <3>1. v - h \in 0 .. 2 * h - 1 /\ v + h = (2 * h) * 1 + (v - h)
        BY <1>1, <1>2, <2>2
      <3>2. ((2 * h) * 1 + (v - h)) % (2 * h) = v - h
        <4>1. 2 * h \in Nat \ {0} /\ 1 \in Int
          BY <1>1
        <4> QED
          BY <3>1, <4>1, Unique
      <3> QED
        BY <2>2, <3>1, <3>2
    <2> QED
      BY <2>1, <2>2
  <1>6. -h <= Signed(v) /\ Signed(v) < h /\ Signed(v) \in Int
    BY <1>1, <1>2, <1>3
  <1>7. Signed(v) = v - WORD * 0 \/ Signed(v) = v - WORD * 1
    BY <1>1, <1>2, <1>3
  <1>8. Biased(v) = Signed(v) + h
    BY <1>1, <1>2, <1>3, <1>4, <1>5
  <1> QED
    BY <1>1, <1>2, <1>6, <1>7, <1>8 DEF h

\* A number of the range of signed words is what its word means.
LEMMA SignedBack ==
  ASSUME NEW x \in Int, -(WORD \div 2) <= x, x < WORD \div 2
  PROVE  Signed(x % WORD) = x
  <1> DEFINE h == WORD \div 2
  <1>1. h \in Nat /\ h > 1 /\ WORD = 2 * h
    BY Halves
  <1>2. -h <= x /\ x < h
    OBVIOUS
  <1>3. \A v \in Nat : Signed(v) = IF v < h THEN v ELSE v - 2 * h
    BY <1>1 DEF Signed
  <1> HIDE DEF h
  <1>4. x % (2 * h) = IF x < 0 THEN x + 2 * h ELSE x
    <2>1. CASE x < 0
      <3>1. x + 2 * h \in 0 .. 2 * h - 1 /\ x = (2 * h) * (-1) + (x + 2 * h)
        BY <1>1, <1>2, <2>1
      <3>2. ((2 * h) * (-1) + (x + 2 * h)) % (2 * h) = x + 2 * h
        BY <1>1, <3>1, Unique
      <3> QED
        BY <2>1, <3>1, <3>2
    <2>2. CASE ~(x < 0)
      <3>1. x \in 0 .. 2 * h - 1 /\ x = (2 * h) * 0 + x
        BY <1>1, <1>2, <2>2
      <3>2. ((2 * h) * 0 + x) % (2 * h) = x
        BY <1>1, <3>1, Unique
      <3> QED
        BY <2>2, <3>1, <3>2
    <2> QED
      BY <2>1, <2>2
  <1>5. x % WORD \in Nat /\ x % WORD = IF x < 0 THEN x + 2 * h ELSE x
    BY <1>1, <1>2, <1>4
  <1> QED
    BY <1>1, <1>2, <1>3, <1>5

\* Words differ from the numbers they mean by multiples of WORD, and so do products.
LEMMA ProductCongruent ==
  ASSUME NEW a \in Operands, NEW b \in Operands
  PROVE  (((Signed(a) * Signed(b)) % WORD) - a * b) % WORD = 0
  <1>1. PICK i \in {0, 1} : Signed(a) = a - WORD * i
    BY SignedFacts
  <1>2. PICK j \in {0, 1} : Signed(b) = b - WORD * j
    BY SignedFacts
  <1>3. a \in Int /\ b \in Int /\ WORD \in Nat /\ WORD > 0
    BY WordFacts
  <1> DEFINE k == WORD * (i * j) - (a * j + b * i)
  <1>4. k \in Int /\ a * b \in Int
    BY <1>3
  <1>5. Signed(a) * Signed(b) = a * b + WORD * k
    <2>1. (a - WORD * i) * (b - WORD * j) = a * b + WORD * k
      <3>1. CASE i = 0 /\ j = 0
        BY <1>3, <3>1
      <3>2. CASE i = 0 /\ j = 1
        <4>1. a * (b - WORD) = a * b - WORD * a
          BY <1>3
        <4>2. k = -a
          BY <1>3, <3>2
        <4>3. WORD * (-a) = -(WORD * a)
          BY <1>3
        <4> QED
          BY <1>3, <3>2, <4>1, <4>2, <4>3
      <3>3. CASE i = 1 /\ j = 0
        <4>1. (a - WORD) * b = a * b - WORD * b
          BY <1>3
        <4>2. k = -b
          BY <1>3, <3>3
        <4>3. WORD * (-b) = -(WORD * b)
          BY <1>3
        <4> QED
          BY <1>3, <3>3, <4>1, <4>2, <4>3
      <3>4. CASE i = 1 /\ j = 1
        <4>1. (a - WORD) * (b - WORD) = a * b + WORD * (WORD - (a + b))
          BY <1>3
        <4>2. k = WORD - (a + b)
          BY <1>3, <3>4
        <4> QED
          BY <1>3, <3>4, <4>1, <4>2
      <3> QED
        BY <3>1, <3>2, <3>3, <3>4
    <2> QED
      BY <1>1, <1>2, <2>1
  <1>6. Signed(a) * Signed(b) \in Int
    BY <1>3, <1>4, <1>5
  <1> HIDE DEF k
  <1> DEFINE x == Signed(a) * Signed(b)
             y == a * b
  <1>7. x \in Int /\ y \in Int /\ k \in Int /\ x = y + WORD * k /\ WORD \in Nat \ {0}
    BY <1>3, <1>4, <1>5, <1>6
  <1> HIDE DEF x, y
  <1>8. ((x % WORD) - y) % WORD = 0
    BY <1>7, Congruent
  <1> QED
    BY <1>8 DEF x, y

LEMMA Expand ==
  ASSUME NEW x \in Int, NEW y \in Int, NEW h \in Int
  PROVE  /\ (h - x) * (h + y) = h * h + h * y - x * h - x * y
         /\ (h + x) * (h - y) = h * h - h * y + x * h - x * y
         /\ (h - x) * (h - y) = h * h - h * y - x * h + x * y
         /\ (h + x) * (h + y) = h * h + h * y + x * h + x * y
         /\ h * h \in Int /\ h * y \in Int /\ x * h \in Int /\ x * y \in Int
  OBVIOUS

LEMMA ProductBound ==
  ASSUME NEW h \in Nat, NEW x \in -h .. h, NEW y \in -h .. h
  PROVE  -(h * h) <= x * y /\ x * y <= h * h
  <1>1. h - x \in Nat /\ h + x \in Nat /\ h - y \in Nat /\ h + y \in Nat
    OBVIOUS
  <1>2. \A u, v \in Nat : u * v \in Nat
    OBVIOUS
  <1>3. /\ (h - x) * (h + y) \in Nat /\ (h + x) * (h - y) \in Nat
        /\ (h - x) * (h - y) \in Nat /\ (h + x) * (h + y) \in Nat
    BY <1>1, <1>2
  <1> DEFINE hh == h * h
             hy == h * y
             xh == x * h
             xy == x * y
  <1>4. /\ hh + hy - xh - xy \in Nat /\ hh - hy + xh - xy \in Nat
        /\ hh - hy - xh + xy \in Nat /\ hh + hy + xh + xy \in Nat
        /\ hh \in Int /\ hy \in Int /\ xh \in Int /\ xy \in Int
    BY <1>3, Expand
  <1> HIDE DEF hh, hy, xh, xy
  <1>5. -hh <= xy /\ xy <= hh
    BY <1>4
  <1> QED
    BY <1>5 DEF hh, xy

\* The bounds of a quotient from those of the number divided.
LEMMA QuotientRange ==
  ASSUME NEW m \in Nat \ {0}, NEW x \in Int, NEW low \in Int, NEW high \in Int,
         m * low <= x, x < m * high
  PROVE  low <= x \div m /\ x \div m < high
  <1> DEFINE q == x \div m
             r == x % m
  <1>1. x = m * q + r /\ r \in 0 .. m - 1 /\ q \in Int
    BY DivMod
  <1> HIDE DEF q, r
  <1>2. ~ (q < low)
    <2> SUFFICES ASSUME q < low PROVE FALSE
      OBVIOUS
    <2>1. q + 1 <= low
      BY <1>1
    <2>2. m * (q + 1) <= m * low
      BY <1>1, <2>1
    <2>3. m * (q + 1) = m * q + m /\ m * q \in Int /\ m * low \in Int
      BY <1>1
    <2> QED
      BY <1>1, <2>2, <2>3
  <1>3. ~ (q >= high)
    <2> SUFFICES ASSUME q >= high PROVE FALSE
      OBVIOUS
    <2>1. m * high <= m * q
      BY <1>1
    <2>2. m * q \in Int /\ m * high \in Int
      BY <1>1
    <2> QED
      BY <1>1, <2>1, <2>2
  <1>4. low <= q /\ q < high
    BY <1>1, <1>2, <1>3
  <1> QED
    BY <1>4 DEF q

\* C's division gives the dividend back, and no quotient is larger than it.
LEMMA Divided ==
  ASSUME NEW n \in Int, NEW d \in Int, d # 0
  PROVE  /\ DividesTo(n, d, Quot(n, d), Rem(n, d))
         /\ Magnitude(Quot(n, d)) <= Magnitude(n)
         /\ Sign(n) = Sign(d) => Quot(n, d) >= 0
         /\ Sign(n) # Sign(d) => Quot(n, d) <= 0
         /\ Magnitude(d) > 1 => 2 * Magnitude(Quot(n, d)) <= Magnitude(n)
  <1> DEFINE x == Magnitude(n)
             m == Magnitude(d)
             q == x \div m
             r == x % m
  <1>1. /\ x \in Nat /\ m \in Nat \ {0}
        /\ Sign(n) \in {1, -1} /\ Sign(d) \in {1, -1}
        /\ n = Sign(n) * x /\ d = Sign(d) * m
    BY DEF Magnitude, Sign
  <1>2. x = m * q + r /\ r \in 0 .. m - 1 /\ q \in Nat
    <2>1. x \in Int
      BY <1>1
    <2> HIDE DEF x, m
    <2> QED
      BY <1>1, <2>1, DivMod
  <1>3. q <= x
    BY <1>1, ShiftedDown
  <1>4. Quot(n, d) = Sign(n) * Sign(d) * q
    BY DEF Quot
  <1>5. m > 1 => 2 * q <= x
    <2> HIDE DEF q, r, x, m
    <2> SUFFICES ASSUME m > 1 PROVE 2 * q <= x
      OBVIOUS
    <2>1. 2 * q <= m * q
      BY <1>1, <1>2
    <2>2. m * q \in Int
      BY <1>1, <1>2
    <2> QED
      BY <1>1, <1>2, <2>1, <2>2
  <1> HIDE DEF x, m, q, r
  <1>6. d * Quot(n, d) = Sign(n) * (m * q)
    <2>1. CASE Sign(d) = 1
      <3>1. Quot(n, d) = Sign(n) * q /\ d = m
        BY <1>1, <1>2, <1>4, <2>1
      <3> QED
        BY <1>1, <1>2, <3>1
    <2>2. CASE Sign(d) = -1
      <3>1. Quot(n, d) = -(Sign(n) * q) /\ d = -m
        BY <1>1, <1>2, <1>4, <2>2
      <3>2. (-m) * (-(Sign(n) * q)) = m * (Sign(n) * q)
        BY <1>1, <1>2
      <3>3. m * (Sign(n) * q) = Sign(n) * (m * q)
        BY <1>1, <1>2
      <3> QED
        BY <3>1, <3>2, <3>3
    <2> QED
      BY <1>1, <2>1, <2>2
  <1>7. Rem(n, d) = Sign(n) * r
    <2> DEFINE mq == m * q
    <2>1. mq \in Int /\ x = mq + r
      BY <1>1, <1>2
    <2>2. Rem(n, d) = n - Sign(n) * mq
      BY <1>6 DEF Rem
    <2> HIDE DEF mq
    <2> QED
      BY <1>1, <1>2, <2>1, <2>2
  <1>8. Quot(n, d) \in Int /\ Rem(n, d) \in Int
    BY DivisionIsInt
  <1>9. n = d * Quot(n, d) + Rem(n, d)
    <2>1. d * Quot(n, d) \in Int
      BY <1>8
    <2> QED
      BY <1>8, <2>1 DEF Rem
  <1>10. Magnitude(Rem(n, d)) < m /\ (Rem(n, d) = 0 \/ Sign(Rem(n, d)) = Sign(n))
    BY <1>1, <1>2, <1>7, <1>8 DEF Magnitude, Sign
  <1>11. Magnitude(Quot(n, d)) = q
    BY <1>1, <1>2, <1>4, <1>8 DEF Magnitude, Sign
  <1>12. /\ Sign(n) = Sign(d) => Quot(n, d) >= 0
         /\ Sign(n) # Sign(d) => Quot(n, d) <= 0
    BY <1>1, <1>2, <1>4
  <1> QED
    BY <1>3, <1>5, <1>9, <1>10, <1>11, <1>12 DEF DividesTo, x, m

\* A number in the range of words is its own word.
LEMMA SmallWord ==
  ASSUME NEW v \in Nat, v < WORD
  PROVE  v % WORD = v
  BY WordFacts

LEMMA BelowSquare ==
  ASSUME NEW w \in Nat, NEW a \in 0 .. w - 1, NEW b \in 0 .. w - 1
  PROVE  a * b \in Nat /\ a * b < w * w /\ w * 0 = 0
  <1> DEFINE ab == a * b
             aw == a * w
             ww == w * w
  <1>1. ab \in Nat /\ aw \in Nat /\ ww \in Nat
    OBVIOUS
  <1>2. ab <= aw
    OBVIOUS
  <1>3. aw < ww
    OBVIOUS
  <1> HIDE DEF ab, aw, ww
  <1>4. ab < ww
    BY <1>1, <1>2, <1>3
  <1> QED
    BY <1>1, <1>4 DEF ab, ww

LEMMA ProductLaw ==
  ASSUME NEW op \in {"MULU", "MULS"}, NEW a \in Operands, NEW b \in Operands,
         NEW r \in Results(op, a, b)
  PROVE  Lawful(op, a, b, r[1], r[2]) /\ Len(r) = 2
  <1> DEFINE p == IF op = "MULU" THEN a * b ELSE Signed(a) * Signed(b)
             h == WORD \div 2
  <1>1. /\ WORD \in Nat \ {0} /\ h \in Nat /\ h > 1 /\ WORD = 2 * h
        /\ a \in Nat /\ b \in Nat /\ a < WORD /\ b < WORD /\ p \in Int
        /\ Signed(a) \in -h .. h /\ Signed(b) \in -h .. h
    <2>1. Signed(a) \in Int /\ Signed(b) \in Int
      BY SignedFacts
    <2>2. Signed(a) * Signed(b) \in Int /\ a * b \in Int
      BY <2>1, WordFacts
    <2> QED
      BY <2>1, <2>2, Halves, SignedFacts
  <1>2. r \in Product(p)
    BY DEF Results
  <1>3. CASE ~MIPS
    <2>1. PICK r1 \in Operands : r = <<p % WORD, r1>>
      BY <1>2, <1>3 DEF Product
    <2>2. ((p % WORD) - a * b) % WORD = 0
      <3>1. CASE op = "MULU"
        <4> DEFINE y == a * b
        <4>1. y \in Int
          BY <1>1
        <4> HIDE DEF y
        <4>2. ((y % WORD) - y) % WORD = 0
          BY <1>1, <4>1, OwnRemainder
        <4> QED
          BY <3>1, <4>2 DEF y
      <3>2. CASE op = "MULS"
        BY <3>2, ProductCongruent
      <3> QED
        BY <3>1, <3>2
    <2>3. r[1] = p % WORD /\ Len(r) = 2
      BY <2>1
    <2> QED
      BY <1>3, <2>2, <2>3 DEF Lawful
  <1>4. CASE MIPS
    <2> DEFINE hi == p \div WORD
               lo == p % WORD
    <2>1. r = <<hi % WORD, lo>> /\ r[1] = hi % WORD /\ r[2] = lo /\ Len(r) = 2
      BY <1>2, <1>4 DEF Product
    <2>2. p = WORD * hi + lo /\ lo \in 0 .. WORD - 1 /\ hi \in Int
      BY <1>1, DivMod
    <2>3. hi * WORD + lo = p
      <3> HIDE DEF p, hi, lo
      <3> QED
        BY <1>1, <2>2
    <2>4. CASE op = "MULU"
      <3>1. p = a * b
        BY <2>4
      <3>2. WORD * 0 <= p /\ p < WORD * WORD
        <4>1. WORD * 0 = 0 /\ a * b \in Nat /\ a * b < WORD * WORD
          BY <1>1, BelowSquare
        <4> QED
          BY <3>1, <4>1
      <3>3. 0 <= hi /\ hi < WORD
        <4>1. p \in Int /\ 0 \in Int /\ WORD \in Int
          BY <1>1
        <4> HIDE DEF p
        <4> QED
          BY <1>1, <3>2, <4>1, QuotientRange
      <3>4. hi % WORD = hi
        <4> HIDE DEF hi
        <4> QED
          BY <2>2, <3>3, SmallWord
      <3>5. r[1] * WORD + r[2] = a * b
        BY <2>1, <2>3, <3>1, <3>4
      <3> QED
        BY <1>4, <2>1, <2>4, <3>5 DEF Lawful
    <2>5. CASE op = "MULS"
      <3>1. p = Signed(a) * Signed(b)
        BY <2>5
      <3> DEFINE hh == h * h
      <3>2. -hh <= p /\ p <= hh /\ hh \in Nat /\ hh >= h
        <4>1. -(h * h) <= Signed(a) * Signed(b) /\ Signed(a) * Signed(b) <= h * h
          <5> HIDE DEF h
          <5> QED
            BY <1>1, ProductBound
        <4>2. h * h \in Nat /\ h * h >= h
          <5> HIDE DEF h
          <5> QED
            BY <1>1
        <4> QED
          BY <3>1, <4>1, <4>2
      <3>3. WORD * (-h) <= p /\ p < WORD * h
        <4>1. WORD * (-h) = -(2 * hh) /\ WORD * h = 2 * hh
          <5> HIDE DEF h
          <5> QED
            BY <1>1
        <4> HIDE DEF hh, p, h
        <4>2. -(2 * hh) <= p /\ p < 2 * hh
          BY <1>1, <3>2
        <4> QED
          BY <4>1, <4>2
      <3>4. -h <= hi /\ hi < h
        <4>1. p \in Int /\ -h \in Int /\ h \in Int
          BY <1>1
        <4> HIDE DEF p, h
        <4> QED
          BY <1>1, <3>3, <4>1, QuotientRange
      <3>5. Signed(hi % WORD) = hi
        <4> HIDE DEF hi
        <4> QED
          BY <2>2, <3>4, SignedBack
      <3>6. Signed(r[1]) * WORD + r[2] = Signed(a) * Signed(b)
        BY <2>1, <2>3, <3>1, <3>5
      <3> QED
        BY <1>4, <2>1, <2>5, <3>6 DEF Lawful
    <2> QED
      BY <2>4, <2>5
  <1> QED
    BY <1>3, <1>4, WordAssumption

LEMMA DivisionLaw ==
  ASSUME NEW op \in {"DIVU", "DIVS"}, NEW a \in Operands, NEW b \in Operands,
         NEW r \in Results(op, a, b)
  PROVE  Lawful(op, a, b, r[1], r[2]) /\ Len(r) = 2
  <1> DEFINE n == IF op = "DIVU" THEN b ELSE Signed(b)
             d == IF op = "DIVU" THEN a ELSE Signed(a)
             q == Quot(n, d)
             m == Rem(n, d)
             h == WORD \div 2
  <1>1. /\ WORD \in Nat \ {0} /\ h \in Nat /\ h > 1 /\ WORD = 2 * h
        /\ a \in Nat /\ b \in Nat /\ a < WORD /\ b < WORD
    BY Halves, SignedFacts
  <1>2. n \in Int /\ d \in Int
    BY SignedFacts
  <1>3. r \in Division(n, d)
    BY DEF Results
  <1>4. /\ d # 0 /\ (MIPS \/ ~(q >= h /\ n < 0))
        /\ r[1] = m % WORD /\ r[2] = q % WORD /\ Len(r) = 2
    BY <1>3 DEF Division
  <1>5. q \in Int /\ m \in Int
    BY <1>2, <1>4, DivisionIsInt
  <1>6. /\ DividesTo(n, d, q, m)
        /\ Magnitude(q) <= Magnitude(n)
        /\ Sign(n) = Sign(d) => q >= 0
        /\ Sign(n) # Sign(d) => q <= 0
        /\ Magnitude(d) > 1 => 2 * Magnitude(q) <= Magnitude(n)
    BY <1>2, <1>4, Divided
  <1>7. n = d * q + m /\ Magnitude(m) < Magnitude(d) /\ (m = 0 \/ Sign(m) = Sign(n))
    BY <1>6 DEF DividesTo
  <1>8. CASE op = "DIVU"
    <2>1. n = b /\ d = a
      BY <1>8
    <2> HIDE DEF q, m, n, d, h
    <2>2. q \in 0 .. WORD - 1 /\ m \in 0 .. WORD - 1
      BY <1>1, <1>2, <1>4, <1>5, <1>6, <1>7, <2>1 DEF Magnitude, Sign
    <2>3. r[1] = m /\ r[2] = q
      BY <1>1, <1>4, <2>2, SmallWord
    <2> QED
      BY <1>4, <1>6, <1>8, <2>1, <2>3 DEF Lawful
  <1>9. CASE op = "DIVS"
    <2>1. n = Signed(b) /\ d = Signed(a) /\ -h <= n /\ n < h /\ -h <= d /\ d < h
      BY <1>9, SignedFacts
    <2>2. r[1] = m % WORD /\ r[2] = q % WORD
      BY <1>4
    <2>3. ASSUME q < h PROVE Signed(r[1]) = m /\ Signed(r[2]) = q
      <3>1. -h <= q /\ q < h /\ -h <= m /\ m < h
        <4> HIDE DEF q, m, n, d, h
        <4> QED
          BY <1>1, <1>2, <1>5, <1>6, <1>7, <2>1, <2>3 DEF Magnitude, Sign
      <3> HIDE DEF q, m
      <3> QED
        BY <1>5, <2>2, <3>1, SignedBack
    <2>4. ASSUME ~(q < h) PROVE b = h /\ a = WORD - 1 /\ MIPS /\ r[2] = b /\ r[1] = 0
      <3> USE DEF Sign
      <3>1. q = h /\ n = -h /\ d = -1
        <4> HIDE DEF q, m, n, d, h
        <4>1. q = h /\ n = -h
          BY <1>1, <1>2, <1>5, <1>6, <2>1, <2>4 DEF Magnitude
        <4>2. Magnitude(d) \in Nat /\ ~(Magnitude(d) > 1)
          BY <1>1, <1>2, <1>6, <4>1 DEF Magnitude
        <4>3. d = -1
          BY <1>1, <1>2, <1>4, <1>6, <4>1, <4>2 DEF Magnitude
        <4> QED
          BY <4>1, <4>3
      <3>2. m = 0
        <4> HIDE DEF q, m, n, d, h
        <4> QED
          BY <1>1, <1>5, <1>7, <3>1 DEF Magnitude
      <3>3. q % WORD = h /\ m % WORD = 0
        <4>1. h % WORD = h /\ 0 % WORD = 0
          <5> HIDE DEF h
          <5> QED
            BY <1>1, SmallWord
        <4> QED
          BY <3>1, <3>2, <4>1
      <3>4. Signed(b) = -h /\ Signed(a) = -1
        BY <2>1, <3>1
      <3>5. b = h /\ a = WORD - 1
        <4>1. Signed(a) = IF a < h THEN a ELSE a - WORD
          BY DEF Signed
        <4>2. Signed(b) = IF b < h THEN b ELSE b - WORD
          BY DEF Signed
        <4> HIDE DEF h
        <4> QED
          BY <1>1, <3>4, <4>1, <4>2
      <3>6. MIPS
        <4> HIDE DEF q, m, n, d, h
        <4> QED
          BY <1>1, <1>4, <3>1
      <3> QED
        BY <2>2, <3>3, <3>5, <3>6
    <2>5. CASE q < h
      BY <1>4, <1>6, <1>9, <2>1, <2>3, <2>5 DEF Lawful
    <2>6. CASE ~(q < h)
      BY <1>4, <1>9, <2>4, <2>6 DEF Lawful
    <2> QED
      BY <2>5, <2>6
  <1> QED
    BY <1>8, <1>9

LEMMA ShiftLaw ==
  ASSUME NEW op \in Shifts, NEW a \in Operands, NEW b \in Operands, a < BITS,
         NEW r \in Results(op, a, b)
  PROVE  Lawful(op, a, b, r[1], r[2]) /\ Len(r) = 1
  <1> DEFINE p == 2^a
             h == WORD \div 2
  <1>1. Count(a) = a
    <2>1. a \in Nat /\ BITS \in Nat /\ BITS > 0
      BY WordFacts
    <2> QED
      BY <2>1 DEF Count
  <1>2. p \in Nat \ {0}
    BY <1>1, PowerFacts
  <1>3. /\ WORD \in Nat \ {0} /\ h \in Nat /\ h > 1 /\ WORD = 2 * h
        /\ b \in Nat /\ b < WORD /\ Signed(b) \in Int /\ -h <= Signed(b) /\ Signed(b) < h
    BY Halves, SignedFacts
  <1>4. CASE op = "LSL"
    <2> DEFINE x == b * p
    <2>1. r = <<x % WORD>>
      BY <1>1, <1>4 DEF Results
    <2>2. x \in Int
      BY <1>2, <1>3
    <2>3. ((x % WORD) - x) % WORD = 0
      <3> HIDE DEF x
      <3> QED
        BY <1>3, <2>2, OwnRemainder
    <2>4. r[1] = x % WORD /\ Len(r) = 1
      BY <2>1
    <2> QED
      BY <1>4, <2>3, <2>4 DEF Lawful
  <1>5. ASSUME NEW x \in Int
        PROVE  LET q == x \div p IN q \in Int /\ q * p <= x /\ x < (q + 1) * p
    <2> DEFINE q == x \div p
               l == x % p
    <2>1. x = p * q + l /\ l \in 0 .. p - 1 /\ q \in Int
      BY <1>2, DivMod
    <2> HIDE DEF p, q, l
    <2>2. q * p = p * q /\ (q + 1) * p = p * q + p /\ p * q \in Int
      BY <1>2, <2>1
    <2>3. q \in Int /\ q * p <= x /\ x < (q + 1) * p
      BY <1>2, <2>1, <2>2
    <2> QED
      BY <2>3 DEF q
  <1>6. CASE op = "LSR"
    <2>1. r = <<b \div p>>
      BY <1>1, <1>6 DEF Results
    <2>2. r[1] = b \div p /\ Len(r) = 1
      BY <2>1
    <2>3. r[1] * p <= b /\ b < (r[1] + 1) * p
      BY <1>3, <1>5, <2>2
    <2> QED
      BY <1>6, <2>2, <2>3 DEF Lawful
  <1>7. CASE op = "ASR"
    <2> DEFINE q == Signed(b) \div p
    <2>1. r = <<q % WORD>>
      BY <1>1, <1>7 DEF Results
    <2>2. q \in Int /\ q * p <= Signed(b) /\ Signed(b) < (q + 1) * p
      BY <1>3, <1>5
    <2>3. -h <= q /\ q < h
      <3>1. p * (-h) <= Signed(b) /\ Signed(b) < p * h
        <4> HIDE DEF p, h
        <4>1. p * (-h) = -(p * h) /\ p * h >= h /\ p * h \in Int
          BY <1>2, <1>3
        <4> QED
          BY <1>3, <4>1
      <3>2. -h \in Int /\ h \in Int
        BY <1>3
      <3> HIDE DEF p, h
      <3> QED
        BY <1>2, <1>3, <3>1, <3>2, QuotientRange
    <2>4. Signed(q % WORD) = q
      <3> HIDE DEF q
      <3> QED
        BY <2>2, <2>3, SignedBack
    <2>5. Signed(r[1]) = q /\ Len(r) = 1
      BY <2>1, <2>4
    <2> QED
      BY <1>7, <2>2, <2>5 DEF Lawful
  <1> QED
    BY <1>4, <1>6, <1>7 DEF Shifts

LEMMA SumLaw ==
  ASSUME NEW op \in {"ADD", "SUB"}, NEW a \in Operands, NEW b \in Operands,
         NEW r \in Results(op, a, b)
  PROVE  Lawful(op, a, b, r[1], r[2]) /\ Len(r) = 1
  <1>1. a \in Int /\ b \in Int /\ WORD \in Nat \ {0}
    BY WordFacts
  <1>2. CASE op = "ADD"
    <2> DEFINE x == b + a
    <2>1. r = <<x % WORD>>
      BY <1>2 DEF Results
    <2>2. ((x % WORD) - x) % WORD = 0
      <3>1. x \in Int
        BY <1>1
      <3> HIDE DEF x
      <3> QED
        BY <1>1, <3>1, OwnRemainder
    <2>3. r[1] = x % WORD /\ Len(r) = 1
      BY <2>1
    <2>4. x % WORD \in Int
      BY <1>1
    <2>5. r[1] - a - b = (x % WORD) - x
      <3> DEFINE y == x % WORD
      <3>1. y \in Int /\ r[1] = y
        BY <2>3, <2>4
      <3> HIDE DEF y
      <3>2. r[1] - a - b = y - x
        BY <1>1, <3>1
      <3> QED
        BY <3>2 DEF y
    <2> QED
      BY <1>2, <2>2, <2>3, <2>5 DEF Lawful
  <1>3. CASE op = "SUB"
    <2> DEFINE x == b - a
    <2>1. r = <<x % WORD>>
      BY <1>3 DEF Results, Sub
    <2>2. ((x % WORD) - x) % WORD = 0
      <3>1. x \in Int
        BY <1>1
      <3> HIDE DEF x
      <3> QED
        BY <1>1, <3>1, OwnRemainder
    <2>3. r[1] = x % WORD /\ Len(r) = 1
      BY <2>1
    <2>4. x % WORD \in Int
      BY <1>1
    <2>5. r[1] + a - b = (x % WORD) - x
      <3> DEFINE y == x % WORD
      <3>1. y \in Int /\ r[1] = y
        BY <2>3, <2>4
      <3> HIDE DEF y
      <3>2. r[1] + a - b = y - x
        BY <1>1, <3>1
      <3> QED
        BY <3>2 DEF y
    <2> QED
      BY <1>3, <2>2, <2>3, <2>5 DEF Lawful
  <1> QED
    BY <1>2, <1>3

LEMMA ComparisonLaw ==
  ASSUME NEW op \in {"CMP.LT", "CMP.GT"}, NEW a \in Operands, NEW b \in Operands,
         NEW r \in Results(op, a, b)
  PROVE  Lawful(op, a, b, r[1], r[2]) /\ Len(r) = 1
  <1>1. /\ Biased(a) < Biased(b) <=> Signed(a) < Signed(b)
        /\ Biased(a) > Biased(b) <=> Signed(a) > Signed(b)
    BY SignedFacts, Halves
  <1>2. CASE op = "CMP.LT"
    <2>1. r = <<Truth(Signed(a) < Signed(b))>>
      BY <1>2 DEF Results
    <2>2. Len(r) = 1 /\ r[1] = Truth(Signed(a) < Signed(b))
      BY <2>1
    <2> QED
      BY <1>1, <1>2, <2>2 DEF Lawful, Truth
  <1>3. CASE op = "CMP.GT"
    <2>1. r = <<Truth(Signed(a) > Signed(b))>>
      BY <1>3 DEF Results
    <2>2. Len(r) = 1 /\ r[1] = Truth(Signed(a) > Signed(b))
      BY <2>1
    <2> QED
      BY <1>1, <1>3, <2>2 DEF Lawful, Truth
  <1> QED
    BY <1>2, <1>3

LEMMA ResultsLawful ==
  ASSUME NEW op \in HasLaw, NEW a \in Operands, NEW b \in Operands,
         op \in Shifts => a < BITS, NEW r \in Results(op, a, b)
  PROVE  /\ Lawful(op, a, b, r[1], r[2])
         /\ Len(r) = IF op \in LeavesTwo THEN 2 ELSE 1
  <1>1. CASE op \in LeavesTwo
    BY <1>1, ProductLaw, DivisionLaw DEF LeavesTwo
  <1>2. CASE op \in Shifts
    BY <1>2, ShiftLaw DEF LeavesTwo, Shifts
  <1>3. CASE op \in {"ADD", "SUB"}
    BY <1>3, SumLaw DEF LeavesTwo
  <1>4. CASE op \in {"CMP.LT", "CMP.GT"}
    BY <1>4, ComparisonLaw DEF LeavesTwo
  <1> QED
    BY <1>1, <1>2, <1>3, <1>4 DEF HasLaw

\* Results pushed on what lies below: both can be told apart again.
LEMMA PushedOn ==
  ASSUME NEW r \in Seq(Operands), NEW below \in Seq(Operands), NEW s, s = r \o below
  PROVE  /\ \A i \in 1 .. Len(r) : s[i] = r[i]
         /\ SubSeq(s, Len(r) + 1, Len(s)) = below
  <1>1. /\ Len(r) \in Nat /\ Len(below) \in Nat
        /\ s \in Seq(Operands) /\ Len(s) = Len(r) + Len(below)
        /\ \A i \in 1 .. Len(s) : s[i] = IF i <= Len(r) THEN r[i] ELSE below[i - Len(r)]
    BY ConcatProperties, LenProperties
  <1>2. \A i \in 1 .. Len(r) : s[i] = r[i]
    BY <1>1
  <1> DEFINE t == SubSeq(s, Len(r) + 1, Len(s))
  <1>3. /\ t \in Seq(Operands) /\ Len(t) = Len(below)
        /\ \A i \in 1 .. Len(below) : t[i] = s[Len(r) + 1 + i - 1]
    <2>1. \A i \in Len(r) + 1 .. Len(s) : s[i] \in Operands
      BY <1>1, ElementOfSeq
    <2>2. /\ t \in Seq(Operands)
          /\ Len(t) = IF Len(r) + 1 <= Len(s) THEN Len(s) - (Len(r) + 1) + 1 ELSE 0
          /\ \A i \in 1 .. Len(s) - (Len(r) + 1) + 1 : t[i] = s[Len(r) + 1 + i - 1]
      BY <1>1, <2>1, SubSeqProperties
    <2>3. Len(s) - (Len(r) + 1) + 1 = Len(below)
      BY <1>1
    <2> HIDE DEF t
    <2> QED
      BY <1>1, <2>2, <2>3
  <1>4. \A i \in 1 .. Len(below) : t[i] = below[i]
    <2> HIDE DEF t
    <2> SUFFICES ASSUME NEW i \in 1 .. Len(below) PROVE t[i] = below[i]
      OBVIOUS
    <2>1. /\ Len(r) + 1 + i - 1 = Len(r) + i /\ Len(r) + i \in 1 .. Len(s)
          /\ ~(Len(r) + i <= Len(r)) /\ (Len(r) + i) - Len(r) = i
      BY <1>1
    <2> QED
      BY <1>1, <1>3, <2>1
  <1>5. t = below
    <2> HIDE DEF t
    <2> QED
      BY <1>1, <1>3, <1>4, SeqEqual
  <1> QED
    BY <1>2, <1>5

\* For words of any width, on MIPS and on i386: whatever program runs, sums, differences,
\* products, quotients, shifts and signed comparisons obey the laws of their operations
\* and leave the stack below their operands alone (op_ADD to op_CMP_GT).
THEOREM ArithmeticIsLawful == Spec => ArithmeticLaws
  <1> DEFINE Laws ==
        \A op \in HasLaw :
          Computes(op) /\ status' = "run" /\ (op \in Shifts => ARG1 < BITS) =>
            /\ Lawful(op, ARG1, ARG2, dstack'[1], dstack'[2])
            /\ SubSeq(dstack', IF op \in LeavesTwo THEN 3 ELSE 2, Len(dstack'))
                 = SubSeq(dstack, 3, Len(dstack))
  <1>1. VmInv => Laws
    <2> SUFFICES ASSUME VmInv, NEW op \in HasLaw, Computes(op), status' = "run",
                        op \in Shifts => ARG1 < BITS
                 PROVE  /\ Lawful(op, ARG1, ARG2, dstack'[1], dstack'[2])
                        /\ SubSeq(dstack', IF op \in LeavesTwo THEN 3 ELSE 2, Len(dstack'))
                             = SubSeq(dstack, 3, Len(dstack))
      OBVIOUS
    <2>1. TypeOK /\ Fetches(op)
      BY DEF VmInv, Computes
    <2>2. op \in Computing /\ StackIn(op) = 2
      BY DEF HasLaw, Shifts, LeavesTwo, StackIn, TakesTwo, Computing
    <2>3. ARG1 \in Operands /\ ARG2 \in Operands
      BY <2>1, <2>2, ArgumentType
    <2>4. PICK r \in Results(op, ARG1, ARG2) : Leaves(op, r)
      BY DEF Computes, Ends
    <2>5. /\ Lawful(op, ARG1, ARG2, r[1], r[2])
          /\ Len(r) = IF op \in LeavesTwo THEN 2 ELSE 1
      BY <2>3, ResultsLawful
    <2>6. dstack' = r \o SubSeq(dstack, 3, Len(dstack))
      BY <2>2, <2>4 DEF Leaves, Pushes, Dstack
    <2>7. r \in Seq(Operands)
      BY <2>2, <2>3, ResultsType
    <2>8. SubSeq(dstack, 3, Len(dstack)) \in Seq(Operands)
      <3>1. dstack \in Seq(Operands) /\ Len(dstack) \in Nat
        BY <2>1, LenProperties DEF TypeOK
      <3>2. \A i \in 3 .. Len(dstack) : dstack[i] \in Operands
        BY <3>1, ElementOfSeq
      <3> QED
        BY <3>1, <3>2, SubSeqProperties
    <2>9. /\ \A i \in 1 .. Len(r) : dstack'[i] = r[i]
          /\ SubSeq(dstack', Len(r) + 1, Len(dstack')) = SubSeq(dstack, 3, Len(dstack))
      BY <2>6, <2>7, <2>8, PushedOn
    <2>10. CASE op \in LeavesTwo
      BY <2>5, <2>9, <2>10
    <2>11. CASE op \notin LeavesTwo
      <3>1. dstack'[1] = r[1]
        BY <2>5, <2>9, <2>11
      <3>2. Lawful(op, ARG1, ARG2, dstack'[1], dstack'[2])
        BY <2>5, <2>11, <3>1 DEF Lawful, LeavesTwo, HasLaw, Shifts
      <3> QED
        BY <2>5, <2>9, <2>11, <3>2
    <2> QED
      BY <2>10, <2>11
  <1>2. ArithmeticLaws <=> [][Laws]_vars
    BY PTL DEF ArithmeticLaws
  <1> QED
    BY <1>1, <1>2, VmInvariant, PTL
=============================================================================
