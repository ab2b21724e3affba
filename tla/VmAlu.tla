--------------------------------- MODULE VmAlu ---------------------------------
(***************************************************************************)
(* What the instructions of the virtual machine that only compute leave on *)
(* the data stack (vm_core.c, from op_ADD to op_CMP_EQ).  Operands are     *)
(* words of BITS bits.  a is ARG1, popped first, and b is ARG2.            *)
(***************************************************************************)
EXTENDS Integers, Sequences

CONSTANTS
    BITS,   \* bits of an operand (32 in the code)
    MIPS    \* built for MIPS; otherwise for i386

\* The last conjuncts are arithmetic, stated because no prover here knows powers.
ASSUME WordAssumption ==
    /\ BITS \in Nat \ {0} /\ MIPS \in BOOLEAN
    /\ \A i \in 0 .. BITS : 2^i \in Nat /\ 2^i > i
    /\ \A i \in 0 .. BITS - 1 : 2^(i + 1) = 2 * 2^i

WORD == 2^BITS
Operands == 0 .. WORD - 1

Signed(v) == IF v < WORD \div 2 THEN v ELSE v - WORD
Truth(condition) == IF condition THEN 1 ELSE 0

\* Bit i of v, and the results that are the word whose bit i is bit(i).
Bit(v, i) == (v \div 2^i) % 2
WithBits(bit(_)) == {<<v>> : v \in {w \in Operands : \A i \in 0 .. BITS - 1 : Bit(w, i) = bit(i)}}

\* C divides towards zero.
Sign(n) == IF n < 0 THEN -1 ELSE 1
Magnitude(n) == n * Sign(n)
Quot_Down(n, d) == (n * Sign(d)) \div Magnitude(d)                      \* mutant
Quot(n, d) == Sign(n) * Sign(d) * (Magnitude(n) \div Magnitude(d))
Rem(n, d) == n - d * Quot(n, d)

\* Both targets shift by the low bits of the count.
Count(a) == a % BITS

\* MIPS leaves the high word on top; on i386 only the low word is computed and the
\* other result is not initialized.
Product(p) == IF MIPS THEN {<<(p \div WORD) % WORD, p % WORD>>}
              ELSE {<<p % WORD, r1>> : r1 \in Operands}

\* The quotient is pushed first, the remainder lies on top; no result is a trap.
Division(n, d) ==
    IF d = 0 \/ (~MIPS /\ Quot(n, d) >= WORD \div 2 /\ n < 0) THEN {}
    ELSE {<<Rem(n, d) % WORD, Quot(n, d) % WORD>>}

Sub(a, b) == (b - a) % WORD

\* What op may leave on the stack, the top first.
Results(op, a, b) ==
    CASE op = "ADD" -> {<<(b + a) % WORD>>}
      [] op = "SUB" -> {<<Sub(a, b)>>}
      [] op = "MULU" -> Product(a * b)
      [] op = "MULS" -> Product(Signed(a) * Signed(b))
      [] op = "DIVU" -> Division(b, a)
      [] op = "DIVS" -> Division(Signed(b), Signed(a))
      [] op = "AND" -> WithBits(LAMBDA i : Bit(a, i) * Bit(b, i))
      [] op = "OR" -> WithBits(LAMBDA i : Truth(Bit(a, i) + Bit(b, i) > 0))
      [] op = "XOR" -> WithBits(LAMBDA i : (Bit(a, i) + Bit(b, i)) % 2)
      [] op = "NOT" -> WithBits(LAMBDA i : 1 - Bit(a, i))
      [] op = "LSL" -> {<<(b * 2^Count(a)) % WORD>>}
      [] op = "LSR" -> {<<b \div 2^Count(a)>>}
      [] op = "ASR" -> {<<(Signed(b) \div 2^Count(a)) % WORD>>}
      [] op = "CMP.LT" -> {<<Truth(Signed(a) < Signed(b))>>}
      [] op = "CMP.GT" -> {<<Truth(Signed(a) > Signed(b))>>}
      [] op = "CMP.B" -> {<<Truth(a < b)>>}
      [] op = "CMP.A" -> {<<Truth(a > b)>>}
      [] op = "CMP.EQ" -> {<<Truth(b = a)>>}
=============================================================================
