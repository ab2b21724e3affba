------------------------------ MODULE BootProofs ------------------------------
(***************************************************************************)
(* Proofs about the way of a module from its source to memory: what pass 1 *)
(* lays out is what pass 2 writes, and what the loader finds in the file.  *)
(***************************************************************************)
EXTENDS Boot, Basics, FiniteSetTheorems

-----------------------------------------------------------------------------
\* The invariant, component by component.

\* Symbols are the instructions of the source.
SymbolOf(sym, count, constants) ==
  \/ sym.type = "label" /\ sym.at \in 0 .. count
  \/ sym.type = "constant" /\ sym.at \in constants
IsSymbol(sym) == SymbolOf(sym, Len(insns), Constants)

\* A label has its instruction.
Placed(sym) == sym.type = "label" /\ sym.at # NoInsn

ScopesOK ==
  /\ Globals \in DOMAIN symtabs
  /\ \A i \in 1 .. Len(insns) : insns[i].kind = "sub" => i \in DOMAIN symtabs
  /\ \A i \in 1 .. Len(insns) :
       insns[i].kind = "ncall" => \E n \in 1 .. Len(ncalls) : ncalls[n] = insns[i].name

SymbolsKnown ==
  \A scope \in DOMAIN symtabs : \A name \in DOMAIN symtabs[scope] :
    IsSymbol(symtabs[scope][name])

SymbolsOK ==
  pc \in {"pass_1", "pass_2", "exit_0"} \/ (errors = 0 /\ pc = "parse") => SymbolsKnown

\* Where an instruction ends, by pass 1.
End(i) == IF i = 0 THEN 0 ELSE start_addr[i] + Size(insns[i], reserved[i])

LayoutOK ==
  /\ \A i \in 1 .. Len(start_addr) :
       align_bytes[i] = (start_addr[i] - (End(i - 1) % ADDRS)) % ADDRS
  /\ next_va = End(Len(start_addr)) % ADDRS
  /\ \E last \in 0 .. Len(start_addr) :
       /\ bss_va = End(last) % ADDRS
       /\ last # 0 => insns[last].kind \in Allocates
       /\ \A i \in last + 1 .. Len(start_addr) : insns[i].kind \notin Allocates

\* The instructions of the file are those pass 2 has written, each at its address, and
\* behind them the hashes.
Stages ==
  /\ pc = "parse" => start_addr = <<>>
  /\ pc \in {"parse", "pass_1"} => emitted = 0 /\ body = <<>>
  /\ pc = "exit_0" => errors = 0 /\ ~More

Cell == [what : {"pad", "insn", "hash"}, of : Nat, part : Nat]

BodyOK ==
  /\ body \in Seq(Cell)
  /\ \A i \in 1 .. emitted : start_addr[i] < bss_va
  /\ ~Wraps /\ errors = 0 =>
       /\ Len(body) = End(emitted) + (IF pc = "exit_0" THEN 4 * Len(ncalls) ELSE 0)
       /\ \A n \in 1 .. End(emitted) :
            /\ body[n].what # "hash"
            /\ body[n].what = "insn" => n = start_addr[body[n].of] + body[n].part
       /\ \A i \in 1 .. emitted : \A part \in 1 .. Size(insns[i], reserved[i]) :
            body[start_addr[i] + part] = [what |-> "insn", of |-> i, part |-> part]
       /\ pc = "exit_0" =>
            \A n \in 1 .. 4 * Len(ncalls) : body[End(emitted) + n] = Hashes[n]

\* A scope lasts to the next .SUB or .ENDSUB; each stage starts in the scope the one before
\* it ended in.  Enclosing, of any list of instructions, and where a stage stands when it has
\* come so far.
Mark(insn) == insn.kind \in {"sub", "endsub"}
ScopeIn(prog, i) ==
  LET marks == {m \in 1 .. i : prog[m].kind \in {"sub", "endsub"}}
  IN IF marks = {} \/ prog[Max(marks)].kind = "endsub" THEN Globals ELSE Max(marks)
Looked(prog, done) ==
  ScopeIn(prog, IF \E m \in 1 .. done : Mark(prog[m]) THEN done ELSE Len(prog))

ScopeOK ==
  /\ pc = "parse" => lookup_stack = ScopeIn(insns, Len(insns))
  /\ pc = "pass_1" => lookup_stack = Looked(insns, Len(start_addr))
  /\ pc = "pass_2" => lookup_stack = Looked(insns, emitted)

\* What the table of symbols makes of a reference, of any program and symbols.
Found(tabs, scope, name) ==
  IF name \in DOMAIN tabs[scope] THEN tabs[scope][name]
  ELSE IF name \in DOMAIN tabs[Globals] THEN tabs[Globals][name]
  ELSE NoSymbol
Leads(prog, tabs, addrs, i, field) ==
  LET exprs == prog[i].exprs
      sym == Found(tabs, ScopeIn(prog, i), exprs[1][1].name)
      away == IF prog[i].kind = "branch" THEN ByteSigned(field) ELSE field
  IN prog[i].kind \in {"branch", "relative"} /\ Len(exprs) = 1 /\ Len(exprs[1]) = 1
       /\ exprs[1][1].is = "symbol" /\ sym.type # "constant" =>
       /\ Placed(sym)
       /\ (addrs[i] + MachineSize[prog[i].kind] + away) % ADDRS = addrs[sym.at]

OperandsOK ==
  /\ \A i \in 1 .. emitted : insns[i].kind = "ncall" =>
       operands[i][1] = Id(insns[i].name) % (BYTES * BYTES)
  /\ ScopeIn(insns, Len(insns)) = Globals /\ errors = 0 =>
       \A i \in 1 .. emitted : Leads(insns, symtabs, start_addr, i, operands[i][1])

\* The entry point is the address of the label "start".
EntryOK ==
  pc \in {"pass_2", "exit_0"} =>
    LET sym == Lookup(Globals, "start")
    IN sym.type # "none" /\ (sym.type = "label" => ep_offset = start_addr[sym.at])

\* What the loader has read, from a file that main has written.
IsFile == \E kept \in Kept : file = File(kept)
HasBody ==
  /\ Len(file.rest) >= file.filesize /\ file.filesize <= file.memsize
  /\ memory = SubSeq(file.rest, 1, file.filesize) /\ offset = file.filesize
HasTable ==
  /\ HasBody /\ Len(file.rest) - offset >= 4 * file.ncalls_count
  /\ table = [n \in 1 .. file.ncalls_count |-> HashAt(n)]
Linked ==
  HasTable /\ \A k \in 1 .. Len(ncalls_table) : Routines[ncalls_table[k]] = table[k]

TooShort ==
  \/ Len(file.rest) < file.filesize
  \/ Len(file.rest) - file.filesize < 4 * file.ncalls_count

LoaderOK ==
  /\ lpc # "closed" => pc = "exit_0"
  /\ lpc \notin {"closed", "no_file"} => IsFile
  /\ lpc \in {"body", "table", "fix_up", "loaded"} => entry = ep_offset
  /\ lpc \in {"closed", "module", "base", "body", "table"} => ncalls_table = <<>>
  /\ lpc \in {"table", "loaded"} => HasBody
  /\ lpc = "table" => file.ncalls_count > 0
  /\ lpc \in {"fix_up", "unknown_routine"} \/ (lpc = "loaded" /\ file.ncalls_count > 0) =>
       Linked
  /\ lpc \in {"fix_up", "unknown_routine"} => Len(ncalls_table) < file.ncalls_count
  /\ lpc = "loaded" => Len(ncalls_table) = file.ncalls_count
  /\ lpc = "unknown_routine" => table[Len(ncalls_table) + 1] \notin Range(Routines)
  /\ lpc = "short_header" => file.size < HEADER
  /\ lpc = "short_file" => TooShort
  /\ lpc = "overrun" => file.filesize > file.memsize

Inv ==
  /\ TypeOK /\ ScopesOK /\ SymbolsOK /\ LayoutOK /\ Stages /\ BodyOK /\ ScopeOK
  /\ OperandsOK /\ EntryOK /\ LoaderOK

-----------------------------------------------------------------------------
\* Numbers of the assembler.

Power == [k \in Nat |-> 2^k]

LEMMA Powers ==
  /\ Power[0] = 1 /\ Power[ADDR_BITS] = ADDRS
  /\ \A k \in 0 .. ADDR_BITS - 1 : Power[k + 1] = 2 * Power[k] /\ Power[k] = 2^k
  /\ \A k \in 0 .. ADDR_BITS : Power[k] \in Nat \ {0}
  <1>1. \A k \in Nat : Power[k] = 2^k
    BY Zenon DEF Power
  <1>2. ADDR_BITS \in Nat \ {0} /\ 0 \in Nat
    BY VmaAssumption
  <1>3. Power[0] = 1 /\ Power[ADDR_BITS] = ADDRS
    BY <1>1, <1>2, VmaAssumption, Zenon DEF ADDRS
  <1>4. ASSUME NEW k \in 0 .. ADDR_BITS - 1
        PROVE  Power[k + 1] = 2 * Power[k] /\ Power[k] = 2^k
    <2>1. k \in Nat /\ k + 1 \in Nat
      BY <1>2
    <2>2. 2^(k + 1) = 2 * 2^k
      BY <1>4, VmaAssumption, Zenon
    <2> QED
      BY <1>1, <2>1, <2>2, Zenon
  <1> DEFINE S == {k \in Nat : k <= ADDR_BITS => Power[k] \in Nat \ {0}}
  <1>5. 0 \in S
    BY <1>3
  <1>6. ASSUME NEW n \in Nat, n \in S PROVE n + 1 \in S
    <2>1. CASE n + 1 <= ADDR_BITS
      <3>1. n \in 0 .. ADDR_BITS - 1 /\ Power[n] \in Nat \ {0}
        BY <1>2, <1>6, <2>1
      <3>2. Power[n + 1] = 2 * Power[n]
        BY <1>4, <3>1
      <3> HIDE DEF Power
      <3> QED
        BY <3>1, <3>2
    <2> QED
      BY <1>2, <2>1
  <1> HIDE DEF S
  <1>7. Nat \subseteq S
    BY <1>5, <1>6, Induction
  <1>8. \A k \in 0 .. ADDR_BITS : Power[k] \in Nat \ {0}
    BY <1>2, <1>7 DEF S
  <1> QED
    BY <1>3, <1>4, <1>8

LEMMA Constraints ==
  /\ ADDRS \in Nat \ {0} /\ ADDRS > 1 /\ ADDR_BITS \in Nat \ {0}
  /\ BYTES \in Nat \ {0} /\ BYTES % 2 = 0 /\ ADDRS % BYTES = 0
  /\ MAX_ERRORS \in Nat /\ LINES \in Nat
  /\ Addresses = 0 .. ADDRS - 1
  <1>1. ADDR_BITS \in Nat \ {0}
    BY VmaAssumption
  <1>2. ADDR_BITS \in 0 .. ADDR_BITS /\ ADDR_BITS - 1 \in 0 .. ADDR_BITS - 1
        /\ ADDR_BITS - 1 \in 0 .. ADDR_BITS /\ (ADDR_BITS - 1) + 1 = ADDR_BITS
    BY <1>1
  <1>3. ADDRS \in Nat \ {0}
    BY <1>2, Powers, Zenon
  <1>4. ADDRS > 1
    <2> DEFINE half == Power[ADDR_BITS - 1]
    <2>1. half \in Nat \ {0}
      BY <1>2, Powers, Zenon
    <2>2. ADDRS = 2 * half
      <3>1. Power[(ADDR_BITS - 1) + 1] = 2 * Power[ADDR_BITS - 1]
        BY <1>2, Powers, Zenon
      <3> QED
        BY <1>2, <3>1, Powers, Zenon
    <2> HIDE DEF half
    <2> QED
      BY <2>1, <2>2
  <1> QED
    BY <1>1, <1>3, <1>4, VmaAssumption, Zenon DEF Addresses

\* A word of bits is an address.
LEMMA WordIsAddress ==
  ASSUME NEW bits
  PROVE  Word(bits) \in Addresses
  <1> DEFINE T == [k \in 0 .. ADDR_BITS |-> 0 .. Power[k] - 1]
             P(k) == Power[k - 1]
             F(w) == [k \in 0 .. ADDR_BITS |->
                        IF k = 0 THEN 0
                        ELSE w[k - 1] + (IF k - 1 \in bits THEN 2^(k - 1) ELSE 0)]
             G == [k \in 1 .. ADDR_BITS |-> [x \in Nat |->
                     x + (IF k - 1 \in bits THEN Power[k - 1] ELSE 0)]]
             word == CHOOSE w : w = F(w)
  <1>1. ADDR_BITS \in Nat \ {0}
    BY Constraints
  <1>2. ASSUME NEW k \in 1 .. ADDR_BITS
        PROVE  /\ k - 1 \in 0 .. ADDR_BITS - 1 /\ k - 1 \in 0 .. ADDR_BITS /\ k \in 0 .. ADDR_BITS
               /\ Power[k - 1] = 2^(k - 1) /\ Power[k - 1] \in Nat \ {0}
               /\ Power[k] = 2 * Power[k - 1]
    <2>1. k - 1 \in 0 .. ADDR_BITS - 1 /\ k - 1 \in 0 .. ADDR_BITS /\ k \in 0 .. ADDR_BITS
          /\ (k - 1) + 1 = k
      BY <1>1
    <2>2. Power[(k - 1) + 1] = 2 * Power[k - 1] /\ Power[k - 1] = 2^(k - 1)
      BY <2>1, Powers, Zenon
    <2>3. Power[k - 1] \in Nat \ {0}
      BY <2>1, Powers, Zenon
    <2> QED
      BY <2>1, <2>2, <2>3, Zenon
  <1>3. \A k \in 1 .. ADDR_BITS : \A x \in T[k - 1] :
          x + (IF k - 1 \in bits THEN Power[k - 1] ELSE 0) \in T[k] /\ x \in Nat
    <2> SUFFICES ASSUME NEW k \in 1 .. ADDR_BITS, NEW x \in T[k - 1]
                 PROVE  x + (IF k - 1 \in bits THEN Power[k - 1] ELSE 0) \in T[k] /\ x \in Nat
      OBVIOUS
    <2> DEFINE p == Power[k - 1]
    <2>1. p \in Nat \ {0} /\ T[k - 1] = 0 .. p - 1 /\ T[k] = 0 .. 2 * p - 1
      BY <1>2
    <2> HIDE DEF p, T
    <2> QED
      BY <2>1 DEF p
  <1>4. 0 \in T[0]
    BY <1>1, Powers
  <1>5. \A k \in 1 .. ADDR_BITS : \A x \in T[k - 1] : G[k][x] \in T[k]
    BY <1>3
  <1>6. PICK f : Follows(f, 0, ADDR_BITS, G) /\ \A k \in 0 .. ADDR_BITS : f[k] \in T[k]
    <2> HIDE DEF T, G
    <2> QED
      BY <1>1, <1>4, <1>5, TypedRecursion
  <1>7. f = F(f)
    <2>1. f = [k \in 0 .. ADDR_BITS |-> IF k = 0 THEN 0 ELSE G[k][f[k - 1]]]
      BY <1>6 DEF Follows
    <2>2. ASSUME NEW k \in 0 .. ADDR_BITS, k # 0
          PROVE  G[k][f[k - 1]] = f[k - 1] + (IF k - 1 \in bits THEN 2^(k - 1) ELSE 0)
      <3>1. k \in 1 .. ADDR_BITS
        BY <1>1, <2>2
      <3>2. k - 1 \in 0 .. ADDR_BITS /\ Power[k - 1] = 2^(k - 1)
        BY <1>2, <3>1, Zenon
      <3>3. f[k - 1] \in Nat
        BY <1>3, <1>6, <3>1, <3>2, Zenon
      <3>4. G[k][f[k - 1]] = f[k - 1] + (IF k - 1 \in bits THEN Power[k - 1] ELSE 0)
        BY <3>1, <3>3
      <3> QED
        BY <3>2, <3>4, Zenon
    <2>3. \A k \in 0 .. ADDR_BITS :
            (IF k = 0 THEN 0 ELSE G[k][f[k - 1]])
              = (IF k = 0 THEN 0 ELSE f[k - 1] + (IF k - 1 \in bits THEN 2^(k - 1) ELSE 0))
      <3> HIDE DEF G, F, T
      <3> QED
        BY <2>2, Zenon
    <2>4. [k \in 0 .. ADDR_BITS |-> IF k = 0 THEN 0 ELSE G[k][f[k - 1]]] = F(f)
      <3> HIDE DEF G, T
      <3> QED
        BY <2>3, Zenon
    <2> HIDE DEF F, G
    <2> QED
      BY <2>1, <2>4
  <1>8. word = F(word)
    <2> HIDE DEF F
    <2> QED
      BY <1>7
  <1> DEFINE S == {k \in Nat : k <= ADDR_BITS => word[k] \in T[k]}
  <1>9. \A k \in 0 .. ADDR_BITS : word[k] =
          (IF k = 0 THEN 0 ELSE word[k - 1] + (IF k - 1 \in bits THEN 2^(k - 1) ELSE 0))
    <2> HIDE DEF word
    <2> QED
      BY <1>8, Zenon
  <1> HIDE DEF word, T, G, F
  <1>10. 0 \in S
    <2>1. word[0] = 0
      BY <1>1, <1>9
    <2> QED
      BY <1>4, <2>1
  <1>11. ASSUME NEW n \in Nat, n \in S PROVE n + 1 \in S
    <2>1. CASE n + 1 <= ADDR_BITS
      <3> DEFINE k == n + 1
      <3>1. k \in 1 .. ADDR_BITS /\ k - 1 = n /\ word[k - 1] \in T[k - 1] /\ k # 0
        BY <1>1, <1>11, <2>1
      <3>2. word[k] = word[k - 1] + (IF k - 1 \in bits THEN Power[k - 1] ELSE 0)
        <4> HIDE DEF k
        <4>1. k \in 0 .. ADDR_BITS /\ Power[k - 1] = 2^(k - 1)
          BY <1>2, <3>1, Zenon
        <4> QED
          BY <1>9, <3>1, <4>1, Zenon
      <3>3. word[k] \in T[k]
        <4> HIDE DEF k
        <4> QED
          BY <1>3, <3>1, <3>2, Zenon
      <3> QED
        BY <3>3
    <2> QED
      BY <1>1, <2>1
  <1>12. Nat \subseteq S
    <2> HIDE DEF S
    <2> QED
      BY <1>10, <1>11, Induction
  <1>13. word[ADDR_BITS] \in 0 .. ADDRS - 1
    <2>1. word[ADDR_BITS] \in T[ADDR_BITS]
      BY <1>1, <1>12
    <2>2. T[ADDR_BITS] = 0 .. ADDRS - 1
      <3>1. ADDR_BITS \in 0 .. ADDR_BITS
        BY <1>1
      <3> QED
        BY <3>1, Powers, Zenon DEF T
    <2> QED
      BY <2>1, <2>2
  <1>14. Word(bits) = word[ADDR_BITS]
    BY Zenon DEF Word, word, F
  <1> QED
    BY <1>13, <1>14, Constraints

LEMMA ApplyIsAddress ==
  ASSUME NEW op, op \in {"+", "-", "*", "/", "|", "&", "^", "neg", "not"},
         NEW lhs \in Addresses, NEW rhs \in Addresses
  PROVE  Apply(op, lhs, rhs) \in Addresses
  <1>1. ADDRS \in Nat \ {0} /\ lhs \in 0 .. ADDRS - 1 /\ rhs \in 0 .. ADDRS - 1
    BY Constraints
  <1> DEFINE m == ADDRS
  <1>2. m \in Nat \ {0} /\ lhs \in 0 .. m - 1 /\ rhs \in 0 .. m - 1
    BY <1>1
  <1> HIDE DEF m
  <1>3. (lhs + rhs) % m \in 0 .. m - 1 /\ (lhs - rhs) % m \in 0 .. m - 1 /\ (-rhs) % m \in 0 .. m - 1
        /\ m - 1 - rhs \in 0 .. m - 1
    BY <1>2
  <1>4. (lhs * rhs) % m \in 0 .. m - 1
    <2> DEFINE x == lhs * rhs
    <2>1. x \in Int
      BY <1>2
    <2> HIDE DEF x
    <2>2. x % m \in 0 .. m - 1
      BY <1>2, <2>1
    <2> QED
      BY <2>2 DEF x
  <1>5. rhs # 0 => lhs \div rhs \in 0 .. m - 1
    <2> SUFFICES ASSUME rhs # 0 PROVE lhs \div rhs \in 0 .. m - 1
      OBVIOUS
    <2> DEFINE q == lhs \div rhs
               r == lhs % rhs
    <2>1. rhs \in Nat \ {0} /\ lhs \in Nat
      BY <1>2
    <2>2. q \in Nat /\ r \in Nat /\ lhs = rhs * q + r
      BY <2>1
    <2> HIDE DEF q, r
    <2>3. rhs * q >= q
      BY <2>1, <2>2
    <2>4. q <= lhs
      BY <2>1, <2>2, <2>3
    <2>5. q \in 0 .. m - 1
      BY <1>2, <2>2, <2>4
    <2> QED
      BY <2>5 DEF q
  <1>6. 1 \in 0 .. m - 1
    BY <1>2, Constraints DEF m
  <1>7. \A bits : Word(bits) \in 0 .. m - 1
    BY WordIsAddress, Constraints, Zenon DEF m
  <1>8. Addresses = 0 .. m - 1
    BY Constraints, Zenon DEF m
  <1>9. CASE op \in {"|", "&", "^"}
    BY <1>7, <1>8, <1>9 DEF Apply
  <1>10. CASE op \in {"+", "-", "*"}
    BY <1>3, <1>4, <1>8, <1>10 DEF Apply, m
  <1>11. CASE op \in {"/", "neg", "not"}
    BY <1>3, <1>5, <1>6, <1>8, <1>11 DEF Apply, m
  <1> QED
    BY <1>9, <1>10, <1>11

LEMMA RemainderIsAddress ==
  ASSUME NEW x \in Int
  PROVE  x % ADDRS \in Addresses /\ x % ADDRS \in Int
  <1> DEFINE m == ADDRS
  <1>1. m \in Nat \ {0} /\ Addresses = 0 .. m - 1
    BY Constraints
  <1> HIDE DEF m
  <1>2. x % m \in 0 .. m - 1
    BY <1>1
  <1> QED
    BY <1>1, <1>2 DEF m

-----------------------------------------------------------------------------
\* Kinds of instructions and their sizes.

LEMMA Kinds ==
  /\ Machine = {"plain", "byte", "branch", "ncall", "word", "relative"}
  /\ \A k \in Machine : MachineSize[k] \in 1 .. 5 /\ MachineSize[k] = 1 + OperandBytes[k]
  /\ \A k \in Defines \cup Reserves : Unit[k] \in {1, 2, 4}
  BY DEF Machine, MachineSize, OperandBytes, Defines, Reserves, Unit

LEMMA AlignedIsAddress ==
  ASSUME NEW va \in Addresses, NEW kind
  PROVE  Aligned(va, kind) \in Addresses
  <1> DEFINE a == IF kind \in {"defh", "resh", "defw", "resw"} THEN Unit[kind] ELSE 1
             x == (va + a - 1) % ADDRS
  <1>1. a \in {1, 2, 4}
    BY DEF Unit
  <1>2. ADDRS \in Nat \ {0} /\ va \in Nat /\ Addresses = 0 .. ADDRS - 1
    BY Constraints
  <1> DEFINE m == ADDRS
  <1> HIDE DEF a
  <1>3. x \in 0 .. ADDRS - 1
    <2>1. m \in Nat \ {0} /\ va + a - 1 \in Int
      BY <1>1, <1>2
    <2> HIDE DEF m
    <2>2. (va + a - 1) % m \in 0 .. m - 1
      BY <2>1
    <2> QED
      BY <2>2 DEF m
  <1> HIDE DEF x, m
  <1>4. (x \div a) * a \in 0 .. x
    <2>1. x \in Nat
      BY <1>2, <1>3
    <2>2. CASE a = 1
      BY <2>1, <2>2
    <2>3. CASE a = 2
      BY <2>1, <2>3
    <2>4. CASE a = 4
      BY <2>1, <2>4
    <2> QED
      BY <1>1, <2>2, <2>3, <2>4
  <1>5. (x \div a) * a \in 0 .. ADDRS - 1
    BY <1>2, <1>3, <1>4
  <1>6. Aligned(va, kind) = (x \div a) * a
    BY Zenon DEF Aligned, a, x
  <1> QED
    BY <1>2, <1>5, <1>6

LEMMA SizeIsNat ==
  ASSUME NEW insn, IsStatement(insn), NEW value \in Nat
  PROVE  /\ Size(insn, value) \in Nat
         /\ insn.kind \in Allocates /\ ~(insn.kind = "defs" /\ insn.length = 0) =>
              Size(insn, value) > 0
  <1>1. insn.length \in Nat /\ Len(insn.exprs) \in Nat
        /\ (insn.kind \in Defines => Len(insn.exprs) > 0)
    BY DEF IsStatement
  <1>2. CASE insn.kind \in Machine
    BY <1>2, Kinds DEF Size
  <1>3. CASE insn.kind = "defs"
    BY <1>1, <1>3, Kinds DEF Size
  <1>4. CASE insn.kind \in Defines
    <2>1. Unit[insn.kind] \in {1, 2, 4}
      BY <1>4, Kinds
    <2>2. Size(insn, value) = Unit[insn.kind] * Len(insn.exprs)
      BY <1>4, Kinds DEF Size, Defines
    <2> DEFINE u == Unit[insn.kind]
               n == Len(insn.exprs)
    <2>3. u \in {1, 2, 4} /\ n \in Nat \ {0} /\ Size(insn, value) = u * n
      BY <1>1, <1>4, <2>1, <2>2
    <2> HIDE DEF u, n
    <2>4. u * n \in Nat \ {0}
      BY <2>3
    <2> QED
      BY <2>3, <2>4
  <1>5. CASE insn.kind \in Reserves
    <2>1. Unit[insn.kind] \in {1, 2, 4}
      BY <1>5, Kinds
    <2>2. Size(insn, value) = Unit[insn.kind] * value
      BY <1>5, Kinds DEF Size, Defines, Reserves
    <2>3. insn.kind \notin Allocates
      BY <1>5, Kinds DEF Allocates, Defines, Reserves
    <2> DEFINE u == Unit[insn.kind]
    <2>4. u \in {1, 2, 4} /\ Size(insn, value) = u * value
      BY <2>1, <2>2
    <2> HIDE DEF u
    <2>5. u * value \in Nat
      BY <2>4
    <2> QED
      BY <2>3, <2>4, <2>5
  <1>6. CASE insn.kind \notin Machine \cup {"defs"} \cup Defines \cup Reserves
    BY <1>6 DEF Size, Allocates
  <1> QED
    BY <1>2, <1>3, <1>4, <1>5, <1>6

\* Pass 2 writes as many bytes as pass 1 counted, for an operand in range.
LEMMA WrittenIsSize ==
  ASSUME NEW i, NEW fields, insns[i].kind \in Defines => Len(fields) = Len(insns[i].exprs),
         insns[i].kind = "byte" => ~OutOfRange(i, fields[1])
  PROVE  Written(i, fields) = Size(insns[i], reserved[i])
  <1>1. CASE insns[i].kind \in Machine
    BY <1>1, Kinds DEF Written, Size
  <1>2. CASE insns[i].kind \notin Machine
    <2>1. insns[i].kind # "byte"
      BY <1>2, Kinds
    <2> QED
      BY <1>2, <2>1, Kinds DEF Written, Size, Defines, Reserves
  <1> QED
    BY <1>1, <1>2

-----------------------------------------------------------------------------
\* Expressions: a result is an address, or there is an error.

Results ==
  {r \in [ok : BOOLEAN, value : Addresses, used : SUBSET References, errors : Nat] :
     r.ok \/ r.errors > 0}

\* What is known after k nodes.
Partial == [ok : BOOLEAN, values : Seq(Addresses), used : SUBSET References, errors : Nat]
SoFar(k) == {a \in Partial : IF a.ok THEN Len(a.values) = k ELSE a.errors > 0}

Given(scope, addresses, constants) ==
  /\ SymbolsKnown /\ Globals \in DOMAIN symtabs /\ scope \in DOMAIN symtabs
  /\ addresses \in Seq(Addresses) /\ constants \in [Constants -> [SUBSET References -> Results]]

LEMMA LookupFinds ==
  ASSUME SymbolsKnown, Globals \in DOMAIN symtabs, NEW scope \in DOMAIN symtabs, NEW name
  PROVE  Lookup(scope, name).type = "none" \/ IsSymbol(Lookup(scope, name))
  BY DEF Lookup, SymbolsKnown, NoSymbol

LEMMA FailedIsPartial ==
  ASSUME NEW b \in Partial, NEW n \in Nat, b.errors + n > 0, NEW k
  PROVE  Failed(b, n) \in SoFar(k) /\ ~Failed(b, n).ok
  <1> DEFINE e == b.errors + n
             f == [b EXCEPT !.ok = FALSE, !.errors = e]
  <1>1. e \in Nat /\ e > 0
    BY DEF Partial
  <1>2. Failed(b, n) = f
    BY Zenon DEF Failed
  <1> HIDE DEF e
  <1>3. f \in Partial /\ f.ok = FALSE /\ f.errors = e
    BY <1>1, Zenon DEF Partial
  <1> HIDE DEF f
  <1> QED
    BY <1>1, <1>2, <1>3 DEF SoFar

\* What evaluating a constant adds.
LEMMA BehindIsPartial ==
  ASSUME NEW b \in Partial, NEW n \in Nat, NEW u \in SUBSET References
  PROVE  LET f == [b EXCEPT !.used = u, !.errors = @ + n]
         IN f \in Partial /\ f.ok = b.ok /\ f.values = b.values /\ f.errors = b.errors + n
  <1> DEFINE e == b.errors + n
             f == [b EXCEPT !.used = u, !.errors = e]
  <1>1. e \in Nat
    BY DEF Partial
  <1>2. [b EXCEPT !.used = u, !.errors = @ + n] = f
    BY Zenon
  <1> HIDE DEF e
  <1>3. f \in Partial /\ f.errors = e /\ f.ok = b.ok /\ f.values = b.values
    BY <1>1, Zenon DEF Partial
  <1> QED
    BY <1>2, <1>3, Zenon DEF e

LEMMA ValuedSoFar ==
  ASSUME NEW k \in Nat \ {0}, NEW a \in SoFar(k - 1), a.ok, NEW v \in Addresses
  PROVE  /\ Valued(a, v) \in SoFar(k)
         /\ Valued(a, v).values[k] = v
  <1>1. /\ a.values \in Seq(Addresses) /\ Len(a.values) = k - 1
        /\ a \in Partial
    BY DEF SoFar, Partial
  <1>2. Append(a.values, v) \in Seq(Addresses) /\ Len(Append(a.values, v)) = k
        /\ Append(a.values, v)[k] = v
    BY <1>1, AppendProperties
  <1> DEFINE values == Append(a.values, v)
             b == [a EXCEPT !.values = values]
  <1>3. Valued(a, v) = b
    BY Zenon DEF Valued
  <1>4. values \in Seq(Addresses) /\ Len(values) = k /\ values[k] = v
    BY <1>2
  <1> HIDE DEF values
  <1>5. b \in Partial /\ b.values = values /\ b.ok = a.ok
    BY <1>1, <1>4, Zenon DEF Partial
  <1> HIDE DEF b
  <1> QED
    BY <1>3, <1>4, <1>5 DEF SoFar

LEMMA ReferredSoFar ==
  ASSUME NEW scope, NEW addresses, NEW constants, Given(scope, addresses, constants),
         NEW id \in References, NEW name, NEW k \in Nat \ {0}, NEW a \in SoFar(k - 1), a.ok
  PROVE  LET r == Referred(a, id, name, scope, addresses, constants)
             sym == Lookup(scope, name)
         IN /\ r \in SoFar(k)
            /\ r.ok /\ sym.type # "constant" =>
                 Placed(sym) /\ r.values[k] = addresses[sym.at]
  <1> DEFINE sym == Lookup(scope, name)
             r == Referred(a, id, name, scope, addresses, constants)
             known == [a EXCEPT !.used = @ \cup {id}]
             constant == constants[sym.at][known.used]
             behind == [known EXCEPT !.used = constant.used, !.errors = @ + constant.errors]
  <1>1. a \in Partial /\ a.errors \in Nat /\ Len(a.values) = k - 1
    BY DEF SoFar, Partial
  <1>2. known \in SoFar(k - 1) /\ known.ok /\ known.used \in SUBSET References
    <2>1. a.used \cup {id} \in SUBSET References
      BY <1>1 DEF Partial
    <2> DEFINE used == a.used \cup {id}
    <2>2. known = [a EXCEPT !.used = used]
      BY Zenon
    <2> HIDE DEF used
    <2>3. known \in Partial /\ known.used = used /\ known.ok = a.ok /\ known.values = a.values
      BY <1>1, <2>1, <2>2, Zenon DEF Partial, used
    <2> HIDE DEF known
    <2> QED
      BY <1>1, <2>1, <2>3 DEF SoFar, used
  <1>3. sym.type = "none" \/ IsSymbol(sym)
    BY LookupFinds DEF Given
  <1>4. r = IF ResolvesAgain(id, a.used) \/ sym.type = "none" THEN Failed(a, 1)
       ELSE IF sym.type = "label"
       THEN IF sym.at = NoInsn THEN Failed(known, MAX_ERRORS + 1)
            ELSE IF sym.at \in DOMAIN addresses THEN Valued(known, addresses[sym.at])
            ELSE Failed(known, 1)
       ELSE IF constant.ok THEN Valued(behind, constant.value) ELSE Failed(behind, 0)
    BY Zenon DEF Referred, Settled
  <1>6. known \in Partial /\ known.errors \in Nat
    BY <1>2 DEF SoFar, Partial
  <1>7. MAX_ERRORS + 1 \in Nat /\ MAX_ERRORS + 1 > 0
    BY Constraints
  <1> HIDE DEF sym, r, known
  <1>8. CASE ResolvesAgain(id, a.used) \/ sym.type = "none"
    <2>1. a.errors + 1 > 0
      BY <1>1
    <2>2. r = Failed(a, 1)
      BY <1>4, <1>8, Zenon
    <2> QED
      BY <1>1, <2>1, <2>2, FailedIsPartial DEF r, sym
  <1>9. CASE ~(ResolvesAgain(id, a.used) \/ sym.type = "none") /\ sym.type = "label"
    <2>1. CASE sym.at = NoInsn
      <3>1. known.errors + (MAX_ERRORS + 1) > 0
        BY <1>6, <1>7
      <3>2. r = Failed(known, MAX_ERRORS + 1)
        BY <1>4, <1>9, <2>1, Zenon
      <3> QED
        BY <1>6, <1>7, <3>1, <3>2, FailedIsPartial DEF r, sym
    <2>2. CASE sym.at # NoInsn /\ sym.at \in DOMAIN addresses
      <3>1. addresses[sym.at] \in Addresses
        BY <2>2, ElementOfSeq, LenProperties DEF Given
      <3>2. r = Valued(known, addresses[sym.at])
        BY <1>4, <1>9, <2>2, Zenon
      <3> DEFINE v == addresses[sym.at]
      <3>4. v \in Addresses /\ r = Valued(known, v)
        BY <3>1, <3>2
      <3> HIDE DEF v
      <3>5. Valued(known, v) \in SoFar(k) /\ Valued(known, v).values[k] = v
        BY <1>2, <3>4, ValuedSoFar
      <3>3. r \in SoFar(k) /\ r.values[k] = addresses[sym.at]
        BY <3>4, <3>5, Zenon DEF v
      <3>6. Placed(sym)
        BY <1>9, <2>2, Zenon DEF Placed
      <3> QED
        BY <3>3, <3>6 DEF r, sym
    <2>3. CASE sym.at # NoInsn /\ sym.at \notin DOMAIN addresses
      <3>1. known.errors + 1 > 0
        BY <1>6
      <3>2. r = Failed(known, 1)
        BY <1>4, <1>9, <2>3, Zenon
      <3> QED
        BY <1>6, <3>1, <3>2, FailedIsPartial DEF r, sym
    <2> QED
      BY <2>1, <2>2, <2>3
  <1>10. CASE ~(ResolvesAgain(id, a.used) \/ sym.type = "none") /\ sym.type # "label"
    <2>1. sym.type = "constant" /\ sym.at \in Constants
      BY <1>3, <1>10 DEF IsSymbol, SymbolOf
    <2>2. constant \in Results
      BY <1>2, <2>1 DEF Given
    <2>3. /\ constant.ok \in BOOLEAN /\ constant.value \in Addresses
          /\ constant.used \in SUBSET References /\ constant.errors \in Nat
          /\ constant.ok \/ constant.errors > 0
      BY <2>2 DEF Results
    <2> HIDE DEF constant
    <2>4. behind \in Partial /\ behind.ok = known.ok /\ behind.values = known.values
          /\ behind.errors = known.errors + constant.errors
      <3> DEFINE u == constant.used
                 n == constant.errors
                 f == [known EXCEPT !.used = u, !.errors = @ + n]
      <3>1. u \in SUBSET References /\ n \in Nat
        BY <2>3
      <3>2. behind = f
        BY Zenon
      <3> HIDE DEF u, n, behind
      <3>3. f \in Partial /\ f.ok = known.ok /\ f.values = known.values
            /\ f.errors = known.errors + n
        BY <1>6, <3>1, BehindIsPartial, Zenon
      <3> HIDE DEF f
      <3> QED
        BY <3>2, <3>3, Zenon DEF n
    <2> HIDE DEF behind
    <2>5. behind \in SoFar(k - 1)
      BY <1>2, <2>4 DEF SoFar
    <2>6. CASE constant.ok
      <3>1. r = Valued(behind, constant.value)
        BY <1>4, <1>10, <2>6, Zenon
      <3>2. r \in SoFar(k)
        BY <1>2, <2>3, <2>4, <2>5, <3>1, ValuedSoFar, Zenon
      <3> QED
        BY <2>1, <3>2 DEF r, sym
    <2>7. CASE ~constant.ok
      <3>1. r = Failed(behind, 0)
        BY <1>4, <1>10, <2>7, Zenon
      <3>2. behind.errors + 0 > 0
        BY <1>6, <2>3, <2>4, <2>7
      <3>3. r \in SoFar(k)
        BY <2>4, <3>1, <3>2, FailedIsPartial
      <3> QED
        BY <2>1, <3>3 DEF r, sym
    <2> QED
      BY <2>6, <2>7
  <1> QED
    BY <1>8, <1>9, <1>10

LEMMA ComputedSoFar ==
  ASSUME NEW k \in Nat \ {0}, NEW a \in SoFar(k - 1), a.ok, NEW node,
         node.lhs \in 1 .. k - 1, node.rhs \in 1 .. k - 1,
         node.name \in {"+", "-", "*", "/", "|", "&", "^", "neg", "not"}
  PROVE  Computed(a, node) \in SoFar(k)
  <1>1. a.values \in Seq(Addresses) /\ Len(a.values) = k - 1
    BY DEF SoFar, Partial
  <1>2. a.values[node.lhs] \in Addresses /\ a.values[node.rhs] \in Addresses
    BY <1>1, ElementOfSeq
  <1> DEFINE v == Apply(node.name, a.values[node.lhs], a.values[node.rhs])
             error == IF node.name = "/" /\ a.values[node.rhs] = 0 THEN 1 ELSE 0
  <1>3. v \in Addresses
    BY <1>2, ApplyIsAddress
  <1>4. Computed(a, node) = [Valued(a, v) EXCEPT !.errors = @ + error]
    BY Zenon DEF Computed
  <1>5. error \in Nat
    OBVIOUS
  <1> HIDE DEF v, error
  <1> DEFINE b == Valued(a, v)
  <1>6. b \in SoFar(k)
    BY <1>3, ValuedSoFar
  <1> HIDE DEF b
  <1> DEFINE e == b.errors + error
             c == [b EXCEPT !.errors = e]
  <1>7. b \in Partial /\ e \in Nat /\ (b.errors > 0 => e > 0)
    BY <1>5, <1>6 DEF SoFar, Partial
  <1>8. Computed(a, node) = c
    BY <1>4, Zenon DEF b
  <1> HIDE DEF e
  <1>9. c \in Partial /\ c.errors = e /\ c.ok = b.ok /\ c.values = b.values
    BY <1>7, Zenon DEF Partial
  <1> HIDE DEF c
  <1> QED
    BY <1>6, <1>7, <1>8, <1>9 DEF SoFar

\* What a node adds to what was evaluated so far.
NodeTo(k, node, a, r, scope, addresses) ==
  LET sym == Lookup(scope, node.name)
  IN /\ r \in SoFar(k)
     /\ r.ok => a.ok
     /\ r.ok /\ node.is = "symbol" /\ sym.type # "constant" =>
          Placed(sym) /\ r.values[k] = addresses[sym.at]

LEMMA NodeSoFar ==
  ASSUME NEW scope, NEW addresses, NEW constants, Given(scope, addresses, constants),
         NEW i \in Nat, NEW j \in Nat, IsExpr(insns[i].exprs[j]),
         NEW k \in 1 .. Len(insns[i].exprs[j]), NEW a \in SoFar(k - 1)
  PROVE  NodeTo(k, insns[i].exprs[j][k], a, Node(a, i, j, k, scope, addresses, constants),
                scope, addresses)
  <1> DEFINE node == insns[i].exprs[j][k]
             r == Node(a, i, j, k, scope, addresses, constants)
             sym == Lookup(scope, node.name)
  <1>1. k \in Nat \ {0}
    BY DEF IsExpr
  <1>2. r = IF ~a.ok THEN a
            ELSE IF node.is = "literal" THEN Valued(a, node.value)
            ELSE IF node.is = "operator" THEN Computed(a, node)
            ELSE Referred(a, <<i, j, k>>, node.name, scope, addresses, constants)
    BY Zenon DEF Node
  <1>3. \/ node.is = "literal" /\ node.value \in Addresses
        \/ node.is = "symbol"
        \/ node.is = "operator" /\ node.lhs \in 1 .. k - 1 /\ node.rhs \in 1 .. k - 1
             /\ node.name \in {"+", "-", "*", "/", "|", "&", "^", "neg", "not"}
    BY DEF IsExpr
  <1>4. <<i, j, k>> \in References
    BY <1>1 DEF References
  <1> HIDE DEF node, r
  <1>5. CASE ~a.ok
    <2>1. r = a
      BY <1>2, <1>5, Zenon
    <2>2. r \in SoFar(k) /\ ~r.ok
      BY <1>5, <2>1 DEF SoFar
    <2> QED
      BY <2>2 DEF r, node, NodeTo
  <1>6. CASE a.ok /\ node.is = "literal"
    <2>1. r = Valued(a, node.value)
      BY <1>2, <1>6, Zenon
    <2>2. r \in SoFar(k)
      BY <1>1, <1>3, <1>6, <2>1, ValuedSoFar
    <2> QED
      BY <1>6, <2>2 DEF r, node, NodeTo
  <1>7. CASE a.ok /\ node.is = "operator"
    <2>1. r = Computed(a, node)
      BY <1>2, <1>7
    <2>2. r \in SoFar(k)
      BY <1>1, <1>3, <1>7, <2>1, ComputedSoFar
    <2> QED
      BY <1>7, <2>2 DEF r, node, NodeTo
  <1>8. CASE a.ok /\ node.is = "symbol"
    <2>1. r = Referred(a, <<i, j, k>>, node.name, scope, addresses, constants)
      BY <1>2, <1>8
    <2>2. r \in SoFar(k) /\ (r.ok /\ sym.type # "constant" =>
                 Placed(sym) /\ r.values[k] = addresses[sym.at])
      <3> DEFINE id == <<i, j, k>>
                 name == node.name
                 q == Referred(a, id, name, scope, addresses, constants)
      <3>1. id \in References /\ a.ok /\ r = q /\ sym = Lookup(scope, name)
        BY <1>4, <1>8, <2>1
      <3> HIDE DEF id, name
      <3>2. q \in SoFar(k) /\ (q.ok /\ Lookup(scope, name).type # "constant" =>
              Placed(Lookup(scope, name))
                /\ q.values[k] = addresses[Lookup(scope, name).at])
        BY <1>1, <3>1, ReferredSoFar
      <3> HIDE DEF q, sym
      <3> QED
        BY <3>1, <3>2
    <2> QED
      BY <1>8, <2>2 DEF r, node, NodeTo
  <1> QED
    BY <1>3, <1>5, <1>6, <1>7, <1>8, Zenon

\* What an expression comes to, and what one that only names a label does.
ComesTo(nodes, r, scope, addresses) ==
  LET sym == Lookup(scope, nodes[1].name)
  IN /\ r \in Results
     /\ Len(nodes) = 1 /\ nodes[1].is = "symbol" /\ sym.type # "constant" /\ r.ok =>
          Placed(sym) /\ r.value = addresses[sym.at]

LEMMA ExpressionResult ==
  ASSUME NEW scope, NEW addresses, NEW constants, Given(scope, addresses, constants),
         NEW i \in Nat, NEW j \in Nat, IsExpr(insns[i].exprs[j]), NEW used \in SUBSET References
  PROVE  ComesTo(insns[i].exprs[j], Expression(i, j, used, scope, addresses, constants),
                 scope, addresses)
  <1> DEFINE nodes == insns[i].exprs[j]
             count == Len(nodes)
             start == [ok |-> TRUE, values |-> <<>>, used |-> used, errors |-> 0]
             N(k, x) == Node(x, i, j, k, scope, addresses, constants)
             F(f) == [k \in 0 .. count |-> IF k = 0 THEN start ELSE N(k, f[k - 1])]
             after == CHOOSE f : f = F(f)
             T == [k \in 0 .. count |-> SoFar(k)]
             G == [k \in 1 .. count |-> [x \in Partial |-> N(k, x)]]
             end == after[count]
             r == [ok |-> end.ok, value |-> IF end.ok THEN end.values[count] ELSE 0,
                   used |-> end.used, errors |-> end.errors]
             sym == Lookup(scope, nodes[1].name)
  <1>1. count \in Nat \ {0}
    BY DEF IsExpr
  <1>2. Expression(i, j, used, scope, addresses, constants) = r
    BY Zenon DEF Expression, Result
  <1>3. start \in SoFar(0)
    <2>1. <<>> \in Seq(Addresses) /\ Len(<<>>) = 0
      OBVIOUS
    <2>2. start \in Partial /\ start.ok = TRUE /\ start.values = <<>>
      BY <2>1, Zenon DEF Partial
    <2> HIDE DEF start
    <2> QED
      BY <2>1, <2>2 DEF SoFar
  <1>4. \A k \in 1 .. count : \A x \in SoFar(k - 1) : N(k, x) \in SoFar(k) /\ x \in Partial
    <2> SUFFICES ASSUME NEW k \in 1 .. count, NEW x \in SoFar(k - 1)
                 PROVE  N(k, x) \in SoFar(k) /\ x \in Partial
      OBVIOUS
    <2>1. NodeTo(k, insns[i].exprs[j][k], x, N(k, x), scope, addresses)
      BY NodeSoFar, Zenon
    <2> QED
      BY <2>1 DEF NodeTo, SoFar
  <1>5. T[0] = SoFar(0) /\ \A k \in 1 .. count : T[k] = SoFar(k) /\ T[k - 1] = SoFar(k - 1)
    BY <1>1
  <1> HIDE DEF T, N, start, count, after
  <1>6. \A k \in 1 .. count : \A x \in T[k - 1] : G[k][x] \in T[k] /\ G[k][x] = N(k, x)
    BY <1>4, <1>5
  <1> HIDE DEF G
  <1>7. PICK f : Follows(f, start, count, G) /\ \A k \in 0 .. count : f[k] \in T[k]
    <2>1. count \in Nat /\ start \in T[0]
      BY <1>1, <1>3, <1>5
    <2>2. \A k \in 1 .. count : \A x \in T[k - 1] : G[k][x] \in T[k]
      BY <1>6
    <2> QED
      BY <2>1, <2>2, TypedRecursion
  <1>8. f = F(f)
    <2>1. f = [k \in 0 .. count |-> IF k = 0 THEN start ELSE G[k][f[k - 1]]]
      BY <1>7 DEF Follows
    <2>2. ASSUME NEW k \in 0 .. count, k # 0
          PROVE  G[k][f[k - 1]] = N(k, f[k - 1])
      <3>1. k \in 1 .. count /\ k - 1 \in 0 .. count
        BY <1>1, <2>2
      <3> QED
        BY <1>6, <1>7, <3>1
    <2> QED
      BY <2>1, <2>2, Zenon
  <1>9. after = F(after)
    <2> HIDE DEF F
    <2> QED
      BY <1>8, Zenon DEF after
  <1>10. \A k \in 0 .. count : after[k] = IF k = 0 THEN start ELSE N(k, after[k - 1])
    BY <1>9, Zenon
  <1> HIDE DEF F
  <1> DEFINE S == {k \in Nat : k <= count => after[k] \in SoFar(k)}
  <1>11. 0 \in S
    BY <1>1, <1>3, <1>10
  <1>12. ASSUME NEW n \in Nat, n \in S PROVE n + 1 \in S
    <2>1. CASE n + 1 <= count
      <3> DEFINE k == n + 1
      <3>1. k \in 1 .. count /\ k \in 0 .. count /\ k # 0 /\ k - 1 = n /\ after[n] \in SoFar(n)
        BY <1>1, <1>12, <2>1
      <3> HIDE DEF k
      <3>2. after[k] \in SoFar(k)
        BY <1>4, <1>10, <3>1, Zenon
      <3> QED
        BY <3>2 DEF k
    <2> QED
      BY <1>1, <2>1
  <1>13. Nat \subseteq S
    <2> HIDE DEF S
    <2> QED
      BY <1>11, <1>12, Induction
  <1>14. \A k \in 0 .. count : after[k] \in SoFar(k)
    BY <1>1, <1>13
  <1>15. end \in SoFar(count)
    BY <1>1, <1>14
  <1>16. r \in Results
    <2> DEFINE value == IF end.ok THEN end.values[count] ELSE 0
    <2>1. end.ok \in BOOLEAN /\ end.used \in SUBSET References /\ end.errors \in Nat
          /\ end.values \in Seq(Addresses)
      BY <1>15, Zenon DEF SoFar, Partial
    <2>2. end.ok => Len(end.values) = count
      BY <1>15 DEF SoFar
    <2>3. end.ok => end.values[count] \in Addresses
      BY <1>1, <2>1, <2>2, ElementOfSeq
    <2>4. 0 \in Addresses
      BY Constraints
    <2>5. value \in Addresses
      BY <2>3, <2>4, Zenon
    <2>6. end.ok \/ end.errors > 0
      BY <1>15 DEF SoFar
    <2> HIDE DEF end, value
    <2>7. [ok |-> end.ok, value |-> value, used |-> end.used, errors |-> end.errors] \in Results
      BY <2>1, <2>5, <2>6, Zenon DEF Results
    <2> QED
      BY <2>7 DEF value
  <1>17. ASSUME count = 1, nodes[1].is = "symbol", sym.type # "constant", end.ok
         PROVE  Placed(sym) /\ end.values[count] = addresses[sym.at]
    <2>1. after[0] \in SoFar(0) /\ after[1] = N(1, after[0])
      <3>1. 0 \in 0 .. count /\ 1 \in 0 .. count /\ 1 - 1 = 0 /\ 1 # 0
        BY <1>17
      <3> QED
        BY <1>10, <1>14, <3>1, Zenon
    <2>2. 1 \in 1 .. count /\ 1 - 1 = 0
      BY <1>17
    <2> DEFINE q == Node(after[0], i, j, 1, scope, addresses, constants)
    <2>3. q.ok /\ q = end
      BY <1>17, <2>1 DEF N, end
    <2>4. q.ok /\ nodes[1].is = "symbol" /\ sym.type # "constant" =>
            Placed(sym) /\ q.values[1] = addresses[sym.at]
      <3>1. 1 \in 1 .. Len(insns[i].exprs[j]) /\ after[0] \in SoFar(1 - 1)
        BY <2>1, <2>2 DEF count
      <3>2. NodeTo(1, insns[i].exprs[j][1], after[0], q, scope, addresses)
        BY <3>1, NodeSoFar, Zenon
      <3> QED
        BY <3>2, Zenon DEF NodeTo
    <2> QED
      BY <1>17, <2>3, <2>4
  <1>18. r.ok = end.ok /\ (end.ok => r.value = end.values[count])
    BY Zenon
  <1>19. Len(nodes) = 1 /\ nodes[1].is = "symbol" /\ sym.type # "constant" /\ r.ok =>
           Placed(sym) /\ r.value = addresses[sym.at]
    BY <1>17, <1>18, Zenon DEF count
  <1>20. r \in Results
    BY <1>16
  <1> HIDE DEF r
  <1>21. ComesTo(insns[i].exprs[j], r, scope, addresses)
    BY <1>19, <1>20, Zenon DEF ComesTo
  <1> QED
    BY <1>2, <1>21, Zenon

Known(scope, addresses) ==
  /\ SymbolsKnown /\ Globals \in DOMAIN symtabs /\ scope \in DOMAIN symtabs
  /\ addresses \in Seq(Addresses) /\ insns \in Seq(Statements)

LEMMA StatementFacts ==
  ASSUME insns \in Seq(Statements), NEW i \in 1 .. Len(insns)
  PROVE  insns[i] \in Statements /\ IsStatement(insns[i])
  BY ElementOfSeq, StatementsAssumption

LEMMA TooDeepResult ==
  ASSUME NEW used \in SUBSET References
  PROVE  TooDeep(used) \in Results
  <1>1. 0 \in Addresses /\ 1 > 0 /\ 1 \in Nat
    BY Constraints
  <1>2. TooDeep(used) \in [ok : BOOLEAN, value : Addresses, used : SUBSET References, errors : Nat]
    BY <1>1, Zenon DEF TooDeep
  <1>3. TooDeep(used).errors = 1
    BY DEF TooDeep
  <1> QED
    BY <1>1, <1>2, <1>3 DEF Results

LEMMA EvaluateResult ==
  ASSUME NEW scope, NEW addresses, Known(scope, addresses),
         NEW i \in Nat, NEW j \in Nat, IsExpr(insns[i].exprs[j]), NEW used \in SUBSET References
  PROVE  ComesTo(insns[i].exprs[j], Evaluate(i, j, scope, addresses, used),
                 scope, addresses)
  <1> DEFINE nodes == insns[i].exprs[j]
             m == Len(insns)
             K == [Constants -> [SUBSET References -> Results]]
             N(x) == [at \in Constants |-> [u \in SUBSET References |->
                        Expression(at, 1, u, scope, addresses, x)]]
             start == [at \in Constants |-> [u \in SUBSET References |-> TooDeep(u)]]
             B(k, f) == [at \in Constants |-> [u \in SUBSET References |->
                           IF k = 0 THEN TooDeep(u)
                           ELSE Expression(at, 1, u, scope, addresses, f[k - 1])]]
             F(f) == [k \in 0 .. m |-> B(k, f)]
             constants == CHOOSE f : f = F(f)
             T == [k \in 0 .. m |-> K]
             G == [k \in 1 .. m |-> [x \in K |-> N(x)]]
             c == constants[m]
             r == Expression(i, j, used, scope, addresses, c)
             sym == Lookup(scope, nodes[1].name)
  <1>1. m \in Nat
    BY LenProperties DEF Known
  <1>2. Evaluate(i, j, scope, addresses, used) = r
    BY Zenon DEF Evaluate
  <1>3. start \in K
    BY TooDeepResult
  <1>4. ASSUME NEW x \in K PROVE N(x) \in K
    <2> SUFFICES ASSUME NEW at \in Constants, NEW u \in SUBSET References
                 PROVE  Expression(at, 1, u, scope, addresses, x) \in Results
      OBVIOUS
    <2>1. at \in 1 .. m /\ insns[at].kind = "const"
      BY LenProperties DEF Constants, Known
    <2>2. IsStatement(insns[at])
      BY <2>1, StatementFacts DEF Known
    <2>3. IsExpr(insns[at].exprs[1])
      <3>1. Len(insns[at].exprs) = 1
        BY <2>1, <2>2 DEF IsStatement, OneExpr
      <3> QED
        BY <2>2, <3>1 DEF IsStatement
    <2>4. Given(scope, addresses, x)
      BY DEF Given, Known
    <2>5. at \in Nat /\ 1 \in Nat
      BY <1>1, <2>1
    <2> HIDE DEF K, N, m
    <2> QED
      BY <2>3, <2>4, <2>5, ExpressionResult DEF ComesTo
  <1>5. \A f : B(0, f) = start
    OBVIOUS
  <1>6. \A k \in 1 .. m : \A f : B(k, f) = N(f[k - 1])
    <2> SUFFICES ASSUME NEW k \in 1 .. m, NEW f PROVE B(k, f) = N(f[k - 1])
      OBVIOUS
    <2>1. k # 0
      BY <1>1
    <2> QED
      BY <2>1, Zenon
  <1> HIDE DEF K, N, start, m, constants, B
  <1>7. T[0] = K /\ \A k \in 1 .. m : T[k] = K /\ T[k - 1] = K
    BY <1>1
  <1> HIDE DEF T
  <1>8. \A k \in 1 .. m : \A x \in T[k - 1] : G[k][x] \in T[k]
    BY <1>4, <1>7
  <1>9. \A k \in 1 .. m : \A x \in K : G[k][x] = N(x)
    BY <1>7
  <1> HIDE DEF G
  <1>10. PICK f : Follows(f, start, m, G) /\ \A k \in 0 .. m : f[k] \in T[k]
    <2>1. start \in T[0]
      BY <1>3, <1>7
    <2> QED
      BY <1>1, <1>8, <2>1, TypedRecursion
  <1>11. f = F(f)
    <2>1. f = [k \in 0 .. m |-> IF k = 0 THEN start ELSE G[k][f[k - 1]]]
      BY <1>10 DEF Follows
    <2>2. ASSUME NEW k \in 0 .. m
          PROVE  (IF k = 0 THEN start ELSE G[k][f[k - 1]]) = B(k, f)
      <3>1. CASE k = 0
        BY <1>5, <3>1, Zenon
      <3>2. CASE k # 0
        <4>1. k \in 1 .. m /\ k - 1 \in 0 .. m
          BY <1>1, <3>2
        <4>2. f[k - 1] \in K
          <5>1. T[k - 1] = K
            BY <1>7, <4>1
          <5> QED
            BY <1>10, <4>1, <5>1
        <4> QED
          BY <1>6, <1>9, <3>2, <4>1, <4>2, Zenon
      <3> QED
        BY <3>1, <3>2
    <2> QED
      BY <2>1, <2>2, Zenon
  <1>12. constants = F(constants)
    <2>1. constants = CHOOSE g : g = F(g)
      BY Zenon DEF constants, B
    <2> HIDE DEF F
    <2> QED
      BY <1>11, <2>1, Zenon
  <1>13. \A k \in 0 .. m : constants[k] = B(k, constants)
    BY <1>12, Zenon
  <1> HIDE DEF F
  <1> DEFINE S == {k \in Nat : k <= m => constants[k] \in K}
  <1>14. 0 \in S
    <2>1. 0 \in 0 .. m
      BY <1>1
    <2> QED
      BY <1>3, <1>5, <1>13, <2>1
  <1>15. ASSUME NEW n \in Nat, n \in S PROVE n + 1 \in S
    <2>1. CASE n + 1 <= m
      <3> DEFINE k == n + 1
      <3>1. k \in 1 .. m /\ k \in 0 .. m /\ k - 1 = n /\ constants[n] \in K
        BY <1>1, <1>15, <2>1
      <3> HIDE DEF k
      <3>2. constants[k] \in K
        BY <1>4, <1>6, <1>13, <3>1, Zenon
      <3> QED
        BY <3>2 DEF k
    <2> QED
      BY <1>1, <2>1
  <1>16. Nat \subseteq S
    <2> HIDE DEF S
    <2> QED
      BY <1>14, <1>15, Induction
  <1>17. c \in K
    BY <1>1, <1>16
  <1>18. Given(scope, addresses, c)
    BY <1>17 DEF Given, Known, K
  <1> HIDE DEF c
  <1>19. ComesTo(insns[i].exprs[j], r, scope, addresses)
    BY <1>18, ExpressionResult, Zenon
  <1> HIDE DEF r
  <1> QED
    BY <1>2, <1>19, Zenon

LEMMA ScopeKnown ==
  ASSUME TypeOK, ScopesOK, NEW i \in 1 .. Len(insns)
  PROVE  EnteredScope(insns[i], i) \in DOMAIN symtabs
  BY DEF TypeOK, ScopesOK, EnteredScope

\* The id of a routine the source names.
LEMMA IdOfName ==
  ASSUME TypeOK, ScopesOK, NEW i \in 1 .. Len(insns), insns[i].kind = "ncall"
  PROVE  /\ Id(insns[i].name) \in 0 .. Len(ncalls) - 1
         /\ ncalls[Id(insns[i].name) + 1] = insns[i].name
  <1> DEFINE name == insns[i].name
             c == CHOOSE n \in DOMAIN ncalls : ncalls[n] = name
  <1>1. DOMAIN ncalls = 1 .. Len(ncalls) /\ Len(ncalls) \in Nat
    BY LenProperties DEF TypeOK
  <1>2. \E n \in DOMAIN ncalls : ncalls[n] = name
    BY <1>1 DEF ScopesOK
  <1>3. c \in DOMAIN ncalls /\ ncalls[c] = name
    BY <1>2, Zenon
  <1>4. Id(name) = c - 1
    BY DEF Id
  <1> HIDE DEF name, c
  <1>5. Id(name) \in 0 .. Len(ncalls) - 1 /\ Id(name) + 1 = c
    BY <1>1, <1>3, <1>4
  <1> QED
    BY <1>3, <1>5 DEF name

LEMMA EvaluateAllResult ==
  ASSUME TypeOK, ScopesOK, SymbolsKnown, NEW i \in 1 .. Len(insns), NEW garbage \in Nat
  PROVE  LET exprs == insns[i].exprs
             r == EvaluateAll(i, garbage)
             sym == Lookup(EnteredScope(insns[i], i), exprs[1][1].name)
         IN /\ r.values \in Seq(Int) /\ r.used \in SUBSET References /\ r.errors \in Nat
            /\ Len(r.values) = Len(exprs) + (IF insns[i].kind = "ncall" THEN 1 ELSE 0)
            /\ insns[i].kind = "ncall" => r.values[1] = Id(insns[i].name)
            /\ insns[i].kind # "ncall" /\ Len(exprs) = 1 /\ Len(exprs[1]) = 1
                 /\ exprs[1][1].is = "symbol" /\ sym.type # "constant" /\ r.errors = 0 =>
                 Placed(sym) /\ r.values[1] = start_addr[sym.at] /\ r.values[1] \in Addresses
  <1> DEFINE exprs == insns[i].exprs
             m == Len(exprs)
             ncall == insns[i].kind = "ncall"
             base == IF ncall THEN 1 ELSE 0
             scope == EnteredScope(insns[i], i)
             Sums == [values : Seq(Int), used : SUBSET References, errors : Nat]
             So(k) == {d \in Sums : Len(d.values) = base + k}
             start == [values |-> IF insns[i].kind = "ncall" THEN <<Id(insns[i].name)>> ELSE <<>>,
                       used |-> resolved, errors |-> 0]
             V(j, x) == Evaluate(i, j, scope, start_addr, x.used)
             Val(j, x) == IF V(j, x).ok THEN V(j, x).value ELSE garbage
             N(j, x) == [values |-> Append(x.values, Val(j, x)),
                         used |-> V(j, x).used, errors |-> x.errors + V(j, x).errors]
             F(f) == [j \in 0 .. m |-> IF j = 0 THEN start ELSE N(j, f[j - 1])]
             done == CHOOSE f : f = F(f)
             T == [k \in 0 .. m |-> So(k)]
             G == [k \in 1 .. m |-> [x \in Sums |-> N(k, x)]]
             r == EvaluateAll(i, garbage)
             sym == Lookup(scope, exprs[1][1].name)
  <1>1. IsStatement(insns[i]) /\ i \in Nat
    <2>1. insns \in Seq(Statements)
      BY Zenon DEF TypeOK
    <2>2. i \in Nat
      BY <2>1, LenProperties
    <2> QED
      BY <2>1, <2>2, StatementFacts
  <1>2. m \in Nat /\ (ncall => m = 0) /\ \A j \in 1 .. m : IsExpr(exprs[j])
    BY <1>1 DEF IsStatement, NoExpr
  <1>3. Known(scope, start_addr)
    BY ScopeKnown DEF Known, TypeOK, ScopesOK
  <1>4. r = done[m]
    BY Zenon DEF EvaluateAll, Gathered
  <1>5. ncall => Id(insns[i].name) \in Int
    BY IdOfName
  <1>6. start \in So(0) /\ start.errors = 0 /\ (ncall => start.values[1] = Id(insns[i].name))
    <2> DEFINE values == IF insns[i].kind = "ncall" THEN <<Id(insns[i].name)>> ELSE <<>>
    <2>1. values \in Seq(Int) /\ Len(values) = base /\ (ncall => values[1] = Id(insns[i].name))
      <3>1. CASE ncall
        BY <1>5, <3>1
      <3>2. CASE ~ncall
        BY <3>2
      <3> QED
        BY <3>1, <3>2
    <2>2. resolved \in SUBSET References /\ 0 \in Nat
      BY DEF TypeOK
    <2>5. base + 0 = base
      OBVIOUS
    <2> HIDE DEF values
    <2>3. [values |-> values, used |-> resolved, errors |-> 0] \in Sums
      BY <2>1, <2>2, Zenon
    <2>4. start = [values |-> values, used |-> resolved, errors |-> 0]
      BY Zenon DEF values
    <2> HIDE DEF start, Sums, base, ncall
    <2> QED
      BY <2>1, <2>2, <2>3, <2>4, <2>5
  <1>7. ASSUME NEW j \in 1 .. m, NEW x \in Sums
        PROVE  /\ V(j, x) \in Results /\ Val(j, x) \in Int
               /\ j = 1 /\ Len(exprs[1]) = 1 /\ exprs[1][1].is = "symbol"
                    /\ sym.type # "constant" /\ V(j, x).errors = 0 =>
                    Placed(sym) /\ Val(j, x) = start_addr[sym.at] /\ Val(j, x) \in Addresses
    <2> DEFINE nodes == insns[i].exprs[j]
               u == x.used
               q == Evaluate(i, j, scope, start_addr, u)
               s == Lookup(scope, nodes[1].name)
    <2>1. u \in SUBSET References /\ j \in Nat /\ IsExpr(insns[i].exprs[j])
      BY <1>2
    <2> HIDE DEF u
    <2>2. q \in Results
          /\ (Len(nodes) = 1 /\ nodes[1].is = "symbol" /\ s.type # "constant" /\ q.ok =>
                Placed(s) /\ q.value = start_addr[s.at])
      <3> HIDE DEF scope
      <3>1. ComesTo(insns[i].exprs[j], q, scope, start_addr)
        BY <1>1, <1>3, <2>1, EvaluateResult, Zenon
      <3> QED
        BY <3>1, Zenon DEF ComesTo
    <2>3. V(j, x) = q
      BY DEF u
    <2>4. q.ok \/ q.errors > 0
      BY <2>2 DEF Results
    <2>6. q.value \in Addresses
      BY <2>2 DEF Results
    <2>5. q.value \in Int /\ (0 > 0 <=> FALSE)
      BY <2>2, Constraints DEF Results
    <2>7. garbage \in Int
      OBVIOUS
    <2> HIDE DEF q
    <2>8. Val(j, x) = IF q.ok THEN q.value ELSE garbage
      BY <2>3, Zenon
    <2>9. Val(j, x) \in Int /\ V(j, x) \in Results
      BY <2>2, <2>3, <2>5, <2>7, <2>8, Zenon
    <2>10. ASSUME j = 1, Len(exprs[1]) = 1, exprs[1][1].is = "symbol", sym.type # "constant",
                  V(j, x).errors = 0
           PROVE  Placed(sym) /\ Val(j, x) = start_addr[sym.at] /\ Val(j, x) \in Addresses
      <3>1. q.errors = 0
        BY <2>3, <2>10, Zenon
      <3>2. q.ok
        BY <2>4, <2>5, <3>1, Zenon
      <3>3. nodes = exprs[1] /\ s = sym
        BY <2>10, Zenon
      <3>4. Placed(sym) /\ q.value = start_addr[sym.at]
        BY <2>2, <2>10, <3>2, <3>3, Zenon
      <3>5. Val(j, x) = q.value
        BY <2>8, <3>2, Zenon
      <3> QED
        BY <2>6, <3>4, <3>5, Zenon
    <2> QED
      BY <2>9, <2>10, Zenon
  <1> HIDE DEF m, start, V, Val, done, scope, base, ncall
  <1>8. ASSUME NEW k \in 1 .. m, NEW x \in So(k - 1)
        PROVE  N(k, x) \in So(k) /\ x \in Sums
    <2>1. x \in Sums /\ x.values \in Seq(Int) /\ Len(x.values) = base + (k - 1) /\ x.errors \in Nat
      OBVIOUS
    <2>2. Val(k, x) \in Int /\ V(k, x).used \in SUBSET References /\ V(k, x).errors \in Nat
      <3>1. x \in Sums
        BY <2>1
      <3> QED
        BY <1>7, <3>1 DEF Results
    <2> DEFINE values == Append(x.values, Val(k, x))
               e == x.errors + V(k, x).errors
    <2>3. base \in Nat
      BY DEF base
    <2>4. values \in Seq(Int) /\ Len(values) = base + k /\ e \in Nat
      BY <1>2, <2>1, <2>2, <2>3, AppendProperties
    <2> HIDE DEF values, e
    <2> DEFINE n == [values |-> values, used |-> V(k, x).used, errors |-> e]
    <2>5. n \in Sums /\ n.values = values
      BY <2>2, <2>4, Zenon
    <2>6. N(k, x) = n
      BY Zenon DEF values, e
    <2> HIDE DEF n, N, Sums
    <2> QED
      BY <2>1, <2>4, <2>5, <2>6
  <1> HIDE DEF N, So, Sums
  <1>9. T[0] = So(0) /\ \A k \in 1 .. m : T[k] = So(k) /\ T[k - 1] = So(k - 1)
    BY <1>2
  <1> HIDE DEF T
  <1>10. \A k \in 1 .. m : \A x \in T[k - 1] : G[k][x] \in T[k] /\ G[k][x] = N(k, x)
    BY <1>8, <1>9
  <1> HIDE DEF G
  <1>11. PICK f : Follows(f, start, m, G) /\ \A k \in 0 .. m : f[k] \in T[k]
    <2>1. m \in Nat /\ start \in T[0]
      BY <1>2, <1>6, <1>9
    <2>2. \A k \in 1 .. m : \A x \in T[k - 1] : G[k][x] \in T[k]
      BY <1>10
    <2> QED
      BY <2>1, <2>2, TypedRecursion
  <1>12. f = F(f)
    <2>1. f = [k \in 0 .. m |-> IF k = 0 THEN start ELSE G[k][f[k - 1]]]
      BY <1>11 DEF Follows
    <2>2. ASSUME NEW k \in 0 .. m, k # 0
          PROVE  G[k][f[k - 1]] = N(k, f[k - 1])
      <3>1. k \in 1 .. m /\ k - 1 \in 0 .. m
        BY <1>2, <2>2
      <3> QED
        BY <1>10, <1>11, <3>1
    <2> QED
      BY <2>1, <2>2, Zenon
  <1>13. done = F(done)
    <2>1. done = CHOOSE g : g = F(g)
      BY Zenon DEF done, N, V, Val, start, m
    <2> HIDE DEF F
    <2> QED
      BY <1>12, <2>1, Zenon
  <1>14. \A k \in 0 .. m : done[k] = IF k = 0 THEN start ELSE N(k, done[k - 1])
    BY <1>13, Zenon
  <1> HIDE DEF F
  <1> DEFINE S == {k \in Nat : k <= m => done[k] \in So(k)}
  <1>15. 0 \in S
    BY <1>2, <1>6, <1>14
  <1>16. ASSUME NEW n \in Nat, n \in S PROVE n + 1 \in S
    <2>1. CASE n + 1 <= m
      <3> DEFINE k == n + 1
      <3>1. k \in 1 .. m /\ k \in 0 .. m /\ k # 0 /\ k - 1 = n /\ done[n] \in So(n)
        BY <1>2, <1>16, <2>1
      <3> HIDE DEF k
      <3>2. done[k] \in So(k)
        BY <1>8, <1>14, <3>1, Zenon
      <3> QED
        BY <3>2 DEF k
    <2> QED
      BY <1>2, <2>1
  <1>17. Nat \subseteq S
    <2> HIDE DEF S
    <2> QED
      BY <1>15, <1>16, Induction
  <1>18. r \in So(m) /\ (m = 0 => r = start)
    <2>1. m \in 0 .. m /\ (m = 0 => done[m] = start)
      BY <1>2, <1>14
    <2> QED
      BY <1>2, <1>4, <1>17, <2>1
  <1>19. r.values \in Seq(Int) /\ r.used \in SUBSET References /\ r.errors \in Nat
         /\ Len(r.values) = base + m
    <2> HIDE DEF r
    <2> QED
      BY <1>18 DEF So, Sums
  <1>20. ncall => r.values[1] = Id(insns[i].name)
    BY <1>2, <1>6, <1>18
  <1>21. ASSUME ~ncall, m = 1, Len(exprs[1]) = 1, exprs[1][1].is = "symbol",
                sym.type # "constant", r.errors = 0
         PROVE  Placed(sym) /\ r.values[1] = start_addr[sym.at] /\ r.values[1] \in Addresses
    <2>1. 1 \in 0 .. m /\ 1 # 0 /\ 1 - 1 = 0 /\ 1 \in 1 .. m /\ 0 \in 0 .. m
      BY <1>21
    <2>2. done[0] = start /\ r = N(1, start)
      BY <1>4, <1>14, <1>21, <2>1, Zenon
    <2>3. start \in Sums /\ start.values \in Seq(Int) /\ Len(start.values) = 0
      BY <1>6, <1>21 DEF So, Sums, base
    <2> DEFINE v == Val(1, start)
    <2>4. V(1, start) \in Results /\ v \in Int
          /\ (V(1, start).errors = 0 =>
               Placed(sym) /\ v = start_addr[sym.at] /\ v \in Addresses)
      BY <1>7, <1>21, <2>1, <2>3
    <2>5. V(1, start).errors \in Nat
      BY <2>4 DEF Results
    <2>6. r.errors = 0 + V(1, start).errors /\ r.values = Append(start.values, v)
      BY <1>6, <2>2 DEF N
    <2>7. r.values[1] = v
      BY <2>3, <2>4, <2>6, AppendProperties
    <2>8. V(1, start).errors = 0
      BY <1>21, <2>5, <2>6
    <2> HIDE DEF r, sym, v
    <2> QED
      BY <2>4, <2>7, <2>8
  <1> HIDE DEF r, sym, exprs
  <1>22. LET w == r IN
           /\ w.values \in Seq(Int) /\ w.used \in SUBSET References /\ w.errors \in Nat
           /\ Len(w.values) = m + base
           /\ ncall => w.values[1] = Id(insns[i].name)
           /\ ~ncall /\ m = 1 /\ Len(exprs[1]) = 1
                 /\ exprs[1][1].is = "symbol" /\ sym.type # "constant" /\ w.errors = 0 =>
                 Placed(sym) /\ w.values[1] = start_addr[sym.at]
                   /\ w.values[1] \in Addresses
    BY <1>2, <1>19, <1>20, <1>21 DEF base
  <1> QED
    BY <1>22, Zenon DEF r, sym, exprs, scope, m, base, ncall

-----------------------------------------------------------------------------
\* Types, an action at a time.

LEMMA DefinedDomain ==
  ASSUME NEW name, NEW type, NEW at
  PROVE  /\ DOMAIN Defined(name, type, at) = DOMAIN symtabs
  BY Zenon DEF Defined

LEMMA StageNames ==
  ASSUME NEW count \in Nat
  PROVE  /\ Then("parse", count) \in {"parse", "exit_1"}
         /\ Then("pass_1", count) \in {"pass_1", "exit_1"}
         /\ Then("pass_2", count) \in {"pass_2", "exit_1"}
         /\ \A stage : IfClean(stage, count) = IF count = 0 THEN stage ELSE "exit_1"
  <1>1. \A stage : Then(stage, count) \in {stage, "exit_1"}
    BY Zenon DEF Then
  <1>2. \A stage : IfClean(stage, count) = IF count = 0 THEN stage ELSE "exit_1"
    <2>1. (count > 0) <=> ~(count = 0)
      OBVIOUS
    <2> QED
      BY <2>1, Zenon DEF IfClean
  <1> QED
    BY <1>1, <1>2, Zenon

LEMMA ParseKeepsTypes ==
  ASSUME TypeOK, ScopesOK, Stages, Parse, UNCHANGED loaderVars
  PROVE  TypeOK'
  <1>1. PICK insn \in Statements :
         LET at == Len(insns) + 1
             named == insn.label # NoLabel
             type == IF insn.kind = "const" THEN "constant" ELSE "label"
             tabs == IF named THEN Defined(insn.label, type, at) ELSE symtabs
             count == errors + IF named THEN DefineErrors(insn.label) ELSE 0
         IN /\ insns' = Append(insns, insn)
            /\ symtabs' = IF insn.kind = "sub" THEN With(tabs, at, <<>>) ELSE tabs
            /\ ncalls' = IF insn.kind = "ncall" /\ insn.name \notin Range(ncalls)
                         THEN Append(ncalls, insn.name) ELSE ncalls
            /\ lookup_stack' = EnteredScope(insn, at)
            /\ errors' = count
            /\ pc' = Then("parse", count)
    BY Zenon DEF Parse
  <1> DEFINE at == Len(insns) + 1
             named == insn.label # NoLabel
             type == IF insn.kind = "const" THEN "constant" ELSE "label"
             tabs == IF named THEN Defined(insn.label, type, at) ELSE symtabs
             count == errors + IF named THEN DefineErrors(insn.label) ELSE 0
  <1> HIDE DEF tabs, at, count, type, named
  <1>2. /\ insns' = Append(insns, insn)
        /\ symtabs' = IF insn.kind = "sub" THEN With(tabs, at, <<>>) ELSE tabs
        /\ ncalls' = IF insn.kind = "ncall" /\ insn.name \notin Range(ncalls)
                     THEN Append(ncalls, insn.name) ELSE ncalls
        /\ lookup_stack' = EnteredScope(insn, at)
        /\ errors' = count
        /\ pc' = Then("parse", count)
    BY <1>1, Zenon DEF tabs, at, count, type, named
  <1>3. insns \in Seq(Statements) /\ ncalls \in Seq(Names) /\ errors \in Nat
        /\ lookup_stack \in DOMAIN symtabs
    BY Zenon DEF TypeOK
  <1>4. insns' \in Seq(Statements) /\ Len(insns') = Len(insns) + 1 /\ Len(insns) \in Nat
    BY <1>2, <1>3, AppendProperties, LenProperties
  <1>5. ncalls' \in Seq(Names)
    <2>1. insn.kind = "ncall" => insn.name \in Names
      BY DEF Names
    <2> QED
      BY <1>2, <1>3, <2>1, AppendProperties
  <1>6. errors' \in Nat
    <2> DEFINE a == IF insn.label \in LocalNames /\ lookup_stack = Globals THEN 1 ELSE 0
               b == IF insn.label \in DOMAIN symtabs[ScopeOf(insn.label)] THEN 1 ELSE 0
    <2>1. a \in Nat /\ b \in Nat
      OBVIOUS
    <2>2. count = errors + IF named THEN a + b ELSE 0
      BY Zenon DEF count, DefineErrors
    <2> HIDE DEF a, b
    <2> QED
      BY <1>2, <1>3, <2>1, <2>2
  <1>7. DOMAIN tabs = DOMAIN symtabs
    BY DefinedDomain, Zenon DEF tabs
  <1>8. lookup_stack' \in DOMAIN symtabs'
    <2>1. CASE insn.kind = "sub"
      <3>1. lookup_stack' = at
        BY <1>2, <2>1 DEF EnteredScope
      <3>2. DOMAIN symtabs' = {at} \cup DOMAIN tabs
        <4>1. symtabs' = With(tabs, at, <<>>)
          BY <1>2, <2>1, Zenon
        <4> QED
          BY <4>1, Zenon DEF With
      <3> QED
        BY <3>1, <3>2
    <2>2. CASE insn.kind # "sub"
      BY <1>2, <1>3, <1>7, <2>2 DEF EnteredScope, ScopesOK
    <2> QED
      BY <2>1, <2>2
  <1>9. pc' \in {"parse", "exit_1"}
    BY <1>2, <1>6, StageNames
  <1>10. start_addr = <<>> /\ emitted = 0 /\ pc = "parse" /\ UNCHANGED <<resolved, layout, output>>
    BY Zenon DEF Stages, Parse
  <1>11. UNCHANGED <<next_va, bss_va, start_addr, align_bytes, reserved, ep_offset, emitted,
                     operands, body, lpc, ncalls_table, resolved>>
    BY <1>10 DEF layout, output, loaderVars
  <1>12. Len(start_addr') <= Len(insns') /\ emitted' \in 0 .. Len(insns')
    BY <1>4, <1>10, <1>11
  <1> QED
    BY <1>4, <1>5, <1>6, <1>8, <1>9, <1>11, <1>12 DEF TypeOK

LEMMA AbandonDomain ==
  ASSUME NEW label, Abandon(label)
  PROVE  DOMAIN symtabs' = DOMAIN symtabs /\ pc = "parse"
         /\ UNCHANGED <<insns, ncalls, lookup_stack, resolved, layout, output>>
  <1>1. symtabs' = IF label = NoLabel \/ label \in DOMAIN symtabs[ScopeOf(label)] THEN symtabs
                   ELSE Defined(label, "label", NoInsn)
    BY Zenon DEF Abandon
  <1>2. DOMAIN symtabs' = DOMAIN symtabs
    BY <1>1, DefinedDomain, Zenon
  <1> QED
    BY <1>2, Zenon DEF Abandon

LEMMA LabelErrorsNat ==
  ASSUME NEW label
  PROVE  LabelErrors(label) \in Nat
  <1> DEFINE a == IF label \in LocalNames /\ lookup_stack = Globals THEN 1 ELSE 0
             b == IF label \in DOMAIN symtabs[ScopeOf(label)] THEN 1 ELSE 0
  <1>1. a \in Nat /\ b \in Nat
    OBVIOUS
  <1>2. LabelErrors(label) = IF label = NoLabel THEN 0 ELSE a + b
    BY Zenon DEF LabelErrors, DefineErrors
  <1> HIDE DEF a, b
  <1> QED
    BY <1>1, <1>2

LEMMA BrokenKeepsTypes ==
  ASSUME TypeOK, SyntaxError \/ EndsBroken, UNCHANGED loaderVars, Stages
  PROVE  TypeOK'
  <1>1. PICK label : /\ Abandon(label)
                     /\ \/ /\ errors' = errors + LabelErrors(label) + 1
                           /\ pc' = Then("parse", errors')
                        \/ /\ errors' = errors + LabelErrors(label)
                           /\ pc' = IfClean("pass_1", errors')
    BY Zenon DEF SyntaxError, EndsBroken
  <1>2. DOMAIN symtabs' = DOMAIN symtabs /\ pc = "parse"
        /\ UNCHANGED <<insns, ncalls, lookup_stack, resolved, layout, output>>
    BY <1>1, AbandonDomain
  <1>3. errors' \in Nat
    <2>1. errors \in Nat /\ LabelErrors(label) \in Nat
      BY LabelErrorsNat, Zenon DEF TypeOK
    <2>2. errors' \in {errors + LabelErrors(label) + 1, errors + LabelErrors(label)}
      BY <1>1, Zenon
    <2> QED
      BY <2>1, <2>2
  <1>4. pc' \in {"parse", "pass_1", "exit_1"}
    BY <1>1, <1>3, StageNames
  <1> QED
    BY <1>2, <1>3, <1>4 DEF TypeOK, layout, output, loaderVars

LEMMA EndParseKeepsTypes ==
  ASSUME TypeOK, EndParse, UNCHANGED loaderVars
  PROVE  TypeOK'
  <1>1. errors \in Nat
    BY DEF TypeOK
  <1>2. pc' \in {"pass_1", "exit_1"}
    BY <1>1, StageNames DEF EndParse
  <1> QED
    BY <1>2 DEF EndParse, TypeOK, symbols, layout, output, loaderVars

LEMMA WriteFailsKeepsTypes ==
  ASSUME TypeOK, WriteFails, UNCHANGED loaderVars
  PROVE  TypeOK'
  BY DEF WriteFails, TypeOK, symbols, layout, output, loaderVars

LEMMA EndPass2KeepsTypes ==
  ASSUME TypeOK, EndPass2, UNCHANGED loaderVars
  PROVE  TypeOK'
  <1>1. errors \in Nat
    BY DEF TypeOK
  <1>2. pc = "pass_2" /\ pc' \in {"exit_0", "exit_1"}
    BY <1>1, StageNames DEF EndPass2
  <1> QED
    BY <1>2 DEF EndPass2, TypeOK, symbols, layout, loaderVars

\* The instruction of an entry point has an address.
LEMMA EntryIsAddress ==
  ASSUME TypeOK, ScopesOK, SymbolsKnown, Len(start_addr) = Len(insns),
         NEW sym, sym = Lookup(Globals, "start"), sym.type # "none", sym.at # NoInsn
  PROVE  Entries(sym) \subseteq Addresses
  <1>1. IsSymbol(sym)
    BY LookupFinds DEF ScopesOK
  <1>2. start_addr \in Seq(Addresses) /\ insns \in Seq(Statements)
    BY Zenon DEF TypeOK
  <1>3. CASE sym.type = "label"
    <2>1. sym.at \in 1 .. Len(start_addr)
      BY <1>1, <1>2, <1>3, LenProperties DEF IsSymbol, SymbolOf, NoInsn
    <2>2. start_addr[sym.at] \in Addresses
      BY <1>2, <2>1, ElementOfSeq
    <2> QED
      BY <1>3, <2>2 DEF Entries
  <1>4. CASE sym.type # "label"
    <2>1. sym.at \in 1 .. Len(insns) /\ insns[sym.at].kind = "const"
      BY <1>1, <1>2, <1>4, LenProperties DEF IsSymbol, SymbolOf, Constants
    <2>2. IsStatement(insns[sym.at])
      BY <1>2, <2>1, StatementFacts
    <2>3. IsExpr(insns[sym.at].exprs[1])
      <3>1. Len(insns[sym.at].exprs) = 1
        BY <2>1, <2>2 DEF IsStatement, OneExpr
      <3> QED
        BY <2>2, <3>1 DEF IsStatement
    <2> DEFINE nodes == insns[sym.at].exprs[1]
    <2>4. 1 \in 1 .. Len(nodes)
      <3>1. Len(nodes) \in Nat \ {0}
        BY <2>3, Zenon DEF IsExpr
      <3> HIDE DEF nodes
      <3> QED
        BY <3>1
    <2>5. nodes[1].is = "literal" => nodes[1].value \in Addresses
      BY <2>3, <2>4 DEF IsExpr
    <2>6. Entries(sym) = IF nodes[1].is = "literal" /\ Len(nodes) = 1 THEN {nodes[1].value}
                         ELSE Addresses
      BY <1>4, Zenon DEF Entries
    <2> HIDE DEF nodes
    <2> QED
      BY <2>5, <2>6
  <1> QED
    BY <1>3, <1>4

LEMMA EndPass1KeepsTypes ==
  ASSUME TypeOK, ScopesOK, SymbolsOK, EndPass1, UNCHANGED loaderVars
  PROVE  TypeOK'
  <1> DEFINE sym == Lookup(Globals, "start")
             generates == sym.type # "none" /\ sym.at # NoInsn
  <1>1. pc = "pass_1" /\ Len(start_addr) = Len(insns)
        /\ pc' = IfClean(IF generates THEN "pass_2" ELSE "exit_1", errors)
        /\ ep_offset' \in (IF pc' = "pass_2" THEN Entries(sym) ELSE {0})
        /\ UNCHANGED <<symbols, lookup_stack, errors, resolved, layout, emitted, operands, body>>
    BY Zenon DEF EndPass1
  <1>2. SymbolsKnown
    BY <1>1 DEF SymbolsOK
  <1>3. errors \in Nat
    BY DEF TypeOK
  <1>4. pc' \in {"pass_2", "exit_1"} /\ (pc' = "pass_2" => generates)
    BY <1>1, <1>3, StageNames
  <1>5. pc' = "pass_2" => Entries(sym) \subseteq Addresses
    BY <1>1, <1>2, <1>4, EntryIsAddress
  <1>6. ep_offset' \in Addresses
    <2>1. 0 \in Addresses
      BY Constraints
    <2> QED
      BY <1>1, <1>5, <2>1, Zenon
  <1> QED
    BY <1>1, <1>4, <1>6 DEF TypeOK, symbols, layout, loaderVars

\* The first routine with a hash; there is none when 0 is returned.
LEMMA ThunkFound ==
  ASSUME NEW hash
  PROVE  /\ LookupThunk(hash) # 0 =>
              LookupThunk(hash) \in DOMAIN Routines /\ Routines[LookupThunk(hash)] = hash
         /\ LookupThunk(hash) = 0 => hash \notin Range(Routines)
  <1> DEFINE found == {n \in DOMAIN Routines : Routines[n] = hash}
  <1>1. DOMAIN Routines = 1 .. Len(Routines) /\ Len(Routines) \in Nat
    BY LoaderAssumption, LenProperties
  <1>2. found \subseteq Nat /\ 0 \notin found
    BY <1>1
  <1>3. LookupThunk(hash) = IF found = {} THEN 0 ELSE Min(found)
    BY Zenon DEF LookupThunk
  <1>4. found # {} => Min(found) \in found
    <2> HIDE DEF found
    <2>1. ASSUME found # {} PROVE \E x \in found : \A y \in found : x <= y
      BY <1>2, <2>1, LeastOf
    <2> QED
      BY <2>1 DEF Min
  <1>5. found = {} => hash \notin Range(Routines)
    BY DEF Range
  <1> QED
    BY <1>2, <1>3, <1>4, <1>5

\* The loader leaves the assembler alone, and the assembler the loader.
LEMMA LoaderKeepsTypes ==
  ASSUME TypeOK, LoaderOK, Open \/ LoaderNext, pc = "exit_0", UNCHANGED vmaVars
  PROVE  TypeOK'
  <1>1. UNCHANGED <<pc, insns, symtabs, ncalls, lookup_stack, errors, resolved, next_va, bss_va,
                    start_addr, align_bytes, reserved, ep_offset, emitted, operands, body>>
    BY DEF vmaVars, symbols, layout, output
  <1>2. ncalls_table \in Seq(DOMAIN Routines) /\ lpc \in {"closed", "module", "base", "body",
          "table", "fix_up", "loaded", "no_file", "no_memory", "short_header", "short_file", "overrun",
          "unknown_routine"}
    BY DEF TypeOK
  <1>3. /\ ncalls_table' \in Seq(DOMAIN Routines)
        /\ lpc' \in {"closed", "module", "base", "body", "table", "fix_up", "loaded", "no_file",
                     "no_memory", "short_header", "short_file", "overrun", "unknown_routine"}
    <2>1. CASE Open
      BY <1>2, <2>1 DEF Open, HeaderRead
    <2>2. CASE OpenFails \/ AllocFails \/ AllocModule
      BY <1>2, <2>2 DEF OpenFails, AllocFails, AllocModule, Ends
    <2>3. CASE AllocBase \/ ReadBody \/ ReadTable
      BY <1>2, <2>3 DEF AllocBase, ReadBody, ReadTable, Ends
    <2>4. CASE FixUp
      <3> DEFINE thunk == LookupThunk(table[Len(ncalls_table) + 1])
      <3>1. CASE thunk = 0
        BY <1>2, <2>4, <3>1 DEF FixUp, Ends
      <3>2. CASE thunk # 0
        <4>3. thunk \in DOMAIN Routines
          BY <3>2, ThunkFound
        <4>4. ncalls_table' = Append(ncalls_table, thunk) /\ lpc' \in {"loaded", "fix_up"}
          BY <2>4, <3>2 DEF FixUp
        <4> QED
          BY <1>2, <4>3, <4>4, AppendProperties
      <3> QED
        BY <3>1, <3>2
    <2> QED
      BY <2>1, <2>2, <2>3, <2>4 DEF LoaderNext
  <1> QED
    BY <1>1, <1>3 DEF TypeOK

\* What pass 1 does with the next instruction, its address and its value.
Pass1Of(at, va, value) ==
  /\ at = Len(start_addr) + 1 /\ at \in 1 .. Len(insns) /\ va = Aligned(next_va, insns[at].kind)
  /\ va \in Addresses /\ value \in Addresses
  /\ lookup_stack' = EnteredScope(insns[at], at) /\ lookup_stack' \in DOMAIN symtabs
  /\ start_addr' = Append(start_addr, va)
  /\ align_bytes' = Append(align_bytes, (va - next_va) % ADDRS)
  /\ reserved' = Append(reserved, value)
  /\ resolved' \in SUBSET References
  /\ errors' \in Nat /\ errors' >= errors
  /\ next_va' = (va + Size(insns[at], value)) % ADDRS
  /\ bss_va' = IF insns[at].kind \in Allocates THEN next_va' ELSE bss_va
  /\ pc = "pass_1" /\ pc' \in {"pass_1", "exit_1"}
  /\ UNCHANGED <<symbols, output>>

LEMMA Pass1Is ==
  ASSUME TypeOK, ScopesOK, SymbolsOK, Pass1
  PROVE  \E at, va, value : Pass1Of(at, va, value)
  <1> DEFINE at == Len(start_addr) + 1
             insn == insns[at]
             va == Aligned(next_va, insn.kind)
             addresses == Append(start_addr, va)
             scope == EnteredScope(insn, at)
             result == IF insn.kind \in Reserves
                       THEN Evaluate(at, 1, scope, addresses, resolved)
                       ELSE [ok |-> TRUE, value |-> 0, used |-> resolved, errors |-> 0]
             count == errors + result.errors + IF result.ok THEN 0 ELSE 1
             end == (va + Size(insn, result.value)) % ADDRS
  <1>1. /\ pc = "pass_1" /\ Len(start_addr) < Len(insns)
        /\ lookup_stack' = scope /\ start_addr' = addresses
        /\ align_bytes' = Append(align_bytes, (va - next_va) % ADDRS)
        /\ reserved' = Append(reserved, result.value)
        /\ resolved' = result.used
        /\ errors' = count /\ next_va' = end
        /\ bss_va' = (IF insn.kind \in Allocates THEN end ELSE bss_va)
        /\ pc' = Then("pass_1", count)
        /\ UNCHANGED <<symbols, output>>
    BY Zenon DEF Pass1
  <1>2. insns \in Seq(Statements) /\ start_addr \in Seq(Addresses) /\ next_va \in Addresses
        /\ errors \in Nat /\ resolved \in SUBSET References
    BY DEF TypeOK
  <1>3. at \in 1 .. Len(insns) /\ at \in Nat
    <2>1. Len(insns) \in Nat /\ Len(start_addr) \in Nat /\ Len(start_addr) < Len(insns)
      BY <1>1, <1>2, LenProperties
    <2> QED
      BY <2>1
  <1>4. IsStatement(insn)
    BY <1>2, <1>3, StatementFacts
  <1>5. scope \in DOMAIN symtabs
    BY <1>3, ScopeKnown
  <1>6. va \in Addresses
    BY <1>2, AlignedIsAddress
  <1>7. addresses \in Seq(Addresses)
    BY <1>2, <1>6, AppendProperties
  <1> HIDE DEF addresses, va, scope
  <1>8. result \in Results
    <2>1. CASE insn.kind \in Reserves
      <3>1. SymbolsKnown
        BY <1>1 DEF SymbolsOK
      <3>2. Known(scope, addresses)
        BY <1>2, <1>5, <1>7, <3>1 DEF Known, ScopesOK
      <3>3. IsExpr(insns[at].exprs[1])
        <4>1. Len(insn.exprs) = 1
          BY <1>4, <2>1, Kinds DEF IsStatement, OneExpr, Reserves
        <4> QED
          BY <1>4, <4>1 DEF IsStatement
      <3> HIDE DEF at
      <3>4. Evaluate(at, 1, scope, addresses, resolved) \in Results
        BY <1>2, <1>3, <3>2, <3>3, EvaluateResult DEF ComesTo
      <3> QED
        BY <2>1, <3>4
    <2>2. CASE insn.kind \notin Reserves
      <3>1. 0 \in Addresses /\ 0 \in Nat
        BY Constraints
      <3>2. [ok |-> TRUE, value |-> 0, used |-> resolved, errors |-> 0] \in Results
        BY <1>2, <3>1, Zenon DEF Results
      <3> QED
        BY <2>2, <3>2
    <2> QED
      BY <2>1, <2>2
  <1> HIDE DEF result
  <1>9. result.value \in Addresses /\ result.used \in SUBSET References /\ result.errors \in Nat
    BY <1>8 DEF Results
  <1>10. count \in Nat /\ count >= errors
    <2> DEFINE f == IF result.ok THEN 0 ELSE 1
    <2>1. f \in Nat
      OBVIOUS
    <2>2. count = errors + result.errors + f
      BY Zenon
    <2> HIDE DEF f, count
    <2> QED
      BY <1>2, <1>9, <2>1, <2>2
  <1> HIDE DEF count
  <1>11. pc' \in {"pass_1", "exit_1"}
    BY <1>1, <1>10, StageNames
  <1> DEFINE value == result.value
  <1>12. Pass1Of(at, va, value)
    <2>1. /\ va = Aligned(next_va, insns[at].kind) /\ next_va' = (va + Size(insns[at], value)) % ADDRS
          /\ bss_va' = (IF insns[at].kind \in Allocates THEN next_va' ELSE bss_va)
          /\ scope = EnteredScope(insns[at], at)
      BY <1>1, Zenon DEF va, scope
    <2>2. errors' \in Nat /\ errors' >= errors /\ lookup_stack' = EnteredScope(insns[at], at)
          /\ lookup_stack' \in DOMAIN symtabs /\ start_addr' = Append(start_addr, va)
          /\ reserved' = Append(reserved, value) /\ resolved' \in SUBSET References
          /\ value \in Addresses
      BY <1>1, <1>5, <1>9, <1>10, <2>1, Zenon DEF addresses
    <2> QED
      BY <1>1, <1>3, <1>6, <1>11, <2>1, <2>2, Zenon DEF Pass1Of
  <1> QED
    BY <1>12

LEMMA Pass1KeepsTypes ==
  ASSUME TypeOK, NEW at, NEW va, NEW value, Pass1Of(at, va, value), UNCHANGED loaderVars
  PROVE  TypeOK'
  <1>1. ADDRS \in Nat \ {0} /\ Addresses = 0 .. ADDRS - 1
    BY Constraints
  <1>2. insns \in Seq(Statements) /\ start_addr \in Seq(Addresses) /\ next_va \in Addresses
        /\ align_bytes \in Seq(Addresses) /\ reserved \in Seq(Addresses) /\ bss_va \in Addresses
    BY DEF TypeOK
  <1>3. at \in 1 .. Len(insns) /\ va \in Addresses /\ value \in Addresses
    BY DEF Pass1Of
  <1>4. Size(insns[at], value) \in Nat
    BY <1>1, <1>2, <1>3, StatementFacts, SizeIsNat
  <1> DEFINE x == va - next_va
             y == va + Size(insns[at], value)
  <1>5. x \in Int /\ y \in Int
    BY <1>1, <1>2, <1>3, <1>4
  <1> HIDE DEF x, y
  <1>6. x % ADDRS \in Addresses /\ y % ADDRS \in Addresses
    <2> DEFINE m == ADDRS
    <2>1. m \in Nat \ {0}
      BY <1>1
    <2> HIDE DEF m
    <2>2. x % m \in 0 .. m - 1 /\ y % m \in 0 .. m - 1
      BY <1>5, <2>1
    <2> QED
      BY <1>1, <2>2 DEF m
  <1>7. start_addr' = Append(start_addr, va) /\ align_bytes' = Append(align_bytes, x % ADDRS)
        /\ reserved' = Append(reserved, value) /\ next_va' = y % ADDRS
    BY DEF Pass1Of, x, y
  <1>8. bss_va' \in Addresses
    BY <1>2, <1>6, <1>7 DEF Pass1Of
  <1>9. start_addr' \in Seq(Addresses) /\ align_bytes' \in Seq(Addresses)
        /\ reserved' \in Seq(Addresses)
        /\ Len(start_addr') = Len(start_addr) + 1 /\ Len(align_bytes') = Len(align_bytes) + 1
        /\ Len(reserved') = Len(reserved) + 1
    BY <1>2, <1>3, <1>6, <1>7, AppendProperties
  <1>10. Len(align_bytes') = Len(start_addr') /\ Len(reserved') = Len(start_addr')
         /\ Len(start_addr') <= Len(insns)
    <2>1. Len(align_bytes) = Len(start_addr) /\ Len(reserved) = Len(start_addr)
      BY Zenon DEF TypeOK
    <2>2. at = Len(start_addr) + 1 /\ UNCHANGED insns
      BY DEF Pass1Of, symbols
    <2>3. Len(start_addr) \in Nat /\ Len(insns) \in Nat
      BY <1>2, LenProperties
    <2> QED
      BY <1>3, <1>9, <2>1, <2>2, <2>3
  <1>11. lookup_stack' \in DOMAIN symtabs /\ errors' \in Nat /\ resolved' \in SUBSET References
         /\ pc' \in {"pass_1", "exit_1"} /\ UNCHANGED <<symbols, output>>
    BY Zenon DEF Pass1Of
  <1> QED
    BY <1>6, <1>7, <1>8, <1>9, <1>10, <1>11 DEF TypeOK, symbols, output, loaderVars

\* What pass 2 does with the next instruction, whose expressions come to values.
Fields(i, values) == [j \in DOMAIN values |-> Field(i, values[j])]

\* A value is the address of the label that is named, unless there is an error.
AsNamed(i, values) ==
  LET exprs == insns[i].exprs
      sym == Lookup(EnteredScope(insns[i], i), exprs[1][1].name)
  IN insns[i].kind \in {"branch", "relative"} /\ Len(exprs[1]) = 1 /\ exprs[1][1].is = "symbol"
       /\ sym.type # "constant" =>
       Placed(sym) /\ values[1] = start_addr[sym.at] /\ values[1] \in Addresses

Pass2Of(i, values) ==
  /\ i = emitted + 1 /\ i \in 1 .. Len(insns) /\ InFile(i)
  /\ lookup_stack' = EnteredScope(insns[i], i) /\ lookup_stack' \in DOMAIN symtabs
  /\ emitted' = i
  /\ operands' = Append(operands, [j \in DOMAIN Fields(i, values) |->
                                     Fields(i, values)[j] % Width(insns[i].kind)])
  /\ body' = body \o Cells("pad", i, align_bytes[i])
                  \o Cells("insn", i, Written(i, Fields(i, values)))
  /\ values \in Seq(Int) /\ resolved' \in SUBSET References
  /\ insns[i].kind \notin Reserves \cup {"const"} =>
       Len(values) = Len(insns[i].exprs) + (IF insns[i].kind = "ncall" THEN 1 ELSE 0)
  /\ insns[i].kind = "ncall" => values[1] = Id(insns[i].name)
  /\ errors' \in Nat /\ errors' >= errors
  /\ errors' = errors => \A j \in DOMAIN values : ~OutOfRange(i, Fields(i, values)[j])
  /\ errors' = 0 => AsNamed(i, values)
  /\ pc = "pass_2" /\ pc' \in {"pass_2", "exit_1"}
  /\ UNCHANGED <<symbols, layout, ep_offset>>

LEMMA Pass2Is ==
  ASSUME TypeOK, ScopesOK, SymbolsOK, Pass2
  PROVE  \E i, values : Pass2Of(i, values)
  <1> DEFINE i == emitted + 1
             IsReserve == insns[i].kind \in Reserves \cup {"const"}
             R(garbage) == IF IsReserve THEN [values |-> <<>>, used |-> resolved, errors |-> 0]
                           ELSE EvaluateAll(i, garbage)
  <1>1. PICK garbage \in {0, BYTES} :
         LET result == R(garbage)
             fields == [j \in DOMAIN result.values |-> Field(i, result.values[j])]
             bad == Cardinality({j \in DOMAIN fields : OutOfRange(i, fields[j])})
             count == errors + result.errors + bad
         IN /\ lookup_stack' = EnteredScope(insns[i], i)
            /\ emitted' = i
            /\ operands' = Append(operands,
                             [j \in DOMAIN fields |-> fields[j] % Width(insns[i].kind)])
            /\ body' = body \o Cells("pad", i, align_bytes[i])
                            \o Cells("insn", i, Written(i, fields))
            /\ resolved' = result.used
            /\ errors' = count
            /\ pc' = Then("pass_2", count)
    BY Zenon DEF Pass2
  <1>2. pc = "pass_2" /\ emitted < Len(insns) /\ InFile(i) /\ UNCHANGED <<symbols, layout, ep_offset>>
    BY Zenon DEF Pass2, More
  <1>3. insns \in Seq(Statements) /\ emitted \in Nat /\ errors \in Nat /\ resolved \in SUBSET References
    <2>1. insns \in Seq(Statements) /\ emitted \in 0 .. Len(start_addr) /\ errors \in Nat
          /\ resolved \subseteq References
      BY Zenon DEF TypeOK
    <2> QED
      BY <2>1, LenProperties
  <1>4. i \in 1 .. Len(insns)
    <2>1. Len(insns) \in Nat /\ emitted \in Nat /\ emitted < Len(insns)
      BY <1>2, <1>3, LenProperties
    <2> QED
      BY <2>1
  <1>5. SymbolsKnown
    BY <1>2 DEF SymbolsOK
  <1>6. garbage \in Nat
    BY Constraints
  <1> DEFINE result == R(garbage)
             values == result.values
             fields == Fields(i, values)
             wrong == {j \in DOMAIN fields : OutOfRange(i, fields[j])}
             bad == Cardinality(wrong)
             count == errors + result.errors + bad
             exprs == insns[i].exprs
             kind == insns[i].kind
             sym == Lookup(EnteredScope(insns[i], i), exprs[1][1].name)
  <1>7. /\ lookup_stack' = EnteredScope(insns[i], i)
        /\ emitted' = i
        /\ operands' = Append(operands,
                         [j \in DOMAIN fields |-> fields[j] % Width(insns[i].kind)])
        /\ body' = body \o Cells("pad", i, align_bytes[i])
                        \o Cells("insn", i, Written(i, fields))
        /\ resolved' = result.used
        /\ errors' = count
        /\ pc' = Then("pass_2", count)
    BY <1>1, Zenon DEF Fields
  <1> HIDE DEF i
  <1>8. /\ values \in Seq(Int) /\ result.used \in SUBSET References /\ result.errors \in Nat
        /\ ~IsReserve => Len(values) = Len(exprs) + (IF kind = "ncall" THEN 1 ELSE 0)
        /\ kind = "ncall" => values[1] = Id(insns[i].name)
        /\ result.errors = 0 => AsNamed(i, values)
    <2>1. CASE IsReserve
      <3>1. <<>> \in Seq(Int) /\ kind # "ncall" /\ kind \notin {"branch", "relative"}
        BY <2>1 DEF Reserves
      <3>2. result = [values |-> <<>>, used |-> resolved, errors |-> 0]
        BY <2>1
      <3>3. AsNamed(i, values)
        BY <3>1, Zenon DEF AsNamed
      <3> QED
        BY <1>3, <2>1, <3>1, <3>2, <3>3
    <2>2. CASE ~IsReserve
      <3> DEFINE r == EvaluateAll(i, garbage)
      <3>1. /\ r.values \in Seq(Int) /\ r.used \in SUBSET References /\ r.errors \in Nat
            /\ Len(r.values) = Len(exprs) + (IF kind = "ncall" THEN 1 ELSE 0)
            /\ kind = "ncall" => r.values[1] = Id(insns[i].name)
            /\ kind # "ncall" /\ Len(exprs) = 1 /\ Len(exprs[1]) = 1
                 /\ exprs[1][1].is = "symbol" /\ sym.type # "constant" /\ r.errors = 0 =>
                 Placed(sym) /\ r.values[1] = start_addr[sym.at] /\ r.values[1] \in Addresses
        BY <1>4, <1>5, <1>6, EvaluateAllResult
      <3>2. result = r
        BY <2>2, Zenon
      <3>3. kind \in {"branch", "relative"} => kind # "ncall" /\ Len(exprs) = 1
        <4>1. IsStatement(insns[i])
          BY <1>3, <1>4, StatementFacts
        <4> QED
          BY <4>1 DEF IsStatement, OneExpr
      <3> HIDE DEF r, result
      <3>4. result.errors = 0 => AsNamed(i, values)
        <4> HIDE DEF sym
        <4>1. ASSUME result.errors = 0, kind \in {"branch", "relative"}, Len(exprs[1]) = 1,
                     exprs[1][1].is = "symbol", sym.type # "constant"
              PROVE  Placed(sym) /\ values[1] = start_addr[sym.at] /\ values[1] \in Addresses
          BY <3>1, <3>2, <3>3, <4>1
        <4> QED
          BY <4>1, Zenon DEF AsNamed, sym
      <3> QED
        BY <3>1, <3>2, <3>4
    <2> QED
      BY <2>1, <2>2
  <1> HIDE DEF result
  <1>9. DOMAIN values = 1 .. Len(values) /\ Len(values) \in Nat /\ DOMAIN fields = DOMAIN values
    BY <1>8, LenProperties DEF Fields
  <1>10. IsFiniteSet(wrong) /\ bad \in Nat /\ (bad = 0 => wrong = {})
    <2>1. IsFiniteSet(1 .. Len(values))
      BY <1>9, FS_Interval
    <2>2. wrong \subseteq 1 .. Len(values)
      BY <1>9
    <2> HIDE DEF wrong
    <2>3. IsFiniteSet(wrong)
      BY <2>1, <2>2, FS_Subset
    <2> QED
      BY <2>3, FS_EmptySet, FS_CardinalityType
  <1>11. count \in Nat /\ count >= errors /\ (count = 0 => result.errors = 0)
         /\ (count = errors => wrong = {})
    <2> HIDE DEF bad
    <2> QED
      BY <1>3, <1>8, <1>10
  <1> HIDE DEF count, wrong, fields, values
  <1>12. pc' \in {"pass_2", "exit_1"}
    BY <1>7, <1>11, StageNames
  <1>13. /\ errors' = errors => \A j \in DOMAIN values : ~OutOfRange(i, Fields(i, values)[j])
         /\ errors' = 0 => AsNamed(i, values)
    BY <1>7, <1>8, <1>9, <1>11 DEF wrong, fields
  <1>14. lookup_stack' \in DOMAIN symtabs
    BY <1>4, <1>7, ScopeKnown
  <1>15. /\ operands' = Append(operands, [j \in DOMAIN Fields(i, values) |->
                                     Fields(i, values)[j] % Width(insns[i].kind)])
         /\ body' = body \o Cells("pad", i, align_bytes[i])
                  \o Cells("insn", i, Written(i, Fields(i, values)))
    BY <1>7, Zenon DEF fields
  <1>16. errors' \in Nat /\ errors' >= errors /\ resolved' \in SUBSET References /\ i = emitted + 1
    BY <1>7, <1>8, <1>11, Zenon DEF i
  <1>17. Pass2Of(i, values)
    BY <1>2, <1>4, <1>7, <1>8, <1>12, <1>13, <1>14, <1>15, <1>16, Zenon DEF Pass2Of
  <1> QED
    BY <1>17

LEMMA WidthIsNat ==
  ASSUME NEW kind
  PROVE  Width(kind) \in Nat \ {0}
  <1> DEFINE b == BYTES
             c == b * b
  <1>1. b \in Nat \ {0} /\ ADDRS \in Nat \ {0}
    BY Constraints
  <1>2. c \in Nat \ {0}
    <2> HIDE DEF b
    <2> QED
      BY <1>1
  <1> HIDE DEF c
  <1>3. Width(kind) \in {BYTES, c, ADDRS}
    BY Zenon DEF Width, c
  <1> QED
    BY <1>1, <1>2, <1>3

LEMMA FieldsAreNumbers ==
  ASSUME TypeOK, NEW i, NEW values, Pass2Of(i, values)
  PROVE  /\ Fields(i, values) \in Seq(Int) /\ Len(Fields(i, values)) = Len(values)
         /\ DOMAIN Fields(i, values) = 1 .. Len(values) /\ DOMAIN values = 1 .. Len(values)
         /\ Len(values) \in Nat
  <1>1. insns \in Seq(Statements) /\ start_addr \in Seq(Addresses) /\ i \in 1 .. Len(insns)
        /\ values \in Seq(Int)
    BY Zenon DEF Pass2Of, TypeOK
  <1> DEFINE fields == Fields(i, values)
  <1>2. DOMAIN fields = 1 .. Len(values) /\ Len(values) \in Nat /\ DOMAIN values = 1 .. Len(values)
    BY <1>1, LenProperties DEF Fields
  <1>3. \A j \in 1 .. Len(values) : fields[j] \in Int
    <2> SUFFICES ASSUME NEW j \in 1 .. Len(values) PROVE Field(i, values[j]) \in Int
      BY <1>2 DEF Fields
    <2>1. values[j] \in Int
      BY <1>1, ElementOfSeq
    <2> DEFINE v == values[j]
               away == v - (start_addr[i] + MachineSize[insns[i].kind])
    <2>2. CASE insns[i].kind \in {"branch", "relative"}
      <3>1. Field(i, v) = away % ADDRS
        BY <2>2 DEF Field
      <3>2. start_addr[i] \in Addresses
        <4>1. Len(start_addr) = Len(insns)
          BY Zenon DEF TypeOK, Pass2Of
        <4> QED
          BY <1>1, <4>1, ElementOfSeq
      <3>3. start_addr[i] \in Int
        BY <3>2, Constraints
      <3>4. MachineSize[insns[i].kind] \in Int
        BY <2>2 DEF MachineSize
      <3>5. away \in Int
        BY <2>1, <3>3, <3>4
      <3> QED
        BY <3>1, <3>5, RemainderIsAddress
    <2>3. CASE insns[i].kind \notin {"branch", "relative"}
      BY <2>1, <2>3 DEF Field
    <2> QED
      BY <2>2, <2>3
  <1>4. fields = [j \in 1 .. Len(values) |-> fields[j]]
    BY <1>2 DEF Fields
  <1> HIDE DEF fields
  <1>5. fields \in [1 .. Len(values) -> Int]
    BY <1>3, <1>4
  <1> QED
    BY <1>2, <1>5, TuplesAreSequences DEF fields

LEMMA Pass2KeepsTypes ==
  ASSUME TypeOK, NEW i, NEW values, Pass2Of(i, values), UNCHANGED loaderVars
  PROVE  TypeOK'
  <1>1. insns \in Seq(Statements) /\ i \in 1 .. Len(insns)
        /\ operands \in Seq(Seq(Nat)) /\ Len(operands) = emitted
        /\ operands' = Append(operands, [j \in DOMAIN Fields(i, values) |->
                                     Fields(i, values)[j] % Width(insns[i].kind)])
    BY Zenon DEF Pass2Of, TypeOK
  <1> DEFINE w == Width(insns[i].kind)
             fields == Fields(i, values)
             operand == [j \in DOMAIN fields |-> fields[j] % w]
  <1>2. w \in Nat \ {0}
    BY WidthIsNat
  <1>3. fields \in Seq(Int) /\ DOMAIN fields = 1 .. Len(values) /\ Len(values) \in Nat
        /\ Len(fields) = Len(values)
    BY FieldsAreNumbers
  <1> HIDE DEF w, fields
  <1>4. \A j \in 1 .. Len(values) : fields[j] \in Int
    BY <1>3, ElementOfSeq
  <1>5. operand \in [1 .. Len(values) -> Nat]
    BY <1>2, <1>3, <1>4
  <1> HIDE DEF operand
  <1>6. operand \in Seq(Nat)
    BY <1>3, <1>5, TuplesAreSequences
  <1>7. operands' \in Seq(Seq(Nat)) /\ Len(operands') = emitted + 1
    <2>1. operands' = Append(operands, operand)
      BY <1>1, Zenon DEF operand, fields, w
    <2> QED
      BY <1>1, <1>6, <2>1, AppendProperties
  <1>8. emitted' = emitted + 1 /\ emitted' = i /\ UNCHANGED <<symbols, layout, ep_offset>>
        /\ lookup_stack' \in DOMAIN symtabs /\ errors' \in Nat /\ resolved' \in SUBSET References
        /\ pc' \in {"pass_2", "exit_1"} /\ pc = "pass_2"
    BY Zenon DEF Pass2Of
  <1>9. i \in 0 .. Len(insns)
    BY <1>1, LenProperties
  <1> QED
    BY <1>1, <1>7, <1>8, <1>9 DEF TypeOK, symbols, layout, loaderVars

-----------------------------------------------------------------------------
\* Symbols, scopes and stages.

LEMMA DefinedSymbols ==
  ASSUME NEW name, NEW type, NEW at, NEW count, NEW constants,
         SymbolOf([type |-> type, at |-> at], count, constants),
         name \notin DOMAIN symtabs[ScopeOf(name)],
         \A scope \in DOMAIN symtabs : \A n \in DOMAIN symtabs[scope] :
           SymbolOf(symtabs[scope][n], count, constants),
         NEW scope \in DOMAIN symtabs, NEW n \in DOMAIN Defined(name, type, at)[scope]
  PROVE  SymbolOf(Defined(name, type, at)[scope][n], count, constants)
  <1> DEFINE s == ScopeOf(name)
             tabs == symtabs[s]
             sym == [type |-> type, at |-> at]
             new == [k \in DOMAIN tabs \cup {name} |-> IF k = name THEN sym ELSE tabs[k]]
  <1>1. Defined(name, type, at) = [symtabs EXCEPT ![s] = new]
    BY Zenon DEF Defined, With
  <1>2. CASE scope = s
    <2>1. Defined(name, type, at)[scope] = new
      BY <1>1, <1>2
    <2> HIDE DEF sym
    <2>2. n = name \/ n \in DOMAIN tabs
      BY <2>1
    <2>3. new[n] = IF n = name THEN sym ELSE tabs[n]
      BY <2>2
    <2> HIDE DEF new, tabs
    <2> QED
      BY <1>2, <2>1, <2>2, <2>3, Zenon DEF tabs, sym
  <1>3. CASE scope # s
    <2>1. Defined(name, type, at)[scope] = symtabs[scope]
      BY <1>1, <1>3
    <2> QED
      BY <2>1, Zenon
  <1> QED
    BY <1>2, <1>3

LEMMA SymbolsGrow ==
  ASSUME NEW sym, NEW m \in Nat, NEW n \in Nat, m <= n, NEW C, NEW D, C \subseteq D,
         SymbolOf(sym, m, C)
  PROVE  SymbolOf(sym, n, D)
  BY DEF SymbolOf

LEMMA ParseKeepsSymbols ==
  ASSUME TypeOK, ScopesOK, SymbolsOK, Parse
  PROVE  ScopesOK' /\ SymbolsOK'
  <1>1. PICK insn \in Statements :
         LET at == Len(insns) + 1
             named == insn.label # NoLabel
             type == IF insn.kind = "const" THEN "constant" ELSE "label"
             tabs == IF named THEN Defined(insn.label, type, at) ELSE symtabs
             count == errors + IF named THEN DefineErrors(insn.label) ELSE 0
         IN /\ insns' = Append(insns, insn)
            /\ symtabs' = IF insn.kind = "sub" THEN With(tabs, at, <<>>) ELSE tabs
            /\ ncalls' = IF insn.kind = "ncall" /\ insn.name \notin Range(ncalls)
                         THEN Append(ncalls, insn.name) ELSE ncalls
            /\ lookup_stack' = EnteredScope(insn, at)
            /\ errors' = count
            /\ pc' = Then("parse", count)
    BY Zenon DEF Parse
  <1> DEFINE at == Len(insns) + 1
             named == insn.label # NoLabel
             type == IF insn.kind = "const" THEN "constant" ELSE "label"
             tabs == IF named THEN Defined(insn.label, type, at) ELSE symtabs
             more == IF named THEN DefineErrors(insn.label) ELSE 0
  <1>2. /\ insns' = Append(insns, insn)
        /\ symtabs' = IF insn.kind = "sub" THEN With(tabs, at, <<>>) ELSE tabs
        /\ ncalls' = IF insn.kind = "ncall" /\ insn.name \notin Range(ncalls)
                     THEN Append(ncalls, insn.name) ELSE ncalls
        /\ errors' = errors + more
        /\ pc' = Then("parse", errors + more)
    BY <1>1, Zenon
  <1>3. insns \in Seq(Statements) /\ ncalls \in Seq(Names) /\ errors \in Nat
        /\ lookup_stack \in DOMAIN symtabs
    BY Zenon DEF TypeOK
  <1>4. /\ Len(insns) \in Nat /\ Len(insns') = Len(insns) + 1 /\ at = Len(insns) + 1
        /\ \A i \in 1 .. Len(insns) : insns'[i] = insns[i]
        /\ insns'[at] = insn
        /\ DOMAIN insns = 1 .. Len(insns) /\ DOMAIN insns' = 1 .. Len(insns')
    <2>1. insns' \in Seq(Statements)
      BY <1>2, <1>3, AppendProperties
    <2> QED
      BY <1>2, <1>3, <2>1, AppendProperties, LenProperties
  <1> HIDE DEF at, named, type, tabs, more
  <1>5. DOMAIN tabs = DOMAIN symtabs
    BY DefinedDomain, Zenon DEF tabs
  <1>6. DOMAIN symtabs' = IF insn.kind = "sub" THEN DOMAIN symtabs \cup {at} ELSE DOMAIN symtabs
    BY <1>2, <1>5, Zenon DEF With
  <1>7. ScopesOK'
    <2>1. Globals \in DOMAIN symtabs'
      BY <1>6 DEF ScopesOK
    <2>2. ASSUME NEW i \in 1 .. Len(insns'), insns'[i].kind = "sub" PROVE i \in DOMAIN symtabs'
      <3>1. CASE i = at
        BY <1>4, <1>6, <2>2, <3>1
      <3>2. CASE i \in 1 .. Len(insns)
        BY <1>4, <1>6, <2>2, <3>2 DEF ScopesOK
      <3> QED
        BY <1>4, <3>1, <3>2
    <2>3. /\ \A n \in 1 .. Len(ncalls) : ncalls'[n] = ncalls[n]
          /\ Len(ncalls) \in Nat /\ Len(ncalls') \in Nat /\ Len(ncalls') >= Len(ncalls)
          /\ DOMAIN ncalls = 1 .. Len(ncalls)
          /\ insn.kind = "ncall" /\ insn.name \notin Range(ncalls) =>
               ncalls'[Len(ncalls')] = insn.name /\ Len(ncalls') = Len(ncalls) + 1
      <3>1. insn.kind = "ncall" => insn.name \in Names
        BY DEF Names
      <3> QED
        BY <1>2, <1>3, <3>1, AppendProperties, LenProperties
    <2>4. ASSUME NEW i \in 1 .. Len(insns'), insns'[i].kind = "ncall"
          PROVE  \E n \in 1 .. Len(ncalls') : ncalls'[n] = insns'[i].name
      <3>1. CASE i \in 1 .. Len(insns)
        <4>1. PICK n \in 1 .. Len(ncalls) : ncalls[n] = insns[i].name
          BY <1>4, <2>4, <3>1 DEF ScopesOK
        <4>2. n \in 1 .. Len(ncalls') /\ ncalls'[n] = insns'[i].name
          BY <1>4, <2>3, <3>1, <4>1
        <4> QED
          BY <4>2
      <3>2. CASE i = at
        <4>1. insns'[i] = insn
          BY <1>4, <3>2
        <4>2. CASE insn.name \notin Range(ncalls)
          <5>1. Len(ncalls') \in 1 .. Len(ncalls')
            BY <2>3, <2>4, <4>1, <4>2
          <5> QED
            BY <2>3, <2>4, <4>1, <4>2, <5>1
        <4>3. CASE insn.name \in Range(ncalls)
          <5>1. PICK n \in DOMAIN ncalls : ncalls[n] = insn.name
            BY <4>3 DEF Range
          <5>2. n \in 1 .. Len(ncalls') /\ ncalls'[n] = insn.name
            BY <2>3, <5>1
          <5> QED
            BY <4>1, <5>2
        <4> QED
          BY <4>2, <4>3
      <3> QED
        BY <1>4, <3>1, <3>2
    <2> QED
      BY <2>1, <2>2, <2>4 DEF ScopesOK
  <1>8. SymbolsOK'
    <2>1. DefineErrors(insn.label) \in Nat
          /\ (DefineErrors(insn.label) = 0 => insn.label \notin DOMAIN symtabs[ScopeOf(insn.label)])
      <3> DEFINE a == IF insn.label \in LocalNames /\ lookup_stack = Globals THEN 1 ELSE 0
                 b == IF insn.label \in DOMAIN symtabs[ScopeOf(insn.label)] THEN 1 ELSE 0
      <3>1. a \in Nat /\ b \in {0, 1} /\ (b = 0 => insn.label \notin DOMAIN symtabs[ScopeOf(insn.label)])
        OBVIOUS
      <3>2. DefineErrors(insn.label) = a + b
        BY Zenon DEF DefineErrors
      <3> HIDE DEF a, b
      <3> QED
        BY <3>1, <3>2
    <2>2. more \in Nat /\ (more = 0 /\ named => insn.label \notin DOMAIN symtabs[ScopeOf(insn.label)])
      BY <2>1 DEF more
    <2>3. pc' \in {"parse", "exit_1"}
      <3>1. errors + more \in Nat
        BY <1>3, <2>2
      <3> QED
        BY <1>2, <3>1, StageNames
    <2> SUFFICES ASSUME errors' = 0 PROVE SymbolsKnown'
      BY <2>3 DEF SymbolsOK
    <2>4. errors = 0 /\ more = 0
      BY <1>2, <1>3, <2>2
    <2>5. SymbolsKnown
      BY <2>4 DEF SymbolsOK, Parse
    <2> DEFINE C == Constants'
               m == Len(insns')
    <2>6. Constants \subseteq C /\ Len(insns) \in Nat /\ m \in Nat /\ Len(insns) <= m
      BY <1>4 DEF Constants
    <2>7. SymbolOf([type |-> type, at |-> at], m, C)
      <3> DEFINE sym == [type |-> type, at |-> at]
      <3>1. sym.type = type /\ sym.at = at
        OBVIOUS
      <3> HIDE DEF sym
      <3>2. ASSUME insn.kind = "const" PROVE SymbolOf(sym, m, C)
        <4>1. at \in C
          BY <1>4, <3>2 DEF Constants
        <4>2. sym.type = "constant" /\ sym.at \in C
          BY <3>1, <3>2, <4>1, Zenon DEF type
        <4> QED
          BY <4>2, Zenon DEF SymbolOf
      <3>3. ASSUME insn.kind # "const" PROVE SymbolOf(sym, m, C)
        <4>1. at \in 0 .. m
          BY <1>4
        <4> QED
          BY <3>1, <3>3, <4>1 DEF SymbolOf, type
      <3>4. SymbolOf(sym, m, C)
        BY <3>2, <3>3
      <3> QED
        BY <3>4 DEF sym
    <2> HIDE DEF C, m
    <2>8. \A scope \in DOMAIN symtabs : \A n \in DOMAIN symtabs[scope] :
            SymbolOf(symtabs[scope][n], m, C)
      BY <2>5, <2>6, SymbolsGrow DEF SymbolsKnown, IsSymbol
    <2>9. \A scope \in DOMAIN tabs : \A n \in DOMAIN tabs[scope] : SymbolOf(tabs[scope][n], m, C)
      <3>1. CASE named
        <4> DEFINE new == Defined(insn.label, type, at)
        <4>1. tabs = new /\ DOMAIN new = DOMAIN symtabs
          BY <3>1, DefinedDomain, Zenon DEF tabs
        <4>2. \A scope \in DOMAIN symtabs : \A n \in DOMAIN new[scope] : SymbolOf(new[scope][n], m, C)
          <5> TAKE scope \in DOMAIN symtabs
          <5> TAKE n \in DOMAIN new[scope]
          <5>1. insn.label \notin DOMAIN symtabs[ScopeOf(insn.label)]
            BY <2>2, <2>4, <3>1
          <5> QED
            BY <2>7, <2>8, <5>1, DefinedSymbols
        <4> QED
          BY <4>1, <4>2, Zenon
      <3>2. CASE ~named
        <4>1. tabs = symtabs
          BY <3>2 DEF tabs
        <4> QED
          BY <2>8, <4>1, Zenon
      <3> QED
        BY <3>1, <3>2
    <2>10. ASSUME NEW scope \in DOMAIN symtabs', NEW n \in DOMAIN symtabs'[scope]
           PROVE  SymbolOf(symtabs'[scope][n], m, C)
      <3>1. CASE insn.kind = "sub"
        <4>1. symtabs' = With(tabs, at, <<>>)
          BY <1>2, <3>1, Zenon
        <4>2. symtabs'[scope] = IF scope = at THEN <<>> ELSE tabs[scope]
          BY <4>1, Zenon DEF With
        <4>3. scope = at \/ scope \in DOMAIN tabs
          BY <4>1, Zenon DEF With
        <4>4. scope # at
          <5>1. DOMAIN <<>> = {}
            OBVIOUS
          <5> QED
            BY <2>10, <4>2, <5>1
        <4> QED
          BY <2>9, <2>10, <4>2, <4>3, <4>4, Zenon
      <3>2. CASE insn.kind # "sub"
        <4>1. symtabs' = tabs
          BY <1>2, <3>2, Zenon
        <4> QED
          BY <2>9, <2>10, <4>1, Zenon
      <3> QED
        BY <3>1, <3>2
    <2> QED
      BY <2>10 DEF SymbolsKnown, IsSymbol, C, m
  <1> QED
    BY <1>7, <1>8

LEMMA BrokenKeepsSymbols ==
  ASSUME TypeOK, ScopesOK, SymbolsOK, SyntaxError \/ EndsBroken
  PROVE  ScopesOK' /\ SymbolsOK'
  <1>1. PICK label : /\ Abandon(label)
                     /\ \/ /\ errors' = errors + LabelErrors(label) + 1
                           /\ pc' = Then("parse", errors')
                        \/ /\ errors' = errors + LabelErrors(label)
                           /\ pc' = IfClean("pass_1", errors')
    BY Zenon DEF SyntaxError, EndsBroken
  <1>2. DOMAIN symtabs' = DOMAIN symtabs /\ pc = "parse"
        /\ UNCHANGED <<insns, ncalls, lookup_stack, resolved, layout, output>>
    BY <1>1, AbandonDomain
  <1>3. ScopesOK'
    BY <1>2 DEF ScopesOK
  <1>4. errors \in Nat /\ LabelErrors(label) \in Nat
    BY LabelErrorsNat, Zenon DEF TypeOK
  <1>5. errors' \in Nat /\ errors' \in {errors + LabelErrors(label) + 1, errors + LabelErrors(label)}
        /\ pc' \in {"parse", "pass_1", "exit_1"}
    <2>1. errors' \in {errors + LabelErrors(label) + 1, errors + LabelErrors(label)}
      BY <1>1, Zenon
    <2>2. errors' \in Nat
      BY <1>4, <2>1
    <2> QED
      BY <1>1, <2>1, <2>2, StageNames
  <1>6. ASSUME errors' = 0 \/ pc' = "pass_1" PROVE SymbolsKnown'
    <2>1. errors = 0
      <3>1. CASE errors' = 0
        <4> DEFINE n == LabelErrors(label)
        <4>1. errors \in Nat /\ n \in Nat /\ (0 = errors + n + 1 \/ 0 = errors + n)
          BY <1>4, <1>5, <3>1
        <4> HIDE DEF n
        <4> QED
          BY <4>1
      <3>2. CASE errors' # 0
        <4>1. Then("parse", errors') \in {"parse", "exit_1"}
              /\ IfClean("pass_1", errors') = "exit_1"
          BY <1>5, <3>2, StageNames
        <4> QED
          BY <1>1, <1>6, <3>2, <4>1
      <3> QED
        BY <3>1, <3>2
    <2>2. SymbolsKnown
      BY <1>2, <2>1 DEF SymbolsOK
    <2> DEFINE m == Len(insns)
               C == Constants
    <2>3. m' = m /\ C' = C /\ 0 \in 0 .. m
      <3>1. insns \in Seq(Statements) /\ insns' = insns
        BY <1>2, Zenon DEF TypeOK
      <3> QED
        BY <3>1, LenProperties DEF Constants
    <2>4. \A scope \in DOMAIN symtabs : \A n \in DOMAIN symtabs[scope] :
            SymbolOf(symtabs[scope][n], m, C)
      BY <2>2, Zenon DEF SymbolsKnown, IsSymbol
    <2> SUFFICES \A scope \in DOMAIN symtabs' : \A n \in DOMAIN symtabs'[scope] :
                   SymbolOf(symtabs'[scope][n], m, C)
      <3> HIDE DEF m, C
      <3> QED
        BY <2>3, Zenon DEF SymbolsKnown, IsSymbol, m, C
    <2>5. CASE label = NoLabel \/ label \in DOMAIN symtabs[ScopeOf(label)]
      <3>1. symtabs' = symtabs
        BY <1>1, <2>5, Zenon DEF Abandon
      <3> QED
        BY <2>4, <3>1, Zenon
    <2>6. CASE ~(label = NoLabel \/ label \in DOMAIN symtabs[ScopeOf(label)])
      <3> DEFINE new == Defined(label, "label", NoInsn)
      <3>1. symtabs' = new /\ DOMAIN new = DOMAIN symtabs
        BY <1>1, <2>6, DefinedDomain, Zenon DEF Abandon
      <3>2. SymbolOf([type |-> "label", at |-> NoInsn], m, C)
        BY <2>3 DEF SymbolOf, NoInsn
      <3> HIDE DEF m, C
      <3>3. \A scope \in DOMAIN symtabs : \A n \in DOMAIN new[scope] : SymbolOf(new[scope][n], m, C)
        <4> TAKE scope \in DOMAIN symtabs
        <4> TAKE n \in DOMAIN new[scope]
        <4> QED
          BY <2>4, <2>6, <3>2, DefinedSymbols
      <3> QED
        BY <3>1, <3>3, Zenon
    <2> QED
      BY <2>5, <2>6
  <1>7. SymbolsOK'
    BY <1>5, <1>6 DEF SymbolsOK
  <1> QED
    BY <1>3, <1>7

\* The other actions leave them alone.
LEMMA SymbolsStay ==
  ASSUME ScopesOK, SymbolsOK, UNCHANGED symbols, pc' # "parse",
         pc' = "exit_1" \/ pc \in {"pass_1", "pass_2", "exit_0"} \/ (errors = 0 /\ pc = "parse")
  PROVE  ScopesOK' /\ SymbolsOK'
  <1>1. UNCHANGED <<insns, symtabs, ncalls>>
    BY DEF symbols
  <1>2. ScopesOK'
    BY <1>1 DEF ScopesOK
  <1>3. SymbolsKnown => SymbolsKnown'
    BY <1>1, Zenon DEF SymbolsKnown, IsSymbol, SymbolOf, Constants
  <1>4. SymbolsOK'
    BY <1>3 DEF SymbolsOK
  <1> QED
    BY <1>2, <1>4

LEMMA StagesFollow ==
  ASSUME TypeOK, ScopesOK, SymbolsOK, Stages, VmaNext
  PROVE  Stages'
  <1>1. errors \in Nat
    BY DEF TypeOK
  <1>2. CASE Parse
    <2>1. pc' \in {"parse", "exit_1"}
      BY <1>2, Zenon DEF Parse, Then
    <2> QED
      BY <1>2, <2>1 DEF Parse, Stages, layout, output
  <1>3. CASE SyntaxError \/ EndsBroken
    <2>1. PICK label : Abandon(label) /\ pc' \in {"parse", "pass_1", "exit_1"}
      BY <1>3, Zenon DEF SyntaxError, EndsBroken, Then, IfClean
    <2> QED
      BY <2>1 DEF Abandon, Stages, layout, output
  <1>4. CASE EndParse
    BY <1>1, <1>4, StageNames DEF EndParse, Stages, layout, output
  <1>5. CASE Pass1
    <2>1. PICK at, va, value : Pass1Of(at, va, value)
      BY <1>5, Pass1Is
    <2> QED
      BY <2>1 DEF Pass1Of, Stages, output
  <1>6. CASE EndPass1
    BY <1>1, <1>6, StageNames DEF EndPass1, Stages, layout
  <1>7. CASE Pass2
    <2>1. PICK i, values : Pass2Of(i, values)
      BY <1>7, Pass2Is
    <2> QED
      BY <2>1 DEF Pass2Of, Stages
  <1>8. CASE WriteFails
    BY <1>8 DEF WriteFails, Stages
  <1>9. CASE EndPass2
    <2>1. pc' = "exit_0" => errors = 0
      BY <1>1, <1>9, StageNames DEF EndPass2
    <2>2. pc' \in {"exit_0", "exit_1"} /\ ~More /\ errors' = errors
      BY <1>1, <1>9, StageNames DEF EndPass2
    <2>3. More' = More
      BY <1>9 DEF EndPass2, More, InFile, symbols, layout
    <2> QED
      BY <2>1, <2>2, <2>3 DEF Stages
  <1> QED
    BY <1>2, <1>3, <1>4, <1>5, <1>6, <1>7, <1>8, <1>9 DEF VmaNext

-----------------------------------------------------------------------------
\* The layout.

\* What pass 1 adds stands behind what was there.
LEMMA Pass1Appends ==
  ASSUME TypeOK, NEW at, NEW va, NEW value, Pass1Of(at, va, value)
  PROVE  /\ at = Len(start_addr) + 1 /\ Len(start_addr) \in Nat /\ Len(start_addr') = at
         /\ \A i \in 1 .. Len(start_addr) :
              start_addr'[i] = start_addr[i] /\ reserved'[i] = reserved[i]
                /\ align_bytes'[i] = align_bytes[i]
         /\ start_addr'[at] = va /\ reserved'[at] = value
         /\ align_bytes'[at] = (va - next_va) % ADDRS
  <1>1. start_addr \in Seq(Addresses) /\ align_bytes \in Seq(Addresses) /\ reserved \in Seq(Addresses)
        /\ Len(align_bytes) = Len(start_addr) /\ Len(reserved) = Len(start_addr)
        /\ next_va \in Addresses
    BY DEF TypeOK
  <1>2. at = Len(start_addr) + 1 /\ va \in Addresses /\ value \in Addresses
        /\ start_addr' = Append(start_addr, va)
        /\ align_bytes' = Append(align_bytes, (va - next_va) % ADDRS)
        /\ reserved' = Append(reserved, value)
    BY Zenon DEF Pass1Of
  <1> DEFINE pad == (va - next_va) % ADDRS
  <1>3. pad \in Addresses
    <2>1. va - next_va \in Int
      BY <1>1, <1>2, Constraints
    <2> QED
      BY <2>1, RemainderIsAddress
  <1>4. align_bytes' = Append(align_bytes, pad)
    BY <1>2
  <1> HIDE DEF pad
  <1>5. /\ Len(start_addr) \in Nat /\ Len(start_addr') = at
        /\ \A i \in 1 .. Len(start_addr) :
              start_addr'[i] = start_addr[i] /\ reserved'[i] = reserved[i]
                /\ align_bytes'[i] = align_bytes[i]
        /\ start_addr'[at] = va /\ reserved'[at] = value /\ align_bytes'[at] = pad
    BY <1>1, <1>2, <1>3, <1>4, AppendProperties, LenProperties
  <1> QED
    BY <1>2, <1>5 DEF pad

LEMMA Pass1KeepsLayout ==
  ASSUME TypeOK, LayoutOK, NEW at, NEW va, NEW value, Pass1Of(at, va, value)
  PROVE  LayoutOK'
  <1> DEFINE n == Len(start_addr)
             E(i) == IF i = 0 THEN 0 ELSE start_addr[i] + Size(insns[i], reserved[i])
             F(i) == IF i = 0 THEN 0 ELSE start_addr'[i] + Size(insns[i], reserved'[i])
  <1>1. /\ at = n + 1 /\ n \in Nat /\ Len(start_addr') = at
        /\ \A i \in 1 .. n :
             start_addr'[i] = start_addr[i] /\ reserved'[i] = reserved[i]
               /\ align_bytes'[i] = align_bytes[i]
        /\ start_addr'[at] = va /\ reserved'[at] = value
        /\ align_bytes'[at] = (va - next_va) % ADDRS
    BY Pass1Appends
  <1>2. /\ \A i \in 1 .. n : align_bytes[i] = (start_addr[i] - (E(i - 1) % ADDRS)) % ADDRS
        /\ next_va = E(n) % ADDRS
    BY Zenon DEF LayoutOK, End
  <1>3. PICK last \in 0 .. n :
          /\ bss_va = E(last) % ADDRS
          /\ last # 0 => insns[last].kind \in Allocates
          /\ \A i \in last + 1 .. n : insns[i].kind \notin Allocates
    BY Zenon DEF LayoutOK, End
  <1>4. next_va' = (va + Size(insns[at], value)) % ADDRS
        /\ bss_va' = (IF insns[at].kind \in Allocates THEN next_va' ELSE bss_va)
        /\ insns' = insns
    BY Zenon DEF Pass1Of, symbols
  <1>5. \A i \in 0 .. n : F(i) = E(i)
    BY <1>1
  <1>6. F(at) = va + Size(insns[at], value)
    BY <1>1
  <1> HIDE DEF E, F, n
  <1>7. ASSUME NEW i \in 1 .. at
        PROVE  align_bytes'[i] = (start_addr'[i] - (F(i - 1) % ADDRS)) % ADDRS
    <2>1. i - 1 \in 0 .. n
      BY <1>1
    <2>2. CASE i \in 1 .. n
      BY <1>1, <1>2, <1>5, <2>1, <2>2, Zenon
    <2>3. CASE i = at
      <3>1. i - 1 = n
        BY <1>1, <2>3
      <3> QED
        BY <1>1, <1>2, <1>5, <2>1, <2>3, <3>1, Zenon
    <2> QED
      BY <1>1, <2>2, <2>3
  <1>8. next_va' = F(at) % ADDRS
    BY <1>4, <1>6, Zenon
  <1>9. \E l \in 0 .. at :
          /\ bss_va' = F(l) % ADDRS
          /\ l # 0 => insns[l].kind \in Allocates
          /\ \A i \in l + 1 .. at : insns[i].kind \notin Allocates
    <2>1. CASE insns[at].kind \in Allocates
      <3>1. bss_va' = F(at) % ADDRS /\ at \in 0 .. at /\ at + 1 .. at = {}
        BY <1>1, <1>4, <1>8, <2>1
      <3> QED
        BY <2>1, <3>1
    <2>2. CASE insns[at].kind \notin Allocates
      <3>1. bss_va' = F(last) % ADDRS /\ last \in 0 .. at
        BY <1>1, <1>3, <1>4, <1>5, <2>2
      <3>2. \A i \in last + 1 .. at : i \in last + 1 .. n \/ i = at
        BY <1>1
      <3> QED
        BY <1>3, <2>2, <3>1, <3>2
    <2> QED
      BY <2>1, <2>2
  <1> DEFINE G(i) == IF i = 0 THEN 0 ELSE start_addr'[i] + Size(insns'[i], reserved'[i])
  <1>10. \A i : G(i) = F(i)
    BY <1>4, Zenon DEF F
  <1> HIDE DEF G
  <1>11. /\ \A i \in 1 .. Len(start_addr') :
              align_bytes'[i] = (start_addr'[i] - (G(i - 1) % ADDRS)) % ADDRS
         /\ next_va' = G(Len(start_addr')) % ADDRS
         /\ \E l \in 0 .. Len(start_addr') :
              /\ bss_va' = G(l) % ADDRS
              /\ l # 0 => insns'[l].kind \in Allocates
              /\ \A i \in l + 1 .. Len(start_addr') : insns'[i].kind \notin Allocates
    BY <1>1, <1>4, <1>7, <1>8, <1>9, <1>10, Zenon
  <1> QED
    BY <1>11, Zenon DEF LayoutOK, End, G

\* Before pass 1 nothing is laid out.
LEMMA EmptyLayout ==
  ASSUME LayoutOK, start_addr = <<>>, UNCHANGED layout
  PROVE  LayoutOK'
  <1>1. UNCHANGED <<start_addr, align_bytes, reserved, next_va, bss_va>>
    BY DEF layout
  <1>2. Len(start_addr) = 0 /\ 1 .. 0 = {} /\ 0 .. 0 = {0} /\ 0 + 1 .. 0 = {}
    OBVIOUS
  <1>3. next_va = 0 % ADDRS /\ bss_va = 0 % ADDRS
    BY <1>2 DEF LayoutOK, End
  <1>4. Len(start_addr') = 0 /\ next_va' = 0 % ADDRS /\ bss_va' = 0 % ADDRS
    BY <1>1, <1>2, <1>3
  <1> QED
    BY <1>2, <1>4 DEF LayoutOK, End

LEMMA LayoutStays ==
  ASSUME LayoutOK, UNCHANGED <<insns, layout>>
  PROVE  LayoutOK'
  <1>1. UNCHANGED <<insns, start_addr, align_bytes, reserved, next_va, bss_va>>
    BY DEF layout
  <1> QED
    BY <1>1, Zenon DEF LayoutOK, End

\* Without a wrap every instruction stands behind the one before it and its alignment.
LEMMA Laid ==
  ASSUME TypeOK, LayoutOK, ~Wraps
  PROVE  /\ Len(start_addr) \in Nat
         /\ \A i \in 0 .. Len(start_addr) : End(i) \in Nat /\ End(i) < ADDRS
         /\ \A i \in 1 .. Len(start_addr) :
              /\ Size(insns[i], reserved[i]) \in Nat /\ align_bytes[i] \in Nat
              /\ start_addr[i] = End(i - 1) + align_bytes[i]
              /\ End(i) = start_addr[i] + Size(insns[i], reserved[i])
  <1> DEFINE n == Len(start_addr)
  <1>1. start_addr \in Seq(Addresses) /\ align_bytes \in Seq(Addresses) /\ reserved \in Seq(Addresses)
        /\ Len(align_bytes) = n /\ Len(reserved) = n /\ insns \in Seq(Statements)
        /\ n <= Len(insns)
    BY DEF TypeOK
  <1>2. n \in Nat /\ Len(insns) \in Nat /\ DOMAIN start_addr = 1 .. n
    BY <1>1, LenProperties
  <1>3. ADDRS \in Nat \ {0} /\ Addresses = 0 .. ADDRS - 1
    BY Constraints
  <1>4. ASSUME NEW i \in 1 .. n
        PROVE  /\ start_addr[i] \in Addresses /\ align_bytes[i] \in Addresses
               /\ Size(insns[i], reserved[i]) \in Nat
    <2>1. start_addr[i] \in Addresses /\ align_bytes[i] \in Addresses /\ reserved[i] \in Addresses
      BY <1>1, ElementOfSeq
    <2>2. i \in 1 .. Len(insns)
      BY <1>1, <1>2
    <2>3. reserved[i] \in Nat
      BY <1>3, <2>1
    <2> QED
      BY <1>1, <2>1, <2>2, <2>3, StatementFacts, SizeIsNat
  <1>5. ASSUME NEW i \in 1 .. n
        PROVE  /\ start_addr[i] + Size(insns[i], reserved[i]) < ADDRS
               /\ start_addr[i] >= align_bytes[i]
    <2> DEFINE s == start_addr[i]
               z == Size(insns[i], reserved[i])
               a == align_bytes[i]
    <2>1. ~(s + z >= ADDRS) /\ ~(s < a)
      BY <1>2, Zenon DEF Wraps
    <2>2. s \in Nat /\ z \in Nat /\ a \in Nat
      BY <1>3, <1>4
    <2> HIDE DEF s, z, a
    <2>3. s + z < ADDRS /\ s >= a
      BY <1>3, <2>1, <2>2
    <2> QED
      BY <2>3 DEF s, z, a
  <1> HIDE DEF n
  <1>6. ASSUME NEW i \in 0 .. n PROVE End(i) \in Nat /\ End(i) < ADDRS
    <2>1. CASE i = 0
      BY <1>3, <2>1 DEF End
    <2>2. CASE i # 0
      <3>1. i \in 1 .. n
        BY <1>2, <2>2
      <3>2. End(i) = start_addr[i] + Size(insns[i], reserved[i])
        BY <2>2 DEF End
      <3> QED
        BY <1>3, <1>4, <1>5, <3>1, <3>2
    <2> QED
      BY <2>1, <2>2
  <1>7. ASSUME NEW i \in 1 .. n PROVE start_addr[i] = End(i - 1) + align_bytes[i]
    <2> DEFINE e == End(i - 1)
               s == start_addr[i]
               a == align_bytes[i]
               m == ADDRS
    <2>1. i - 1 \in 0 .. n
      BY <1>2
    <2>2. e \in 0 .. m - 1 /\ s \in 0 .. m - 1 /\ a \in 0 .. m - 1 /\ s >= a /\ m \in Nat \ {0}
      BY <1>3, <1>4, <1>5, <1>6, <2>1
    <2>3. a = (s - (e % m)) % m
      BY Zenon DEF LayoutOK, n
    <2> HIDE DEF e, s, a, m
    <2>4. e % m = e
      BY <2>2
    <2>5. CASE s >= e
      <3>1. (s - e) % m = s - e
        BY <2>2, <2>5
      <3> QED
        BY <2>2, <2>3, <2>4, <3>1 DEF e, s, a
    <2>6. CASE s < e
      <3>1. (s - e) % m = s - e + m
        <4>1. s - e + m \in 0 .. m - 1 /\ s - e = m * (-1) + (s - e + m)
          BY <2>2, <2>6
        <4> DEFINE x == s - e
                   r == s - e + m
        <4>2. x \in Int /\ r \in 0 .. m - 1 /\ x = m * (-1) + r
          BY <2>2, <4>1
        <4> HIDE DEF x, r
        <4>3. x % m = r
          BY <2>2, <4>2, DivisionUnique
        <4> QED
          BY <4>3 DEF x, r
      <3>2. a = s - e + m
        BY <2>3, <2>4, <3>1
      <3> QED
        BY <2>2, <3>2
    <2> QED
      BY <2>2, <2>5, <2>6
  <1>8. ASSUME NEW i \in 1 .. n PROVE End(i) = start_addr[i] + Size(insns[i], reserved[i])
    BY <1>2 DEF End
  <1>9. \A i \in 1 .. n : align_bytes[i] \in Nat
    BY <1>3, <1>4
  <1> QED
    BY <1>2, <1>4, <1>6, <1>7, <1>8, <1>9 DEF n

LEMMA EndsGrow ==
  ASSUME TypeOK, LayoutOK, ~Wraps, NEW a \in 0 .. Len(start_addr), NEW b \in a .. Len(start_addr)
  PROVE  End(a) <= End(b)
  <1> DEFINE n == Len(start_addr)
             S == {k \in Nat : a + k <= n => End(a) <= End(a + k)}
  <1>1. n \in Nat /\ \A i \in 0 .. n : End(i) \in Nat
    BY Laid
  <1>2. ASSUME NEW i \in 1 .. n PROVE End(i - 1) <= End(i)
    <2>1. Size(insns[i], reserved[i]) \in Nat /\ align_bytes[i] \in Nat
          /\ start_addr[i] = End(i - 1) + align_bytes[i]
          /\ End(i) = start_addr[i] + Size(insns[i], reserved[i])
      BY Laid
    <2>2. End(i - 1) \in Nat
      BY <1>1
    <2> QED
      BY <2>1, <2>2
  <1> HIDE DEF n
  <1>3. a \in 0 .. n /\ b \in a .. n
    BY DEF n
  <1>4. 0 \in S
    <2>1. End(a) \in Nat /\ a + 0 = a
      BY <1>1, <1>3
    <2> QED
      BY <2>1
  <1>5. ASSUME NEW k \in Nat, k \in S PROVE k + 1 \in S
    <2>1. CASE a + (k + 1) <= n
      <3>1. a + (k + 1) \in 1 .. n /\ (a + (k + 1)) - 1 = a + k /\ a + k \in 0 .. n
            /\ a + (k + 1) \in 0 .. n
        BY <1>1, <1>3, <2>1
      <3> DEFINE j == a + (k + 1)
                 i == a + k
      <3>2. j \in 1 .. n /\ j \in 0 .. n /\ j - 1 = i /\ i \in 0 .. n
        BY <3>1
      <3>3. End(a) <= End(i)
        BY <1>1, <1>3, <1>5, <2>1
      <3> HIDE DEF i, j
      <3>4. End(i) <= End(j)
        BY <1>2, <3>2
      <3>5. End(a) <= End(j)
        BY <1>1, <1>3, <3>2, <3>3, <3>4
      <3> QED
        BY <3>5 DEF j
    <2> QED
      BY <1>1, <1>3, <2>1
  <1>6. Nat \subseteq S
    <2> HIDE DEF S
    <2> QED
      BY <1>4, <1>5, Induction
  <1>7. b - a \in Nat /\ a + (b - a) = b /\ b <= n
    BY <1>1, <1>3
  <1>8. b - a \in S
    BY <1>6, <1>7
  <1> QED
    BY <1>7, <1>8

\* Pass 2 never passes the end of the file's part; and when it stops it has reached it, but
\* for an empty text at the end.
LEMMA FileEnd ==
  ASSUME TypeOK, LayoutOK, ~Wraps, Len(start_addr) = Len(insns),
         \A i \in 1 .. emitted : start_addr[i] < bss_va
  PROVE  /\ End(emitted) <= bss_va /\ End(emitted) \in Nat /\ bss_va \in Nat /\ bss_va <= next_va
         /\ next_va = End(Len(start_addr))
         /\ ~More /\ ~EmptyAtEnd => End(emitted) = bss_va
  <1> DEFINE n == Len(start_addr)
  <1>1. PICK last \in 0 .. n :
          /\ bss_va = End(last) % ADDRS
          /\ last # 0 => insns[last].kind \in Allocates
    BY Zenon DEF LayoutOK
  <1>2. n \in Nat /\ \A i \in 0 .. n : End(i) \in Nat /\ End(i) < ADDRS
    BY Laid
  <1>3. ASSUME NEW i \in 0 .. n PROVE End(i) % ADDRS = End(i)
    <2> DEFINE m == ADDRS
               e == End(i)
    <2>1. m \in Nat \ {0} /\ e \in 0 .. m - 1
      BY <1>2, Constraints
    <2> HIDE DEF m, e
    <2>2. e % m = e
      BY <2>1
    <2> QED
      BY <2>2 DEF m, e
  <1>4. bss_va = End(last) /\ next_va = End(n)
    <2>1. next_va = End(n) % ADDRS
      BY Zenon DEF LayoutOK
    <2>2. n \in 0 .. n
      BY <1>2
    <2> QED
      BY <1>1, <1>3, <2>1, <2>2, Zenon
  <1>5. emitted \in 0 .. n
    BY DEF TypeOK
  <1>6. \A i \in 1 .. n :
              /\ Size(insns[i], reserved[i]) \in Nat /\ align_bytes[i] \in Nat
              /\ start_addr[i] = End(i - 1) + align_bytes[i]
              /\ End(i) = start_addr[i] + Size(insns[i], reserved[i])
    BY Laid
  <1>7. bss_va <= next_va
    <2>1. n \in last .. n
      BY <1>2
    <2> QED
      BY <1>4, <2>1, EndsGrow
  <1> HIDE DEF n
  <1>8. ASSUME NEW i \in 1 .. n PROVE start_addr[i] \in Nat
    <2>1. i - 1 \in 0 .. n
      BY <1>2
    <2>2. start_addr[i] = End(i - 1) + align_bytes[i] /\ align_bytes[i] \in Nat
          /\ End(i - 1) \in Nat
      BY <1>2, <1>6, <2>1
    <2> QED
      BY <2>2
  <1>9. ASSUME NEW i \in 1 .. n, NEW j \in 0 .. i - 1 PROVE End(j) <= start_addr[i]
    <2>1. i - 1 \in j .. n /\ j \in 0 .. n /\ i - 1 \in 0 .. n
      BY <1>2
    <2>2. End(j) <= End(i - 1)
      BY <2>1, EndsGrow DEF n
    <2>3. start_addr[i] = End(i - 1) + align_bytes[i] /\ align_bytes[i] \in Nat
      BY <1>6
    <2>4. End(j) \in Nat /\ End(i - 1) \in Nat
      BY <1>2, <2>1
    <2> QED
      BY <2>2, <2>3, <2>4
  <1>10. emitted <= last
    <2> SUFFICES ASSUME emitted > last PROVE FALSE
      BY <1>1, <1>2, <1>5
    <2>1. emitted \in 1 .. n /\ last \in 0 .. emitted - 1 /\ emitted \in 1 .. emitted
      BY <1>1, <1>2, <1>5
    <2>2. End(last) <= start_addr[emitted]
      BY <1>9, <2>1
    <2>3. start_addr[emitted] < End(last)
      BY <1>4, <2>1
    <2>4. End(last) \in Nat /\ start_addr[emitted] \in Nat
      BY <1>1, <1>2, <1>8, <2>1
    <2> QED
      BY <2>2, <2>3, <2>4
  <1>11. End(emitted) <= End(last)
    <2>1. last \in emitted .. Len(start_addr) /\ emitted \in 0 .. Len(start_addr)
      BY <1>1, <1>2, <1>5, <1>10 DEF n
    <2> QED
      BY <2>1, EndsGrow
  <1>12. ASSUME ~More, ~EmptyAtEnd PROVE emitted = last
    <2> SUFFICES ASSUME emitted # last PROVE FALSE
      OBVIOUS
    <2> DEFINE i == emitted + 1
    <2>1. i \in 1 .. last /\ i \in 1 .. n /\ last \in 1 .. n /\ emitted < n
      BY <1>1, <1>2, <1>5, <1>10
    <2>2. start_addr[i] >= bss_va
      <3>1. ~InFile(i)
        BY <1>12, <2>1 DEF More, n
      <3>2. start_addr[i] \in Int /\ bss_va \in Int
        BY <1>1, <1>2, <1>4, <1>8, <2>1
      <3> HIDE DEF i
      <3> QED
        BY <3>1, <3>2 DEF InFile
    <2> HIDE DEF i
    <2> DEFINE s == start_addr[last]
               z == Size(insns[last], reserved[last])
    <2>3. s >= start_addr[i]
      <3>1. CASE i = last
        <4>1. s \in Int
          BY <1>8, <2>1
        <4> QED
          BY <3>1, <4>1
      <3>2. CASE i # last
        <4>1. i \in 0 .. last - 1
          BY <1>1, <1>2, <2>1, <3>2
        <4>2. End(i) <= s
          BY <1>9, <2>1, <4>1
        <4>3. Size(insns[i], reserved[i]) \in Nat /\ End(i) = start_addr[i] + Size(insns[i], reserved[i])
              /\ start_addr[i] \in Nat
          BY <1>6, <1>8, <2>1
        <4>4. s \in Int
          BY <1>8, <2>1
        <4> HIDE DEF s
        <4> QED
          BY <4>2, <4>3, <4>4
      <3> QED
        BY <3>1, <3>2
    <2>4. End(last) = s + z /\ z \in Nat /\ s \in Int /\ start_addr[i] \in Int /\ bss_va = End(last)
      <3>1. End(last) = s + z /\ z \in Nat
        BY <1>6, <2>1
      <3>2. s \in Int /\ start_addr[i] \in Int
        BY <1>8, <2>1
      <3> QED
        BY <1>4, <3>1, <3>2
    <2> HIDE DEF s, z
    <2>5. z = 0 /\ s = bss_va
      BY <2>2, <2>3, <2>4
    <2>6. insns[last].kind \in Allocates /\ IsStatement(insns[last]) /\ reserved[last] \in Nat
      <3>1. insns \in Seq(Statements) /\ last \in 1 .. Len(insns) /\ last \in 1 .. Len(reserved)
            /\ reserved \in Seq(Addresses)
        BY <2>1 DEF TypeOK, n
      <3>2. reserved[last] \in Addresses
        BY <3>1, ElementOfSeq
      <3> QED
        BY <1>1, <2>1, <3>1, <3>2, StatementFacts, Constraints
    <2>7. insns[last].kind = "defs" /\ insns[last].length = 0
      <3>1. Size(insns[last], reserved[last]) = 0
        BY <2>5 DEF z
      <3> DEFINE insn == insns[last]
                 value == reserved[last]
      <3>2. Size(insn, value) = 0 /\ insn.kind \in Allocates /\ IsStatement(insn) /\ value \in Nat
        BY <2>6, <3>1
      <3> HIDE DEF insn, value
      <3>3. insn.kind = "defs" /\ insn.length = 0
        BY <3>2, SizeIsNat
      <3> QED
        BY <3>3 DEF insn
    <2>8. DOMAIN start_addr = 1 .. n
      <3>1. start_addr \in Seq(Addresses)
        BY DEF TypeOK
      <3> QED
        BY <3>1, LenProperties DEF n
    <2> QED
      BY <1>12, <2>1, <2>5, <2>7, <2>8 DEF EmptyAtEnd, s
  <1>13. End(emitted) \in Nat /\ End(last) \in Nat
    BY <1>1, <1>2, <1>5
  <1> QED
    BY <1>4, <1>7, <1>11, <1>12, <1>13 DEF n

-----------------------------------------------------------------------------
\* The bytes of the file.

LEMMA CellsAre ==
  ASSUME NEW what, what \in {"pad", "insn"}, NEW of \in Nat, NEW count \in Nat
  PROVE  /\ Cells(what, of, count) \in Seq(Cell) /\ Len(Cells(what, of, count)) = count
         /\ \A part \in 1 .. count :
              Cells(what, of, count)[part] = [what |-> what, of |-> of, part |-> part]
  <1>1. Cells(what, of, count) \in [1 .. count -> Cell]
    BY DEF Cells, Cell
  <1> QED
    BY <1>1, TuplesAreSequences DEF Cells

\* Behind what is there come p bytes of padding, and w bytes of instruction i.
Grown(b, c, i, p, w) ==
  /\ c \in Seq(Cell) /\ Len(b) \in Nat /\ Len(c) = Len(b) + p + w
  /\ \A n \in 1 .. Len(b) : c[n] = b[n]
  /\ \A n \in Len(b) + 1 .. Len(b) + p : c[n].what = "pad"
  /\ \A part \in 1 .. w :
       c[(Len(b) + p) + part] = [what |-> "insn", of |-> i, part |-> part]

LEMMA BodyGrows ==
  ASSUME NEW b \in Seq(Cell), NEW i \in Nat, NEW p \in Nat, NEW w \in Nat
  PROVE  Grown(b, b \o Cells("pad", i, p) \o Cells("insn", i, w), i, p, w)
  <1> DEFINE pad == Cells("pad", i, p)
             insn == Cells("insn", i, w)
             d == b \o pad
             c == b \o Cells("pad", i, p) \o Cells("insn", i, w)
             m == Len(b)
  <1>1. pad \in Seq(Cell) /\ Len(pad) = p
        /\ \A part \in 1 .. p : pad[part] = [what |-> "pad", of |-> i, part |-> part]
    BY CellsAre
  <1>2. insn \in Seq(Cell) /\ Len(insn) = w
        /\ \A part \in 1 .. w : insn[part] = [what |-> "insn", of |-> i, part |-> part]
    BY CellsAre
  <1>3. m \in Nat
    BY LenProperties
  <1> HIDE DEF pad, insn
  <1> DEFINE q == m + p
  <1>4. d \in Seq(Cell) /\ Len(d) = q
        /\ (\A n \in 1 .. q : d[n] = IF n <= m THEN b[n] ELSE pad[n - m])
    BY <1>1, ConcatProperties
  <1>5. c = d \o insn /\ q \in Nat
    BY <1>3 DEF pad, insn
  <1> HIDE DEF c, d, m, q
  <1>6. c \in Seq(Cell) /\ Len(c) = q + w
        /\ (\A n \in 1 .. q + w : c[n] = IF n <= q THEN d[n] ELSE insn[n - q])
    <2> DEFINE e == d \o insn
    <2>1. e \in Seq(Cell) /\ Len(e) = q + w
          /\ (\A n \in 1 .. q + w : e[n] = IF n <= q THEN d[n] ELSE insn[n - q])
      <3>1. /\ e \in Seq(Cell) /\ Len(e) = Len(d) + Len(insn)
            /\ \A n \in 1 .. Len(d) + Len(insn) :
                 e[n] = IF n <= Len(d) THEN d[n] ELSE insn[n - Len(d)]
        BY <1>2, <1>4, ConcatProperties, Zenon
      <3> HIDE DEF e
      <3> QED
        BY <1>2, <1>4, <3>1, Zenon
    <2> QED
      BY <1>5, <2>1
  <1>7. \A n \in 1 .. m : c[n] = b[n]
    BY <1>3, <1>4, <1>6 DEF q
  <1>8. ASSUME NEW n \in m + 1 .. q PROVE c[n].what = "pad"
    <2>1. n \in 1 .. q /\ n \in 1 .. q + w /\ n <= q /\ ~(n <= m) /\ n - m \in 1 .. p
      BY <1>3 DEF q
    <2>2. c[n] = pad[n - m]
      BY <1>4, <1>6, <2>1
    <2> DEFINE k == n - m
    <2>3. pad[k] = [what |-> "pad", of |-> i, part |-> k]
      BY <1>1, <2>1
    <2> HIDE DEF k
    <2>4. pad[k].what = "pad"
      BY <2>3
    <2> QED
      BY <2>2, <2>4 DEF k
  <1>9. ASSUME NEW part \in 1 .. w
        PROVE  c[q + part] = [what |-> "insn", of |-> i, part |-> part]
    <2> DEFINE n == q + part
    <2>1. n \in 1 .. q + w /\ ~(n <= q) /\ n - q = part
      BY <1>5
    <2> HIDE DEF n
    <2>2. c[n] = insn[part]
      BY <1>6, <2>1
    <2> QED
      BY <1>2, <2>2 DEF n
  <1> QED
    BY <1>3, <1>6, <1>7, <1>8, <1>9 DEF c, m, q, Grown

LEMMA HashesAre ==
  ASSUME TypeOK
  PROVE  /\ Len(ncalls) \in Nat /\ Hashes \in Seq(Cell) /\ Len(Hashes) = 4 * Len(ncalls)
         /\ \A n \in 1 .. 4 * Len(ncalls) : Hashes[n].what = "hash"
         /\ \A n \in 1 .. Len(ncalls) : \A k \in 1 .. 4 :
              Hashes[4 * (n - 1) + k] = [what |-> "hash", of |-> Hash[ncalls[n]], part |-> k]
  <1> DEFINE m == Len(ncalls)
  <1>1. ncalls \in Seq(Names) /\ m \in Nat
    BY LenProperties DEF TypeOK
  <1>2. ASSUME NEW n \in 1 .. 4 * m
        PROVE  (n + 3) \div 4 \in 1 .. m /\ ((n - 1) % 4) + 1 \in Nat
    BY <1>1
  <1>3. \A n \in 1 .. m : Hash[ncalls[n]] \in Nat
    BY <1>1, ElementOfSeq, StatementsAssumption
  <1> HIDE DEF m
  <1>4. Hashes = [n \in 1 .. 4 * m |->
             [what |-> "hash", of |-> Hash[ncalls[(n + 3) \div 4]], part |-> ((n - 1) % 4) + 1]]
    BY Zenon DEF Hashes, m
  <1>5. \A n \in 1 .. 4 * m :
          [what |-> "hash", of |-> Hash[ncalls[(n + 3) \div 4]], part |-> ((n - 1) % 4) + 1] \in Cell
    <2> TAKE n \in 1 .. 4 * m
    <2> DEFINE o == Hash[ncalls[(n + 3) \div 4]]
               q == ((n - 1) % 4) + 1
    <2>1. o \in Nat /\ q \in Nat
      BY <1>2, <1>3
    <2> HIDE DEF o, q
    <2>2. [what |-> "hash", of |-> o, part |-> q] \in Cell
      BY <2>1 DEF Cell
    <2> QED
      BY <2>2 DEF o, q
  <1>6. Hashes \in [1 .. 4 * m -> Cell]
    BY <1>4, <1>5
  <1>7. Hashes \in Seq(Cell) /\ Len(Hashes) = 4 * m
    <2>1. 4 * m \in Nat
      BY <1>1
    <2> QED
      BY <1>6, <2>1, TuplesAreSequences
  <1>8. ASSUME NEW n \in 1 .. m, NEW k \in 1 .. 4
        PROVE  Hashes[4 * (n - 1) + k] = [what |-> "hash", of |-> Hash[ncalls[n]], part |-> k]
    <2> DEFINE j == 4 * (n - 1) + k
    <2>1. j \in 1 .. 4 * m /\ (j + 3) \div 4 = n /\ ((j - 1) % 4) + 1 = k
      BY <1>1
    <2> HIDE DEF j
    <2> QED
      BY <1>4, <2>1 DEF j
  <1>9. \A n \in 1 .. 4 * m : Hashes[n].what = "hash"
    BY <1>4
  <1> QED
    BY <1>1, <1>7, <1>8, <1>9 DEF m

LEMMA WrittenIsNat ==
  ASSUME TypeOK, NEW i, NEW values, Pass2Of(i, values)
  PROVE  Written(i, Fields(i, values)) \in Nat /\ align_bytes[i] \in Nat /\ i \in Nat
  <1> DEFINE fields == Fields(i, values)
  <1>1. insns \in Seq(Statements) /\ reserved \in Seq(Addresses) /\ align_bytes \in Seq(Addresses)
        /\ Len(reserved) = Len(insns) /\ Len(align_bytes) = Len(insns) /\ i \in 1 .. Len(insns)
    BY DEF Pass2Of, TypeOK
  <1>2. reserved[i] \in Addresses /\ align_bytes[i] \in Addresses /\ IsStatement(insns[i])
    BY <1>1, ElementOfSeq, StatementFacts
  <1>3. reserved[i] \in Nat /\ align_bytes[i] \in Nat /\ insns[i].length \in Nat
    BY <1>2, Constraints DEF IsStatement
  <1>4. Len(fields) \in Nat
    BY FieldsAreNumbers
  <1>5. i \in Nat
    BY <1>1, LenProperties
  <1> HIDE DEF fields
  <1> DEFINE kind == insns[i].kind
  <1>6. CASE kind \in Machine
    <2>1. Written(i, fields) \in {1, 1 + OperandBytes[kind]}
      BY <1>6, Zenon DEF Written
    <2>2. 1 + OperandBytes[kind] \in Nat
      BY <1>6, Kinds
    <2> QED
      BY <1>3, <1>5, <2>1, <2>2 DEF fields
  <1>7. CASE kind \notin Machine
    <2>1. kind # "byte"
      BY <1>7, Kinds
    <2>2. CASE kind \in Defines
      <3>1. Unit[kind] \in Nat /\ Written(i, fields) = Unit[kind] * Len(fields)
        BY <1>7, <2>1, <2>2, Kinds DEF Written
      <3> HIDE DEF kind
      <3> QED
        BY <1>3, <1>4, <1>5, <3>1 DEF fields
    <2>3. CASE kind \in Reserves /\ kind \notin Defines
      <3>1. Unit[kind] \in Nat /\ Written(i, fields) = Unit[kind] * reserved[i]
        BY <1>7, <2>1, <2>3, Kinds DEF Written
      <3> DEFINE r == reserved[i]
      <3> HIDE DEF kind, r
      <3> QED
        BY <1>3, <1>5, <3>1 DEF fields, r
    <2>4. CASE kind \notin Defines \cup Reserves
      <3>1. Written(i, fields) = (IF kind = "defs" THEN insns[i].length ELSE 0)
        BY <1>7, <2>1, <2>4 DEF Written
      <3> QED
        BY <1>3, <1>5, <3>1 DEF fields
    <2> QED
      BY <2>2, <2>3, <2>4
  <1> QED
    BY <1>6, <1>7

\* It has the length pass 1 counted, or a byte less for an operand that is refused (l.534).
LEMMA Pass2Length ==
  ASSUME TypeOK, NEW i, NEW values, Pass2Of(i, values)
  PROVE  \/ Written(i, Fields(i, values)) = Size(insns[i], reserved[i])
         \/ /\ Written(i, Fields(i, values)) + 1 = Size(insns[i], reserved[i])
            /\ errors' >= errors + 1
  <1>1. IsStatement(insns[i])
    BY StatementFacts, Zenon DEF Pass2Of, TypeOK
  <1>2. insns[i].kind \notin Reserves \cup {"const"} =>
          Len(values) = Len(insns[i].exprs) + (IF insns[i].kind = "ncall" THEN 1 ELSE 0)
    BY DEF Pass2Of
  <1>3. Len(Fields(i, values)) = Len(values) /\ DOMAIN values = 1 .. Len(values)
        /\ Len(values) \in Nat
    BY FieldsAreNumbers
  <1>4. ASSUME insns[i].kind \in Defines
        PROVE  Len(Fields(i, values)) = Len(insns[i].exprs)
    <2>1. insns[i].kind \notin Reserves \cup {"const"} /\ insns[i].kind # "ncall"
      BY <1>4 DEF Defines, Reserves
    <2>2. Len(insns[i].exprs) \in Nat
      BY <1>1 DEF IsStatement
    <2> QED
      BY <1>2, <1>3, <2>1, <2>2
  <1>5. CASE insns[i].kind = "byte" => ~OutOfRange(i, Fields(i, values)[1])
    BY <1>4, <1>5, WrittenIsSize
  <1>6. CASE insns[i].kind = "byte" /\ OutOfRange(i, Fields(i, values)[1])
    <2>1. insns[i].kind \notin Reserves \cup {"const"} /\ insns[i].kind # "ncall"
          /\ insns[i].kind \in OneExpr
      BY <1>6 DEF Reserves, OneExpr
    <2>2. Len(insns[i].exprs) = 1
      BY <1>1, <2>1 DEF IsStatement
    <2>3. 1 \in DOMAIN values
      BY <1>2, <1>3, <2>1, <2>2
    <2>4. errors' # errors /\ errors' >= errors /\ errors \in Nat /\ errors' \in Nat
      <3>1. errors' # errors
        BY <1>6, <2>3, Zenon DEF Pass2Of
      <3> QED
        BY <3>1, Zenon DEF Pass2Of, TypeOK
    <2>5. errors' >= errors + 1
      BY <2>4
    <2>6. Written(i, Fields(i, values)) = 1
      BY <1>6, Zenon DEF Written
    <2>7. Size(insns[i], reserved[i]) = 2
      BY <1>6 DEF Size, Machine, MachineSize
    <2> QED
      BY <2>5, <2>6, <2>7
  <1> QED
    BY <1>5, <1>6

\* Pass 2 writes an instruction where pass 1 has put it.
LEMMA Pass2Writes ==
  ASSUME TypeOK, LayoutOK, BodyOK, NEW i, NEW values, Pass2Of(i, values), ~Wraps, errors' = 0
  PROVE  /\ Len(body') = End(i)
         /\ \A n \in 1 .. End(i) :
              /\ body'[n].what # "hash"
              /\ body'[n].what = "insn" => n = start_addr[body'[n].of] + body'[n].part
         /\ \A k \in 1 .. i : \A part \in 1 .. Size(insns[k], reserved[k]) :
              body'[start_addr[k] + part] = [what |-> "insn", of |-> k, part |-> part]
  <1> DEFINE w == Written(i, Fields(i, values))
             p == align_bytes[i]
             s == start_addr[i]
             n0 == Len(body)
  <1>1. errors = 0 /\ pc # "exit_0" /\ pc = "pass_2"
    <2>1. errors \in Nat /\ errors' \in Nat /\ errors' >= errors /\ pc = "pass_2"
      BY Zenon DEF Pass2Of, TypeOK
    <2> DEFINE a == errors
               c == errors'
    <2>4. a \in Nat /\ c \in Nat /\ c >= a /\ c = 0
      BY <2>1
    <2> HIDE DEF a, c
    <2>5. a = 0
      BY <2>4
    <2>2. errors = 0
      BY <2>5 DEF a
    <2>3. pc # "exit_0"
      BY <2>1
    <2> QED
      BY <2>1, <2>2, <2>3
  <1>2. i = emitted + 1 /\ i \in 1 .. Len(start_addr) /\ emitted \in 0 .. Len(start_addr)
    BY <1>1 DEF Pass2Of, TypeOK
  <1>3. /\ Len(start_addr) \in Nat
        /\ \A k \in 0 .. Len(start_addr) : End(k) \in Nat
        /\ \A k \in 1 .. Len(start_addr) :
              /\ Size(insns[k], reserved[k]) \in Nat /\ align_bytes[k] \in Nat
              /\ start_addr[k] = End(k - 1) + align_bytes[k]
              /\ End(k) = start_addr[k] + Size(insns[k], reserved[k])
    BY Laid
  <1>4. w = Size(insns[i], reserved[i])
    <2>1. errors' >= errors + 1 => FALSE
      BY <1>1
    <2> QED
      BY <2>1, Pass2Length
  <1>5. w \in Nat /\ p \in Nat /\ i \in Nat
    BY WrittenIsNat
  <1>6. body \in Seq(Cell)
        /\ body' = body \o Cells("pad", i, p) \o Cells("insn", i, w)
    BY DEF BodyOK, Pass2Of
  <1>7. /\ n0 = End(emitted)
        /\ \A n \in 1 .. End(emitted) :
             /\ body[n].what # "hash"
             /\ body[n].what = "insn" => n = start_addr[body[n].of] + body[n].part
        /\ \A k \in 1 .. emitted : \A part \in 1 .. Size(insns[k], reserved[k]) :
             body[start_addr[k] + part] = [what |-> "insn", of |-> k, part |-> part]
    <2>1. Len(body) = End(emitted) + 0
      BY <1>1 DEF BodyOK
    <2>2. End(emitted) \in Nat
      BY <1>2, <1>3
    <2>3. /\ \A n \in 1 .. End(emitted) :
             /\ body[n].what # "hash"
             /\ body[n].what = "insn" => n = start_addr[body[n].of] + body[n].part
          /\ \A k \in 1 .. emitted : \A part \in 1 .. Size(insns[k], reserved[k]) :
             body[start_addr[k] + part] = [what |-> "insn", of |-> k, part |-> part]
      BY <1>1, Zenon DEF BodyOK
    <2> QED
      BY <2>1, <2>2, <2>3
  <1> HIDE DEF w, p
  <1>8. /\ n0 \in Nat /\ Len(body') = n0 + p + w
        /\ \A n \in 1 .. n0 : body'[n] = body[n]
        /\ \A n \in n0 + 1 .. n0 + p : body'[n].what = "pad"
        /\ \A part \in 1 .. w :
             body'[(n0 + p) + part] = [what |-> "insn", of |-> i, part |-> part]
    <2> DEFINE b == body
               c == b \o Cells("pad", i, p) \o Cells("insn", i, w)
    <2>1. b \in Seq(Cell) /\ body' = c
      BY <1>6
    <2> HIDE DEF b
    <2>2. Grown(b, c, i, p, w)
      BY <1>5, <2>1, BodyGrows
    <2> HIDE DEF c
    <2> QED
      BY <2>1, <2>2, Zenon DEF b, n0, Grown
  <1>9. s = n0 + p /\ End(i) = s + w
    <2>1. s = End(i - 1) + p /\ End(i) = s + w
      BY <1>2, <1>3, <1>4 DEF p
    <2>2. i - 1 = emitted
      BY <1>2
    <2> QED
      BY <1>7, <2>1, <2>2
  <1> HIDE DEF s, n0
  <1>10. ASSUME NEW n \in 1 .. End(i)
         PROVE  /\ body'[n].what # "hash"
                /\ body'[n].what = "insn" => n = start_addr[body'[n].of] + body'[n].part
    <2>1. CASE n \in 1 .. n0
      BY <1>7, <1>8, <2>1
    <2>2. CASE n \in n0 + 1 .. n0 + p
      <3>1. body'[n].what = "pad"
        BY <1>8, <2>2
      <3> QED
        BY <3>1
    <2>3. CASE n \in (n0 + p) + 1 .. (n0 + p) + w
      <3> DEFINE part == n - s
      <3>1. part \in 1 .. w /\ n = s + part
        BY <1>5, <1>8, <1>9, <2>3
      <3> HIDE DEF part
      <3>2. body'[n] = [what |-> "insn", of |-> i, part |-> part]
        BY <1>8, <1>9, <3>1
      <3> QED
        BY <3>1, <3>2 DEF s
    <2>4. n \in 1 .. n0 \/ n \in n0 + 1 .. n0 + p \/ n \in (n0 + p) + 1 .. (n0 + p) + w
      BY <1>5, <1>8, <1>9
    <2> QED
      BY <2>1, <2>2, <2>3, <2>4
  <1>11. ASSUME NEW k \in 1 .. i, NEW part \in 1 .. Size(insns[k], reserved[k])
         PROVE  body'[start_addr[k] + part] = [what |-> "insn", of |-> k, part |-> part]
    <2>1. CASE k = i
      <3>1. part \in 1 .. w /\ start_addr[k] = n0 + p
        BY <1>4, <1>9, <2>1 DEF s
      <3> QED
        BY <1>8, <2>1, <3>1
    <2>2. CASE k # i
      <3>1. k \in 1 .. emitted /\ k \in 1 .. Len(start_addr) /\ k \in 0 .. Len(start_addr)
            /\ emitted \in k .. Len(start_addr) /\ k - 1 \in 0 .. Len(start_addr)
        BY <1>2, <1>3, <1>5, <2>2
      <3>2. End(k) <= End(emitted)
        BY <3>1, EndsGrow
      <3> DEFINE a == start_addr[k]
                 z == Size(insns[k], reserved[k])
                 e == End(k)
                 d == End(k - 1)
                 q == align_bytes[k]
      <3>3. z \in Nat /\ q \in Nat /\ a = d + q /\ e = a + z /\ d \in Nat /\ e <= n0 /\ part \in 1 .. z
        BY <1>3, <1>7, <3>1, <3>2
      <3> HIDE DEF a, z, e, d, q
      <3>4. a + part \in 1 .. n0
        BY <1>8, <3>3
      <3>5. body'[a + part] = body[a + part]
        BY <1>8, <3>4
      <3>6. body[a + part] = [what |-> "insn", of |-> k, part |-> part]
        BY <1>7, <3>1 DEF a
      <3> QED
        BY <3>5, <3>6 DEF a
    <2> QED
      BY <2>1, <2>2
  <1>12. Len(body') = End(i)
    BY <1>5, <1>8, <1>9
  <1> QED
    BY <1>10, <1>11, <1>12

LEMMA Pass2KeepsBody ==
  ASSUME TypeOK, LayoutOK, BodyOK, NEW i, NEW values, Pass2Of(i, values)
  PROVE  BodyOK'
  <1>1. UNCHANGED <<insns, ncalls, start_addr, align_bytes, reserved, bss_va>>
        /\ emitted' = i /\ i = emitted + 1 /\ InFile(i)
        /\ pc' # "exit_0"
    BY DEF Pass2Of, symbols, layout
  <1>2. body' \in Seq(Cell)
    <2>1. body \in Seq(Cell)
          /\ body' = body \o Cells("pad", i, align_bytes[i])
                          \o Cells("insn", i, Written(i, Fields(i, values)))
      BY DEF BodyOK, Pass2Of
    <2>2. Written(i, Fields(i, values)) \in Nat /\ align_bytes[i] \in Nat /\ i \in Nat
      BY WrittenIsNat
    <2> DEFINE w == Written(i, Fields(i, values))
               p == align_bytes[i]
               c == body \o Cells("pad", i, p) \o Cells("insn", i, w)
    <2> HIDE DEF w, p
    <2>3. w \in Nat /\ p \in Nat
      BY <2>2 DEF w, p
    <2>4. Grown(body, c, i, p, w)
      BY <2>1, <2>2, <2>3, BodyGrows
    <2>5. c \in Seq(Cell)
      <3> HIDE DEF c
      <3> QED
        BY <2>4, Zenon DEF Grown
    <2> QED
      BY <2>1, <2>5, Zenon DEF w, p
  <1>3. \A j \in 1 .. i : start_addr[j] < bss_va
    <2>1. \A j \in 1 .. emitted : start_addr[j] < bss_va
      BY Zenon DEF BodyOK
    <2>2. emitted \in Nat
      BY LenProperties DEF TypeOK
    <2>4. i = emitted + 1
      BY <1>1
    <2>3. \A j \in 1 .. i : j \in 1 .. emitted \/ j = i
      BY <2>2, <2>4
    <2> QED
      BY <1>1, <2>1, <2>3 DEF InFile
  <1> DEFINE G(k) == IF k = 0 THEN 0 ELSE start_addr'[k] + Size(insns'[k], reserved'[k])
  <1>4. \A k : G(k) = End(k)
    BY <1>1, Zenon DEF End
  <1>5. Wraps' = Wraps
    BY <1>1 DEF Wraps
  <1>6. ASSUME ~Wraps, errors' = 0
        PROVE  /\ Len(body') = End(i)
               /\ \A n \in 1 .. End(i) :
                    /\ body'[n].what # "hash"
                    /\ body'[n].what = "insn" => n = start_addr[body'[n].of] + body'[n].part
               /\ \A k \in 1 .. i : \A part \in 1 .. Size(insns[k], reserved[k]) :
                    body'[start_addr[k] + part] = [what |-> "insn", of |-> k, part |-> part]
               /\ End(i) + 0 = End(i)
    <2>1. i \in 0 .. Len(start_addr)
      <3>1. i \in 1 .. Len(insns) /\ Len(start_addr) = Len(insns)
        BY DEF Pass2Of, TypeOK
      <3> QED
        BY <3>1
    <2>2. End(i) \in Nat
      BY <1>6, <2>1, Laid
    <2>3. End(i) + 0 = End(i)
      BY <2>2
    <2> QED
      BY <1>6, <2>3, Pass2Writes
  <1> HIDE DEF G
  <1>7. /\ \A j \in 1 .. emitted' : start_addr'[j] < bss_va'
        /\ ~(Wraps') /\ errors' = 0 =>
             /\ Len(body') = G(emitted') + (IF pc' = "exit_0" THEN 4 * Len(ncalls') ELSE 0)
             /\ \A n \in 1 .. G(emitted') :
                  /\ body'[n].what # "hash"
                  /\ body'[n].what = "insn" => n = start_addr'[body'[n].of] + body'[n].part
             /\ \A k \in 1 .. emitted' : \A part \in 1 .. Size(insns'[k], reserved'[k]) :
                  body'[start_addr'[k] + part] = [what |-> "insn", of |-> k, part |-> part]
    BY <1>1, <1>3, <1>4, <1>5, <1>6, Zenon
  <1> HIDE DEF Wraps
  <1> QED
    BY <1>1, <1>2, <1>7, Zenon DEF BodyOK, End, G

\* The hashes end the file.
LEMMA HashesBehind ==
  ASSUME TypeOK, EndPass2, body \in Seq(Cell)
  PROVE  /\ Len(body) \in Nat /\ 4 * Len(ncalls) \in Nat
         /\ body' \in Seq(Cell) /\ Len(body') = Len(body) + 4 * Len(ncalls)
         /\ \A n \in 1 .. Len(body) : body'[n] = body[n]
         /\ \A n \in 1 .. 4 * Len(ncalls) : body'[Len(body) + n] = Hashes[n]
  <1> DEFINE m == Len(body)
             h == 4 * Len(ncalls)
             hs == Hashes
  <1>1. h \in Nat /\ hs \in Seq(Cell) /\ Len(hs) = h
    BY HashesAre
  <1> DEFINE e == body \o hs
  <1>3. body' = e
    BY DEF EndPass2
  <1> HIDE DEF h, hs
  <1>2. e \in Seq(Cell) /\ m \in Nat /\ Len(e) = m + h
        /\ (\A n \in 1 .. m + h : e[n] = IF n <= m THEN body[n] ELSE hs[n - m])
    BY <1>1, ConcatProperties, LenProperties
  <1> HIDE DEF e, m
  <1>4. \A n \in 1 .. m : n \in 1 .. m + h /\ n <= m
    BY <1>1, <1>2
  <1>5. \A n \in 1 .. h : m + n \in 1 .. m + h /\ ~(m + n <= m) /\ (m + n) - m = n
    BY <1>1, <1>2
  <1>6. \A n \in 1 .. m : e[n] = body[n]
    BY <1>2, <1>4
  <1>7. \A n \in 1 .. h : e[m + n] = hs[n]
    BY <1>2, <1>5
  <1> QED
    BY <1>1, <1>2, <1>3, <1>6, <1>7 DEF hs, m, h

LEMMA EndPass2KeepsBody ==
  ASSUME TypeOK, LayoutOK, BodyOK, EndPass2
  PROVE  BodyOK'
  <1>1. UNCHANGED <<insns, ncalls, start_addr, align_bytes, reserved, bss_va, emitted, errors>>
        /\ pc = "pass_2" /\ body' = body \o Hashes
    BY DEF EndPass2, symbols, layout
  <1>2. body \in Seq(Cell) /\ \A j \in 1 .. emitted : start_addr[j] < bss_va
    BY Zenon DEF BodyOK
  <1>3. /\ Len(ncalls) \in Nat /\ Hashes \in Seq(Cell) /\ Len(Hashes) = 4 * Len(ncalls)
    BY HashesAre
  <1> DEFINE m == Len(body)
             h == 4 * Len(ncalls)
             hs == Hashes
  <1>4. /\ m \in Nat /\ body' \in Seq(Cell) /\ Len(body') = m + h /\ h \in Nat
        /\ \A n \in 1 .. m : body'[n] = body[n]
        /\ \A n \in 1 .. h : body'[m + n] = Hashes[n]
    BY <1>2, HashesBehind
  <1> DEFINE G(k) == IF k = 0 THEN 0 ELSE start_addr'[k] + Size(insns'[k], reserved'[k])
  <1>5. \A k : G(k) = End(k)
    BY <1>1, Zenon DEF End
  <1>6. Wraps' = Wraps
    BY <1>1 DEF Wraps
  <1>7. ASSUME ~Wraps, errors = 0
        PROVE  /\ Len(body') = End(emitted) + h /\ pc' = "exit_0"
               /\ \A n \in 1 .. End(emitted) :
                    /\ body'[n].what # "hash"
                    /\ body'[n].what = "insn" => n = start_addr[body'[n].of] + body'[n].part
               /\ \A k \in 1 .. emitted : \A part \in 1 .. Size(insns[k], reserved[k]) :
                    body'[start_addr[k] + part] = [what |-> "insn", of |-> k, part |-> part]
               /\ \A n \in 1 .. h : body'[End(emitted) + n] = Hashes[n]
    <2>1. pc' = "exit_0"
      BY <1>7, StageNames DEF EndPass2
    <2>2. emitted \in 0 .. Len(start_addr)
      BY <1>1 DEF TypeOK
    <2>3. End(emitted) \in Nat
      BY <1>7, <2>2, Laid
    <2>4. m = End(emitted)
          /\ \A n \in 1 .. End(emitted) :
               /\ body[n].what # "hash"
               /\ body[n].what = "insn" => n = start_addr[body[n].of] + body[n].part
          /\ \A k \in 1 .. emitted : \A part \in 1 .. Size(insns[k], reserved[k]) :
               body[start_addr[k] + part] = [what |-> "insn", of |-> k, part |-> part]
      <3>1. m = End(emitted) + 0
        BY <1>1, <1>7 DEF BodyOK
      <3>2. m = End(emitted)
        BY <2>3, <3>1
      <3> HIDE DEF m
      <3> QED
        BY <1>7, <3>2, Zenon DEF BodyOK
    <2>6. \A k \in 1 .. emitted : \A part \in 1 .. Size(insns[k], reserved[k]) :
            body[start_addr[k] + part] = [what |-> "insn", of |-> k, part |-> part]
      BY <1>7, Zenon DEF BodyOK
    <2> HIDE DEF m, h
    <2>5. ASSUME NEW k \in 1 .. emitted, NEW part \in 1 .. Size(insns[k], reserved[k])
          PROVE  body'[start_addr[k] + part] = [what |-> "insn", of |-> k, part |-> part]
      <3>1. k \in 1 .. Len(start_addr) /\ k \in 0 .. Len(start_addr)
            /\ emitted \in k .. Len(start_addr) /\ k - 1 \in 0 .. Len(start_addr)
        BY <2>2
      <3>2. End(k) <= End(emitted)
        BY <1>7, <3>1, EndsGrow
      <3> DEFINE a == start_addr[k]
                 z == Size(insns[k], reserved[k])
                 e == End(k)
                 d == End(k - 1)
                 q == align_bytes[k]
      <3>3. z \in Nat /\ q \in Nat /\ a = d + q /\ e = a + z /\ d \in Nat /\ e <= m /\ part \in 1 .. z
        BY <1>7, <2>4, <3>1, <3>2, Laid
      <3> HIDE DEF a, z, e, d, q
      <3>4. a + part \in 1 .. m
        BY <1>4, <3>3
      <3>5. body'[a + part] = body[a + part]
        BY <1>4, <3>4
      <3>6. body[start_addr[k] + part] = [what |-> "insn", of |-> k, part |-> part]
        BY <2>6
      <3> QED
        BY <3>5, <3>6, Zenon DEF a
    <2> QED
      BY <1>4, <2>1, <2>4, <2>5
  <1> HIDE DEF G, m
  <1>8. /\ \A j \in 1 .. emitted' : start_addr'[j] < bss_va'
        /\ ~(Wraps') /\ errors' = 0 =>
             /\ Len(body') = G(emitted') + (IF pc' = "exit_0" THEN 4 * Len(ncalls') ELSE 0)
             /\ \A n \in 1 .. G(emitted') :
                  /\ body'[n].what # "hash"
                  /\ body'[n].what = "insn" => n = start_addr'[body'[n].of] + body'[n].part
             /\ \A k \in 1 .. emitted' : \A part \in 1 .. Size(insns'[k], reserved'[k]) :
                  body'[start_addr'[k] + part] = [what |-> "insn", of |-> k, part |-> part]
             /\ pc' = "exit_0" =>
                  \A n \in 1 .. 4 * Len(ncalls') : body'[G(emitted') + n] = Hashes[n]
    BY <1>1, <1>2, <1>5, <1>6, <1>7, Zenon
  <1>9. Hashes' = Hashes
    BY <1>1, Zenon DEF Hashes
  <1> HIDE DEF h, hs
  <1> DEFINE H == Hashes'
  <1>10. /\ ~(Wraps') /\ errors' = 0 =>
             /\ Len(body') = G(emitted') + (IF pc' = "exit_0" THEN 4 * Len(ncalls') ELSE 0)
             /\ \A n \in 1 .. G(emitted') :
                  /\ body'[n].what # "hash"
                  /\ body'[n].what = "insn" => n = start_addr'[body'[n].of] + body'[n].part
             /\ \A k \in 1 .. emitted' : \A part \in 1 .. Size(insns'[k], reserved'[k]) :
                  body'[start_addr'[k] + part] = [what |-> "insn", of |-> k, part |-> part]
             /\ pc' = "exit_0" =>
                  \A n \in 1 .. 4 * Len(ncalls') : body'[G(emitted') + n] = H[n]
    BY <1>8, <1>9, Zenon
  <1> HIDE DEF H
  <1> QED
    BY <1>4, <1>8, <1>10, Zenon DEF BodyOK, End, G, H

\* Before pass 2 nothing is written.
Unwritten == emitted = 0 /\ body = <<>> /\ pc # "exit_0"

LEMMA EmptyBody ==
  ASSUME Unwritten'
  PROVE  BodyOK'
  <1>0. emitted' = 0 /\ body' = <<>> /\ pc' # "exit_0"
    BY DEF Unwritten
  <1>1. body' \in Seq(Cell) /\ Len(body') = 0 /\ 1 .. 0 = {}
    <2>1. <<>> \in Seq(Cell) /\ Len(<<>>) = 0 /\ 1 .. 0 = {}
      OBVIOUS
    <2> QED
      BY <1>0, <2>1
  <1> DEFINE G(k) == IF k = 0 THEN 0 ELSE start_addr'[k] + Size(insns'[k], reserved'[k])
  <1>2. G(emitted') = 0
    BY <1>0
  <1> HIDE DEF G
  <1>3. Len(body') = G(emitted') + (IF pc' = "exit_0" THEN 4 * Len(ncalls') ELSE 0)
    <2>2. 0 = 0 + 0
      OBVIOUS
    <2>1. (IF pc' = "exit_0" THEN 4 * Len(ncalls') ELSE 0) = 0
      BY <1>0
    <2> QED
      BY <1>1, <1>2, <2>1, <2>2, Zenon
  <1>4. 1 .. emitted' = {} /\ 1 .. G(emitted') = {}
    BY <1>0, <1>1, <1>2
  <1> QED
    BY <1>0, <1>1, <1>3, <1>4, Zenon DEF BodyOK, End, G

\* A failed write, and the loader, leave it alone.
LEMMA BodyStays ==
  ASSUME BodyOK, UNCHANGED <<insns, ncalls, layout, errors, emitted, body>>,
         pc' = "exit_0" <=> pc = "exit_0"
  PROVE  BodyOK'
  <1>1. UNCHANGED <<insns, ncalls, start_addr, align_bytes, reserved, bss_va, errors, emitted, body>>
    BY DEF layout
  <1>2. Hashes' = Hashes
    BY <1>1, Zenon DEF Hashes
  <1>3. Wraps' = Wraps
    BY <1>1 DEF Wraps
  <1> DEFINE G(k) == IF k = 0 THEN 0 ELSE start_addr'[k] + Size(insns'[k], reserved'[k])
             H == Hashes'
  <1>4. \A k : G(k) = End(k)
    BY <1>1, Zenon DEF End
  <1> DEFINE e == IF pc = "exit_0" THEN 4 * Len(ncalls) ELSE 0
  <1>5. e = (IF pc' = "exit_0" THEN 4 * Len(ncalls') ELSE 0)
    BY <1>1
  <1> HIDE DEF G, H
  <1>6. /\ body \in Seq(Cell)
        /\ \A i \in 1 .. emitted : start_addr[i] < bss_va
        /\ ~Wraps /\ errors = 0 =>
             /\ Len(body) = End(emitted) + e
             /\ \A n \in 1 .. End(emitted) :
                  /\ body[n].what # "hash"
                  /\ body[n].what = "insn" => n = start_addr[body[n].of] + body[n].part
             /\ \A i \in 1 .. emitted : \A part \in 1 .. Size(insns[i], reserved[i]) :
                  body[start_addr[i] + part] = [what |-> "insn", of |-> i, part |-> part]
             /\ pc = "exit_0" =>
                  \A n \in 1 .. 4 * Len(ncalls) : body[End(emitted) + n] = Hashes[n]
    BY Zenon DEF BodyOK
  <1> HIDE DEF e
  <1>9. body' \in Seq(Cell) /\ \A j \in 1 .. emitted' : start_addr'[j] < bss_va'
    BY <1>1, <1>6
  <1>10. ASSUME ~Wraps, errors = 0
         PROVE  /\ Len(body') = G(emitted') + e
                /\ \A n \in 1 .. G(emitted') :
                     /\ body'[n].what # "hash"
                     /\ body'[n].what = "insn" => n = start_addr'[body'[n].of] + body'[n].part
    <2>1. /\ Len(body) = End(emitted) + e
          /\ \A n \in 1 .. End(emitted) :
               /\ body[n].what # "hash"
               /\ body[n].what = "insn" => n = start_addr[body[n].of] + body[n].part
      BY <1>6, <1>10
    <2>2. G(emitted') = End(emitted)
      BY <1>1, <1>4
    <2> QED
      BY <1>1, <2>1, <2>2, Zenon
  <1>11. ASSUME ~Wraps, errors = 0
         PROVE  /\ \A k \in 1 .. emitted' : \A part \in 1 .. Size(insns'[k], reserved'[k]) :
                     body'[start_addr'[k] + part] = [what |-> "insn", of |-> k, part |-> part]
                /\ pc' = "exit_0" =>
                     \A n \in 1 .. 4 * Len(ncalls') : body'[G(emitted') + n] = H[n]
    <2>1. \A i \in 1 .. emitted : \A part \in 1 .. Size(insns[i], reserved[i]) :
                  body[start_addr[i] + part] = [what |-> "insn", of |-> i, part |-> part]
      BY <1>6, <1>11, Zenon
    <2>2. pc = "exit_0" =>
                  \A n \in 1 .. 4 * Len(ncalls) : body[End(emitted) + n] = Hashes[n]
      BY <1>6, <1>11, Zenon
    <2>3. G(emitted') = End(emitted) /\ H = Hashes
      BY <1>1, <1>2, <1>4 DEF H
    <2>4. pc' = "exit_0" =>
            \A n \in 1 .. 4 * Len(ncalls') : body'[G(emitted') + n] = H[n]
      BY <1>1, <2>2, <2>3
    <2>5. \A k \in 1 .. emitted' : \A part \in 1 .. Size(insns'[k], reserved'[k]) :
                     body'[start_addr'[k] + part] = [what |-> "insn", of |-> k, part |-> part]
      BY <1>1, <2>1
    <2> QED
      BY <2>4, <2>5
  <1>7. /\ body' \in Seq(Cell)
        /\ \A j \in 1 .. emitted' : start_addr'[j] < bss_va'
        /\ ~(Wraps') /\ errors' = 0 =>
             /\ Len(body') = G(emitted') + e
             /\ \A n \in 1 .. G(emitted') :
                  /\ body'[n].what # "hash"
                  /\ body'[n].what = "insn" => n = start_addr'[body'[n].of] + body'[n].part
             /\ \A k \in 1 .. emitted' : \A part \in 1 .. Size(insns'[k], reserved'[k]) :
                  body'[start_addr'[k] + part] = [what |-> "insn", of |-> k, part |-> part]
             /\ pc' = "exit_0" =>
                  \A n \in 1 .. 4 * Len(ncalls') : body'[G(emitted') + n] = H[n]
    BY <1>1, <1>3, <1>9, <1>10, <1>11, Zenon
  <1>8. ~(Wraps') /\ errors' = 0 =>
             /\ Len(body') = G(emitted') + (IF pc' = "exit_0" THEN 4 * Len(ncalls') ELSE 0)
    BY <1>5, <1>7, Zenon
  <1> QED
    BY <1>7, <1>8, Zenon DEF BodyOK, End, G, H

-----------------------------------------------------------------------------
\* The scopes.

LEMMA ScopeStep ==
  ASSUME NEW prog, NEW i \in Nat \ {0}
  PROVE  ScopeIn(prog, i) =
           IF prog[i].kind = "sub" THEN i
           ELSE IF prog[i].kind = "endsub" THEN Globals ELSE ScopeIn(prog, i - 1)
  <1> DEFINE M(k) == {m \in 1 .. k : prog[m].kind \in {"sub", "endsub"}}
  <1>1. CASE Mark(prog[i])
    <2>1. i \in M(i) /\ \A m \in M(i) : m \in Nat /\ i >= m
      BY <1>1 DEF Mark
    <2>2. Max(M(i)) = i
      <3> DEFINE S == M(i)
      <3>1. i \in S /\ \A m \in S : m \in Nat /\ i >= m
        BY <2>1
      <3> HIDE DEF S
      <3>2. \A x \in S : (\A m \in S : x >= m) <=> x = i
        BY <3>1
      <3>3. Max(S) = i
        BY <3>1, <3>2 DEF Max
      <3> QED
        BY <3>3 DEF S
    <2>3. M(i) # {}
      BY <2>1
    <2> HIDE DEF M
    <2>4. ScopeIn(prog, i) = IF prog[i].kind = "endsub" THEN Globals ELSE i
      BY <2>2, <2>3, Zenon DEF ScopeIn, M
    <2>5. prog[i].kind = "sub" \/ prog[i].kind = "endsub"
      BY <1>1 DEF Mark
    <2> QED
      BY <2>4, <2>5
  <1>2. CASE ~Mark(prog[i])
    <2>1. M(i) = M(i - 1)
      <3>1. \A m : m \in 1 .. i <=> m \in 1 .. i - 1 \/ m = i
        OBVIOUS
      <3> QED
        BY <1>2, <3>1 DEF Mark
    <2>2. prog[i].kind # "sub" /\ prog[i].kind # "endsub"
      BY <1>2 DEF Mark
    <2> HIDE DEF M
    <2>3. ScopeIn(prog, i) = ScopeIn(prog, i - 1)
      BY <2>1, Zenon DEF ScopeIn, M
    <2> QED
      BY <2>2, <2>3
  <1> QED
    BY <1>1, <1>2

LEMMA NoScope ==
  ASSUME NEW prog, NEW i \in Nat, \A m \in 1 .. i : ~Mark(prog[m])
  PROVE  ScopeIn(prog, i) = Globals
  <1>1. {m \in 1 .. i : prog[m].kind \in {"sub", "endsub"}} = {}
    BY DEF Mark
  <1> QED
    BY <1>1, Zenon DEF ScopeIn

\* The scope of a line is a matter of the lines before it.
LEMMA ScopeSame ==
  ASSUME NEW p, NEW q, NEW i \in Nat, \A m \in 1 .. i : p[m] = q[m]
  PROVE  ScopeIn(p, i) = ScopeIn(q, i)
  <1> DEFINE S == {k \in Nat : k <= i => ScopeIn(p, k) = ScopeIn(q, k)}
  <1>1. 0 \in S
    <2>1. \A prog : ScopeIn(prog, 0) = Globals
      <3> TAKE prog
      <3>1. \A m \in 1 .. 0 : ~Mark(prog[m])
        OBVIOUS
      <3> QED
        BY <3>1, NoScope
    <2> QED
      BY <2>1
  <1>2. ASSUME NEW k \in Nat, k \in S PROVE k + 1 \in S
    <2> DEFINE j == k + 1
    <2>1. j \in Nat \ {0} /\ j - 1 = k
      OBVIOUS
    <2> HIDE DEF j
    <2>2. ASSUME j <= i PROVE ScopeIn(p, j) = ScopeIn(q, j)
      <3>1. p[j] = q[j] /\ ScopeIn(p, k) = ScopeIn(q, k)
        BY <1>2, <2>1, <2>2
      <3>2. /\ ScopeIn(p, j) = IF p[j].kind = "sub" THEN j
                 ELSE IF p[j].kind = "endsub" THEN Globals ELSE ScopeIn(p, k)
            /\ ScopeIn(q, j) = IF q[j].kind = "sub" THEN j
                 ELSE IF q[j].kind = "endsub" THEN Globals ELSE ScopeIn(q, k)
        BY <2>1, ScopeStep
      <3> QED
        BY <3>1, <3>2
    <2> QED
      BY <2>1, <2>2 DEF j
  <1>3. Nat \subseteq S
    <2> HIDE DEF S
    <2> QED
      BY <1>1, <1>2, Induction
  <1> QED
    BY <1>3

\* A stage that goes on to instruction i is in the scope of the line, as soon as one .SUB or
\* .ENDSUB has come.
LEMMA LookedStep ==
  ASSUME NEW prog, NEW i \in Nat \ {0}
  PROVE  Looked(prog, i) =
           IF prog[i].kind = "sub" THEN i
           ELSE IF prog[i].kind = "endsub" THEN Globals ELSE Looked(prog, i - 1)
  <1> DEFINE Met(k) == \E m \in 1 .. k : Mark(prog[m])
  <1>1. \A k : Looked(prog, k) = ScopeIn(prog, IF Met(k) THEN k ELSE Len(prog))
    BY Zenon DEF Looked
  <1>2. \A m : m \in 1 .. i <=> m \in 1 .. i - 1 \/ m = i
    OBVIOUS
  <1>3. Met(i) <=> Met(i - 1) \/ Mark(prog[i])
    BY <1>2
  <1>4. Mark(prog[i]) <=> prog[i].kind = "sub" \/ prog[i].kind = "endsub"
    BY DEF Mark
  <1> DEFINE j == i - 1
             a == Met(i)
             b == Met(j)
  <1>5. /\ Looked(prog, i) = ScopeIn(prog, IF a THEN i ELSE Len(prog))
        /\ Looked(prog, j) = ScopeIn(prog, IF b THEN j ELSE Len(prog))
    BY <1>1
  <1>6. a <=> b \/ Mark(prog[i])
    BY <1>3
  <1>7. ScopeIn(prog, i) =
           IF prog[i].kind = "sub" THEN i
           ELSE IF prog[i].kind = "endsub" THEN Globals ELSE ScopeIn(prog, j)
    BY ScopeStep
  <1> HIDE DEF j, a, b
  <1>8. CASE Mark(prog[i])
    BY <1>4, <1>5, <1>6, <1>7, <1>8 DEF j
  <1>9. CASE ~Mark(prog[i]) /\ b
    BY <1>4, <1>5, <1>6, <1>7, <1>9 DEF j
  <1>10. CASE ~Mark(prog[i]) /\ ~b
    BY <1>4, <1>5, <1>6, <1>10 DEF j
  <1> QED
    BY <1>8, <1>9, <1>10

LEMMA LookedEnds ==
  ASSUME NEW prog
  PROVE  /\ Looked(prog, 0) = ScopeIn(prog, Len(prog))
         /\ Looked(prog, Len(prog)) = ScopeIn(prog, Len(prog))
  <1>1. ~(\E m \in 1 .. 0 : Mark(prog[m]))
    OBVIOUS
  <1> QED
    BY <1>1, Zenon DEF Looked

\* With every .SUB closed it always is.
LEMMA LookedClosed ==
  ASSUME NEW prog, NEW i \in Nat, ScopeIn(prog, Len(prog)) = Globals
  PROVE  Looked(prog, i) = ScopeIn(prog, i)
  <1>1. CASE \E m \in 1 .. i : Mark(prog[m])
    BY <1>1, Zenon DEF Looked
  <1>2. CASE ~(\E m \in 1 .. i : Mark(prog[m]))
    <2>1. ScopeIn(prog, i) = Globals
      BY <1>2, NoScope
    <2> QED
      BY <1>2, <2>1, Zenon DEF Looked
  <1> QED
    BY <1>1, <1>2

LEMMA EnteredIs ==
  ASSUME NEW insn, NEW at
  PROVE  EnteredScope(insn, at) =
           IF insn.kind = "sub" THEN at
           ELSE IF insn.kind = "endsub" THEN Globals ELSE lookup_stack
  BY DEF EnteredScope

LEMMA Pass1KeepsScope ==
  ASSUME TypeOK, ScopeOK, NEW at, NEW va, NEW value, Pass1Of(at, va, value)
  PROVE  ScopeOK'
  <1>1. at = Len(start_addr) + 1 /\ Len(start_addr) \in Nat /\ Len(start_addr') = at
    BY Pass1Appends
  <1>2. lookup_stack' = EnteredScope(insns[at], at) /\ insns' = insns
        /\ lookup_stack = Looked(insns, Len(start_addr)) /\ pc' \in {"pass_1", "exit_1"}
    BY DEF Pass1Of, ScopeOK, symbols
  <1>3. at \in Nat \ {0} /\ at - 1 = Len(start_addr)
    BY <1>1
  <1>4. lookup_stack' = Looked(insns, at)
    BY <1>2, <1>3, LookedStep, EnteredIs
  <1> QED
    BY <1>1, <1>2, <1>4 DEF ScopeOK

LEMMA Pass2KeepsScope ==
  ASSUME TypeOK, ScopeOK, NEW i, NEW values, Pass2Of(i, values)
  PROVE  ScopeOK' /\ lookup_stack' = Looked(insns, i)
  <1>1. i = emitted + 1 /\ emitted' = i /\ emitted \in Nat
    <2>1. emitted \in Nat
      BY LenProperties DEF TypeOK
    <2>2. i = emitted + 1 /\ emitted' = i
      BY Zenon DEF Pass2Of
    <2> QED
      BY <2>1, <2>2
  <1>2. lookup_stack' = EnteredScope(insns[i], i) /\ insns' = insns
        /\ lookup_stack = Looked(insns, emitted) /\ pc' \in {"pass_2", "exit_1"}
    BY DEF Pass2Of, ScopeOK, symbols
  <1>3. i \in Nat \ {0} /\ i - 1 = emitted
    BY <1>1
  <1>4. lookup_stack' = Looked(insns, i)
    BY <1>2, <1>3, LookedStep, EnteredIs
  <1> QED
    BY <1>1, <1>2, <1>4 DEF ScopeOK

LEMMA ScopesFollow ==
  ASSUME TypeOK, ScopesOK, SymbolsOK, Stages, ScopeOK, VmaNext
  PROVE  ScopeOK'
  <1>1. errors \in Nat /\ insns \in Seq(Statements)
    BY Zenon DEF TypeOK
  <1>2. CASE Parse
    <2>1. PICK insn \in Statements :
            insns' = Append(insns, insn)
              /\ lookup_stack' = EnteredScope(insn, Len(insns) + 1)
              /\ pc' \in {"parse", "exit_1"} /\ pc = "parse"
      BY <1>2, Zenon DEF Parse, Then
    <2> DEFINE n == Len(insns)
               i == n + 1
    <2>2. n \in Nat /\ Len(insns') = i /\ insns'[i] = insn /\ \A m \in 1 .. n : insns'[m] = insns[m]
      <3>1. n \in Nat /\ i = n + 1
        BY <1>1, LenProperties
      <3> DEFINE q == insns'
      <3>2. q = Append(insns, insn)
        BY <2>1
      <3> HIDE DEF q
      <3>3. Len(q) = n + 1 /\ q[n + 1] = insn /\ \A m \in 1 .. n : q[m] = insns[m]
        BY <1>1, <3>2, AppendProperties
      <3> QED
        BY <3>1, <3>3 DEF q
    <2>3. i \in Nat \ {0} /\ i - 1 = n
      BY <2>2
    <2>4. lookup_stack = ScopeIn(insns, n)
      BY <2>1 DEF ScopeOK
    <2>5. ScopeIn(insns', n) = ScopeIn(insns, n)
      <3> DEFINE p == insns'
                 q == insns
      <3>1. \A m \in 1 .. n : p[m] = q[m]
        BY <2>2
      <3> HIDE DEF p, q, n
      <3>2. ScopeIn(p, n) = ScopeIn(q, n)
        BY <2>2, <3>1, ScopeSame
      <3> QED
        BY <3>2 DEF p, q
    <2> HIDE DEF i, n
    <2>6. lookup_stack' = ScopeIn(insns', i)
      <3> DEFINE p == insns'
      <3>1. ScopeIn(p, i) = IF p[i].kind = "sub" THEN i
             ELSE IF p[i].kind = "endsub" THEN Globals ELSE ScopeIn(p, n)
        BY <2>3, ScopeStep
      <3>2. lookup_stack' = IF insn.kind = "sub" THEN i
             ELSE IF insn.kind = "endsub" THEN Globals ELSE lookup_stack
        BY <2>1, EnteredIs DEF i, n
      <3> QED
        BY <2>2, <2>4, <2>5, <3>1, <3>2
    <2> QED
      BY <2>1, <2>2, <2>6 DEF ScopeOK
  <1>3. CASE SyntaxError \/ EndsBroken
    <2>1. PICK label : Abandon(label) /\ pc' \in {"parse", "pass_1", "exit_1"}
      BY <1>3, Zenon DEF SyntaxError, EndsBroken, Then, IfClean
    <2>2. start_addr' = <<>> /\ insns' = insns /\ lookup_stack' = ScopeIn(insns, Len(insns))
      BY <2>1 DEF Abandon, Stages, layout, ScopeOK
    <2>3. Len(start_addr') = 0
      BY <2>2
    <2> QED
      BY <2>1, <2>2, <2>3, LookedEnds DEF ScopeOK
  <1>4. CASE EndParse
    <2>1. pc' \in {"pass_1", "exit_1"}
      BY <1>1, <1>4, StageNames DEF EndParse
    <2>2. start_addr' = <<>> /\ insns' = insns /\ lookup_stack' = ScopeIn(insns, Len(insns))
      BY <1>4 DEF EndParse, Stages, layout, symbols, ScopeOK
    <2>3. Len(start_addr') = 0
      BY <2>2
    <2> QED
      BY <2>1, <2>2, <2>3, LookedEnds DEF ScopeOK
  <1>5. CASE Pass1
    <2>1. PICK at, va, value : Pass1Of(at, va, value)
      BY <1>5, Pass1Is
    <2> QED
      BY <2>1, Pass1KeepsScope
  <1>6. CASE EndPass1
    <2>1. pc' \in {"pass_2", "exit_1"}
      BY <1>1, <1>6, StageNames DEF EndPass1
    <2>2. emitted' = 0 /\ insns' = insns /\ lookup_stack' = Looked(insns, Len(insns))
      BY <1>6 DEF EndPass1, Stages, symbols, ScopeOK
    <2> QED
      BY <2>1, <2>2, LookedEnds DEF ScopeOK
  <1>7. CASE Pass2
    <2>1. PICK i, values : Pass2Of(i, values)
      BY <1>7, Pass2Is
    <2> QED
      BY <2>1, Pass2KeepsScope
  <1>8. CASE WriteFails
    BY <1>8 DEF WriteFails, ScopeOK
  <1>9. CASE EndPass2
    <2>1. pc' \in {"exit_0", "exit_1"}
      BY <1>1, <1>9, StageNames DEF EndPass2
    <2> QED
      BY <2>1 DEF ScopeOK
  <1> QED
    BY <1>2, <1>3, <1>4, <1>5, <1>6, <1>7, <1>8, <1>9 DEF VmaNext

-----------------------------------------------------------------------------
\* Where branches lead.

\* An offset that fits its field leads from b to t again.
LEMMA OffsetLeads ==
  ASSUME NEW b \in Nat, NEW t \in Addresses, NEW f, f = (t - b) % ADDRS
  PROVE  /\ f \in Addresses /\ (b + (f % ADDRS)) % ADDRS = t
         /\ Signed(f) \in -(BYTES \div 2) .. BYTES \div 2 - 1 =>
              (b + ByteSigned(f % BYTES)) % ADDRS = t
  <1> DEFINE a == ADDRS
             B == BYTES
  <1>1. a \in Nat \ {0} /\ B \in Nat \ {0} /\ B % 2 = 0 /\ a % B = 0 /\ Addresses = 0 .. a - 1
    BY Constraints, VmaAssumption
  <1>2. f = (t - b) % a
    OBVIOUS
  <1>3. Signed(f) = (IF f >= a \div 2 THEN f - a ELSE f)
        /\ \A x : ByteSigned(x) = (IF x >= B \div 2 THEN x - B ELSE x)
    BY Zenon DEF Signed, ByteSigned
  <1> HIDE DEF a, B
  <1>4. t \in 0 .. a - 1 /\ t \in Int
    BY <1>1
  <1>5. f \in 0 .. a - 1 /\ f % a = f
    BY <1>1, <1>2, <1>4
  <1>6. PICK q \in Int : t - b = a * q + f
    <2> DEFINE x == t - b
    <2>1. x \in Int /\ f = x % a
      BY <1>2, <1>4
    <2> HIDE DEF x
    <2>2. x = a * (x \div a) + f /\ x \div a \in Int
      BY <1>1, <2>1
    <2> QED
      BY <2>2 DEF x
  <1>7. \A y \in Int : \A k \in Int : y = f + a * k => (b + y) % a = t
    <2> TAKE y \in Int
    <2> TAKE k \in Int
    <2> HAVE y = f + a * k
    <2> DEFINE z == b + y
               r == k - q
    <2>1. a * k - a * q = a * r
      BY <1>1
    <2> DEFINE u == a * k
               v == a * q
               w == a * r
    <2>2. u \in Int /\ v \in Int /\ w \in Int
      BY <1>1
    <2>3. y = f + u /\ t - b = v + f /\ u - v = w
      BY <1>6, <2>1
    <2> HIDE DEF u, v, w
    <2>4. z = w + t
      BY <1>4, <1>5, <2>2, <2>3
    <2>5. z = a * r + t /\ z \in Int /\ r \in Int
      BY <1>4, <2>4 DEF w
    <2> HIDE DEF z, r
    <2>6. z % a = t
      BY <1>1, <1>4, <2>5, DivisionUnique
    <2> QED
      BY <2>6 DEF z
  <1>8. (b + (f % a)) % a = t
    <2>1. f = f + a * 0
      BY <1>1, <1>5
    <2> QED
      BY <1>5, <1>7, <2>1
  <1>9. ASSUME Signed(f) \in -(B \div 2) .. B \div 2 - 1
        PROVE  (b + ByteSigned(f % B)) % a = t
    <2> DEFINE h == B \div 2
               g == a \div 2
               x == Signed(f)
               c == a \div B
    <2>1. h \in Nat /\ B = h + h /\ g \in Nat
      BY <1>1
    <2>2. a = B * c /\ c \in Int
      BY <1>1
    <2>3. x \in -h .. h - 1
      BY <1>9
    <2>4. x = (IF f >= g THEN f - a ELSE f)
      BY <1>3
    <2> HIDE DEF h, g, x, c
    <2>5. x \in Int /\ (x = f \/ x = f - a)
      BY <1>1, <1>5, <2>3, <2>4
    <2>6. ByteSigned(f % B) = x
      <3> DEFINE r == IF x < 0 THEN x + B ELSE x
                 d == IF x = f THEN 0 ELSE c
                 e == IF x < 0 THEN d - 1 ELSE d
      <3>1. r \in 0 .. B - 1 /\ r \in Int
        BY <1>1, <2>1, <2>3, <2>5
      <3>2. f = B * d + x
        <4>1. CASE x = f
          BY <1>1, <2>5, <4>1
        <4>2. CASE x # f
          BY <1>1, <1>5, <2>2, <2>5, <4>2
        <4> QED
          BY <4>1, <4>2
      <3>3. d \in Int /\ e \in Int
        BY <2>2
      <3>4. f = B * e + r
        <4> HIDE DEF d
        <4>1. CASE x < 0
          <5>1. B * (d - 1) = B * d - B
            BY <1>1, <3>3
          <5> DEFINE u == B * d
                     v == B * (d - 1)
          <5>2. u \in Int /\ v \in Int /\ v = u - B /\ f = u + x
            BY <1>1, <3>2, <3>3, <5>1
          <5> HIDE DEF u, v
          <5>3. f = v + (x + B)
            BY <1>1, <2>5, <5>2
          <5> QED
            BY <4>1, <5>3 DEF v
        <4>2. CASE ~(x < 0)
          BY <3>2, <4>2
        <4> QED
          BY <4>1, <4>2
      <3> HIDE DEF r, d, e
      <3>5. f % B = r
        <4> DEFINE y == f
        <4>1. y \in Int /\ y = B * e + r
          BY <1>1, <1>5, <3>4
        <4> HIDE DEF y
        <4>2. y % B = r
          BY <1>1, <3>1, <3>3, <4>1, DivisionUnique
        <4> QED
          BY <4>2 DEF y
      <3>6. ByteSigned(f % B) = (IF r >= h THEN r - B ELSE r)
        BY <1>3, <3>5 DEF h
      <3> QED
        BY <1>1, <2>1, <2>3, <2>5, <3>6 DEF r
    <2>7. \E k \in Int : x = f + a * k
      <3>1. f + a * 0 = f /\ f + a * (-1) = f - a
        BY <1>1, <1>5
      <3> QED
        BY <2>5, <3>1
    <2>8. (b + x) % a = t
      BY <1>7, <2>5, <2>7
    <2> QED
      BY <2>6, <2>8
  <1> QED
    BY <1>1, <1>5, <1>8, <1>9 DEF a, B

LEMMA Pass2Operand ==
  ASSUME TypeOK, NEW i, NEW values, Pass2Of(i, values)
  PROVE  /\ i = emitted + 1 /\ emitted \in Nat /\ i \in 1 .. Len(insns)
         /\ \A k \in 1 .. emitted : operands'[k] = operands[k]
         /\ \A j \in 1 .. Len(values) :
              operands'[i][j] = Fields(i, values)[j] % Width(insns[i].kind)
  <1>1. insns \in Seq(Statements) /\ i \in 1 .. Len(insns) /\ i = emitted + 1
        /\ operands \in Seq(Seq(Nat)) /\ Len(operands) = emitted
        /\ operands' = Append(operands, [j \in DOMAIN Fields(i, values) |->
                                     Fields(i, values)[j] % Width(insns[i].kind)])
    BY Zenon DEF Pass2Of, TypeOK
  <1>2. emitted \in Nat
    BY <1>1, LenProperties
  <1> DEFINE w == Width(insns[i].kind)
             fields == Fields(i, values)
             operand == [j \in DOMAIN fields |-> fields[j] % w]
             q == operands'
  <1>3. w \in Nat \ {0}
    BY WidthIsNat
  <1>4. fields \in Seq(Int) /\ DOMAIN fields = 1 .. Len(values) /\ Len(values) \in Nat
        /\ Len(fields) = Len(values)
    BY FieldsAreNumbers
  <1>5. q = Append(operands, operand)
    BY <1>1, Zenon
  <1> HIDE DEF w, fields, q
  <1>6. \A j \in 1 .. Len(values) : fields[j] \in Int
    BY <1>4, ElementOfSeq
  <1>7. operand \in [1 .. Len(values) -> Nat]
        /\ \A j \in 1 .. Len(values) : operand[j] = fields[j] % w
    BY <1>3, <1>4, <1>6
  <1> HIDE DEF operand
  <1>8. operand \in Seq(Nat)
    BY <1>4, <1>7, TuplesAreSequences
  <1>9. q[emitted + 1] = operand /\ \A k \in 1 .. emitted : q[k] = operands[k]
    BY <1>1, <1>5, <1>8, AppendProperties
  <1>10. q[i] = operand
    BY <1>1, <1>9
  <1>11. \A j \in 1 .. Len(values) : q[i][j] = fields[j] % w
    BY <1>7, <1>10
  <1> QED
    BY <1>1, <1>2, <1>9, <1>11 DEF q, w, fields

LEMMA Pass2Leads ==
  ASSUME TypeOK, ScopeOK, NEW i, NEW values, Pass2Of(i, values), AsNamed(i, values),
         \A j \in DOMAIN values : ~OutOfRange(i, Fields(i, values)[j]),
         ScopeIn(insns, Len(insns)) = Globals
  PROVE  Leads(insns, symtabs, start_addr, i, operands'[i][1])
  <1> DEFINE exprs == insns[i].exprs
             kind == insns[i].kind
             name == exprs[1][1].name
             sym == Found(symtabs, ScopeIn(insns, i), name)
             field == operands'[i][1]
             away == IF kind = "branch" THEN ByteSigned(field) ELSE field
             size == MachineSize[kind]
  <1> SUFFICES ASSUME kind \in {"branch", "relative"}, Len(exprs) = 1, Len(exprs[1]) = 1,
                      exprs[1][1].is = "symbol", sym.type # "constant"
               PROVE  /\ Placed(sym)
                      /\ (start_addr[i] + size + away) % ADDRS = start_addr[sym.at]
    BY Zenon DEF Leads
  <1>1. i \in 1 .. Len(insns) /\ i = emitted + 1 /\ emitted \in Nat
        /\ \A j \in 1 .. Len(values) :
             operands'[i][j] = Fields(i, values)[j] % Width(insns[i].kind)
    BY Pass2Operand
  <1>2. EnteredScope(insns[i], i) = ScopeIn(insns, i)
    <2>1. EnteredScope(insns[i], i) = Looked(insns, i)
      <3>1. lookup_stack' = Looked(insns, i)
        BY Pass2KeepsScope
      <3>2. lookup_stack' = EnteredScope(insns[i], i)
        BY Zenon DEF Pass2Of
      <3> QED
        BY <3>1, <3>2
    <2>2. i \in Nat
      BY <1>1
    <2> QED
      BY <2>1, <2>2, LookedClosed
  <1>3. Lookup(EnteredScope(insns[i], i), name) = sym
    BY <1>2, Zenon DEF Lookup, Found
  <1>4. Placed(sym) /\ values[1] = start_addr[sym.at] /\ values[1] \in Addresses
    <2> HIDE DEF sym, name
    <2> QED
      BY <1>3, Zenon DEF AsNamed, name
  <1>5. Len(values) = 1
    <2>1. kind \notin Reserves \cup {"const"} /\ kind # "ncall"
      BY DEF Reserves
    <2>2. kind \notin Reserves \cup {"const"} =>
            Len(values) = Len(insns[i].exprs) + (IF kind = "ncall" THEN 1 ELSE 0)
      BY Zenon DEF Pass2Of
    <2>3. Len(values) = Len(exprs) + 0
      BY <2>1, <2>2
    <2> HIDE DEF exprs, kind
    <2> QED
      BY <2>3
  <1>6. DOMAIN values = 1 .. Len(values) /\ DOMAIN Fields(i, values) = 1 .. Len(values)
    BY FieldsAreNumbers
  <1> DEFINE t == values[1]
             b == start_addr[i] + size
             f == Field(i, t)
  <1>7. b \in Nat
    <2>1. start_addr \in Seq(Addresses) /\ Len(start_addr) = Len(insns)
      BY DEF TypeOK, Pass2Of
    <2>2. start_addr[i] \in Addresses
      BY <1>1, <2>1, ElementOfSeq
    <2>3. start_addr[i] \in Nat
      BY <2>2, Constraints
    <2>4. size \in Nat
      BY DEF MachineSize
    <2> QED
      BY <2>3, <2>4
  <1>8. f = (t - b) % ADDRS
    BY Zenon DEF Field
  <1>9. Fields(i, values)[1] = f /\ 1 \in 1 .. Len(values) /\ 1 \in DOMAIN values
    BY <1>5, <1>6 DEF Fields
  <1>10. field = f % Width(kind) /\ ~OutOfRange(i, f)
    BY <1>1, <1>9
  <1> HIDE DEF f, t, b, sym, field, size
  <1>11. /\ (b + (f % ADDRS)) % ADDRS = t
         /\ Signed(f) \in -(BYTES \div 2) .. BYTES \div 2 - 1 =>
              (b + ByteSigned(f % BYTES)) % ADDRS = t
    <2>1. t \in Addresses
      BY <1>4 DEF t
    <2> QED
      BY <1>7, <1>8, <2>1, OffsetLeads
  <1>12. CASE kind = "branch"
    <2>1. field = f % BYTES
      BY <1>10, <1>12 DEF Width
    <2>2. Signed(f) \in -(BYTES \div 2) .. BYTES \div 2 - 1
      BY <1>10, <1>12, Zenon DEF OutOfRange
    <2>3. (b + ByteSigned(field)) % ADDRS = t
      BY <1>11, <2>1, <2>2
    <2> QED
      BY <1>4, <1>12, <2>3 DEF t, b
  <1>13. CASE kind = "relative"
    <2>1. field = f % ADDRS
      BY <1>10, <1>13 DEF Width
    <2>2. (b + field) % ADDRS = t
      BY <1>11, <2>1
    <2> QED
      BY <1>4, <1>13, <2>2 DEF t, b
  <1> QED
    BY <1>12, <1>13

LEMMA Pass2KeepsOperands ==
  ASSUME TypeOK, ScopeOK, OperandsOK, NEW i, NEW values, Pass2Of(i, values)
  PROVE  OperandsOK'
  <1>1. i = emitted + 1 /\ emitted \in Nat /\ i \in 1 .. Len(insns)
        /\ (\A k \in 1 .. emitted : operands'[k] = operands[k])
        /\ \A j \in 1 .. Len(values) :
             operands'[i][j] = Fields(i, values)[j] % Width(insns[i].kind)
    BY Pass2Operand
  <1>2. UNCHANGED <<insns, symtabs, ncalls, start_addr>> /\ emitted' = i
    BY DEF Pass2Of, symbols, layout
  <1>3. \A k \in 1 .. i : k \in 1 .. emitted \/ k = i
    BY <1>1
  <1>4. ASSUME insns[i].kind = "ncall"
        PROVE  operands'[i][1] = Id(insns[i].name) % (BYTES * BYTES)
    <2>1. Len(values) = 1
      <3>1. insns[i].kind \notin Reserves \cup {"const"} /\ insns[i].kind \in NoExpr
        BY <1>4 DEF Reserves, NoExpr
      <3>2. Len(insns[i].exprs) = 0
        <4>1. IsStatement(insns[i])
          BY StatementFacts, Zenon DEF Pass2Of, TypeOK
        <4> QED
          BY <3>1, <4>1 DEF IsStatement
      <3>3. Len(values) = Len(insns[i].exprs) + (IF insns[i].kind = "ncall" THEN 1 ELSE 0)
        BY <3>1, Zenon DEF Pass2Of
      <3> QED
        BY <1>4, <3>2, <3>3
    <2>2. values[1] = Id(insns[i].name)
      BY <1>4, Zenon DEF Pass2Of
    <2>3. DOMAIN values = 1 .. Len(values)
      BY FieldsAreNumbers
    <2>4. 1 \in 1 .. Len(values) /\ Fields(i, values)[1] = values[1]
      BY <1>4, <2>1, <2>3 DEF Fields, Field
    <2>5. Width(insns[i].kind) = BYTES * BYTES
      BY <1>4, Zenon DEF Width
    <2> QED
      BY <1>1, <2>2, <2>4, <2>5
  <1>5. ASSUME ScopeIn(insns, Len(insns)) = Globals, errors' \in {0}, NEW k \in 1 .. i
        PROVE  Leads(insns, symtabs, start_addr, k, operands'[k][1])
    <2>1. errors \in Nat /\ errors' \in Nat /\ errors' >= errors
      BY Zenon DEF TypeOK, Pass2Of
    <2>2. errors = 0 /\ errors' = 0
      BY <1>5, <2>1
    <2>3. CASE k \in 1 .. emitted
      <3>1. operands'[k] = operands[k]
        BY <1>1, <2>3
      <3>2. Leads(insns, symtabs, start_addr, k, operands[k][1])
        BY <1>5, <2>2, <2>3, Zenon DEF OperandsOK
      <3> QED
        BY <3>1, <3>2
    <2>4. CASE k = i
      <3>1. AsNamed(i, values) /\ \A j \in DOMAIN values : ~OutOfRange(i, Fields(i, values)[j])
        BY <2>2, Zenon DEF Pass2Of
      <3>2. Leads(insns, symtabs, start_addr, i, operands'[i][1])
        BY <1>5, <3>1, Pass2Leads
      <3> QED
        BY <2>4, <3>2
    <2> QED
      BY <1>3, <2>3, <2>4
  <1>6. ASSUME NEW k \in 1 .. i, insns[k].kind = "ncall"
        PROVE  operands'[k][1] = Id(insns[k].name) % (BYTES * BYTES)
    <2>1. CASE k \in 1 .. emitted
      <3>1. operands[k][1] = Id(insns[k].name) % (BYTES * BYTES)
        BY <1>6, <2>1, Zenon DEF OperandsOK
      <3> QED
        BY <1>1, <2>1, <3>1
    <2>2. CASE k = i
      BY <1>4, <1>6, <2>2
    <2> QED
      BY <1>3, <2>1, <2>2
  <1> DEFINE J(x) == (CHOOSE n \in DOMAIN ncalls' : ncalls'[n] = x) - 1
  <1>7. \A x : J(x) = Id(x)
    BY <1>2, Zenon DEF Id
  <1> HIDE DEF J
  <1>8. \A k \in 1 .. emitted' : insns'[k].kind = "ncall" =>
          operands'[k][1] = J(insns'[k].name) % (BYTES * BYTES)
    BY <1>2, <1>6, <1>7, Zenon
  <1>9. ScopeIn(insns', Len(insns')) = Globals /\ errors' = 0 =>
          \A k \in 1 .. emitted' : Leads(insns', symtabs', start_addr', k, operands'[k][1])
    BY <1>2, <1>5
  <1> QED
    BY <1>8, <1>9, Zenon DEF OperandsOK, Id, J

LEMMA NoOperands ==
  ASSUME emitted' \in {0}
  PROVE  OperandsOK'
  <1>1. emitted' = 0 /\ 1 .. 0 = {}
    OBVIOUS
  <1>2. 1 .. emitted' = {}
    BY <1>1
  <1> QED
    BY <1>2, Zenon DEF OperandsOK

LEMMA OperandsStay ==
  ASSUME OperandsOK, UNCHANGED <<symbols, layout, errors, emitted, operands>>
  PROVE  OperandsOK'
  <1>1. UNCHANGED <<insns, symtabs, ncalls, start_addr, errors, emitted, operands>>
    BY DEF symbols, layout
  <1> QED
    BY <1>1, Zenon DEF OperandsOK, Id

-----------------------------------------------------------------------------
\* The entry point.

LEMMA EntryStays ==
  ASSUME EntryOK, UNCHANGED <<symbols, layout, ep_offset>>,
         pc' \in {"pass_2", "exit_0"} => pc \in {"pass_2", "exit_0"}
  PROVE  EntryOK'
  <1>1. UNCHANGED <<symtabs, start_addr, ep_offset>>
    BY DEF symbols, layout
  <1> QED
    BY <1>1, Zenon DEF EntryOK, Lookup

LEMMA EndPass1Enters ==
  ASSUME TypeOK, EndPass1
  PROVE  EntryOK'
  <1> DEFINE sym == Lookup(Globals, "start")
             generates == sym.type # "none" /\ sym.at # NoInsn
  <1>1. /\ pc' = IfClean(IF generates THEN "pass_2" ELSE "exit_1", errors)
        /\ ep_offset' \in (IF pc' = "pass_2" THEN Entries(sym) ELSE {0})
        /\ UNCHANGED <<symtabs, start_addr>>
    BY Zenon DEF EndPass1, symbols, layout
  <1> HIDE DEF sym
  <1>2. errors \in Nat
    BY DEF TypeOK
  <1>3. pc' # "exit_0" /\ (pc' = "pass_2" => generates)
    <2>1. pc' = IF errors = 0 THEN (IF generates THEN "pass_2" ELSE "exit_1") ELSE "exit_1"
      BY <1>1, <1>2, StageNames
    <2> HIDE DEF generates
    <2> QED
      BY <2>1
  <1>4. ASSUME pc' = "pass_2"
        PROVE  sym.type # "none" /\ (sym.type = "label" => ep_offset' = start_addr[sym.at])
    <2>1. sym.type # "none" /\ ep_offset' \in Entries(sym)
      BY <1>1, <1>3, <1>4
    <2> QED
      BY <2>1, Zenon DEF Entries
  <1> DEFINE new == IF "start" \in DOMAIN symtabs'[Globals] THEN symtabs'[Globals]["start"]
                    ELSE IF "start" \in DOMAIN symtabs'[Globals] THEN symtabs'[Globals]["start"]
                    ELSE NoSymbol
  <1>5. new = sym
    BY <1>1, Zenon DEF sym, Lookup
  <1> HIDE DEF new
  <1>6. pc' \in {"pass_2", "exit_0"} =>
          new.type # "none" /\ (new.type = "label" => ep_offset' = start_addr'[new.at])
    BY <1>1, <1>3, <1>4, <1>5
  <1> QED
    BY <1>6, Zenon DEF EntryOK, Lookup, new

-----------------------------------------------------------------------------
\* The loader.

LEMMA FileStays ==
  ASSUME IsFile, UNCHANGED <<vmaVars, file>>
  PROVE  IsFile'
  <1>1. UNCHANGED <<file, body, next_va, bss_va, ep_offset, ncalls>>
    BY DEF vmaVars, layout, symbols, output
  <1> QED
    BY <1>1, Zenon DEF IsFile, Kept, Whole, File, MemorySize

LEMMA FileFacts ==
  ASSUME TypeOK, BodyOK, IsFile
  PROVE  /\ file.filesize = bss_va /\ file.memsize = next_va /\ file.ep_offset = ep_offset
         /\ bss_va \in Nat /\ next_va \in Nat
         /\ file.ncalls_count = Len(ncalls) % (BYTES * BYTES) /\ file.ncalls_count \in Nat
         /\ Len(file.rest) \in Nat /\ Len(file.rest) <= Len(body)
         /\ \A n \in 1 .. Len(file.rest) : file.rest[n] = body[n]
         /\ file.rest \in Seq(Cell) /\ file.size \in Nat /\ file.size <= Whole
         /\ file.size = Whole => Len(file.rest) = Len(body)
  <1>1. PICK kept \in Kept : file = File(kept)
    BY Zenon DEF IsFile
  <1>2. /\ file.filesize = bss_va /\ file.memsize = next_va /\ file.ep_offset = ep_offset
        /\ file.ncalls_count = Len(ncalls) % (BYTES * BYTES)
        /\ file.size = kept
        /\ file.rest = IF kept < HEADER THEN <<>> ELSE SubSeq(body, 1, kept - HEADER)
    BY <1>1 DEF File, MemorySize
  <1>3. body \in Seq(Cell) /\ Len(body) \in Nat /\ kept \in 0 .. HEADER + Len(body)
    BY LenProperties DEF BodyOK, Kept, Whole
  <1>4. kept \in Nat /\ kept <= Whole
    BY <1>3 DEF HEADER, Whole
  <1>5. /\ file.rest \in Seq(Cell) /\ Len(file.rest) \in Nat /\ Len(file.rest) <= Len(body)
        /\ \A n \in 1 .. Len(file.rest) : file.rest[n] = body[n]
        /\ kept = Whole => Len(file.rest) = Len(body)
    <2>1. CASE kept < HEADER
      <3> DEFINE r == file.rest
      <3>1. r = <<>> /\ kept # Whole
        BY <1>2, <1>3, <2>1 DEF HEADER, Whole
      <3>2. r \in Seq(Cell) /\ Len(r) = 0
        BY <3>1, EmptySeq
      <3> HIDE DEF r
      <3>3. Len(r) \in Nat /\ Len(r) <= Len(body) /\ \A n \in 1 .. Len(r) : FALSE
        BY <1>3, <3>2
      <3> QED
        BY <3>1, <3>2, <3>3 DEF r
    <2>2. CASE ~(kept < HEADER)
      <3> DEFINE k == kept - HEADER
                 r == SubSeq(body, 1, k)
      <3>1. k \in 0 .. Len(body) /\ file.rest = r /\ (kept = Whole => k = Len(body))
        BY <1>2, <1>3, <2>2 DEF HEADER, Whole
      <3> HIDE DEF k
      <3>2. Len(r) = k /\ r \in Seq(Cell) /\ \A n \in 1 .. k : r[n] = body[n]
        BY <1>3, <3>1, SubSeqProperties
      <3> HIDE DEF r
      <3>3. k \in Nat /\ k <= Len(body)
        BY <1>3, <3>1
      <3> QED
        BY <3>1, <3>2, <3>3
    <2> QED
      BY <2>1, <2>2
  <1>6. bss_va \in Nat /\ next_va \in Nat
    <2>1. bss_va \in Addresses /\ next_va \in Addresses
      BY Zenon DEF TypeOK
    <2> QED
      BY <2>1, Constraints
  <1>7. Len(ncalls) % (BYTES * BYTES) \in Nat
    <2> DEFINE b == BYTES
               c == b * b
               m == Len(ncalls)
    <2>1. b \in Nat \ {0} /\ m \in Nat
      BY Constraints, LenProperties DEF TypeOK
    <2> HIDE DEF b
    <2>2. c \in Nat \ {0}
      BY <2>1
    <2> HIDE DEF c, m
    <2>3. m % c \in Nat
      BY <2>1, <2>2
    <2> QED
      BY <2>3 DEF m, c, b
  <1> QED
    BY <1>2, <1>4, <1>5, <1>6, <1>7

LEMMA LoaderWaits ==
  ASSUME LoaderOK, VmaNext, UNCHANGED loaderVars
  PROVE  LoaderOK' /\ lpc = "closed"
  <1>1. pc \in {"parse", "pass_1", "pass_2"}
    BY DEF VmaNext, Parse, SyntaxError, EndsBroken, Abandon, EndParse, Pass1, EndPass1, Pass2,
           WriteFails, EndPass2
  <1>2. lpc = "closed" /\ ncalls_table = <<>>
    BY <1>1 DEF LoaderOK
  <1>3. lpc' = "closed" /\ ncalls_table' = <<>>
    BY <1>2 DEF loaderVars
  <1> QED
    BY <1>2, <1>3 DEF LoaderOK

LEMMA LoaderFollows ==
  ASSUME TypeOK, BodyOK, LoaderOK, pc = "exit_0", Open \/ LoaderNext, UNCHANGED vmaVars
  PROVE  LoaderOK'
  <1>1. pc' = "exit_0" /\ ep_offset' = ep_offset
    BY DEF vmaVars, output
  <1>2. CASE Open
    <2>1. IsFile'
      <3>1. \E kept \in Kept : file' = File(kept)
        BY <1>2, Zenon DEF Open
      <3>2. UNCHANGED <<body, next_va, bss_va, ep_offset, ncalls>>
        BY DEF vmaVars, layout, symbols, output
      <3> QED
        BY <3>1, <3>2, Zenon DEF IsFile, Kept, Whole, File, MemorySize
    <2>2. /\ lpc' \in {"module", "short_header"} /\ ncalls_table' = ncalls_table
          /\ lpc = "closed" /\ (lpc' = "short_header" => file'.size < HEADER_READ)
      BY <1>2, Zenon DEF Open, HeaderRead
    <2>3. file'.size \in Nat
      <3>1. PICK kept \in Kept : file' = File(kept)
        BY <1>2, Zenon DEF Open
      <3>2. body \in Seq(Cell) /\ Len(body) \in Nat /\ kept \in 0 .. HEADER + Len(body)
        BY LenProperties DEF BodyOK, Kept, Whole
      <3> QED
        BY <3>1, <3>2 DEF File, HEADER
    <2>4. ncalls_table' = <<>> /\ (lpc' = "short_header" => file'.size < HEADER)
      BY <2>2, <2>3 DEF LoaderOK, HEADER, HEADER_READ
    <2> QED
      BY <1>1, <2>1, <2>2, <2>4 DEF LoaderOK
  <1>3. CASE OpenFails
    BY <1>1, <1>3 DEF OpenFails, Ends, LoaderOK
  <1>4. lpc \notin {"closed", "no_file"} => IsFile
    BY DEF LoaderOK
  <1>5. CASE AllocFails
    <2>1. IsFile' /\ lpc' = "no_memory"
      BY <1>4, <1>5, FileStays DEF AllocFails, Ends
    <2> QED
      BY <1>1, <2>1 DEF LoaderOK
  <1>6. CASE AllocModule
    <2>1. IsFile' /\ lpc' = "base" /\ ncalls_table' = <<>>
      BY <1>4, <1>6, FileStays DEF AllocModule, Ends, LoaderOK
    <2> QED
      BY <1>1, <2>1 DEF LoaderOK
  <1>7. CASE AllocBase
    <2>1. IsFile' /\ lpc' = "body" /\ ncalls_table' = <<>> /\ entry' = file.ep_offset
      BY <1>4, <1>7, FileStays DEF AllocBase, LoaderOK
    <2>2. entry' = ep_offset
      BY <1>4, <1>7, <2>1, FileFacts DEF AllocBase
    <2> QED
      BY <1>1, <2>1, <2>2 DEF LoaderOK
  <1>8. CASE ReadBody
    <2>1. lpc = "body" /\ IsFile /\ ncalls_table = <<>> /\ entry = ep_offset
      BY <1>8 DEF ReadBody, LoaderOK
    <2>2. IsFile'
      BY <1>8, <2>1, FileStays DEF ReadBody, Ends
    <2>3. CASE Len(file.rest) < file.filesize
      <3>1. lpc' = "short_file" /\ file' = file
        BY <1>8, <2>3 DEF ReadBody, Ends
      <3>2. TooShort'
        BY <2>3, <3>1 DEF TooShort
      <3> QED
        BY <1>1, <2>2, <3>1, <3>2 DEF LoaderOK
    <2>4. CASE ~(Len(file.rest) < file.filesize) /\ file.filesize > file.memsize
      <3>1. lpc' = "overrun" /\ file' = file
        BY <1>8, <2>4 DEF ReadBody, Ends
      <3> QED
        BY <1>1, <2>2, <2>4, <3>1 DEF LoaderOK
    <2>5. CASE ~(Len(file.rest) < file.filesize) /\ ~(file.filesize > file.memsize)
      <3>1. /\ memory' = SubSeq(file.rest, 1, file.filesize) /\ offset' = file.filesize
            /\ lpc' = IF file.ncalls_count > 0 THEN "table" ELSE "loaded"
            /\ UNCHANGED <<file, entry, ncalls_table, table>>
        BY <1>8, <2>5, Zenon DEF ReadBody
      <3>2. file.filesize \in Nat /\ file.memsize \in Nat /\ Len(file.rest) \in Nat
            /\ file.ncalls_count \in Nat
        BY <2>1, FileFacts
      <3>3. HasBody'
        <4>1. Len(file.rest) >= file.filesize /\ file.filesize <= file.memsize
          <5> DEFINE a == Len(file.rest)
                     b == file.filesize
                     c == file.memsize
          <5>1. a \in Nat /\ b \in Nat /\ c \in Nat /\ ~(a < b) /\ ~(b > c)
            BY <2>5, <3>2
          <5> HIDE DEF a, b, c
          <5>2. a >= b /\ b <= c
            BY <5>1
          <5> QED
            BY <5>2 DEF a, b, c
        <4> QED
          BY <3>1, <4>1, Zenon DEF HasBody
      <3>4. CASE file.ncalls_count > 0
        <4>1. lpc' = "table" /\ file'.ncalls_count > 0
          BY <3>1, <3>4
        <4> QED
          BY <1>1, <2>1, <2>2, <3>1, <3>3, <4>1 DEF LoaderOK
      <3>5. CASE ~(file.ncalls_count > 0)
        <4>1. lpc' = "loaded" /\ ~(file'.ncalls_count > 0) /\ file'.ncalls_count = 0
          <5> DEFINE c == file.ncalls_count
          <5>1. c \in Nat /\ ~(c > 0)
            BY <3>2, <3>5
          <5>2. lpc' = "loaded" /\ file' = file
            BY <3>1, <3>5
          <5> HIDE DEF c
          <5>3. c = 0
            BY <5>1
          <5> QED
            BY <3>5, <5>2, <5>3 DEF c
        <4>2. Len(ncalls_table') = 0
          BY <2>1, <3>1
        <4> QED
          BY <1>1, <2>1, <2>2, <3>1, <3>3, <4>1, <4>2 DEF LoaderOK
      <3> QED
        BY <3>4, <3>5
    <2> QED
      BY <2>3, <2>4, <2>5
  <1>9. CASE ReadTable
    <2>1. lpc = "table" /\ IsFile /\ ncalls_table = <<>> /\ entry = ep_offset /\ HasBody
          /\ file.ncalls_count > 0
      BY <1>9 DEF ReadTable, LoaderOK
    <2>2. IsFile'
      BY <1>9, <2>1, FileStays DEF ReadTable, Ends
    <2>3. CASE Len(file.rest) - offset < 4 * file.ncalls_count
      <3>1. lpc' = "short_file" /\ file' = file
        BY <1>9, <2>3 DEF ReadTable, Ends
      <3>2. offset = file.filesize
        BY <2>1, Zenon DEF HasBody
      <3>3. TooShort'
        BY <2>3, <3>1, <3>2 DEF TooShort
      <3> QED
        BY <1>1, <2>2, <3>1, <3>3 DEF LoaderOK
    <2>4. CASE ~(Len(file.rest) - offset < 4 * file.ncalls_count)
      <3>1. /\ table' = [n \in 1 .. file.ncalls_count |-> HashAt(n)]
            /\ lpc' = "fix_up"
            /\ UNCHANGED <<file, offset, memory, entry, ncalls_table>>
        BY <1>9, <2>4, Zenon DEF ReadTable
      <3>2. HasBody'
        BY <2>1, <3>1, Zenon DEF HasBody
      <3>3. Len(file.rest) - offset >= 4 * file.ncalls_count
        <4>1. file.filesize \in Nat /\ Len(file.rest) \in Nat /\ file.ncalls_count \in Nat
          BY <2>1, FileFacts
        <4>2. offset = file.filesize
          BY <2>1, Zenon DEF HasBody
        <4> DEFINE a == Len(file.rest)
                   b == file.filesize
                   c == file.ncalls_count
        <4>3. a \in Nat /\ b \in Nat /\ c \in Nat /\ ~(a - b < 4 * c)
          BY <2>4, <4>1, <4>2
        <4> HIDE DEF a, b, c
        <4>4. a - b >= 4 * c
          BY <4>3
        <4> QED
          BY <4>2, <4>4 DEF a, b, c
      <3>4. HasTable'
        BY <3>1, <3>2, <3>3, Zenon DEF HasTable, HashAt
      <3>8. ncalls_table' = <<>>
        BY <2>1, <3>1
      <3>5. ncalls_table' = <<>> /\ Len(ncalls_table') = 0 /\ 1 .. 0 = {}
        BY <3>8
      <3>6. Linked'
        BY <3>4, <3>5 DEF Linked
      <3>7. Len(ncalls_table') < file'.ncalls_count
        BY <2>1, <3>1, <3>5
      <3> QED
        BY <1>1, <2>1, <2>2, <3>1, <3>6, <3>7 DEF LoaderOK
    <2> QED
      BY <2>3, <2>4
  <1>10. CASE FixUp
    <2>1. lpc = "fix_up" /\ IsFile /\ entry = ep_offset /\ Linked
          /\ Len(ncalls_table) < file.ncalls_count
      BY <1>10 DEF FixUp, LoaderOK
    <2>2. IsFile' /\ file' = file
      BY <1>10, <2>1, FileStays DEF FixUp, Ends
    <2> DEFINE n == Len(ncalls_table)
               thunk == LookupThunk(table[n + 1])
    <2>3. ncalls_table \in Seq(DOMAIN Routines)
      BY DEF TypeOK
    <2>4. n \in Nat /\ \A k \in 1 .. n + 1 : k \in 1 .. n \/ k = n + 1
      <3>1. n \in Nat
        BY <2>3, LenProperties
      <3> HIDE DEF n
      <3> QED
        BY <3>1
    <2>5. (thunk # 0 => thunk \in DOMAIN Routines /\ Routines[thunk] = table[n + 1])
          /\ (thunk = 0 => table[n + 1] \notin Range(Routines))
      BY ThunkFound
    <2>6. HasTable
      BY <2>1 DEF Linked
    <2>7. file.ncalls_count \in Nat /\ file.ncalls_count > 0
      <3> DEFINE c == file.ncalls_count
      <3>1. c \in Nat /\ n < c
        BY <2>1, FileFacts
      <3> HIDE DEF c, n
      <3>2. c > 0
        BY <2>4, <3>1
      <3> QED
        BY <3>1, <3>2 DEF c
    <2>8. Len(table) = file.ncalls_count
      <3> DEFINE c == file.ncalls_count
      <3>1. table = [k \in 1 .. c |-> HashAt(k)] /\ c \in Nat
        BY <2>6, <2>7, Zenon DEF HasTable
      <3> HIDE DEF c
      <3>2. Len(table) = c
        BY <3>1
      <3> QED
        BY <3>2 DEF c
    <2>9. CASE thunk = 0
      <3>1. lpc' = "unknown_routine" /\ UNCHANGED <<file, offset, memory, entry, ncalls_table, table>>
        BY <1>10, <2>9 DEF FixUp, Ends
      <3>2. Linked'
        BY <2>1, <3>1, Zenon DEF Linked, HasTable, HasBody, HashAt
      <3>3. table'[Len(ncalls_table') + 1] \notin Range(Routines)
        BY <2>5, <2>9, <3>1
      <3> QED
        BY <1>1, <2>1, <2>2, <3>1, <3>2, <3>3 DEF LoaderOK
    <2>10. CASE thunk # 0
      <3>1. /\ ncalls_table' = Append(ncalls_table, thunk)
            /\ lpc' = (IF Len(ncalls_table') = Len(table) THEN "loaded" ELSE "fix_up")
            /\ UNCHANGED <<file, offset, memory, entry, table>>
        BY <1>10, <2>10, Zenon DEF FixUp
      <3> DEFINE q == ncalls_table'
      <3>2. Len(q) = n + 1 /\ q[n + 1] = thunk /\ \A k \in 1 .. n : q[k] = ncalls_table[k]
        <4>1. q = Append(ncalls_table, thunk) /\ thunk \in DOMAIN Routines
          BY <2>5, <2>10, <3>1
        <4> HIDE DEF q, thunk
        <4> QED
          BY <2>3, <4>1, AppendProperties
      <3> HIDE DEF thunk, q, n
      <3>3. HasTable'
        BY <2>6, <3>1, Zenon DEF HasTable, HasBody, HashAt
      <3>4. \A k \in 1 .. n + 1 : Routines[q[k]] = table[k]
        <4>1. \A k \in 1 .. n : Routines[ncalls_table[k]] = table[k]
          BY <2>1 DEF Linked, n
        <4> QED
          BY <2>4, <2>5, <2>10, <3>2, <4>1
      <3>5. Linked'
        BY <3>1, <3>2, <3>3, <3>4, Zenon DEF Linked, q
      <3>6. CASE n + 1 = file.ncalls_count
        <4>1. lpc' = "loaded" /\ Len(ncalls_table') = file'.ncalls_count
          BY <2>2, <2>8, <3>1, <3>2, <3>6 DEF q
        <4>2. HasBody'
          BY <3>3 DEF HasTable
        <4> QED
          BY <1>1, <2>1, <2>2, <3>1, <3>5, <4>1, <4>2 DEF LoaderOK
      <3>7. CASE n + 1 # file.ncalls_count
        <4>1. lpc' = "fix_up"
          BY <2>8, <3>1, <3>2, <3>7 DEF q
        <4>2. Len(ncalls_table') < file'.ncalls_count
          <5> DEFINE c == file.ncalls_count
          <5>1. n < c /\ n + 1 # c /\ c \in Nat
            BY <2>1, <2>7, <3>7 DEF n
          <5> HIDE DEF c
          <5>2. n + 1 < c
            BY <2>4, <5>1
          <5> QED
            BY <2>2, <3>2, <5>2 DEF q, c
        <4> QED
          BY <1>1, <2>1, <2>2, <3>1, <3>5, <4>1, <4>2 DEF LoaderOK
      <3> QED
        BY <3>6, <3>7
    <2> QED
      BY <2>9, <2>10
  <1> QED
    BY <1>2, <1>3, <1>5, <1>6, <1>7, <1>8, <1>9, <1>10 DEF LoaderNext

-----------------------------------------------------------------------------
\* The invariant.

LEMMA InvInit ==
  ASSUME Init
  PROVE  Inv
  <1>1. /\ pc = "parse" /\ lpc = "closed" /\ insns = <<>> /\ symtabs = [scope \in {Globals} |-> <<>>]
        /\ ncalls = <<>> /\ lookup_stack = Globals /\ errors = 0 /\ resolved = {}
        /\ next_va = 0 /\ bss_va = 0 /\ start_addr = <<>> /\ align_bytes = <<>> /\ reserved = <<>>
        /\ ep_offset = 0 /\ emitted = 0 /\ operands = <<>> /\ body = <<>> /\ ncalls_table = <<>>
    BY DEF Init, VmaInit, LoaderInit
  <1>2. 0 \in Addresses /\ ADDRS \in Nat \ {0}
    BY Constraints
  <1>3. Len(insns) = 0 /\ Len(start_addr) = 0 /\ 1 .. 0 = {} /\ 0 .. 0 = {0} /\ 0 + 1 .. 0 = {}
    BY <1>1
  <1>4. TypeOK
    BY <1>1, <1>2 DEF TypeOK
  <1>5. ScopesOK
    BY <1>1, <1>3 DEF ScopesOK
  <1>6. SymbolsOK
    <2>1. DOMAIN symtabs = {Globals} /\ symtabs[Globals] = <<>> /\ DOMAIN <<>> = {}
      BY <1>1
    <2> QED
      BY <2>1 DEF SymbolsOK, SymbolsKnown
  <1>7. LayoutOK
    <2>1. 0 % ADDRS = 0
      <3> DEFINE m == ADDRS
      <3>1. m \in Nat \ {0}
        BY <1>2
      <3> HIDE DEF m
      <3>2. 0 % m = 0
        BY <3>1
      <3> QED
        BY <3>2 DEF m
    <2>2. End(0) = 0
      BY DEF End
    <2> QED
      BY <1>1, <1>3, <2>1, <2>2 DEF LayoutOK
  <1>8. Stages
    BY <1>1 DEF Stages
  <1>9. BodyOK
    <2>1. body \in Seq(Cell) /\ Len(body) = 0 /\ End(emitted) = 0 /\ 1 .. emitted = {}
          /\ 1 .. End(emitted) = {} /\ pc # "exit_0" /\ 0 + 0 = 0
      BY <1>1, <1>3 DEF End
    <2> QED
      BY <2>1 DEF BodyOK
  <1>10. ScopeOK
    <2>1. ScopeIn(insns, Len(insns)) = Globals
      BY <1>3, NoScope
    <2> QED
      BY <1>1, <2>1 DEF ScopeOK
  <1>11. OperandsOK
    BY <1>1, <1>3 DEF OperandsOK
  <1>12. EntryOK
    BY <1>1 DEF EntryOK
  <1>13. LoaderOK
    BY <1>1 DEF LoaderOK
  <1> QED
    BY <1>4, <1>5, <1>6, <1>7, <1>8, <1>9, <1>10, <1>11, <1>12, <1>13 DEF Inv

LEMMA ParseStep ==
  ASSUME Inv, Parse \/ SyntaxError \/ EndsBroken \/ EndParse, UNCHANGED loaderVars
  PROVE  Inv'
  <1>1. TypeOK /\ ScopesOK /\ SymbolsOK /\ LayoutOK /\ Stages /\ BodyOK /\ ScopeOK
        /\ OperandsOK /\ EntryOK /\ LoaderOK
    BY DEF Inv
  <1>2. VmaNext /\ pc = "parse" /\ UNCHANGED <<layout, output>>
    BY DEF VmaNext, Parse, SyntaxError, EndsBroken, Abandon, EndParse
  <1>3. errors \in Nat
    BY <1>1, Zenon DEF TypeOK
  <1>4. pc' \in {"parse", "pass_1", "exit_1"}
    <2>1. ASSUME Parse PROVE pc' \in {"parse", "exit_1"}
      BY <2>1, Zenon DEF Parse, Then
    <2>2. ASSUME SyntaxError \/ EndsBroken PROVE pc' \in {"parse", "pass_1", "exit_1"}
      BY <2>2, Zenon DEF SyntaxError, EndsBroken, Then, IfClean
    <2>3. ASSUME EndParse PROVE pc' \in {"pass_1", "exit_1"}
      BY <1>3, <2>3, StageNames DEF EndParse
    <2> QED
      BY <2>1, <2>2, <2>3
  <1>5. TypeOK'
    BY <1>1, <1>2, ParseKeepsTypes, BrokenKeepsTypes, EndParseKeepsTypes
  <1>6. ScopesOK' /\ SymbolsOK'
    <2>1. CASE Parse
      BY <1>1, <2>1, ParseKeepsSymbols
    <2>2. CASE SyntaxError \/ EndsBroken
      BY <1>1, <2>2, BrokenKeepsSymbols
    <2>3. CASE EndParse
      <3>1. UNCHANGED symbols /\ pc' = (IF errors = 0 THEN "pass_1" ELSE "exit_1")
        BY <1>3, <2>3, StageNames DEF EndParse
      <3>2. pc' # "parse" /\ (pc' = "exit_1" \/ (errors = 0 /\ pc = "parse"))
        BY <1>2, <3>1
      <3> QED
        BY <1>1, <3>1, <3>2, SymbolsStay
    <2> QED
      BY <2>1, <2>2, <2>3
  <1>7. LayoutOK'
    BY <1>1, <1>2, EmptyLayout DEF Stages
  <1>8. Stages' /\ ScopeOK'
    BY <1>1, <1>2, StagesFollow, ScopesFollow
  <1>9. BodyOK'
    <2>1. emitted' = 0 /\ body' = <<>> /\ pc' # "exit_0"
      BY <1>1, <1>2, <1>4 DEF Stages, output
    <2> QED
      BY <2>1, EmptyBody DEF Unwritten
  <1>10. OperandsOK'
    <2>1. emitted' \in {0}
      BY <1>1, <1>2 DEF Stages, output
    <2> QED
      BY <2>1, NoOperands
  <1>11. EntryOK'
    BY <1>4 DEF EntryOK
  <1>12. LoaderOK'
    BY <1>1, <1>2, LoaderWaits
  <1> QED
    BY <1>5, <1>6, <1>7, <1>8, <1>9, <1>10, <1>11, <1>12 DEF Inv

LEMMA PassStep ==
  ASSUME Inv, Pass1 \/ EndPass1 \/ Pass2 \/ WriteFails \/ EndPass2, UNCHANGED loaderVars
  PROVE  Inv'
  <1>1. TypeOK /\ ScopesOK /\ SymbolsOK /\ LayoutOK /\ Stages /\ BodyOK /\ ScopeOK
        /\ OperandsOK /\ EntryOK /\ LoaderOK
    BY DEF Inv
  <1>2. VmaNext
    BY DEF VmaNext
  <1>3. errors \in Nat
    BY <1>1, Zenon DEF TypeOK
  <1>4. Stages' /\ ScopeOK' /\ LoaderOK'
    BY <1>1, <1>2, StagesFollow, ScopesFollow, LoaderWaits
  <1>5. UNCHANGED symbols /\ pc \in {"pass_1", "pass_2"} /\ pc' # "parse"
    <2>1. CASE Pass1
      BY <2>1, Zenon DEF Pass1, Then
    <2>2. CASE Pass2
      BY <2>2, Zenon DEF Pass2, Then
    <2>3. CASE EndPass1
      BY <2>3, Zenon DEF EndPass1, IfClean
    <2>4. CASE EndPass2
      BY <2>4, Zenon DEF EndPass2, IfClean
    <2>5. CASE WriteFails
      BY <2>5 DEF WriteFails
    <2> QED
      BY <2>1, <2>2, <2>3, <2>4, <2>5
  <1>6. ScopesOK' /\ SymbolsOK'
    BY <1>1, <1>5, SymbolsStay
  <1>7. UNCHANGED insns
    BY <1>5 DEF symbols
  <1>8. CASE Pass1
    <2>1. PICK at, va, value : Pass1Of(at, va, value)
      BY <1>1, <1>8, Pass1Is
    <2>2. TypeOK' /\ LayoutOK'
      BY <1>1, <2>1, Pass1KeepsTypes, Pass1KeepsLayout
    <2>3. pc = "pass_1" /\ pc' \in {"pass_1", "exit_1"} /\ UNCHANGED output
      BY <2>1 DEF Pass1Of
    <2>4. emitted' = 0 /\ body' = <<>> /\ pc' # "exit_0" /\ emitted' \in {0}
      BY <1>1, <2>3 DEF Stages, output
    <2>5. BodyOK' /\ OperandsOK'
      BY <2>4, EmptyBody, NoOperands DEF Unwritten
    <2>6. EntryOK'
      BY <2>3 DEF EntryOK
    <2> QED
      BY <1>4, <1>6, <2>2, <2>5, <2>6 DEF Inv
  <1>9. CASE EndPass1
    <2>1. TypeOK'
      BY <1>1, <1>9, EndPass1KeepsTypes
    <2>2. LayoutOK'
      BY <1>1, <1>7, <1>9, LayoutStays DEF EndPass1
    <2>3. pc' \in {"pass_2", "exit_1"}
      BY <1>3, <1>9, StageNames DEF EndPass1
    <2>4. emitted' = 0 /\ body' = <<>> /\ pc' # "exit_0" /\ emitted' \in {0}
      BY <1>1, <1>9, <2>3 DEF Stages, EndPass1
    <2>5. BodyOK' /\ OperandsOK'
      BY <2>4, EmptyBody, NoOperands DEF Unwritten
    <2>6. EntryOK'
      BY <1>1, <1>9, EndPass1Enters
    <2> QED
      BY <1>4, <1>6, <2>1, <2>2, <2>5, <2>6 DEF Inv
  <1>10. CASE Pass2
    <2>1. PICK i, values : Pass2Of(i, values)
      BY <1>1, <1>10, Pass2Is
    <2>2. pc = "pass_2" /\ UNCHANGED <<symbols, layout, ep_offset>>
      BY <2>1 DEF Pass2Of
    <2>3. TypeOK' /\ BodyOK' /\ OperandsOK'
      BY <1>1, <2>1, Pass2KeepsTypes, Pass2KeepsBody, Pass2KeepsOperands
    <2>4. LayoutOK' /\ EntryOK'
      BY <1>1, <1>7, <2>2, LayoutStays, EntryStays
    <2> QED
      BY <1>4, <1>6, <2>3, <2>4 DEF Inv
  <1>11. CASE WriteFails
    <2>1. TypeOK'
      BY <1>1, <1>11, WriteFailsKeepsTypes
    <2>2. pc = "pass_2" /\ pc' = "exit_1"
          /\ UNCHANGED <<insns, ncalls, layout, errors, emitted, operands, body, ep_offset>>
      BY <1>11 DEF WriteFails, symbols, output
    <2>3. LayoutOK' /\ EntryOK' /\ BodyOK' /\ OperandsOK'
      BY <1>1, <1>5, <1>7, <2>2, LayoutStays, EntryStays, BodyStays, OperandsStay
    <2> QED
      BY <1>4, <1>6, <2>1, <2>3 DEF Inv
  <1>12. CASE EndPass2
    <2>1. TypeOK' /\ BodyOK'
      BY <1>1, <1>12, EndPass2KeepsTypes, EndPass2KeepsBody
    <2>2. pc = "pass_2" /\ UNCHANGED <<layout, errors, emitted, operands, ep_offset>>
      BY <1>12 DEF EndPass2
    <2>3. LayoutOK' /\ EntryOK' /\ OperandsOK'
      BY <1>1, <1>5, <1>7, <2>2, LayoutStays, EntryStays, OperandsStay
    <2> QED
      BY <1>4, <1>6, <2>1, <2>3 DEF Inv
  <1> QED
    BY <1>8, <1>9, <1>10, <1>11, <1>12

LEMMA LoadStep ==
  ASSUME Inv, pc = "exit_0", Open \/ LoaderNext, UNCHANGED vmaVars
  PROVE  Inv'
  <1>1. TypeOK /\ ScopesOK /\ SymbolsOK /\ LayoutOK /\ Stages /\ BodyOK /\ ScopeOK
        /\ OperandsOK /\ EntryOK /\ LoaderOK
    BY DEF Inv
  <1>2. TypeOK' /\ LoaderOK'
    BY <1>1, LoaderKeepsTypes, LoaderFollows
  <1>3. UNCHANGED <<symbols, layout, pc, insns, ncalls, errors, emitted, operands, body, ep_offset>>
        /\ pc' = "exit_0"
    BY DEF vmaVars, symbols, output
  <1>4. ScopesOK' /\ SymbolsOK' /\ LayoutOK' /\ EntryOK' /\ BodyOK' /\ OperandsOK'
    BY <1>1, <1>3, SymbolsStay, LayoutStays, EntryStays, BodyStays, OperandsStay
  <1>5. ScopeOK'
    BY <1>3 DEF ScopeOK
  <1>6. Stages'
    <2>1. More' = More
      BY <1>3 DEF More, InFile, layout
    <2>2. errors = 0 /\ ~More
      BY <1>1 DEF Stages
    <2> QED
      BY <1>3, <2>1, <2>2 DEF Stages
  <1> QED
    BY <1>2, <1>4, <1>5, <1>6 DEF Inv

LEMMA StutterStep ==
  ASSUME Inv, UNCHANGED vars
  PROVE  Inv'
  <1>1. UNCHANGED <<pc, insns, symtabs, ncalls, lookup_stack, errors, resolved, next_va, bss_va,
                    start_addr, align_bytes, reserved, ep_offset, emitted, operands, body,
                    lpc, file, offset, memory, entry, ncalls_table, table>>
    BY DEF vars, vmaVars, symbols, layout, output, loaderVars
  <1>2. UNCHANGED <<symbols, layout>>
    BY <1>1 DEF symbols, layout
  <1>3. TypeOK /\ ScopesOK /\ SymbolsOK /\ LayoutOK /\ Stages /\ BodyOK /\ ScopeOK
        /\ OperandsOK /\ EntryOK /\ LoaderOK
    BY DEF Inv
  <1>4. TypeOK'
    BY <1>1, <1>3, Zenon DEF TypeOK
  <1>5. LayoutOK' /\ EntryOK' /\ BodyOK' /\ OperandsOK'
    BY <1>1, <1>2, <1>3, LayoutStays, EntryStays, BodyStays, OperandsStay
  <1>6. ScopesOK' /\ ScopeOK'
    BY <1>1, <1>3, Zenon DEF ScopesOK, ScopeOK
  <1>7. SymbolsOK'
    BY <1>1, <1>3, Zenon DEF SymbolsOK, SymbolsKnown, IsSymbol, SymbolOf, Constants
  <1>8. Stages'
    BY <1>1, <1>3, Zenon DEF Stages, More, InFile
  <1>9. IsFile => IsFile'
    BY <1>1, Zenon DEF IsFile, Kept, Whole, File, MemorySize
  <1>10. (HasBody => HasBody') /\ (Linked => Linked') /\ (TooShort => TooShort')
    <2>1. HasBody => HasBody'
      BY <1>1, Zenon DEF HasBody
    <2>2. HasTable => HasTable'
      BY <1>1, <2>1, Zenon DEF HasTable, HashAt
    <2>3. Linked => Linked'
      BY <1>1, <2>2, Zenon DEF Linked
    <2>4. TooShort => TooShort'
      BY <1>1, Zenon DEF TooShort
    <2> QED
      BY <2>1, <2>3, <2>4
  <1>11. LoaderOK'
    BY <1>1, <1>3, <1>9, <1>10 DEF LoaderOK
  <1> QED
    BY <1>4, <1>5, <1>6, <1>7, <1>8, <1>11 DEF Inv

LEMMA InvNext ==
  ASSUME Inv, [Next]_vars
  PROVE  Inv'
  <1>1. CASE VmaNext /\ UNCHANGED loaderVars
    BY <1>1, ParseStep, PassStep DEF VmaNext
  <1>2. CASE pc = "exit_0" /\ (Open \/ LoaderNext) /\ UNCHANGED vmaVars
    BY <1>2, LoadStep
  <1>3. CASE UNCHANGED vars
    BY <1>3, StutterStep
  <1> QED
    BY <1>1, <1>2, <1>3 DEF Next

\* The invariant of the way from a source to memory holds throughout.
THEOREM Invariance == Spec => []Inv
  <1>1. Init => Inv
    BY InvInit
  <1>2. Inv /\ [Next]_vars => Inv'
    BY InvNext
  <1> QED
    BY <1>1, <1>2, PTL DEF Spec

-----------------------------------------------------------------------------
\* What the invariant says at the end.

\* The file of an assembly that succeeded.
LEMMA FileWritten ==
  ASSUME Inv, pc = "exit_0", ~Wraps
  PROVE  /\ errors = 0 /\ Len(start_addr) = Len(insns)
         /\ Len(ncalls) \in Nat /\ Len(body) = End(emitted) + 4 * Len(ncalls)
         /\ Len(body) \in Nat /\ DOMAIN body = 1 .. Len(body)
         /\ End(emitted) \in Nat /\ bss_va \in Nat /\ End(emitted) <= bss_va /\ bss_va <= next_va
         /\ next_va = End(Len(start_addr))
         /\ ~EmptyAtEnd => End(emitted) = bss_va
  <1>1. TypeOK /\ LayoutOK /\ Stages /\ BodyOK
    BY DEF Inv
  <1>2. errors = 0 /\ ~More
    BY <1>1 DEF Stages
  <1>3. Len(start_addr) = Len(insns)
    BY <1>1 DEF TypeOK
  <1>4. \A i \in 1 .. emitted : start_addr[i] < bss_va
    BY <1>1, Zenon DEF BodyOK
  <1>5. Len(body) = End(emitted) + (IF pc = "exit_0" THEN 4 * Len(ncalls) ELSE 0)
        /\ body \in Seq(Cell)
    BY <1>1, <1>2, Zenon DEF BodyOK
  <1>6. Len(ncalls) \in Nat /\ Len(body) \in Nat /\ DOMAIN body = 1 .. Len(body)
    BY <1>1, <1>5, HashesAre, LenProperties
  <1> QED
    BY <1>1, <1>2, <1>3, <1>4, <1>5, <1>6, FileEnd

\* An instruction ends before the end of the file's part.
LEMMA WrittenWithin ==
  ASSUME Inv, pc = "exit_0", ~Wraps,
         NEW i \in 1 .. emitted, NEW part \in 1 .. Size(insns[i], reserved[i])
  PROVE  /\ start_addr[i] + part \in 1 .. End(emitted)
         /\ body[start_addr[i] + part] = [what |-> "insn", of |-> i, part |-> part]
  <1>1. TypeOK /\ LayoutOK /\ BodyOK /\ errors = 0
    BY FileWritten DEF Inv
  <1>2. emitted \in 0 .. Len(start_addr) /\ Len(start_addr) \in Nat
    <2>1. emitted \in 0 .. Len(start_addr)
      BY <1>1, Zenon DEF TypeOK
    <2> QED
      BY <1>1, <2>1, Laid
  <1>3. i \in 1 .. Len(start_addr) /\ i \in 0 .. Len(start_addr) /\ i - 1 \in 0 .. Len(start_addr)
        /\ emitted \in i .. Len(start_addr)
    BY <1>2
  <1> DEFINE a == start_addr[i]
             z == Size(insns[i], reserved[i])
             e == End(i)
             d == End(i - 1)
             q == align_bytes[i]
             m == End(emitted)
  <1>4. z \in Nat /\ q \in Nat /\ a = d + q /\ e = a + z /\ d \in Nat /\ e <= m /\ m \in Nat
        /\ part \in 1 .. z
    BY <1>1, <1>2, <1>3, Laid, EndsGrow
  <1>5. body[start_addr[i] + part] = [what |-> "insn", of |-> i, part |-> part]
    BY <1>1, Zenon DEF BodyOK
  <1> HIDE DEF a, z, e, d, q, m
  <1>6. a + part \in 1 .. m
    BY <1>4
  <1> QED
    BY <1>5, <1>6 DEF a, m

\* How far behind its address pass 2 writes: a byte for each operand it has refused, which
\* it has counted among the errors.
BehindOK ==
  ~Wraps =>
    /\ pc = "pass_2" => End(emitted) - Len(body) \in 0 .. errors
    /\ \A n \in DOMAIN body : body[n].what = "insn" =>
         start_addr[body[n].of] + body[n].part - n \in 0 .. errors

\* Until pass 2 there is nothing to be behind.
LEMMA NothingBehind ==
  ASSUME TypeOK', body' = <<>>, emitted' = 0
  PROVE  BehindOK'
  <1> DEFINE e == errors'
             G == IF 0 = 0 THEN 0 ELSE start_addr'[0] + Size(insns'[0], reserved'[0])
  <1>1. e \in Nat
    BY Zenon DEF TypeOK
  <1>2. DOMAIN body' = {} /\ Len(body') = 0
    <2>1. DOMAIN <<>> = {} /\ Len(<<>>) = 0
      OBVIOUS
    <2> QED
      BY <2>1
  <1>3. G - Len(body') \in 0 .. e
    <2>1. G = 0
      OBVIOUS
    <2> HIDE DEF G, e
    <2> QED
      BY <1>1, <1>2, <2>1
  <1>4. End(emitted)' = G
    BY Zenon DEF End
  <1> HIDE DEF G
  <1> QED
    BY <1>2, <1>3, <1>4 DEF BehindOK

\* An operand that is refused puts what follows one byte further behind.
LEMMA Pass2KeepsBehind ==
  ASSUME TypeOK, LayoutOK, body \in Seq(Cell), BehindOK, NEW i, NEW values, Pass2Of(i, values)
  PROVE  BehindOK'
  <1> SUFFICES ASSUME ~Wraps'
               PROVE  /\ End(emitted)' - Len(body') \in 0 .. errors'
                      /\ \A n \in DOMAIN body' : body'[n].what = "insn" =>
                           start_addr'[body'[n].of] + body'[n].part - n \in 0 .. errors'
    BY Zenon DEF BehindOK
  <1>1. UNCHANGED <<insns, start_addr, align_bytes, reserved, bss_va>>
        /\ emitted' = i /\ i = emitted + 1 /\ pc = "pass_2"
    BY DEF Pass2Of, symbols, layout
  <1>2. ~Wraps
    <2>1. Wraps' = Wraps
      BY <1>1 DEF Wraps
    <2> QED
      BY <2>1
  <1> DEFINE w == Written(i, Fields(i, values))
             p == align_bytes[i]
             a == start_addr[i]
             z == Size(insns[i], reserved[i])
             m == Len(body)
             d == End(emitted)
             e == errors
             f == errors'
             c == body \o Cells("pad", i, p) \o Cells("insn", i, w)
  <1>3. d - m \in 0 .. e
        /\ \A n \in DOMAIN body : body[n].what = "insn" =>
             start_addr[body[n].of] + body[n].part - n \in 0 .. e
    BY <1>1, <1>2, Zenon DEF BehindOK
  <1>4. e \in Nat /\ f \in Nat /\ f >= e
    BY Zenon DEF TypeOK, Pass2Of
  <1>5. w = z \/ (w + 1 = z /\ f >= e + 1)
    BY Pass2Length
  <1>6. w \in Nat /\ p \in Nat /\ i \in Nat
    BY WrittenIsNat
  <1>7. d \in Nat /\ z \in Nat /\ a = d + p /\ End(i) = a + z
    <2>1. i \in 1 .. Len(start_addr) /\ emitted \in 0 .. Len(start_addr)
      BY <1>1 DEF Pass2Of, TypeOK
    <2>2. i - 1 = emitted
      BY <1>1, <2>1
    <2> QED
      BY <1>2, <2>1, <2>2, Laid
  <1>8. End(emitted)' = End(i)
    <2> DEFINE G(k) == IF k = 0 THEN 0 ELSE start_addr'[k] + Size(insns'[k], reserved'[k])
    <2>1. End(emitted)' = G(emitted')
      BY Zenon DEF End
    <2>2. G(i) = End(i)
      BY <1>1, Zenon DEF End
    <2> HIDE DEF G
    <2> QED
      BY <1>1, <2>1, <2>2
  <1>9. body' = c /\ Grown(body, c, i, p, w)
    <2>1. body' = c
      BY DEF Pass2Of
    <2> HIDE DEF w, p
    <2> QED
      BY <1>6, <2>1, BodyGrows
  <1> HIDE DEF c, w, p, z
  <1>10. /\ m \in Nat /\ Len(body') = m + p + w /\ body' \in Seq(Cell)
         /\ \A n \in 1 .. m : body'[n] = body[n]
         /\ \A n \in m + 1 .. m + p : body'[n].what = "pad"
         /\ \A part \in 1 .. w :
              body'[(m + p) + part] = [what |-> "insn", of |-> i, part |-> part]
    BY <1>9, Zenon DEF Grown
  <1>11. DOMAIN body' = 1 .. m + p + w /\ DOMAIN body = 1 .. m
    BY <1>10, LenProperties
  <1> HIDE DEF a, m, d, e
  <1>12. End(i) - Len(body') \in 0 .. f
    <2> DEFINE y == End(i)
               l == Len(body')
    <2>1. y = a + z /\ l = m + p + w
      BY <1>7, <1>10
    <2> HIDE DEF y, l, f
    <2> DEFINE u == z - w
               x == d - m
    <2>2. u = 0 \/ (u = 1 /\ f >= e + 1)
      BY <1>4, <1>5, <1>6, <1>7
    <2>3. x \in 0 .. e
      BY <1>3
    <2>4. y - l = x + u
      BY <1>6, <1>7, <1>10, <2>1
    <2> HIDE DEF u, x
    <2>5. x + u \in 0 .. f
      BY <1>4, <2>2, <2>3
    <2> QED
      BY <2>4, <2>5 DEF y, l
  <1>13. ASSUME NEW n \in DOMAIN body', body'[n].what = "insn"
         PROVE  start_addr'[body'[n].of] + body'[n].part - n \in 0 .. f
    <2>1. CASE n \in 1 .. m
      <3>1. body'[n] = body[n] /\ n \in DOMAIN body
        BY <1>10, <1>11, <2>1
      <3> DEFINE x == start_addr[body[n].of] + body[n].part - n
      <3>2. x \in 0 .. e
        BY <1>3, <1>13, <3>1
      <3>4. start_addr'[body'[n].of] + body'[n].part - n = x
        BY <1>1, <3>1
      <3> HIDE DEF x, f
      <3>3. x \in 0 .. f
        BY <1>4, <3>2
      <3> QED
        BY <3>3, <3>4
    <2>2. CASE n \in m + 1 .. m + p
      BY <1>10, <1>13, <2>2
    <2>3. CASE n \in (m + p) + 1 .. (m + p) + w
      <3> DEFINE part == n - (m + p)
      <3>1. part \in 1 .. w /\ n = (m + p) + part
        BY <1>6, <1>10, <2>3
      <3> HIDE DEF part
      <3>2. body'[n] = [what |-> "insn", of |-> i, part |-> part]
        BY <1>10, <3>1
      <3>3. body'[n].of = i /\ body'[n].part = part
        BY <3>2
      <3>4. start_addr'[i] = a
        BY <1>1 DEF a
      <3> HIDE DEF f
      <3>7. m \in Nat /\ p \in Nat /\ d \in Nat /\ a = d + p
        BY <1>6, <1>7, <1>10
      <3>8. part \in Int /\ n = (m + p) + part
        BY <3>1
      <3>5. a + part - n = d - m
        BY <3>7, <3>8
      <3>6. d - m \in 0 .. f
        <4>1. d - m \in 0 .. e
          BY <1>3
        <4> QED
          BY <1>4, <4>1
      <3> QED
        BY <3>3, <3>4, <3>5, <3>6
    <2>4. n \in 1 .. m \/ n \in m + 1 .. m + p \/ n \in (m + p) + 1 .. (m + p) + w
      BY <1>6, <1>10, <1>11, <1>13
    <2> QED
      BY <2>1, <2>2, <2>3, <2>4
  <1> QED
    BY <1>8, <1>12, <1>13

\* The hashes are no instructions.
LEMMA EndPass2KeepsBehind ==
  ASSUME TypeOK, body \in Seq(Cell), BehindOK, EndPass2
  PROVE  BehindOK'
  <1>1. UNCHANGED <<insns, start_addr, align_bytes, reserved, errors>> /\ pc' # "pass_2"
    <2>1. UNCHANGED <<insns, start_addr, align_bytes, reserved, errors>>
          /\ pc' = IfClean("exit_0", errors)
      BY Zenon DEF EndPass2, symbols, layout
    <2> QED
      BY <2>1, Zenon DEF IfClean
  <1>2. Wraps' = Wraps
    BY <1>1 DEF Wraps
  <1> DEFINE m == Len(body)
             h == 4 * Len(ncalls)
             b == body'
  <1>3. /\ m \in Nat /\ h \in Nat /\ b \in Seq(Cell) /\ Len(b) = m + h
        /\ \A n \in 1 .. m : b[n] = body[n]
        /\ \A n \in 1 .. h : b[m + n] = Hashes[n] /\ Hashes[n].what = "hash"
    BY HashesBehind, HashesAre
  <1>4. DOMAIN b = 1 .. m + h /\ DOMAIN body = 1 .. m
    BY <1>3, LenProperties
  <1> HIDE DEF m, h
  <1>5. ASSUME NEW n \in DOMAIN b, b[n].what = "insn"
        PROVE  n \in DOMAIN body /\ b[n] = body[n]
    <2>1. CASE n \in 1 .. m
      BY <1>3, <1>4, <2>1
    <2>2. CASE n \notin 1 .. m
      <3>1. n - m \in 1 .. h /\ m + (n - m) = n
        BY <1>3, <1>4, <1>5, <2>2
      <3>2. b[n].what = "hash"
        BY <1>3, <3>1
      <3> QED
        BY <1>5, <3>2
    <2> QED
      BY <2>1, <2>2
  <1>6. ASSUME ~Wraps, NEW n \in DOMAIN b, b[n].what = "insn"
        PROVE  start_addr'[b[n].of] + b[n].part - n \in 0 .. errors'
    <2>1. n \in DOMAIN body /\ b[n] = body[n]
      BY <1>5, <1>6
    <2>2. start_addr[body[n].of] + body[n].part - n \in 0 .. errors
      BY <1>6, <2>1, Zenon DEF BehindOK
    <2> QED
      BY <1>1, <2>1, <2>2
  <1> QED
    BY <1>1, <1>2, <1>6 DEF BehindOK

\* A failed write, and the loader, write nothing more.
LEMMA BehindStays ==
  ASSUME BehindOK, UNCHANGED <<layout, insns, errors, emitted, body>>,
         pc' = "pass_2" => pc = "pass_2"
  PROVE  BehindOK'
  <1>1. UNCHANGED <<insns, start_addr, align_bytes, reserved, errors, emitted, body>>
    BY DEF layout
  <1>2. Wraps' = Wraps
    BY <1>1 DEF Wraps
  <1>3. End(emitted)' = End(emitted)
    BY <1>1, Zenon DEF End
  <1> HIDE DEF Wraps
  <1> QED
    BY <1>1, <1>2, <1>3 DEF BehindOK

LEMMA BehindNext ==
  ASSUME Inv, Inv', BehindOK, [Next]_vars
  PROVE  BehindOK'
  <1>1. TypeOK /\ ScopesOK /\ SymbolsOK /\ LayoutOK /\ Stages /\ body \in Seq(Cell) /\ TypeOK'
    BY DEF Inv, BodyOK
  <1>2. CASE VmaNext /\ pc \in {"parse", "pass_1"}
    <2>1. UNCHANGED <<emitted, body>>
      BY <1>2 DEF VmaNext, Parse, SyntaxError, EndsBroken, Abandon, EndParse, Pass1, EndPass1,
                  Pass2, WriteFails, EndPass2, output
    <2>2. emitted = 0 /\ body = <<>>
      BY <1>1, <1>2 DEF Stages
    <2> QED
      BY <1>1, <2>1, <2>2, NothingBehind
  <1>3. CASE Pass2
    <2>1. PICK i, values : Pass2Of(i, values)
      BY <1>1, <1>3, Pass2Is
    <2> QED
      BY <1>1, <2>1, Pass2KeepsBehind
  <1>4. CASE EndPass2
    BY <1>1, <1>4, EndPass2KeepsBehind
  <1>5. CASE WriteFails
    BY <1>5, BehindStays DEF WriteFails, symbols, output
  <1>6. CASE UNCHANGED vmaVars
    BY <1>6, BehindStays DEF vmaVars, symbols, output
  <1>7. VmaNext => Pass2 \/ EndPass2 \/ WriteFails \/ pc \in {"parse", "pass_1"}
    BY DEF VmaNext, Parse, SyntaxError, EndsBroken, Abandon, EndParse, Pass1, EndPass1
  <1>8. VmaNext \/ UNCHANGED vmaVars
    BY DEF Next, vars
  <1> QED
    BY <1>2, <1>3, <1>4, <1>5, <1>6, <1>7, <1>8

LEMMA BehindInvariance == Spec => []BehindOK
  <1>1. Init => BehindOK
    <2> SUFFICES ASSUME Init PROVE BehindOK
      OBVIOUS
    <2>1. pc = "parse" /\ body = <<>>
      BY DEF Init, VmaInit
    <2>2. DOMAIN body = {}
      BY <2>1
    <2> QED
      BY <2>1, <2>2 DEF BehindOK
  <1>2. Inv /\ Inv' /\ BehindOK /\ [Next]_vars => BehindOK'
    BY BehindNext
  <1> QED
    BY <1>1, <1>2, Invariance, PTL DEF Spec

\* What stands in the file: instructions where they belong, but for the errors, and behind
\* the last the hashes.
LEMMA EmittedIs ==
  ASSUME Inv, BehindOK
  PROVE  EmittedWhereAllocated
  <1> SUFFICES ASSUME ~Wraps, pc = "exit_0", ~EmptyAtEnd
               PROVE  {n \in DOMAIN body : body[n].what # "hash"} = 1 .. bss_va
    BY Zenon DEF EmittedWhereAllocated, BehindOK
  <1>1. TypeOK /\ LayoutOK /\ BodyOK /\ errors = 0
    BY FileWritten DEF Inv
  <1> DEFINE m == End(emitted)
             h == Len(ncalls)
  <1>2. /\ m \in Nat /\ h \in Nat /\ m = bss_va /\ Len(body) = m + 4 * h
        /\ DOMAIN body = 1 .. Len(body)
    BY FileWritten
  <1>3. \A n \in 1 .. m : body[n].what # "hash"
    BY <1>1, Zenon DEF BodyOK
  <1>4. \A n \in 1 .. 4 * h : body[m + n] = Hashes[n]
    BY <1>1, Zenon DEF BodyOK
  <1>5. \A n \in 1 .. 4 * h : Hashes[n].what = "hash"
    BY <1>1, HashesAre
  <1> HIDE DEF m, h
  <1>6. ASSUME NEW n \in DOMAIN body, n \notin 1 .. m
        PROVE  body[n].what = "hash"
    <2>1. n - m \in 1 .. 4 * h /\ m + (n - m) = n
      BY <1>2, <1>6
    <2>2. body[m + (n - m)] = Hashes[n - m]
      BY <1>4, <2>1
    <2> QED
      BY <1>5, <2>1, <2>2
  <1>7. \A n \in 1 .. m : n \in DOMAIN body
    BY <1>2
  <1> QED
    BY <1>2, <1>3, <1>6, <1>7

\* Pass 2 writes every instruction where pass 1 put it, alignment and reserved memory
\* between included, and no more than the header says; an error moves what follows by one
\* byte at most.
THEOREM EmittedAsAllocated == Spec => []EmittedWhereAllocated
  BY Invariance, BehindInvariance, EmittedIs, PTL

\* The symbols are the source's: each stands for the line that carries its label, in the
\* routine of the line.
Carries(prog, scope, name, sym) ==
  /\ name \in LocalNames => scope # Globals
  /\ sym.at = NoInsn => sym.type = "label"
  /\ sym.at # NoInsn =>
       /\ sym.at \in 1 .. Len(prog)
       /\ prog[sym.at].label = name
       /\ name \in LocalNames => scope = ScopeIn(prog, sym.at - 1)
       /\ sym.type = "constant" <=> prog[sym.at].kind = "const"

LabelsOK ==
  errors = 0 =>
    \A scope \in DOMAIN symtabs : \A name \in DOMAIN symtabs[scope] :
      Carries(insns, scope, name, symtabs[scope][name])

LEMMA CarriesOn ==
  ASSUME NEW p, NEW q, NEW m \in Nat, NEW n \in Nat, Len(p) = m, Len(q) = n, m <= n,
         \A l \in 1 .. m : q[l] = p[l], NEW scope, NEW name, NEW sym, Carries(p, scope, name, sym)
  PROVE  Carries(q, scope, name, sym)
  <1>1. ASSUME sym.at # NoInsn
        PROVE  /\ sym.at \in 1 .. n /\ q[sym.at].label = name
               /\ name \in LocalNames => scope = ScopeIn(q, sym.at - 1)
               /\ sym.type = "constant" <=> q[sym.at].kind = "const"
    <2>1. /\ sym.at \in 1 .. m /\ p[sym.at].label = name
          /\ name \in LocalNames => scope = ScopeIn(p, sym.at - 1)
          /\ sym.type = "constant" <=> p[sym.at].kind = "const"
      BY <1>1, Zenon DEF Carries
    <2> DEFINE k == sym.at - 1
    <2>2. k \in Nat /\ (\A l \in 1 .. k : l \in 1 .. m) /\ sym.at \in 1 .. n
      BY <2>1
    <2>3. q[sym.at] = p[sym.at]
      BY <2>1
    <2> HIDE DEF k
    <2>4. ScopeIn(p, k) = ScopeIn(q, k)
      BY <2>2, ScopeSame
    <2> QED
      BY <2>1, <2>2, <2>3, <2>4, Zenon DEF k
  <1> QED
    BY <1>1, Zenon DEF Carries

\* A name that is defined anew is defined as the line says, and the others stay.
LEMMA DefinedIs ==
  ASSUME NEW name, NEW type, NEW at, name \notin DOMAIN symtabs[ScopeOf(name)],
         NEW scope \in DOMAIN symtabs, NEW n \in DOMAIN Defined(name, type, at)[scope]
  PROVE  \/ /\ scope = ScopeOf(name) /\ n = name
            /\ Defined(name, type, at)[scope][n] = [type |-> type, at |-> at]
         \/ /\ n \in DOMAIN symtabs[scope]
            /\ Defined(name, type, at)[scope][n] = symtabs[scope][n]
  <1> DEFINE s == ScopeOf(name)
             tabs == symtabs[s]
             sym == [type |-> type, at |-> at]
             new == [k \in DOMAIN tabs \cup {name} |-> IF k = name THEN sym ELSE tabs[k]]
  <1>1. Defined(name, type, at) = [symtabs EXCEPT ![s] = new]
    BY Zenon DEF Defined, With
  <1>2. CASE scope = s
    <2>1. Defined(name, type, at)[scope] = new
      BY <1>1, <1>2
    <2> HIDE DEF sym
    <2>2. n = name \/ n \in DOMAIN tabs
      BY <2>1
    <2>3. new[n] = IF n = name THEN sym ELSE tabs[n]
      BY <2>2
    <2> HIDE DEF new, tabs
    <2> QED
      BY <1>2, <2>1, <2>2, <2>3, Zenon DEF tabs, sym
  <1>3. CASE scope # s
    <2>1. Defined(name, type, at)[scope] = symtabs[scope]
      BY <1>1, <1>3
    <2> QED
      BY <2>1, Zenon
  <1> QED
    BY <1>2, <1>3

LEMMA DefinedCarries ==
  ASSUME NEW name, NEW type, NEW at, NEW prog, name \notin DOMAIN symtabs[ScopeOf(name)],
         Carries(prog, ScopeOf(name), name, [type |-> type, at |-> at]),
         \A scope \in DOMAIN symtabs : \A n \in DOMAIN symtabs[scope] :
           Carries(prog, scope, n, symtabs[scope][n])
  PROVE  \A scope \in DOMAIN symtabs : \A n \in DOMAIN Defined(name, type, at)[scope] :
           Carries(prog, scope, n, Defined(name, type, at)[scope][n])
  <1> TAKE scope \in DOMAIN symtabs
  <1> TAKE n \in DOMAIN Defined(name, type, at)[scope]
  <1>1. \/ /\ scope = ScopeOf(name) /\ n = name
           /\ Defined(name, type, at)[scope][n] = [type |-> type, at |-> at]
        \/ /\ n \in DOMAIN symtabs[scope]
           /\ Defined(name, type, at)[scope][n] = symtabs[scope][n]
    BY DefinedIs
  <1> QED
    BY <1>1, Zenon

\* A name without an error is new, and stands in a routine if it starts with "@@".
LEMMA NoError ==
  ASSUME NEW name, DefineErrors(name) \in {0}
  PROVE  /\ name \notin DOMAIN symtabs[ScopeOf(name)]
         /\ name \in LocalNames => ScopeOf(name) = lookup_stack /\ lookup_stack # Globals
  <1> DEFINE a == IF name \in LocalNames /\ lookup_stack = Globals THEN 1 ELSE 0
             b == IF name \in DOMAIN symtabs[ScopeOf(name)] THEN 1 ELSE 0
  <1>1. /\ a \in {0, 1} /\ (a = 0 => ~(name \in LocalNames /\ lookup_stack = Globals))
        /\ b \in {0, 1} /\ (b = 0 => name \notin DOMAIN symtabs[ScopeOf(name)])
    OBVIOUS
  <1>2. DefineErrors(name) = a + b
    BY Zenon DEF DefineErrors
  <1>3. name \in LocalNames => ScopeOf(name) = lookup_stack
    BY Zenon DEF ScopeOf
  <1> HIDE DEF a, b
  <1>4. a = 0 /\ b = 0
    BY <1>1, <1>2
  <1> QED
    BY <1>1, <1>3, <1>4, Zenon

LEMMA ParseKeepsLabels ==
  ASSUME TypeOK, ScopeOK, LabelsOK, Parse
  PROVE  LabelsOK'
  <1>1. PICK insn \in Statements :
         LET at == Len(insns) + 1
             named == insn.label # NoLabel
             type == IF insn.kind = "const" THEN "constant" ELSE "label"
             tabs == IF named THEN Defined(insn.label, type, at) ELSE symtabs
             count == errors + IF named THEN DefineErrors(insn.label) ELSE 0
         IN /\ insns' = Append(insns, insn)
            /\ symtabs' = IF insn.kind = "sub" THEN With(tabs, at, <<>>) ELSE tabs
            /\ errors' = count
    BY Zenon DEF Parse
  <1> DEFINE at == Len(insns) + 1
             named == insn.label # NoLabel
             type == IF insn.kind = "const" THEN "constant" ELSE "label"
             tabs == IF named THEN Defined(insn.label, type, at) ELSE symtabs
             more == IF named THEN DefineErrors(insn.label) ELSE 0
  <1>2. /\ insns' = Append(insns, insn)
        /\ symtabs' = IF insn.kind = "sub" THEN With(tabs, at, <<>>) ELSE tabs
        /\ errors' = errors + more
    BY <1>1, Zenon
  <1>3. insns \in Seq(Statements) /\ errors \in Nat
    BY Zenon DEF TypeOK
  <1> DEFINE prog == insns'
             n == Len(insns)
  <1>4. /\ n \in Nat /\ at = n + 1 /\ Len(prog) = at /\ at \in Nat /\ prog[at] = insn
        /\ \A l \in 1 .. n : prog[l] = insns[l]
    <2>1. prog = Append(insns, insn)
      BY <1>2
    <2> HIDE DEF prog
    <2> QED
      BY <1>3, <2>1, AppendProperties, LenProperties
  <1> HIDE DEF at, named, type, tabs, more, prog, n
  <1> SUFFICES ASSUME errors' = 0
               PROVE  \A scope \in DOMAIN symtabs' : \A name \in DOMAIN symtabs'[scope] :
                        Carries(prog, scope, name, symtabs'[scope][name])
    BY Zenon DEF LabelsOK, prog
  <1>5. more \in Nat
    BY LabelErrorsNat, Zenon DEF more, named, LabelErrors
  <1>6. errors = 0 /\ more = 0
    BY <1>2, <1>3, <1>5
  <1>7. \A scope \in DOMAIN symtabs : \A name \in DOMAIN symtabs[scope] :
          Carries(prog, scope, name, symtabs[scope][name])
    <2> TAKE scope \in DOMAIN symtabs
    <2> TAKE name \in DOMAIN symtabs[scope]
    <2>1. Carries(insns, scope, name, symtabs[scope][name])
      BY <1>6, Zenon DEF LabelsOK
    <2>2. Len(insns) = n /\ n <= at
      BY <1>4 DEF n
    <2> QED
      BY <1>4, <2>1, <2>2, CarriesOn
  <1>8. DOMAIN tabs = DOMAIN symtabs
    BY DefinedDomain, Zenon DEF tabs
  <1>9. \A scope \in DOMAIN tabs : \A name \in DOMAIN tabs[scope] :
          Carries(prog, scope, name, tabs[scope][name])
    <2>1. CASE named
      <3> DEFINE label == insn.label
                 sym == [type |-> type, at |-> at]
      <3>1. /\ label \notin DOMAIN symtabs[ScopeOf(label)]
            /\ label \in LocalNames => ScopeOf(label) = lookup_stack /\ lookup_stack # Globals
        <4>1. DefineErrors(label) \in {0}
          BY <1>6, <2>1 DEF more
        <4> QED
          BY <4>1, NoError
      <3>2. lookup_stack = ScopeIn(prog, at - 1)
        <4>1. lookup_stack = ScopeIn(insns, n)
          BY Zenon DEF ScopeOK, Parse, n
        <4>2. ScopeIn(prog, n) = ScopeIn(insns, n)
          BY <1>4, ScopeSame
        <4>3. at - 1 = n
          BY <1>4
        <4> QED
          BY <4>1, <4>2, <4>3, Zenon
      <3>3. sym.type = type /\ sym.at = at
        OBVIOUS
      <3>4. type = "constant" <=> prog[at].kind = "const"
        BY <1>4 DEF type
      <3> HIDE DEF sym
      <3>5. Carries(prog, ScopeOf(label), label, sym)
        <4>1. sym.at \in 1 .. Len(prog)
          BY <1>4, <3>3
        <4>2. prog[sym.at].label = label
          BY <1>4, <3>3
        <4>3. label \in LocalNames => ScopeOf(label) = ScopeIn(prog, sym.at - 1)
          BY <3>1, <3>2, <3>3, Zenon
        <4>4. sym.type = "constant" <=> prog[sym.at].kind = "const"
          BY <3>3, <3>4, Zenon
        <4>5. sym.at # NoInsn
          BY <1>4, <3>3 DEF NoInsn
        <4> QED
          BY <3>1, <4>1, <4>2, <4>3, <4>4, <4>5, Zenon DEF Carries
      <3>6. tabs = Defined(label, type, at)
        BY <2>1, Zenon DEF tabs
      <3> HIDE DEF label
      <3>7. \A scope \in DOMAIN symtabs : \A k \in DOMAIN Defined(label, type, at)[scope] :
              Carries(prog, scope, k, Defined(label, type, at)[scope][k])
        BY <1>7, <3>1, <3>5, DefinedCarries DEF sym
      <3> QED
        BY <1>8, <3>6, <3>7, Zenon
    <2>2. CASE ~named
      <3>1. tabs = symtabs
        BY <2>2, Zenon DEF tabs
      <3> QED
        BY <1>7, <3>1, Zenon
    <2> QED
      BY <2>1, <2>2
  <1>10. CASE insn.kind = "sub"
    <2> TAKE scope \in DOMAIN symtabs'
    <2> TAKE name \in DOMAIN symtabs'[scope]
    <2>1. symtabs' = With(tabs, at, <<>>)
      BY <1>2, <1>10, Zenon
    <2>2. symtabs'[scope] = IF scope = at THEN <<>> ELSE tabs[scope]
      BY <2>1, Zenon DEF With
    <2>3. scope = at \/ scope \in DOMAIN tabs
      BY <2>1, Zenon DEF With
    <2>4. DOMAIN <<>> = {}
      OBVIOUS
    <2>5. scope # at
      BY <2>2, <2>4
    <2> QED
      BY <1>9, <2>2, <2>3, <2>5, Zenon
  <1>11. CASE insn.kind # "sub"
    <2>1. symtabs' = tabs
      BY <1>2, <1>11, Zenon
    <2> QED
      BY <1>9, <2>1, Zenon
  <1> QED
    BY <1>10, <1>11

LEMMA BrokenKeepsLabels ==
  ASSUME TypeOK, LabelsOK, SyntaxError \/ EndsBroken
  PROVE  LabelsOK'
  <1>1. PICK label : /\ Abandon(label)
                     /\ \/ errors' = errors + LabelErrors(label) + 1
                        \/ errors' = errors + LabelErrors(label)
    BY Zenon DEF SyntaxError, EndsBroken
  <1>2. errors \in Nat /\ LabelErrors(label) \in Nat /\ insns' = insns
    BY <1>1, LabelErrorsNat, Zenon DEF TypeOK, Abandon
  <1> SUFFICES ASSUME errors' = 0
               PROVE  \A scope \in DOMAIN symtabs' : \A name \in DOMAIN symtabs'[scope] :
                        Carries(insns, scope, name, symtabs'[scope][name])
    BY <1>2, Zenon DEF LabelsOK
  <1>3. errors = 0 /\ LabelErrors(label) = 0
    <2> DEFINE m == LabelErrors(label)
    <2>1. m \in Nat /\ errors \in Nat /\ (0 = errors + m + 1 \/ 0 = errors + m)
      BY <1>1, <1>2
    <2> HIDE DEF m
    <2>2. errors = 0 /\ m = 0
      BY <2>1
    <2> QED
      BY <2>2 DEF m
  <1>4. \A scope \in DOMAIN symtabs : \A name \in DOMAIN symtabs[scope] :
          Carries(insns, scope, name, symtabs[scope][name])
    BY <1>3, Zenon DEF LabelsOK
  <1>5. CASE label = NoLabel \/ label \in DOMAIN symtabs[ScopeOf(label)]
    <2>1. symtabs' = symtabs
      BY <1>1, <1>5, Zenon DEF Abandon
    <2> QED
      BY <1>4, <2>1, Zenon
  <1>6. CASE ~(label = NoLabel \/ label \in DOMAIN symtabs[ScopeOf(label)])
    <2>1. symtabs' = Defined(label, "label", NoInsn) /\ DOMAIN symtabs' = DOMAIN symtabs
      BY <1>1, <1>6, DefinedDomain, Zenon DEF Abandon
    <2>2. DefineErrors(label) \in {0}
      BY <1>3, <1>6 DEF LabelErrors
    <2>3. label \in LocalNames => ScopeOf(label) # Globals
      BY <2>2, NoError
    <2> DEFINE sym == [type |-> "label", at |-> NoInsn]
    <2>4. sym.at = NoInsn /\ sym.type = "label"
      OBVIOUS
    <2> HIDE DEF sym
    <2>5. Carries(insns, ScopeOf(label), label, sym)
      BY <2>3, <2>4, Zenon DEF Carries
    <2>6. \A scope \in DOMAIN symtabs : \A n \in DOMAIN Defined(label, "label", NoInsn)[scope] :
            Carries(insns, scope, n, Defined(label, "label", NoInsn)[scope][n])
      BY <1>4, <1>6, <2>5, DefinedCarries DEF sym
    <2> QED
      BY <2>1, <2>6, Zenon
  <1> QED
    BY <1>5, <1>6

LEMMA LabelsStay ==
  ASSUME LabelsOK, UNCHANGED symbols, errors \in Nat, errors' \in Nat, errors' >= errors
  PROVE  LabelsOK'
  <1>1. UNCHANGED <<insns, symtabs>>
    BY DEF symbols
  <1>2. errors' = 0 => errors = 0
    OBVIOUS
  <1> QED
    BY <1>1, <1>2, Zenon DEF LabelsOK

LEMMA LabelsNext ==
  ASSUME Inv, LabelsOK, [Next]_vars
  PROVE  LabelsOK'
  <1>1. TypeOK /\ ScopesOK /\ SymbolsOK /\ ScopeOK /\ errors \in Nat
    BY DEF Inv, TypeOK
  <1>2. CASE Parse
    BY <1>1, <1>2, ParseKeepsLabels
  <1>3. CASE SyntaxError \/ EndsBroken
    BY <1>1, <1>3, BrokenKeepsLabels
  <1>4. CASE Pass1
    <2>1. PICK at, va, value : Pass1Of(at, va, value)
      BY <1>1, <1>4, Pass1Is
    <2>2. UNCHANGED symbols /\ errors' \in Nat /\ errors' >= errors
      BY <2>1, Zenon DEF Pass1Of
    <2> QED
      BY <1>1, <2>2, LabelsStay
  <1>5. CASE Pass2
    <2>1. PICK i, values : Pass2Of(i, values)
      BY <1>1, <1>5, Pass2Is
    <2>2. UNCHANGED symbols /\ errors' \in Nat /\ errors' >= errors
      BY <2>1, Zenon DEF Pass2Of
    <2> QED
      BY <1>1, <2>2, LabelsStay
  <1>6. CASE EndParse \/ EndPass1 \/ WriteFails \/ EndPass2 \/ UNCHANGED vmaVars
    <2>1. UNCHANGED symbols /\ errors' = errors
      BY <1>6 DEF EndParse, EndPass1, WriteFails, EndPass2, vmaVars
    <2>2. errors' \in Nat /\ errors' >= errors
      BY <1>1, <2>1
    <2> QED
      BY <1>1, <2>1, <2>2, LabelsStay
  <1>7. VmaNext \/ UNCHANGED vmaVars
    BY DEF Next, vars
  <1> QED
    BY <1>2, <1>3, <1>4, <1>5, <1>6, <1>7 DEF VmaNext

LEMMA LabelsInvariance == Spec => []LabelsOK
  <1>1. Init => LabelsOK
    <2> SUFFICES ASSUME Init PROVE LabelsOK
      OBVIOUS
    <2>1. symtabs = [scope \in {Globals} |-> <<>>]
      BY DEF Init, VmaInit
    <2>2. DOMAIN symtabs = {Globals} /\ symtabs[Globals] = <<>> /\ DOMAIN <<>> = {}
      BY <2>1
    <2> QED
      BY <2>2 DEF LabelsOK
  <1>2. Inv /\ LabelsOK /\ [Next]_vars => LabelsOK'
    BY LabelsNext
  <1> QED
    BY <1>1, <1>2, Invariance, PTL DEF Spec

\* A scope that is no routine's is Globals.
LEMMA ScopeOpened ==
  ASSUME NEW prog, NEW i \in Nat
  PROVE  \/ ScopeIn(prog, i) = Globals
         \/ ScopeIn(prog, i) \in 1 .. i /\ prog[ScopeIn(prog, i)].kind = "sub"
  <1> DEFINE P(k) == \/ ScopeIn(prog, k) = Globals
                     \/ ScopeIn(prog, k) \in 1 .. k /\ prog[ScopeIn(prog, k)].kind = "sub"
             S == {k \in Nat : P(k)}
  <1>1. 0 \in S
    <2>1. \A m \in 1 .. 0 : ~Mark(prog[m])
      OBVIOUS
    <2> QED
      BY <2>1, NoScope
  <1>2. ASSUME NEW k \in Nat, k \in S PROVE k + 1 \in S
    <2> DEFINE j == k + 1
               s == ScopeIn(prog, k)
               u == ScopeIn(prog, j)
    <2>1. j \in Nat \ {0} /\ j - 1 = k /\ j \in 1 .. j /\ \A m \in 1 .. k : m \in 1 .. j
      OBVIOUS
    <2>2. s = Globals \/ (s \in 1 .. k /\ prog[s].kind = "sub")
      BY <1>2
    <2> HIDE DEF j
    <2>3. u = IF prog[j].kind = "sub" THEN j
              ELSE IF prog[j].kind = "endsub" THEN Globals ELSE s
      BY <2>1, ScopeStep
    <2> HIDE DEF s, u
    <2>4. u = Globals \/ (u \in 1 .. j /\ prog[u].kind = "sub")
      BY <2>1, <2>2, <2>3, Zenon
    <2> QED
      BY <2>1, <2>4 DEF u, j
  <1> HIDE DEF S
  <1>3. Nat \subseteq S
    BY <1>1, <1>2, Induction
  <1> QED
    BY <1>3 DEF S

\* What a branch, CALL or LEA was made from is what it leads to.
LEMMA ReferencesAre ==
  ASSUME Inv, LabelsOK
  PROVE  ReferencesReach
  <1> SUFFICES ASSUME Closed, errors = 0, NEW i \in 1 .. emitted PROVE Reaches(i)
    BY Zenon DEF ReferencesReach
  <1>1. OperandsOK /\ ScopesOK /\ TypeOK
    BY DEF Inv
  <1>2. \A n : Enclosing(n) = ScopeIn(insns, n)
    BY Zenon DEF Enclosing, ScopeIn
  <1>3. Leads(insns, symtabs, start_addr, i, operands[i][1])
    <2>1. ScopeIn(insns, Len(insns)) = Globals
      BY <1>2, Zenon DEF Closed
    <2> QED
      BY <1>1, <2>1, Zenon DEF OperandsOK
  <1> DEFINE name == insns[i].exprs[1][1].name
             scope == ScopeIn(insns, i)
             sym == Found(symtabs, scope, name)
             meant == Meant(i, name)
             field == operands[i][1]
             away == IF insns[i].kind = "branch" THEN ByteSigned(field) ELSE field
             target == (start_addr[i] + MachineSize[insns[i].kind] + away) % ADDRS
  <1> SUFFICES ASSUME insns[i].kind \in {"branch", "relative"}, NamesSymbol(i),
                      \A n \in meant : insns[n].kind # "const"
               PROVE  \E n \in meant : target = start_addr[n]
    BY Zenon DEF Reaches
  <1>4. i \in Nat /\ i \in 1 .. Len(insns) /\ DOMAIN insns = 1 .. Len(insns)
    <2>1. insns \in Seq(Statements) /\ emitted \in 0 .. Len(start_addr)
          /\ Len(start_addr) <= Len(insns) /\ Len(start_addr) \in Nat
      BY <1>1, LenProperties DEF TypeOK
    <2>2. Len(insns) \in Nat /\ DOMAIN insns = 1 .. Len(insns)
      BY <2>1, LenProperties
    <2> QED
      BY <2>1, <2>2
  <1>5. Globals \in DOMAIN symtabs /\ scope \in DOMAIN symtabs
    <2>1. scope = Globals \/ (scope \in 1 .. i /\ insns[scope].kind = "sub")
      BY <1>4, ScopeOpened
    <2>2. Globals \in DOMAIN symtabs
      BY <1>1, Zenon DEF ScopesOK
    <2> HIDE DEF scope
    <2>3. scope \in 1 .. i => scope \in 1 .. Len(insns)
      BY <1>4
    <2> QED
      BY <1>1, <2>1, <2>2, <2>3, Zenon DEF ScopesOK
  <1> HIDE DEF scope, name
  <1>6. \/ /\ name \in DOMAIN symtabs[scope] /\ sym = symtabs[scope][name]
           /\ Carries(insns, scope, name, sym)
        \/ /\ name \in DOMAIN symtabs[Globals] /\ sym = symtabs[Globals][name]
           /\ Carries(insns, Globals, name, sym)
        \/ sym.type = "none"
    <2>1. CASE name \in DOMAIN symtabs[scope]
      <3>1. sym = symtabs[scope][name]
        BY <2>1, Zenon DEF Found
      <3> QED
        BY <1>5, <2>1, <3>1, Zenon DEF LabelsOK
    <2>2. CASE name \notin DOMAIN symtabs[scope] /\ name \in DOMAIN symtabs[Globals]
      <3>1. sym = symtabs[Globals][name]
        BY <2>2, Zenon DEF Found
      <3> QED
        BY <1>5, <2>2, <3>1, Zenon DEF LabelsOK
    <2>3. CASE name \notin DOMAIN symtabs[scope] /\ name \notin DOMAIN symtabs[Globals]
      <3>1. sym = NoSymbol
        BY <2>3, Zenon DEF Found
      <3> QED
        BY <3>1 DEF NoSymbol
    <2> QED
      BY <2>1, <2>2, <2>3
  <1> HIDE DEF sym
  <1>7. ASSUME sym.at # NoInsn, sym.type # "none"
        PROVE  sym.at \in meant /\ (sym.type = "constant" <=> insns[sym.at].kind = "const")
    <2>1. /\ sym.at \in 1 .. Len(insns) /\ insns[sym.at].label = name
          /\ name \in LocalNames => scope = ScopeIn(insns, sym.at - 1)
          /\ sym.type = "constant" <=> insns[sym.at].kind = "const"
      BY <1>6, <1>7, Zenon DEF Carries
    <2>2. name \in LocalNames => Enclosing(sym.at - 1) = Enclosing(i)
      BY <1>2, <2>1, Zenon DEF scope
    <2> QED
      BY <1>4, <2>1, <2>2, Zenon DEF Meant
  <1>8. sym.type # "constant"
    <2> SUFFICES ASSUME sym.type = "constant" PROVE FALSE
      OBVIOUS
    <2>1. sym.type # "none" /\ sym.type # "label"
      OBVIOUS
    <2>2. sym.at # NoInsn
      BY <1>6, <2>1, Zenon DEF Carries
    <2> QED
      BY <1>7, <2>1, <2>2
  <1>9. Placed(sym) /\ target = start_addr[sym.at]
    BY <1>3, <1>8, Zenon DEF Leads, NamesSymbol, sym, name, scope
  <1>10. sym.at \in meant
    <2>1. sym.type = "label" /\ sym.at # NoInsn
      BY <1>9, Zenon DEF Placed
    <2> QED
      BY <1>7, <2>1
  <1> QED
    BY <1>9, <1>10, Zenon

\* A branch, CALL or LEA that names a label leads to the line that carries the label, for
\* "@@" that of its own routine, whatever pass 2 and the tables of symbols did on the way.
THEOREM ReferencesAlwaysReach == Spec => []ReferencesReach
  BY Invariance, LabelsInvariance, ReferencesAre, PTL

\* Every address keeps its width, and every stage has the values of those before it.
THEOREM TypeCorrect == Spec => []TypeOK
  <1>1. Inv => TypeOK
    BY DEF Inv
  <1> QED
    BY <1>1, Invariance, PTL

-----------------------------------------------------------------------------
\* What the loader makes of the file.

\* The loader runs when the assembler has ended well, on the file it wrote.
LEMMA LoaderReads ==
  ASSUME Inv, lpc \notin {"closed", "no_file"}
  PROVE  /\ pc = "exit_0" /\ IsFile
         /\ file.filesize = bss_va /\ file.memsize = next_va /\ file.ep_offset = ep_offset
         /\ bss_va \in Nat /\ next_va \in Nat
         /\ file.ncalls_count = Len(ncalls) % (BYTES * BYTES) /\ file.ncalls_count \in Nat
         /\ Len(file.rest) \in Nat /\ Len(file.rest) <= Len(body)
         /\ \A n \in 1 .. Len(file.rest) : file.rest[n] = body[n]
         /\ file.rest \in Seq(Cell) /\ file.size \in Nat /\ file.size <= Whole
         /\ file.size = Whole => Len(file.rest) = Len(body)
  <1>1. TypeOK /\ BodyOK /\ LoaderOK
    BY DEF Inv
  <1>2. IsFile /\ pc = "exit_0"
    BY <1>1 DEF LoaderOK
  <1> QED
    BY <1>1, <1>2, FileFacts

\* Two bytes count the routines, as far as they reach.
LEMMA CountedIs ==
  ASSUME NEW n \in Nat
  PROVE  /\ n % (BYTES * BYTES) <= n /\ n % (BYTES * BYTES) \in Nat
         /\ n < BYTES * BYTES => n % (BYTES * BYTES) = n
  <1> DEFINE b == BYTES
             c == b * b
  <1>1. b \in Nat \ {0}
    BY Constraints
  <1> HIDE DEF b
  <1>2. c \in Nat \ {0}
    BY <1>1
  <1> HIDE DEF c
  <1>3. n % c <= n /\ n % c \in Nat /\ (n < c => n % c = n)
    BY <1>2
  <1> QED
    BY <1>3 DEF c, b

\* A table that could be read holds the hashes, in the order of the ids.
LEMMA TableIs ==
  ASSUME Inv, lpc \notin {"closed", "no_file"}, ~Wraps, Counted, HasTable
  PROVE  /\ file.ncalls_count = Len(ncalls) /\ Len(ncalls) \in Nat
         /\ \A n \in 1 .. Len(ncalls) : table[n] = Hash[ncalls[n]]
  <1>1. /\ pc = "exit_0" /\ file.filesize = bss_va /\ bss_va \in Nat
        /\ file.ncalls_count = Len(ncalls) % (BYTES * BYTES)
        /\ Len(file.rest) \in Nat /\ Len(file.rest) <= Len(body)
        /\ \A n \in 1 .. Len(file.rest) : file.rest[n] = body[n]
    BY LoaderReads
  <1> DEFINE h == Len(ncalls)
             m == End(emitted)
             rest == file.rest
  <1>2. h \in Nat /\ Len(body) = m + 4 * h /\ m \in Nat /\ m <= bss_va
    BY <1>1, FileWritten
  <1>3. file.ncalls_count = h
    BY <1>1, <1>2, CountedIs DEF Counted
  <1>4. offset = bss_va /\ Len(rest) - offset >= 4 * file.ncalls_count
        /\ table = [n \in 1 .. file.ncalls_count |-> HashAt(n)]
    BY <1>1, Zenon DEF HasTable, HasBody
  <1>5. /\ TypeOK
        /\ \A n \in 1 .. 4 * h : body[m + n] = Hashes[n]
    <2>1. TypeOK /\ BodyOK /\ errors = 0
      BY <1>1, FileWritten DEF Inv
    <2> QED
      BY <1>1, <2>1, Zenon DEF BodyOK
  <1> HIDE DEF m, h, rest
  <1>6. offset = m /\ Len(rest) = m + 4 * h
    BY <1>1, <1>2, <1>3, <1>4 DEF rest
  <1>7. ASSUME NEW n \in 1 .. h
        PROVE  HashAt(n) = Hash[ncalls[n]]
    <2> DEFINE first == offset + 4 * n - 3
               last == offset + 4 * n
               cells == SubSeq(rest, first, last)
    <2>1. /\ first \in 1 .. Len(rest) /\ last \in 1 .. Len(rest) /\ last - first + 1 = 4
          /\ \A k \in 1 .. 4 : /\ first + k - 1 \in 1 .. Len(rest)
                               /\ 4 * (n - 1) + k \in 1 .. 4 * h
                               /\ first + k - 1 = m + (4 * (n - 1) + k)
      BY <1>2, <1>6
    <2>2. rest \in Seq(Cell)
      BY LoaderReads DEF rest
    <2> HIDE DEF first, last
    <2>3. \A k \in 1 .. 4 : cells[k] = rest[first + k - 1]
      <3>1. first \in Int /\ last \in Int /\ \A p \in first .. last : rest[p] \in Cell
        BY <2>1, <2>2, ElementOfSeq
      <3>2. \A k \in 1 .. last - first + 1 : cells[k] = rest[first + k - 1]
        BY <3>1, SubSeqProperties
      <3> QED
        BY <2>1, <3>2
    <2>4. \A k \in 1 .. 4 : cells[k] = [what |-> "hash", of |-> Hash[ncalls[n]], part |-> k]
      <3> TAKE k \in 1 .. 4
      <3> DEFINE p == first + k - 1
                 q == 4 * (n - 1) + k
      <3>1. p \in 1 .. Len(rest) /\ q \in 1 .. 4 * h /\ p = m + q
        BY <2>1
      <3> HIDE DEF p, q, cells
      <3>2. cells[k] = rest[p] /\ rest[p] = body[p] /\ body[p] = Hashes[q]
        BY <1>1, <1>5, <2>3, <3>1 DEF p, rest
      <3>3. Hashes[q] = [what |-> "hash", of |-> Hash[ncalls[n]], part |-> k]
        BY <1>5, HashesAre DEF q, h
      <3> QED
        BY <3>2, <3>3
    <2>5. HashAt(n) = IF \A k \in 1 .. 4 :
                           cells[k] = [what |-> "hash", of |-> cells[1].of, part |-> k]
                      THEN cells[1].of ELSE -1
      BY Zenon DEF HashAt, first, last, rest
    <2> HIDE DEF cells
    <2>6. cells[1].of = Hash[ncalls[n]]
      BY <2>4
    <2> QED
      BY <2>4, <2>5, <2>6, Zenon
  <1> QED
    BY <1>2, <1>3, <1>4, <1>7 DEF h

LEMMA LoadedIs ==
  ASSUME Inv
  PROVE  LoadsWhatWasWritten
  <1> SUFFICES ASSUME lpc = "loaded", ~Wraps
               PROVE  /\ \A i \in 1 .. emitted : \A part \in 1 .. Size(insns[i], reserved[i]) :
                           memory[start_addr[i] + part] = [what |-> "insn", of |-> i, part |-> part]
                      /\ \A i \in DOMAIN insns :
                           start_addr[i] + Size(insns[i], reserved[i]) <= file.memsize
                      /\ symtabs[Globals]["start"].type = "label" =>
                           entry = start_addr[symtabs[Globals]["start"].at]
    BY Zenon DEF LoadsWhatWasWritten
  <1>1. TypeOK /\ LayoutOK /\ BodyOK /\ EntryOK /\ LoaderOK
    BY DEF Inv
  <1>2. /\ pc = "exit_0" /\ file.filesize = bss_va /\ file.memsize = next_va
        /\ bss_va \in Nat /\ Len(file.rest) \in Nat
        /\ \A n \in 1 .. Len(file.rest) : file.rest[n] = body[n]
    BY LoaderReads
  <1>3. HasBody /\ entry = ep_offset
    BY <1>1 DEF LoaderOK
  <1>4. /\ End(emitted) \in Nat /\ End(emitted) <= bss_va
        /\ next_va = End(Len(start_addr)) /\ Len(start_addr) = Len(insns)
    BY <1>2, FileWritten
  <1>5. Len(file.rest) >= bss_va /\ memory = SubSeq(file.rest, 1, bss_va)
    BY <1>2, <1>3 DEF HasBody
  <1>6. \A n \in 1 .. bss_va : memory[n] = body[n]
    <2> DEFINE rest == file.rest
    <2>5. rest \in Seq(Cell)
      BY LoaderReads
    <2> HIDE DEF rest
    <2>6. \A n \in 1 .. bss_va : SubSeq(rest, 1, bss_va)[n] = rest[n]
      BY <1>2, <1>5, <2>5, SubSeqProperties DEF rest
    <2>7. \A n \in 1 .. bss_va : n \in 1 .. Len(rest)
      BY <1>2, <1>5 DEF rest
    <2> QED
      BY <1>2, <1>5, <2>6, <2>7, Zenon DEF rest
  <1>7. ASSUME NEW i \in 1 .. emitted, NEW part \in 1 .. Size(insns[i], reserved[i])
        PROVE  memory[start_addr[i] + part] = [what |-> "insn", of |-> i, part |-> part]
    <2> DEFINE p == start_addr[i] + part
    <2>1. p \in 1 .. End(emitted) /\ body[p] = [what |-> "insn", of |-> i, part |-> part]
      BY <1>2, WrittenWithin
    <2> HIDE DEF p
    <2>2. p \in 1 .. bss_va
      BY <1>2, <1>4, <2>1
    <2>3. memory[p] = body[p]
      BY <1>6, <2>2
    <2> QED
      BY <2>1, <2>3, Zenon DEF p
  <1>8. ASSUME NEW i \in DOMAIN insns
        PROVE  start_addr[i] + Size(insns[i], reserved[i]) <= file.memsize
    <2>1. insns \in Seq(Statements)
      BY <1>1, Zenon DEF TypeOK
    <2>2. i \in 1 .. Len(start_addr) /\ Len(start_addr) \in Nat
      BY <1>1, <1>4, <2>1, Laid, LenProperties
    <2>3. i \in 0 .. Len(start_addr) /\ Len(start_addr) \in i .. Len(start_addr)
      BY <2>2
    <2>4. End(i) <= End(Len(start_addr)) /\ End(i) = start_addr[i] + Size(insns[i], reserved[i])
      BY <1>1, <2>2, <2>3, EndsGrow, Laid
    <2> QED
      BY <1>2, <1>4, <2>4
  <1>9. ASSUME symtabs[Globals]["start"].type = "label"
        PROVE  entry = start_addr[symtabs[Globals]["start"].at]
    <2> DEFINE sym == Lookup(Globals, "start")
    <2>1. sym.type # "none" /\ (sym.type = "label" => ep_offset = start_addr[sym.at])
      BY <1>1, <1>2 DEF EntryOK
    <2>2. sym = symtabs[Globals]["start"]
      <3>1. NoSymbol.type = "none"
        BY DEF NoSymbol
      <3> QED
        BY <2>1, <3>1, Zenon DEF Lookup
    <2> HIDE DEF sym
    <2> QED
      BY <1>3, <1>9, <2>1, <2>2
  <1> QED
    BY <1>7, <1>8, <1>9

\* What the loader puts into memory is the source: each instruction at its address, all
\* labels within the memory allocated, and the entry point that of the label "start".
THEOREM LoadsAsWritten == Spec => []LoadsWhatWasWritten
  BY Invariance, LoadedIs, PTL

LEMMA NamedIs ==
  ASSUME Inv
  PROVE  RoutinesNamed
  <1> SUFFICES ASSUME lpc = "loaded", ~Wraps, Counted, NEW i \in 1 .. emitted,
                      insns[i].kind = "ncall"
               PROVE  /\ operands[i][1] \in 0 .. Len(ncalls_table) - 1
                      /\ Routines[ncalls_table[operands[i][1] + 1]] = Hash[insns[i].name]
    BY Zenon DEF RoutinesNamed
  <1>1. TypeOK /\ ScopesOK /\ OperandsOK /\ LoaderOK
    BY DEF Inv
  <1>2. pc = "exit_0"
    BY LoaderReads
  <1>3. i \in 1 .. Len(insns)
    <2>1. emitted \in 0 .. Len(start_addr)
      BY <1>1, Zenon DEF TypeOK
    <2>2. Len(start_addr) = Len(insns) /\ Len(insns) \in Nat
      <3>1. insns \in Seq(Statements)
        BY <1>1, Zenon DEF TypeOK
      <3> QED
        BY <1>2, <3>1, FileWritten, LenProperties
    <2> QED
      BY <2>1, <2>2
  <1> DEFINE id == Id(insns[i].name)
  <1>4. id \in 0 .. Len(ncalls) - 1 /\ ncalls[id + 1] = insns[i].name
    BY <1>1, <1>3, IdOfName
  <1>5. Len(ncalls) \in Nat
    BY <1>2, FileWritten
  <1>6. file.ncalls_count = Len(ncalls) /\ file.ncalls_count > 0
    <2>1. file.ncalls_count = Len(ncalls) % (BYTES * BYTES)
      BY LoaderReads
    <2>2. Len(ncalls) % (BYTES * BYTES) = Len(ncalls)
      BY <1>5, CountedIs DEF Counted
    <2> HIDE DEF id
    <2> QED
      BY <1>4, <1>5, <2>1, <2>2
  <1>7. Linked /\ Len(ncalls_table) = Len(ncalls)
    BY <1>1, <1>6 DEF LoaderOK
  <1>8. table[id + 1] = Hash[ncalls[id + 1]]
    <2>1. HasTable
      BY <1>7 DEF Linked
    <2>2. \A n \in 1 .. Len(ncalls) : table[n] = Hash[ncalls[n]]
      BY <2>1, TableIs
    <2> HIDE DEF id
    <2>3. id + 1 \in 1 .. Len(ncalls)
      BY <1>4, <1>5
    <2> QED
      BY <2>2, <2>3
  <1>9. operands[i][1] = id
    <2>1. operands[i][1] = id % (BYTES * BYTES)
      BY <1>1 DEF OperandsOK
    <2> HIDE DEF id
    <2> DEFINE c == BYTES * BYTES
    <2>2. id \in Nat /\ Len(ncalls) < c /\ id <= Len(ncalls) - 1
      BY <1>4, <1>5 DEF Counted
    <2>3. c \in Int
      BY Constraints
    <2>4. id < c
      <3> HIDE DEF c
      <3> QED
        BY <1>5, <2>2, <2>3
    <2>5. id % c = id
      BY <2>2, <2>4, CountedIs
    <2> QED
      BY <2>1, <2>5
  <1> HIDE DEF id
  <1>10. id + 1 \in 1 .. Len(ncalls_table) /\ id \in 0 .. Len(ncalls_table) - 1
    BY <1>4, <1>5, <1>7
  <1>11. Routines[ncalls_table[id + 1]] = table[id + 1]
    BY <1>7, <1>10 DEF Linked
  <1> QED
    BY <1>4, <1>8, <1>9, <1>10, <1>11

\* A program calls the native routine its line names, whatever the orders of the ids, of
\* the hashes in the file, and of the loader's table.
THEOREM RoutinesAsNamed == Spec => []RoutinesNamed
  BY Invariance, NamedIs, PTL

LEMMA RefusedIs ==
  ASSUME Inv
  PROVE  RefusedOnlyFor
  <1> SUFFICES ASSUME ~Wraps
               PROVE  /\ lpc # "overrun"
                      /\ lpc = "short_header" => file.size < Whole
                      /\ lpc = "short_file" => file.size < Whole \/ EmptyAtEnd
                      /\ lpc = "unknown_routine" /\ Counted =>
                           \E n \in Range(ncalls) : Hash[n] \notin Range(Routines)
    BY Zenon DEF RefusedOnlyFor
  <1>1. TypeOK /\ LoaderOK
    BY DEF Inv
  <1>2. lpc # "overrun"
    <2> SUFFICES ASSUME lpc = "overrun" PROVE FALSE
      OBVIOUS
    <2>1. file.filesize > file.memsize
      BY <1>1 DEF LoaderOK
    <2>2. file.filesize = bss_va /\ file.memsize = next_va /\ pc = "exit_0"
          /\ bss_va \in Nat /\ next_va \in Nat
      BY LoaderReads
    <2>3. bss_va <= next_va
      BY <2>2, FileWritten
    <2> QED
      BY <2>1, <2>2, <2>3
  <1>3. ASSUME lpc = "short_file", ~EmptyAtEnd
        PROVE  file.size < Whole
    <2> DEFINE h == Len(ncalls)
               c == file.ncalls_count
               r == Len(file.rest)
    <2>1. file.filesize = bss_va /\ pc = "exit_0" /\ bss_va \in Nat /\ r \in Nat
          /\ c = h % (BYTES * BYTES)
      BY <1>3, LoaderReads
    <2>2. h \in Nat /\ Len(body) = bss_va + 4 * h
      BY <1>3, <2>1, FileWritten
    <2>3. c <= h /\ c \in Nat
      BY <2>1, <2>2, CountedIs
    <2>4. r < bss_va \/ r - bss_va < 4 * c
      BY <1>1, <1>3, <2>1 DEF LoaderOK, TooShort
    <2> HIDE DEF h, c, r
    <2>5. r < bss_va + 4 * h
      BY <2>1, <2>2, <2>3, <2>4
    <2>6. Len(file.rest) # Len(body)
      BY <2>2, <2>5 DEF h, r
    <2>7. file.size \in Nat /\ file.size <= Whole /\ file.size # Whole
      BY <1>3, <2>6, LoaderReads
    <2>8. Whole \in Nat
      BY <2>2 DEF Whole, HEADER, h
    <2> QED
      BY <2>7, <2>8
  <1>4. ASSUME lpc = "unknown_routine", Counted
        PROVE  \E n \in Range(ncalls) : Hash[n] \notin Range(Routines)
    <2> DEFINE k == Len(ncalls_table) + 1
    <2>1. Linked /\ Len(ncalls_table) < file.ncalls_count /\ table[k] \notin Range(Routines)
      BY <1>1, <1>4 DEF LoaderOK
    <2>2. file.ncalls_count = Len(ncalls) /\ Len(ncalls) \in Nat
          /\ \A n \in 1 .. Len(ncalls) : table[n] = Hash[ncalls[n]]
      BY <1>4, <2>1, TableIs DEF Linked
    <2>3. Len(ncalls_table) \in Nat /\ ncalls \in Seq(Names)
      BY <1>1, LenProperties DEF TypeOK
    <2>4. k \in 1 .. Len(ncalls) /\ DOMAIN ncalls = 1 .. Len(ncalls)
      BY <2>1, <2>2, <2>3, LenProperties
    <2> HIDE DEF k
    <2>5. ncalls[k] \in Range(ncalls) /\ Hash[ncalls[k]] = table[k]
      BY <2>2, <2>4 DEF Range
    <2> QED
      BY <2>1, <2>5
  <1>5. ASSUME lpc = "short_header" PROVE file.size < Whole
    <2>1. file.size < HEADER
      BY <1>1, <1>5 DEF LoaderOK
    <2>2. file.size \in Nat /\ pc = "exit_0"
      BY <1>5, LoaderReads
    <2>3. Len(body) \in Nat
      BY LenProperties DEF Inv, BodyOK
    <2> QED
      BY <2>1, <2>2, <2>3 DEF Whole, HEADER
  <1> QED
    BY <1>2, <1>3, <1>4, <1>5

\* The loader refuses what assembled for no reason but that the memory, the end of the
\* file or a routine of that name is not there, and reads no more than it allocated.
THEOREM RefusedForAReason == Spec => []RefusedOnlyFor
  BY Invariance, RefusedIs, PTL
=============================================================================
