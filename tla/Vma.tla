--------------------------------- MODULE Vma ---------------------------------
(***************************************************************************)
(* The assembler, src/src/vma: the statements of a source file one by one, *)
(* as the parser's actions see them (vma_parser.y), pass 1, which gives    *)
(* every instruction its address, and pass 2, which writes the file        *)
(* (vma_asm.c, vma_out.c).  The source is arbitrary.                       *)
(***************************************************************************)
EXTENDS Integers, SequencesExt

CONSTANTS
    ADDR_BITS,    \* bits of an address and of an expression (32)
    BYTES,        \* values of a byte (256)
    MAX_ERRORS,   \* VMA_MAX_ERRORS (20)
    Statements,   \* bound: what may stand on a line
    LINES,        \* bound: lines of a source
    Few,          \* bound: what a longer source is made of
    LONG_LINES,   \* bound: lines of a longer source
    BLOCK,        \* bytes stdio writes at a time
    LocalNames,   \* names that start with "@@"
    Hash          \* hashes of the names of native routines (vma_hash_name)

ADDRS == 2^ADDR_BITS
Addresses == 0 .. ADDRS - 1

\* An address has whole bytes; and what a power of two is.
ASSUME VmaAssumption ==
    /\ ADDR_BITS \in Nat \ {0}
    /\ 2^0 = 1 /\ \A k \in 0 .. ADDR_BITS - 1 : 2^(k + 1) = 2 * 2^k
    /\ BYTES \in Nat \ {0} /\ BYTES % 2 = 0 /\ ADDRS % BYTES = 0
    /\ MAX_ERRORS \in Nat /\ LINES \in Nat /\ LONG_LINES \in Nat /\ BLOCK \in Nat \ {0}

VARIABLES
    pc,           \* where main stands, and "exit_0", "exit_1" at its end
    insns,        \* the list of instructions: the statements
    symtabs,      \* symbols of each scope: Globals, or the index of a .SUB
    ncalls,       \* names of native routines, in the order of their ids
    lookup_stack, \* the innermost scope
    errors,       \* vma_errors
    resolved,     \* the references whose name has been replaced by its symbol
    next_va, bss_va,
    start_addr, align_bytes, reserved,  \* per instruction, as far as pass 1 got
    ep_offset,
    emitted,      \* instructions written
    operands,     \* what pass 2 wrote for their expressions
    body          \* the bytes written after the header

layout == <<next_va, bss_va, start_addr, align_bytes, reserved>>
symbols == <<insns, symtabs, ncalls>>
output == <<ep_offset, emitted, operands, body>>
vmaVars == <<pc, symbols, lookup_stack, errors, resolved, layout, output>>

Globals == 0
NoLabel == "none"

VmaInit ==
    /\ pc = "parse"
    /\ insns = <<>> /\ symtabs = [scope \in {Globals} |-> <<>>] /\ ncalls = <<>>
    /\ lookup_stack = Globals /\ errors = 0 /\ resolved = {}
    /\ next_va = 0 /\ bss_va = 0
    /\ start_addr = <<>> /\ align_bytes = <<>> /\ reserved = <<>>
    /\ ep_offset = 0 /\ emitted = 0 /\ operands = <<>> /\ body = <<>>

\* main looks at vma_errors between the stages; vma_error itself ends the program when
\* there are too many.
Then(stage, count) == IF count > MAX_ERRORS THEN "exit_1" ELSE stage
IfClean(stage, count) == IF count > 0 THEN "exit_1" ELSE stage

-----------------------------------------------------------------------------
\* Kinds of instructions: what precedes INSN_ASM_KEYWORDS is a machine instruction,
\* with no operand, a byte, a relative byte, the id of a native routine, a word or a
\* relative word behind the opcode.
MachineSize == [plain |-> 1, byte |-> 2, branch |-> 2, ncall |-> 3, word |-> 5, relative |-> 5]
Machine == DOMAIN MachineSize
Unit == [defb |-> 1, defh |-> 2, defw |-> 4, resb |-> 1, resh |-> 2, resw |-> 4]
Defines == {"defb", "defh", "defw"}
Reserves == {"resb", "resh", "resw"}
Allocates == Machine \cup Defines \cup {"defs"}
OneExpr == {"byte", "branch", "word", "relative", "const"} \cup Reserves
NoExpr == {"plain", "ncall", "defs", "sub", "endsub"}

\* An expression is its nodes, the children of each in front of it, which is the order
\* vma_passx_evaluate_expr takes them in.  An operator with one operand has it in rhs.
IsExpr(nodes) ==
    /\ Len(nodes) \in Nat \ {0}
    /\ \A k \in 1 .. Len(nodes) :
         \/ nodes[k].is = "literal" /\ nodes[k].value \in Addresses
         \/ nodes[k].is = "symbol"
         \/ nodes[k].is = "operator" /\ {nodes[k].lhs, nodes[k].rhs} \subseteq 1 .. k - 1
              /\ nodes[k].name \in {"+", "-", "*", "/", "|", "&", "^", "neg", "not"}

\* What the rules of vma_parser.y build.
IsStatement(insn) ==
    /\ insn.kind \in Allocates \cup OneExpr \cup NoExpr
    /\ Len(insn.exprs) \in Nat /\ insn.length \in Nat
    /\ \A j \in 1 .. Len(insn.exprs) : IsExpr(insn.exprs[j])
    /\ insn.kind \in NoExpr => Len(insn.exprs) = 0
    /\ insn.kind \in OneExpr => Len(insn.exprs) = 1
    /\ insn.kind \in Defines => Len(insn.exprs) > 0

\* The names of native routines.
Names == {insn.name : insn \in {s \in Statements : s.kind = "ncall"}}

ASSUME StatementsAssumption ==
    /\ \A insn \in Statements : IsStatement(insn)
    /\ \A name \in Names : Hash[name] \in Nat

\* VMA_ALIGN, for the kinds that are aligned.
Aligned_NoWrap(va, kind) ==                                             \* mutant
    LET a == IF kind \in {"defh", "resh", "defw", "resw"} THEN Unit[kind] ELSE 1
    IN ((va + a - 1) \div a) * a
Aligned(va, kind) ==
    LET a == IF kind \in {"defh", "resh", "defw", "resw"} THEN Unit[kind] ELSE 1
    IN (((va + a - 1) % ADDRS) \div a) * a

\* vma_pass1_insn_estimate_size; value is what the expression of a .RESx came to.
Size_CountsOnce(insn, value) ==                                         \* mutant
    IF insn.kind \in Machine THEN MachineSize[insn.kind]
    ELSE IF insn.kind = "defs" THEN insn.length
    ELSE IF insn.kind \in Defines THEN Unit[insn.kind]
    ELSE IF insn.kind \in Reserves THEN Unit[insn.kind] * value ELSE 0
Size(insn, value) ==
    IF insn.kind \in Machine THEN MachineSize[insn.kind]
    ELSE IF insn.kind = "defs" THEN insn.length
    ELSE IF insn.kind \in Defines THEN Unit[insn.kind] * Len(insn.exprs)
    ELSE IF insn.kind \in Reserves THEN Unit[insn.kind] * value ELSE 0

-----------------------------------------------------------------------------
\* Symbols.  at is the instruction of a label, and the .CONST of a constant.
ScopeOf(name) == IF name \in LocalNames THEN lookup_stack ELSE Globals

With(table, key, entry) ==
    [k \in DOMAIN table \cup {key} |-> IF k = key THEN entry ELSE table[k]]

Defined(name, type, at) ==
    LET scope == ScopeOf(name)
        table == symtabs[scope]
        kept == IF name \in DOMAIN table THEN table[name].type ELSE type
    IN [symtabs EXCEPT ![scope] = With(table, name, [type |-> kept, at |-> at])]

DefineErrors(name) ==
    (IF name \in LocalNames /\ lookup_stack = Globals THEN 1 ELSE 0)
      + (IF name \in DOMAIN symtabs[ScopeOf(name)] THEN 1 ELSE 0)

\* vma_symtab_lookup_chain, from a scope.
NoSymbol == [type |-> "none"]
Lookup_AnyRoutine(scope, name) ==                                       \* mutant
    LET holders == {s \in DOMAIN symtabs : name \in DOMAIN symtabs[s]}
    IN IF holders = {} THEN NoSymbol ELSE symtabs[Min(holders)][name]
Lookup(scope, name) ==
    IF name \in DOMAIN symtabs[scope] THEN symtabs[scope][name]
    ELSE IF name \in DOMAIN symtabs[Globals] THEN symtabs[Globals][name]
    ELSE NoSymbol

\* A label, if any, is defined in the scope before the line, which .SUB and .ENDSUB
\* leave.
EnteredScope(insn, at) ==
    CASE insn.kind = "sub" -> at [] insn.kind = "endsub" -> Globals [] OTHER -> lookup_stack

MayStand(source) ==
    \/ Len(source) <= LINES
    \/ Len(source) <= LONG_LINES /\ Range(source) \subseteq Few

Parse ==
    /\ pc = "parse"
    /\ \E insn \in Statements :
         LET at == Len(insns) + 1
             named == insn.label # NoLabel
             type == IF insn.kind = "const" THEN "constant" ELSE "label"
             table == IF named THEN Defined(insn.label, type, at) ELSE symtabs
             count == errors + IF named THEN DefineErrors(insn.label) ELSE 0
         IN /\ insns' = Append(insns, insn) /\ MayStand(insns')
            /\ symtabs' = IF insn.kind = "sub" THEN With(table, at, <<>>) ELSE table
            /\ ncalls' = IF insn.kind = "ncall" /\ insn.name \notin Range(ncalls)
                         THEN Append(ncalls, insn.name) ELSE ncalls
            /\ lookup_stack' = EnteredScope(insn, at)
            /\ errors' = count
            /\ pc' = Then("parse", count)
    /\ UNCHANGED <<resolved, layout, output>>

EndParse ==
    /\ pc = "parse"
    /\ pc' = IfClean("pass_1", errors)
    /\ UNCHANGED <<symbols, lookup_stack, errors, resolved, layout, output>>

\* Of a statement that is no statement only a label is kept, which has no instruction.
NoInsn == 0
Labels == {insn.label : insn \in {s \in Statements : s.kind # "const"}}

Abandon(label) ==
    /\ pc = "parse"
    /\ symtabs' = IF label = NoLabel \/ label \in DOMAIN symtabs[ScopeOf(label)] THEN symtabs
                  ELSE Defined(label, "label", NoInsn)
    /\ UNCHANGED <<insns, ncalls, lookup_stack, resolved, layout, output>>

LabelErrors(label) == IF label = NoLabel THEN 0 ELSE DefineErrors(label)

\* The parser goes on behind the next newline.
SyntaxError ==
    \E label \in Labels \cup {NoLabel} :
      /\ Abandon(label)
      /\ errors' = errors + LabelErrors(label) + 1
      /\ pc' = Then("parse", errors')

\* Without a newline behind it yyparse fails with no error counted, and main does not
\* look at what it returns.
EndsBroken ==
    \E label \in Labels \cup {NoLabel} :
      /\ Abandon(label)
      /\ errors' = errors + LabelErrors(label)
      /\ pc' = IfClean("pass_1", errors')

-----------------------------------------------------------------------------
\* A division by zero is an error whose value is 1.
Bits(v) == {k \in 0 .. ADDR_BITS - 1 : (v \div 2^k) % 2 = 1}
Word(bits) ==
    LET word[k \in 0 .. ADDR_BITS] ==
          IF k = 0 THEN 0 ELSE word[k - 1] + (IF k - 1 \in bits THEN 2^(k - 1) ELSE 0)
    IN word[ADDR_BITS]

Apply(op, lhs, rhs) ==
    CASE op = "+" -> (lhs + rhs) % ADDRS
      [] op = "-" -> (lhs - rhs) % ADDRS
      [] op = "*" -> (lhs * rhs) % ADDRS
      [] op = "/" -> IF rhs = 0 THEN 1 ELSE lhs \div rhs
      [] op = "|" -> Word(Bits(lhs) \cup Bits(rhs))
      [] op = "&" -> Word(Bits(lhs) \cap Bits(rhs))
      [] op = "^" -> Word((Bits(lhs) \cup Bits(rhs)) \ (Bits(lhs) \cap Bits(rhs)))
      [] op = "neg" -> (-rhs) % ADDRS
      [] op = "not" -> ADDRS - 1 - rhs

\* A symbol reference, by its place, is resolved once: vma_symref_resolve writes the
\* symbol over the name (they share a union), and takes the symbol's bytes for a name the
\* next time, which is no symbol's.
References == Nat \X Nat \X Nat
ResolvesAgain(id, used) == id \in used

\* A result while an expression is evaluated has the values of its nodes so far.
Valued(a, v) == [a EXCEPT !.values = Append(@, v)]
Failed(a, count) == [a EXCEPT !.ok = FALSE, !.errors = @ + count]

\* A reference to a constant has its value, and fails with it.
Settled(a, constant) ==
    LET behind == [a EXCEPT !.used = constant.used, !.errors = @ + constant.errors]
    IN IF constant.ok THEN Valued(behind, constant.value) ELSE Failed(behind, 0)

\* vma_passx_evaluate_symref.  The process faults at a label without an instruction, which
\* ends it like one error too many.
Referred(a, id, name, scope, addresses, constants) ==
    LET sym == Lookup(scope, name)
        known == [a EXCEPT !.used = @ \cup {id}]
    IN IF ResolvesAgain(id, a.used) \/ sym.type = "none" THEN Failed(a, 1)
       ELSE IF sym.type = "label"
       THEN IF sym.at = NoInsn THEN Failed(known, MAX_ERRORS + 1)
            ELSE IF sym.at \in DOMAIN addresses THEN Valued(known, addresses[sym.at])
            ELSE Failed(known, 1)
       ELSE Settled(known, constants[sym.at][known.used])

\* vma_passx_evaluate_expr of a node, once its children have their values.
Computed(a, node) ==
    LET rhs == a.values[node.rhs]
        error == IF node.name = "/" /\ rhs = 0 THEN 1 ELSE 0
    IN [Valued(a, Apply(node.name, a.values[node.lhs], rhs)) EXCEPT !.errors = @ + error]

Node(a, i, j, k, scope, addresses, constants) ==
    LET node == insns[i].exprs[j][k]
    IN IF ~a.ok THEN a
       ELSE IF node.is = "literal" THEN Valued(a, node.value)
       ELSE IF node.is = "operator" THEN Computed(a, node)
       ELSE Referred(a, <<i, j, k>>, node.name, scope, addresses, constants)

\* The value of an expression is that of its last node.
Result(end, last) ==
    [ok |-> end.ok, value |-> IF end.ok THEN end.values[last] ELSE 0,
     used |-> end.used, errors |-> end.errors]

\* Expression j of instruction i, given what the constants come to by used.
Expression(i, j, used, scope, addresses, constants) ==
    LET count == Len(insns[i].exprs[j])
        after[k \in 0 .. count] ==
          IF k = 0 THEN [ok |-> TRUE, values |-> <<>>, used |-> used, errors |-> 0]
          ELSE Node(after[k - 1], i, j, k, scope, addresses, constants)
    IN Result(after[count], count)

\* A constant refers to constants.  No reference is resolved twice, so that they nest no
\* deeper than there are constants, and once more.
Constants == {at \in DOMAIN insns : insns[at].kind = "const"}
TooDeep(used) == [ok |-> FALSE, value |-> 0, used |-> used, errors |-> 1]
Evaluate(i, j, scope, addresses, usedBefore) ==
    LET constants[depth \in 0 .. Len(insns)] ==
          [at \in Constants |-> [used \in SUBSET References |->
             IF depth = 0 THEN TooDeep(used)
             ELSE Expression(at, 1, used, scope, addresses, constants[depth - 1])]]
    IN Expression(i, j, usedBefore, scope, addresses, constants[Len(insns)])

-----------------------------------------------------------------------------
\* vma_pass1, an instruction at a time.
Pass1 ==
    /\ pc = "pass_1" /\ Len(start_addr) < Len(insns)
    /\ LET at == Len(start_addr) + 1
           insn == insns[at]
           va == Aligned(next_va, insn.kind)
           addresses == Append(start_addr, va)
           scope == EnteredScope(insn, at)
           result == IF insn.kind \in Reserves
                     THEN Evaluate(at, 1, scope, addresses, resolved)
                     ELSE [ok |-> TRUE, value |-> 0, used |-> resolved, errors |-> 0]
           count == errors + result.errors + IF result.ok THEN 0 ELSE 1
           end == (va + Size(insn, result.value)) % ADDRS
       IN /\ lookup_stack' = scope
          /\ start_addr' = addresses
          /\ align_bytes' = Append(align_bytes, (va - next_va) % ADDRS)
          /\ reserved' = Append(reserved, result.value)
          /\ resolved' = result.used
          /\ errors' = count
          /\ next_va' = end
          /\ bss_va' = IF insn.kind \in Allocates THEN end ELSE bss_va
          /\ pc' = Then("pass_1", count)
    /\ UNCHANGED <<symbols, output>>

\* vma_generate's entry point is the label "start"; of a constant of that name the value
\* is taken, for an instruction's address, if it has one yet.
Entries(ep_sym) ==
    IF ep_sym.type = "label" THEN {start_addr[ep_sym.at]}
    ELSE LET nodes == insns[ep_sym.at].exprs[1]
         IN IF nodes[1].is = "literal" /\ Len(nodes) = 1 THEN {nodes[1].value}
            ELSE Addresses

EndPass1 ==
    /\ pc = "pass_1" /\ Len(start_addr) = Len(insns)
    /\ LET ep_sym == Lookup(Globals, "start")
           generates == ep_sym.type # "none" /\ ep_sym.at # NoInsn
       IN /\ pc' = IfClean(IF generates THEN "pass_2" ELSE "exit_1", errors)
          /\ ep_offset' \in IF pc' = "pass_2" THEN Entries(ep_sym) ELSE {0}
    /\ UNCHANGED <<symbols, lookup_stack, errors, resolved, layout, emitted, operands, body>>

-----------------------------------------------------------------------------
\* vma_emit_insn.  An expression that has no value leaves what malloc gave it: garbage.
Signed(v) == IF v >= ADDRS \div 2 THEN v - ADDRS ELSE v

\* The id of a native routine is its place in the table.
Id_FromOne(name) == CHOOSE n \in DOMAIN ncalls : ncalls[n] = name       \* mutant
Id(name) == (CHOOSE n \in DOMAIN ncalls : ncalls[n] = name) - 1

Gathered(before, result, garbage) ==
    [values |-> Append(before.values, IF result.ok THEN result.value ELSE garbage),
     used |-> result.used, errors |-> before.errors + result.errors]

EvaluateAll(i, garbage) ==
    LET done[j \in 0 .. Len(insns[i].exprs)] ==
          IF j = 0
          THEN [values |-> IF insns[i].kind = "ncall" THEN <<Id(insns[i].name)>> ELSE <<>>,
                used |-> resolved, errors |-> 0]
          ELSE LET scope == EnteredScope(insns[i], i)
               IN Gathered(done[j - 1],
                           Evaluate(i, j, scope, start_addr, done[j - 1].used), garbage)
    IN done[Len(insns[i].exprs)]

\* Offsets count from the end of the instruction.
Field(i, v) ==
    IF insns[i].kind \in {"branch", "relative"}
    THEN (v - (start_addr[i] + MachineSize[insns[i].kind])) % ADDRS ELSE v

OutOfRange(i, v) ==
    \/ insns[i].kind = "byte" /\ v > BYTES - 1
    \/ insns[i].kind = "branch" /\ Signed(v) \notin -(BYTES \div 2) .. BYTES \div 2 - 1

Width(kind) == IF kind \in {"byte", "branch", "defb"} THEN BYTES
               ELSE IF kind \in {"defh", "ncall"} THEN BYTES * BYTES ELSE ADDRS

\* The bytes vma_emit_insn writes: an opcode and an operand, or what a keyword defines.
\* A byte that is out of range is left out, so is nothing else.
OperandBytes == [plain |-> 0, byte |-> 1, branch |-> 1, ncall |-> 2, word |-> 4, relative |-> 4]
Written(i, fields) ==
    LET kind == insns[i].kind
    IN IF kind = "byte" /\ OutOfRange(i, fields[1]) THEN 1
       ELSE IF kind \in Machine THEN 1 + OperandBytes[kind]
       ELSE IF kind \in Defines THEN Unit[kind] * Len(fields)
       ELSE IF kind \in Reserves THEN Unit[kind] * reserved[i]
       ELSE IF kind = "defs" THEN insns[i].length ELSE 0

Cells(what, of, count) == [part \in 1 .. count |-> [what |-> what, of |-> of, part |-> part]]

\* The header's size in memory: what is reserved at the end needs no file.
MemorySize_FileOnly == bss_va                                           \* mutant
MemorySize == next_va

\* Instructions behind bss_va are not written.
InFile_Through(i) == start_addr[i] <= bss_va                            \* mutant
InFile(i) == start_addr[i] < bss_va

More == emitted < Len(insns) /\ InFile(emitted + 1)

Pass2 ==
    /\ pc = "pass_2" /\ More
    /\ \E garbage \in {0, BYTES} :
         LET i == emitted + 1
             IsReserve == insns[i].kind \in Reserves \cup {"const"}
             result == IF IsReserve THEN [values |-> <<>>, used |-> resolved, errors |-> 0]
                       ELSE EvaluateAll(i, garbage)
             fields == [j \in DOMAIN result.values |-> Field(i, result.values[j])]
             bad == Cardinality({j \in DOMAIN fields : OutOfRange(i, fields[j])})
             count == errors + result.errors + bad
         IN /\ lookup_stack' = EnteredScope(insns[i], i)
            /\ emitted' = i
            /\ operands' = Append(operands,
                             [j \in DOMAIN fields |-> fields[j] % Width(insns[i].kind)])
            /\ body' = body \o Cells("pad", i, align_bytes[i])
                            \o Cells("insn", i, Written(i, fields))
            /\ resolved' = result.used
            /\ errors' = count
            /\ pc' = Then("pass_2", count)
    /\ UNCHANGED <<symbols, layout, ep_offset>>

\* The hashes of the native routines end the file.
Hashes == [n \in 1 .. 4 * Len(ncalls) |->
             [what |-> "hash", of |-> Hash[ncalls[(n + 3) \div 4]], part |-> ((n - 1) % 4) + 1]]

EndPass2 ==
    /\ pc = "pass_2" /\ ~More
    /\ body' = body \o Hashes
    /\ pc' = IfClean("exit_0", errors)
    /\ UNCHANGED <<symbols, lookup_stack, errors, resolved, layout, ep_offset, emitted, operands>>

WriteFails ==
    /\ pc = "pass_2" /\ pc' = "exit_1"
    /\ UNCHANGED <<symbols, lookup_stack, errors, resolved, layout, output>>

\* What the file holds when main has returned 0.  What stdio still buffers may be lost
\* in fclose, whose result main does not look at: the header with the rest.
HEADER == 32
Whole == HEADER + Len(body)
Kept == {n \in 0 .. Whole : n % BLOCK = 0 \/ n = Whole}
File(kept) == [size |-> kept,
               memsize |-> MemorySize, filesize |-> bss_va, ep_offset |-> ep_offset,
               ncalls_count |-> Len(ncalls) % (BYTES * BYTES),
               rest |-> IF kept < HEADER THEN <<>> ELSE SubSeq(body, 1, kept - HEADER)]

VmaNext ==
    \/ Parse \/ SyntaxError \/ EndsBroken \/ EndParse
    \/ Pass1 \/ EndPass1 \/ Pass2 \/ WriteFails \/ EndPass2

-----------------------------------------------------------------------------
\* Pass 1 has passed the width of a vma_vaddr_t, by a size or by an alignment.
Wraps == \E i \in DOMAIN start_addr :
           \/ start_addr[i] + Size(insns[i], reserved[i]) >= ADDRS
           \/ start_addr[i] < align_bytes[i]

\* Pass 2 stops at the first instruction that starts where the file's part ends: when
\* that end is only a text of no length, it leaves out the alignment in front of it.
EmptyAtEnd ==
    \E i \in DOMAIN start_addr :
      insns[i].kind = "defs" /\ insns[i].length = 0 /\ start_addr[i] = bss_va

\* Pass 2 writes every instruction at the address pass 1 gave it, alignment and reserved
\* memory between included, and as many bytes as the header says: the sizes of
\* vma_pass1_insn_estimate_size and the output of vma_emit_insn are two long switches
\* that must agree.  Errors do not stop the output (l.534): each counted error puts
\* what follows at most one byte too low, and a file without one is where it belongs.
EmittedWhereAllocated ==
    ~Wraps =>
      /\ \A n \in DOMAIN body :
           body[n].what = "insn" => start_addr[body[n].of] + body[n].part - n \in 0 .. errors
      /\ pc = "exit_0" /\ ~EmptyAtEnd =>
           {n \in DOMAIN body : body[n].what # "hash"} = 1 .. bss_va

\* The scope line i stands in: that of the last .SUB or .ENDSUB before it.
Enclosing(i) ==
    LET marks == {m \in 1 .. i : insns[m].kind \in {"sub", "endsub"}}
    IN IF marks = {} \/ insns[Max(marks)].kind = "endsub" THEN Globals ELSE Max(marks)

\* The lines line i means by a name: for one with "@@", those of its own routine.
Meant(i, name) ==
    {n \in DOMAIN insns : /\ insns[n].label = name
                          /\ name \in LocalNames => Enclosing(n - 1) = Enclosing(i)}

NamesSymbol(i) ==
    Len(insns[i].exprs) = 1 /\ Len(insns[i].exprs[1]) = 1 /\ insns[i].exprs[1][1].is = "symbol"

\* pass 2 starts in the scope pass 1 ended in: a .SUB that is never closed lends its
\* labels to the lines before the first one.
Closed == Enclosing(Len(insns)) = Globals

ByteSigned(b) == IF b >= BYTES \div 2 THEN b - BYTES ELSE b

\* A branch, CALL or LEA that names a label leads to the line of the source that carries
\* the label: for a name with "@@" the one in the enclosing .SUB, whatever other routines
\* call theirs; a target too far for a byte is an error and no other target.
Reaches(i) ==
    insns[i].kind \in {"branch", "relative"} /\ NamesSymbol(i) =>
      LET meant == Meant(i, insns[i].exprs[1][1].name)
          field == operands[i][1]
          offset == IF insns[i].kind = "branch" THEN ByteSigned(field) ELSE field
          target == (start_addr[i] + MachineSize[insns[i].kind] + offset) % ADDRS
      IN (\A n \in meant : insns[n].kind # "const") => \E n \in meant : target = start_addr[n]

ReferencesReach == Closed /\ errors = 0 => \A i \in 1 .. emitted : Reaches(i)

\* vma_asm.c l.218, "TODO: don't evaluate this multiple times", says that a constant is
\* evaluated at each reference.  So a word that names a constant, which names a label,
\* holds the label's address, however often the constant is named.
ConstantsEvaluateAgain ==
    \A i \in 1 .. emitted : insns[i].kind = "word" =>
      LET Named(n) == Lookup(Globals, insns[n].exprs[1][1].name)
          c == Named(i)
      IN c.type = "constant" =>
           (Named(c.at).type = "label" => operands[i] = <<start_addr[Named(c.at).at]>>)
=============================================================================
