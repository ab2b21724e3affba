-------------------------------- MODULE VmCore --------------------------------
(***************************************************************************)
(* The virtual machine: vm_step and vm_context_create (vm_core.c) over the *)
(* two stacks of vm_stack.c.  A step is one call of vm_step.               *)
(*                                                                         *)
(* The program is arbitrary: at every address any instruction may be       *)
(* fetched, with the operand count of the opcode table (the opcode's two   *)
(* high bits, which the assembler writes).  Addresses count instructions,  *)
(* and a branch offset is given by its target.  Memory the program reads   *)
(* holds any data, and what it writes is its own.                          *)
(*                                                                         *)
(* A stack is a sequence, its top first.  Frames and locals are objects    *)
(* vm_alloc gives: heap[o] is the object at o, or Unused.                  *)
(***************************************************************************)
EXTENDS VmAlu, Sequences

CONSTANTS
    CODE,         \* instructions of the module: addresses 0 .. CODE - 1
    DSTACK,       \* operands the data stack holds (16384 in the code)
    CSTACK,       \* frames the control stack holds (2048)
    MAX_COUNT,    \* the most locals the program asks for (255)
    Objects,      \* addresses vm_alloc can give
    NULL,         \* no object
    Thunks        \* the native routines of the ncalls table: the stack effects each may have

ASSUME CoreAssumption ==
    /\ CODE \in Nat /\ DSTACK \in Nat /\ CSTACK \in Nat /\ MAX_COUNT \in Nat
    /\ BITS > 1
    /\ NULL \notin Objects
    /\ Thunks \in Seq(SUBSET [in : Nat, out : Nat])

\* The opcode table, by operands popped.
Computing == {"ADD", "SUB", "MULU", "MULS", "DIVU", "DIVS", "AND", "OR", "XOR", "NOT",
              "LSL", "LSR", "ASR", "CMP.LT", "CMP.GT", "CMP.B", "CMP.A", "CMP.EQ"}
Constants == {"LDC.0", "LDC.1", "LDC.2", "LDC.UB", "LDC.SB", "LDC.W", "LEA"}
Loads == {"LDM.UB", "LDM.SB", "LDM.UH", "LDM.SH", "LDM.W"}
Stores == {"STM.B", "STM.H", "STM.W"}
TakesTwo == Computing \cup Stores \cup {"SWAP"}
TakesOne == Loads \cup {"STLOC", "DUP", "POP", "BR.T", "BR.F", "ICALL", "IJMP"}
TakesNone == Constants \cup {"LOCALS", "LDLOC", "BR", "CALL", "RET", "NCALL"}
StackIn(op) == IF op \in TakesTwo THEN 2 ELSE IF op \in TakesOne THEN 1 ELSE 0
Opcodes == TakesTwo \cup TakesOne \cup TakesNone

VARIABLES
    status,       \* "boot", "run", or how the process ended: "panic", "trap", "exit",
                  \* "undefined"
    pc, dstack, cstack,
    locals,       \* ctx->locals
    heap,         \* the objects allocated
    ncalls_table  \* the module's table, empty when it has none

vars == <<status, pc, dstack, cstack, locals, heap, ncalls_table>>

Unused == [kind |-> "unused"]
Frame(return_pc, of) == [kind |-> "frame", return_pc |-> return_pc, locals |-> of]
Locals(data) == [kind |-> "locals", data |-> data]

Init ==
    /\ status = "boot"
    /\ pc = 0 /\ dstack = <<>> /\ cstack = <<>> /\ locals = NULL
    /\ heap = [o \in Objects |-> Unused]
    /\ ncalls_table \in {<<>>, Thunks}

-----------------------------------------------------------------------------
\* vm_alloc gives an unused object or NULL; vm_free takes NULL too.
Given == {o \in Objects : heap[o] = Unused} \cup {NULL}
Freed(h, o) == [x \in Objects |-> IF x = o THEN Unused ELSE h[x]]

\* The process ends: by vm_panic, by a signal, or in what the build makes of it.
Ends(how) == status' = how /\ UNCHANGED <<pc, dstack, cstack, locals, heap, ncalls_table>>

Fetches(op) == status = "run" /\ pc < CODE /\ Len(dstack) >= StackIn(op)

ARG1 == dstack[1]
ARG2 == dstack[2]

\* The data stack once op has popped its operands and pushed results.
Dstack(op, results) == results \o SubSeq(dstack, StackIn(op) + 1, Len(dstack))

Fits_OneMore(stack) == Len(stack) <= DSTACK + 1                         \* mutant
Fits(stack) == Len(stack) <= DSTACK

Pushes(op, results) ==
    IF Fits(Dstack(op, results))
    THEN /\ dstack' = Dstack(op, results)
         /\ UNCHANGED status
    ELSE status' = "panic" /\ UNCHANGED dstack

\* An instruction that touches nothing but the data stack.
Leaves(op, results) ==
    /\ Pushes(op, results)
    /\ pc' = pc + 1
    /\ UNCHANGED <<cstack, locals, heap, ncalls_table>>

-----------------------------------------------------------------------------
Create ==
    /\ status = "boot"
    /\ status' \in {"run", "panic"}
    /\ UNCHANGED <<pc, dstack, cstack, locals, heap, ncalls_table>>

\* An opcode that is none of the table's, in data the program jumped into.
StepUnknown ==
    /\ status = "run" /\ pc < CODE
    /\ Ends("panic")

\* vm_stack_pop3 finds too few operands.
StepUnderflows ==
    /\ status = "run" /\ pc < CODE
    /\ \E op \in Opcodes : Len(dstack) < StackIn(op)
    /\ Ends("panic")

\* The program has left its code.
StepRunsOff ==
    /\ status = "run" /\ pc >= CODE
    /\ Ends("undefined")

Computes(op) ==
    /\ Fetches(op)
    /\ \/ Results(op, ARG1, ARG2) = {} /\ Ends("trap")
       \/ \E results \in Results(op, ARG1, ARG2) : Leaves(op, results)

Compute == \E op \in Computing : Computes(op)

Load ==
    \E op \in Constants \cup Loads :
      /\ Fetches(op)
      /\ \E v \in CASE op = "LDC.0" -> {0} [] op = "LDC.1" -> {1} [] op = "LDC.2" -> {2}
                    [] OTHER -> Operands :
           Leaves(op, <<v>>)

StoreMem == \E op \in Stores : Fetches(op) /\ Leaves(op, <<>>)

Dup == Fetches("DUP") /\ Leaves("DUP", <<ARG1, ARG1>>)
Swap == Fetches("SWAP") /\ Leaves("SWAP", <<ARG2, ARG1>>)
Pop == Fetches("POP") /\ Leaves("POP", <<>>)

-----------------------------------------------------------------------------
\* Local variables.  LOCALS leaves what the memory held, and forgets the old object.
Declare ==
    /\ Fetches("LOCALS")
    /\ \E o \in Given :
         IF o = NULL THEN Ends("trap")
         ELSE /\ \E count \in 0 .. MAX_COUNT : \E data \in [1 .. count -> Operands] :
                   heap' = [heap EXCEPT ![o] = Locals(data)]
              /\ locals' = o
              /\ pc' = pc + 1
              /\ UNCHANGED <<status, dstack, cstack, ncalls_table>>

\* Whether the running activation has the local variable of this index.
InBounds(index) == locals # NULL /\ index < Len(heap[locals].data)

LdLoc ==
    /\ Fetches("LDLOC")
    /\ \E index \in 0 .. MAX_COUNT :
         IF InBounds(index) THEN Leaves("LDLOC", <<heap[locals].data[index + 1]>>)
         ELSE Ends("panic")

StLoc ==
    /\ Fetches("STLOC")
    /\ \E index \in 0 .. MAX_COUNT :
         IF InBounds(index)
         THEN /\ heap' = [heap EXCEPT ![locals].data[index + 1] = ARG1]
              /\ dstack' = Dstack("STLOC", <<>>)
              /\ pc' = pc + 1
              /\ UNCHANGED <<status, cstack, locals, ncalls_table>>
         ELSE Ends("panic")

-----------------------------------------------------------------------------
\* Control flow.
Goes(op, target) ==
    /\ dstack' = Dstack(op, <<>>)
    /\ pc' = target
    /\ UNCHANGED <<status, cstack, locals, heap, ncalls_table>>

Branch ==
    \E op \in {"BR", "BR.T", "BR.F"}, target \in 0 .. CODE :
      /\ Fetches(op)
      /\ Goes(op, IF \/ op = "BR"
                     \/ op = "BR.T" /\ ARG1 # 0
                     \/ op = "BR.F" /\ ARG1 = 0
                  THEN target ELSE pc + 1)

IJmp == Fetches("IJMP") /\ Goes("IJMP", ARG1)

CalleeLocals_Kept == locals                                             \* mutant
CalleeLocals == NULL
SavedLocals_TooLate == NULL                                             \* mutant
SavedLocals == locals

\* vm_save_frame.
Calls(op, target) ==
    \E o \in Given :
      IF o = NULL THEN Ends("trap")
      ELSE IF Len(cstack) = CSTACK THEN Ends("panic")
      ELSE /\ heap' = [heap EXCEPT ![o] = Frame(pc + 1, SavedLocals)]
           /\ cstack' = <<o>> \o cstack
           /\ locals' = CalleeLocals
           /\ dstack' = Dstack(op, <<>>)
           /\ pc' = target
           /\ UNCHANGED <<status, ncalls_table>>

Call == Fetches("CALL") /\ \E target \in 0 .. CODE : Calls("CALL", target)
ICall == Fetches("ICALL") /\ Calls("ICALL", ARG1)

AfterReturn_Leaks == heap                                               \* mutant
AfterReturn == Freed(heap, locals)

Ret ==
    /\ Fetches("RET")
    /\ IF cstack = <<>> THEN Ends("panic")
       ELSE /\ heap' = Freed(AfterReturn, Head(cstack))
            /\ locals' = heap[Head(cstack)].locals
            /\ pc' = heap[Head(cstack)].return_pc
            /\ cstack' = Tail(cstack)
            /\ UNCHANGED <<status, dstack, ncalls_table>>

\* A native routine pops its arguments and pushes what it returns, a print routine as many
\* as its format asks for: it may have written some when it finds that one is missing.
\* sys_exit ends the process.  An index behind the table calls whatever the memory holds
\* there.
NCall ==
    /\ Fetches("NCALL")
    /\ IF ncalls_table = <<>> THEN Ends("panic")
       ELSE \/ Ends("undefined")
            \/ Len(dstack) >= 1 /\ Ends("exit")
            \/ \E i \in DOMAIN ncalls_table : \E thunk \in ncalls_table[i] :
                 LET rest == SubSeq(dstack, thunk.in + 1, Len(dstack))
                 IN \E results \in [1 .. thunk.out -> Operands] :
                      IF thunk.in > Len(dstack) \/ ~Fits(results \o rest)
                      THEN Ends("panic")
                      ELSE /\ dstack' = results \o rest
                           /\ pc' = pc + 1
                           /\ UNCHANGED <<status, cstack, locals, heap, ncalls_table>>

-----------------------------------------------------------------------------
Next ==
    \/ Create \/ StepUnknown \/ StepUnderflows \/ StepRunsOff
    \/ Compute \/ Load \/ StoreMem \/ Dup \/ Swap \/ Pop
    \/ Declare \/ LdLoc \/ StLoc
    \/ Branch \/ IJmp \/ Call \/ ICall \/ Ret \/ NCall

Spec == Init /\ [][Next]_vars

-----------------------------------------------------------------------------
Running == {"boot", "run", "panic", "trap", "exit", "undefined"}
Frames == [kind : {"frame"}, return_pc : Nat, locals : Objects \cup {NULL}]
Variables == [kind : {"locals"}, data : Seq(Operands)]

\* Every variable keeps its type, and no stack passes its limit, whatever instructions
\* follow one another (vm_stack_push3, vm_stack_pop3).
TypeOK ==
    /\ status \in Running
    /\ pc \in Nat
    /\ dstack \in Seq(Operands) /\ Len(dstack) <= DSTACK
    /\ cstack \in Seq(Objects) /\ Len(cstack) <= CSTACK
    /\ locals \in Objects \cup {NULL}
    /\ heap \in [Objects -> {Unused} \cup Frames \cup Variables]
    /\ ncalls_table \in {<<>>, Thunks}

\* The locals of the activation i calls up from the running one.
LocalsAt(i) == IF i = 0 THEN locals ELSE heap[cstack[i]].locals

\* Frames and locals have one owner: no return (op_RET) can free a frame or locals that
\* are freed already or that another activation still uses, however calls, returns and
\* LOCALS follow one another.
OwnedOnce ==
    /\ \A i \in 1 .. Len(cstack) : heap[cstack[i]].kind = "frame"
    /\ \A i, j \in 1 .. Len(cstack) : cstack[i] = cstack[j] => i = j
    /\ \A i \in 0 .. Len(cstack) : LocalsAt(i) # NULL => heap[LocalsAt(i)].kind = "locals"
    /\ \A i, j \in 0 .. Len(cstack) : LocalsAt(i) # NULL /\ LocalsAt(i) = LocalsAt(j) => i = j

Reachable == {cstack[i] : i \in 1 .. Len(cstack)} \cup {LocalsAt(i) : i \in 0 .. Len(cstack)}
Leaked == {o \in Objects : heap[o] # Unused /\ o \notin Reachable}

\* Calls and returns free what they allocate: the one step that leaks an object is a
\* LOCALS in an activation that has locals, which are lost (op_LOCALS).
OnlyLocalsLeaks ==
    [][\A o \in Leaked' \ Leaked :
         o = locals /\ locals' \notin {locals, NULL} /\ cstack' = cstack]_vars

\* n divided by d towards zero is q and leaves m.
DividesTo(n, d, q, m) ==
    n = d * q + m /\ Magnitude(m) < Magnitude(d) /\ (m = 0 \/ Sign(m) = Sign(n))

\* The signed values in the order of the unsigned ones.
Biased(v) == (v + WORD \div 2) % WORD

\* The laws of the operations: what op leaves, first and second from the top, against its
\* operands a = ARG1 and b = ARG2.
Lawful(op, a, b, first, second) ==
    CASE op = "ADD" -> (first - a - b) % WORD = 0
      [] op = "SUB" -> (first + a - b) % WORD = 0
      [] op \in {"MULU", "MULS"} /\ ~MIPS -> (first - a * b) % WORD = 0
      [] op = "MULU" /\ MIPS -> first * WORD + second = a * b
      [] op = "MULS" /\ MIPS -> Signed(first) * WORD + second = Signed(a) * Signed(b)
      [] op = "DIVU" -> DividesTo(b, a, second, first)
      [] op = "DIVS" ->
           \/ DividesTo(Signed(b), Signed(a), Signed(second), Signed(first))
           \/ b = WORD \div 2 /\ a = WORD - 1 /\ MIPS /\ second = b /\ first = 0
      [] op = "LSL" -> (first - b * 2^a) % WORD = 0
      [] op = "LSR" -> first * 2^a <= b /\ b < (first + 1) * 2^a
      [] op = "ASR" -> Signed(first) * 2^a <= Signed(b) /\ Signed(b) < (Signed(first) + 1) * 2^a
      [] op = "CMP.LT" -> first = Truth(Biased(a) < Biased(b))
      [] op = "CMP.GT" -> first = Truth(Biased(a) > Biased(b))

Shifts == {"LSL", "LSR", "ASR"}
LeavesTwo == {"MULU", "MULS", "DIVU", "DIVS"}
HasLaw == LeavesTwo \cup Shifts \cup {"ADD", "SUB", "CMP.LT", "CMP.GT"}

\* Arithmetic obeys its laws, for every pair of operands and on an otherwise unchanged
\* stack: sums and differences wrap, the two words of a product are the whole of it, high
\* word on top, a quotient and its remainder on top of it give the dividend back (but for
\* the lowest number by -1), a shift is a product or a quotient by a power of two, and a
\* signed comparison is an unsigned one with the sign bits flipped (op_ADD to op_CMP_GT).
\* On i386 the word under a product's low word is any: the code never sets it, though
\* the table promises both words (vm_opcodes.in l.24, 28).  CMP.LT and CMP.GT compare ARG1
\* with ARG2, which is how "cmp.gt # 0 > x" reads them (p2p.vmS l.101), and the opposite of
\* the table's comments (l.74, 78).  No law is asked of shifts by the width or more, nor
\* of AND, OR, XOR, NOT, CMP.B, CMP.A and CMP.EQ, which VmAlu defines outright.
ArithmeticLaws ==
    [][\A op \in HasLaw :
         Computes(op) /\ status' = "run" /\ (op \in Shifts => ARG1 < BITS) =>
           /\ Lawful(op, ARG1, ARG2, dstack'[1], dstack'[2])
           /\ SubSeq(dstack', IF op \in LeavesTwo THEN 3 ELSE 2, Len(dstack'))
                = SubSeq(dstack, 3, Len(dstack))]_vars

\* "a -- (~a)" (vm_opcodes.in l.55): NOT takes one operand and keeps those below.  It does
\* not: the table's next number makes it pop two.
NotTakesOne ==
    [][Computes("NOT") => dstack' = <<WORD - 1 - ARG1>> \o Tail(dstack)]_vars

-----------------------------------------------------------------------------
\* VmCore implements VmCalls: the variables of an activation are those of its object.
VariablesAt(i) == IF LocalsAt(i) = NULL THEN <<>> ELSE <<heap[LocalsAt(i)].data>>

Calling == INSTANCE VmCalls WITH
    locals <- VariablesAt(0),
    callers <- [i \in 1 .. Len(cstack) |->
                  [return_pc |-> heap[cstack[i]].return_pc, locals |-> VariablesAt(i)]]

\* Every activation keeps its own locals, and RET resumes the caller behind its call with
\* the caller's (op_CALL, op_ICALL, op_RET, op_LOCALS, op_STLOC).
ImplementsCalls == Calling!Spec
=============================================================================
