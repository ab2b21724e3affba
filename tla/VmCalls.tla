-------------------------------- MODULE VmCalls --------------------------------
(***************************************************************************)
(* What CALL, ICALL and RET promise a program of the virtual machine:      *)
(* every activation of a routine has its own local variables, which only   *)
(* it can change, and a return goes on behind the call with the caller's   *)
(* locals as they were.                                                    *)
(***************************************************************************)
EXTENDS Naturals, Sequences

CONSTANTS
    Operands,     \* what a local variable may hold
    MAX_COUNT     \* the most locals one activation may have

VARIABLES
    pc,
    locals,       \* the running activation: <<>>, or <<its variables>> once declared
    callers       \* the suspended activations, the innermost first

vars == <<pc, locals, callers>>

Init == pc = 0 /\ locals = <<>> /\ callers = <<>>

Call ==
    /\ pc' \in Nat
    /\ callers' = <<[return_pc |-> pc + 1, locals |-> locals]>> \o callers
    /\ locals' = <<>>

Return ==
    /\ callers # <<>>
    /\ pc' = Head(callers).return_pc
    /\ locals' = Head(callers).locals
    /\ callers' = Tail(callers)

\* New variables hold anything; the activation's old ones are gone.
Declare ==
    /\ pc' = pc + 1
    /\ \E count \in 0 .. MAX_COUNT : \E data \in [1 .. count -> Operands] : locals' = <<data>>
    /\ UNCHANGED callers

Assign ==
    /\ pc' = pc + 1
    /\ locals # <<>>
    /\ \E i \in DOMAIN locals[1], v \in Operands : locals' = [locals EXCEPT ![1][i] = v]
    /\ UNCHANGED callers

\* Every other instruction.
Continue == pc' \in Nat /\ UNCHANGED <<locals, callers>>

Next == Call \/ Return \/ Declare \/ Assign \/ Continue

Spec == Init /\ [][Next]_vars
=============================================================================
