------------------------------- MODULE MCVmCore -------------------------------
(***************************************************************************)
(* VmCore for TLC: operands of two bits.                                   *)
(***************************************************************************)
EXTENDS VmCore, TLC

Effect(in, out) == {[in |-> in, out |-> out]}

\* rtl_realloc, rtl_free, sys_time, io_select, io_read, which returns two results when it
\* fails, and rtl_print_fd, which takes an operand more for each conversion.
MCThunks == << Effect(2, 1), Effect(1, 0), Effect(0, 1), Effect(4, 1),
               Effect(2, 1) \cup Effect(2, 2), UNION {Effect(2 + n, 1) : n \in 0 .. 2} >>

\* Addresses are interchangeable.
MCSymmetry == Permutations(Objects)
=============================================================================
