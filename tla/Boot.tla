--------------------------------- MODULE Boot ---------------------------------
(***************************************************************************)
(* The way of a module from its source to memory: vma assembles it, and    *)
(* when it returned 0, main (src/src/main.c) loads the file it wrote.      *)
(***************************************************************************)
EXTENDS Vma, VmLoader

vars == <<vmaVars, loaderVars>>

Init == VmaInit /\ LoaderInit

Open ==
    /\ pc = "exit_0" /\ lpc = "closed"
    /\ \E kept \in Kept : file' = File(kept)
    /\ lpc' = HeaderRead
    /\ UNCHANGED <<offset, memory, entry, ncalls_table, table>>

Next ==
    \/ VmaNext /\ UNCHANGED loaderVars
    \/ pc = "exit_0" /\ (Open \/ LoaderNext) /\ UNCHANGED vmaVars

Spec == Init /\ [][Next]_vars

-----------------------------------------------------------------------------
\* Every address keeps its width, and every stage has the values of those before it.
TypeOK ==
    /\ pc \in {"parse", "pass_1", "pass_2", "exit_0", "exit_1"}
    /\ insns \in Seq(Statements) /\ ncalls \in Seq(Names)
    /\ lookup_stack \in DOMAIN symtabs /\ errors \in Nat /\ resolved \subseteq References
    /\ next_va \in Addresses /\ bss_va \in Addresses /\ ep_offset \in Addresses
    /\ {start_addr, align_bytes, reserved} \subseteq Seq(Addresses)
    /\ Len(align_bytes) = Len(start_addr) /\ Len(reserved) = Len(start_addr)
    /\ Len(start_addr) <= Len(insns)
    /\ operands \in Seq(Seq(Nat)) /\ Len(operands) = emitted /\ emitted \in 0 .. Len(start_addr)
    /\ pc \in {"pass_2", "exit_0"} => Len(start_addr) = Len(insns)
    /\ lpc \in {"closed", "module", "base", "body", "table", "fix_up", "loaded",
                "no_file", "no_memory", "short_header", "short_file", "overrun", "unknown_routine"}
    /\ ncalls_table \in Seq(DOMAIN Routines)

\* A loaded module is the source: at base + address stands each instruction, all its
\* bytes, everything a label names lies inside the memory allocated, reserved memory
\* included, and the machine starts at the label "start".
LoadsWhatWasWritten ==
    lpc = "loaded" /\ ~Wraps =>
      /\ \A i \in 1 .. emitted : \A part \in 1 .. Size(insns[i], reserved[i]) :
           memory[start_addr[i] + part] = [what |-> "insn", of |-> i, part |-> part]
      /\ \A i \in DOMAIN insns : start_addr[i] + Size(insns[i], reserved[i]) <= file.memsize
      /\ symtabs[Globals]["start"].type = "label" =>
           entry = start_addr[symtabs[Globals]["start"].at]

\* The file counts its native routines in 16 bits.
Counted == Len(ncalls) < BYTES * BYTES

\* NCALL calls the routine its line names: the id pass 2 writes, the order of the hashes
\* in the file, and the loader's table agree, as long as 16 bits count the routines.
RoutinesNamed ==
    lpc = "loaded" /\ ~Wraps /\ Counted =>
      \A i \in 1 .. emitted :
        insns[i].kind = "ncall" =>
          /\ operands[i][1] \in 0 .. Len(ncalls_table) - 1
          /\ Routines[ncalls_table[operands[i][1] + 1]] = Hash[insns[i].name]

\* The loader refuses a module that assembled only for want of memory, for a native
\* routine that does not exist, or because the end of the file was lost or never written
\* (EmptyAtEnd), and never reads past its memory.
RefusedOnlyFor ==
    ~Wraps =>
      /\ lpc # "overrun"
      /\ lpc = "short_header" => file.size < Whole
      /\ lpc = "short_file" => file.size < Whole \/ EmptyAtEnd
      /\ lpc = "unknown_routine" /\ Counted =>
           \E n \in Range(ncalls) : Hash[n] \notin Range(Routines)
=============================================================================
