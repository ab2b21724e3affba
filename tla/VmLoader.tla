------------------------------- MODULE VmLoader -------------------------------
(***************************************************************************)
(* The loader, src/src/vm/vm_loader.c: vm_load_fd, one step per block of   *)
(* reads, allocation, or entry of the table of native routines.            *)
(***************************************************************************)
EXTENDS Integers, SequencesExt

CONSTANTS
    Routines      \* the hashes of the native routines, in the order of the table

ASSUME LoaderAssumption == Routines \in Seq(Nat)

VARIABLES
    lpc,          \* where vm_load_fd stands; how it panicked
    file,         \* the file: its size, its header, and what follows
    offset,       \* bytes of the rest read
    memory,       \* what stands at module->base
    entry,        \* module->entry, from the base
    ncalls_table, \* what NCALL calls: places in Routines
    table         \* the hashes read

loaderVars == <<lpc, file, offset, memory, entry, ncalls_table, table>>

LoaderInit ==
    /\ lpc = "closed" /\ file = [memsize |-> 0] /\ offset = 0
    /\ memory = <<>> /\ entry = 0 /\ ncalls_table = <<>> /\ table = <<>>

\* vm_lookup_thunk: the first record with the hash; 0 when there is none.
LookupThunk(hash) ==
    LET found == {n \in DOMAIN Routines : Routines[n] = hash}
    IN IF found = {} THEN 0 ELSE Min(found)

Ends(how) == lpc' = how /\ UNCHANGED <<file, offset, memory, entry, ncalls_table, table>>

\* The bytes of the header that vm_load_fd reads, one field after the other: it panics at
\* the first that is not all there.  (The signature of a file of vma's is its own.)
HEADER_READ == 4 + 4 + 4 + 4 + 2
HeaderRead == IF file'.size < HEADER_READ THEN "short_header" ELSE "module"

\* main cannot open the file; vm_load_fd gets no memory.
OpenFails == lpc = "closed" /\ Ends("no_file")

AllocFails == lpc \in {"module", "base", "table"} /\ Ends("no_memory")

AllocModule == lpc = "module" /\ Ends("base")

AllocBase ==
    /\ lpc = "base" /\ lpc' = "body" /\ entry' = file.ep_offset
    /\ UNCHANGED <<file, offset, memory, ncalls_table, table>>

\* The body is read whatever its size: it may pass the end of the memory.
ReadBody ==
    /\ lpc = "body"
    /\ IF Len(file.rest) < file.filesize THEN Ends("short_file")
       ELSE IF file.filesize > file.memsize THEN Ends("overrun")
       ELSE /\ memory' = SubSeq(file.rest, 1, file.filesize)
            /\ offset' = file.filesize
            /\ lpc' = IF file.ncalls_count > 0 THEN "table" ELSE "loaded"
            /\ UNCHANGED <<file, entry, ncalls_table, table>>

\* Four bytes are a hash when they were written as one.
HashAt(n) ==
    LET cells == SubSeq(file.rest, offset + 4 * n - 3, offset + 4 * n)
    IN IF \A k \in 1 .. 4 : cells[k] = [what |-> "hash", of |-> cells[1].of, part |-> k]
       THEN cells[1].of ELSE -1

ReadTable ==
    /\ lpc = "table"
    /\ IF Len(file.rest) - offset < 4 * file.ncalls_count THEN Ends("short_file")
       ELSE /\ table' = [n \in 1 .. file.ncalls_count |-> HashAt(n)]
            /\ lpc' = "fix_up"
            /\ UNCHANGED <<file, offset, memory, entry, ncalls_table>>

FixUp ==
    /\ lpc = "fix_up"
    /\ LET thunk == LookupThunk(table[Len(ncalls_table) + 1])
       IN IF thunk = 0 THEN Ends("unknown_routine")
          ELSE /\ ncalls_table' = Append(ncalls_table, thunk)
               /\ lpc' = IF Len(ncalls_table') = Len(table) THEN "loaded" ELSE "fix_up"
               /\ UNCHANGED <<file, offset, memory, entry, table>>

LoaderNext ==
    \/ OpenFails \/ AllocFails \/ AllocModule \/ AllocBase \/ ReadBody \/ ReadTable \/ FixUp
=============================================================================
