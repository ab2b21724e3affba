# A verification of mette

mette is a small virtual machine with its own runtime: a static program for i386 and MIPS
Linux, without libc, that loads one module (`BARF` file), and runs it for ever. Beside it
stands `vma`, the assembler that writes those files, and `p2p.vmS`, the module the machine
was made for. The models below are TLA+ modules checked by TLC on small instances; the
modules whose names end in `Proofs`, with the lemmas of `Basics`, hold proofs checked by TLAPS
for every value of the constants. Paths are relative to the repository; `l.n` in a module is a line of the file the
module names.

## The system

The program has one process and one thread. Nothing is concurrent but the kernel and the
network: what is hard here are long sequences of legal calls, stacks and buffers at their
limits, results of system calls nobody looks at, and a program (the module) that the
machine does not trust to be short or well behaved but whose memory it does not protect.

| component | files | state | operations | what makes it correct |
|---|---|---|---|---|
| allocator | `src/src/rtl/rtl_memory.c` | `free_anchor`, `first_slot`, `arena_brk`, the slot headers in the arena | `rtl_alloc`, `rtl_free`, `rtl_realloc`, `xmem_grow` | blocks never overlap, are as long as asked for, and keep their contents; the free list is sorted, merged, complete; calls return |
| virtual machine core | `src/src/vm/vm_core.c`, `src/src/vm_arch/*` | `ctx->pc`, `ctx->locals`, the frames and locals it allocates | `vm_context_create`, `vm_step` (one instruction) | every activation keeps its locals; frames and locals are freed once and not leaked; instructions do what the opcode table says |
| virtual machine stacks | `src/src/vm/vm_stack.c` | the data and the control stack | `vm_stack_push3`, `vm_stack_pop3` | never past a limit, never below empty |
| native routines | `src/src/vm_thunks/*.c` | none of their own; they act on the data stack, on buffers and on descriptors | one per entry of the hash table, called by `NCALL` | each pops its arguments and pushes its results, once, on every path; a buffer has one owner |
| string buffers | `src/src/rtl/rtl_strbuf.c` | size, length (16 bits each), buffer | alloc, free, append, resize, set length | length never passes size; nothing is lost silently |
| formatted output | `src/src/rtl/rtl_print.c` | the output buffer of a call, the conversion in progress | `rtl_print_*` | every character counted is written, once, in order |
| loader and boot | `src/src/vm/vm_loader.c`, `src/src/main.c` | the module: base, entry, ncalls table | `vm_load_fd`, `vm_lookup_thunk`, `main` | what the assembler writes loads, inside the memory allocated for it |
| assembler | `src/src/vma/*.c`, `.l`, `.y` | symbols, the list of instructions, ncalls, errors | pass 1 (addresses), pass 2 (bytes), output | pass 1 and pass 2 agree on every address; a reference resolves to the symbol it names |
| peer to peer module | `src/src/modules/p2p.vmS` | its globals, its sockets and buffers | start, the search for an interface, the receive loop | each routine keeps to its stack comment; the loop neither grows the stack nor leaks |
| arbitrary precision numbers | `src/src/imp/*` | | | unfinished and linked by nothing: left aside |
| system calls, start-up | `src/src/sysdep/*` | the kernel | wrappers in assembly | external: modelled by what the callers can be told |

How they interact: `main` loads the module and calls `vm_step` for ever. The machine takes
its stacks, frames, locals, the module's memory and the ncalls table from the allocator;
`NCALL` calls a native routine with the context, which pops and pushes on the same data
stack as the instructions do, and uses string buffers, formatted output and system calls.
The allocator calls `brk(2)`. The assembler and the loader share nothing but the file, the
instruction encoding and the hash of the native routines' names.

The hazards, each at its line with the properties that answer it, are listed in
`PROJECT.json`.

## Modules

### The allocator: `RtlMemory`, `Heap`

`RtlMemory` is `rtl_memory.c`, one step per loop iteration and one per stretch of code
between loops; `pc` names the place. Memory is a function from 8-byte units to slot headers
(`next_slot`, `next_free`); a unit that is no header holds `Data`. `prev` and `curr` are the
`prev_free`/`curr_free` of the walk that runs. The client (the virtual machine, the native
routines, the module) holds `live`, the blocks it was given and their sizes; between calls it
may call `rtl_alloc`, `rtl_free` with a pointer it holds or NULL, or `rtl_realloc`, with any
size of `Sizes`, and it overwrites everything it owns. `brk(2)` may refuse any request, and
always refuses beyond `LIMIT`. Pointers and sizes wrap at `ADDRS`. Following `Data` as a
pointer ends in `undefined`, copying from unmapped memory in `fault`.

| code | actions |
|---|---|
| `rtl_alloc` | `AllocEnter`, `AllocTooSmall`, `AllocOverflow`, `AllocTake`, `AllocExhausted`, `AllocUndefined` |
| `xmem_grow` | `Grow`, `GrowRefused` |
| `rtl_free` | `FreeEnter`, `FreeWalk`, `FreeInsert`, `FreeUndefined` |
| `rtl_realloc` | `ReallocEnter`, `ReallocWalk`, `ReallocShrink`, `ReallocKeep`, `ReallocMove`, `ReallocCopy`, `ReallocFault`, `ReallocUndefined` |

Three paths of the code break the arena: growing while the free list is not empty, unless
its last slot ends where the arena does (`"stretch"`; `"lost"` when it does, and only the new
pages are forgotten), shrinking a block in place (`"shrink"`), and a size that wraps in ALIGN
(`"wrap"`). `history` records them and `Broken` is their disjunction. The correctness
properties say what holds until then, and two violation runs show the first two paths
breaking what the code's comments promise.

`Heap` is the promise to a client: blocks that never overlap; a refused call changes
nothing; a block that moves is gone only when the new one is there. `RtlMemory` implements
it (`ImplementsHeap`): `live` is `live`, and a request is open from the call until its outcome
is settled.

### The virtual machine: `VmAlu`, `VmCore`, `VmCalls`

`VmCore` is `vm_step` with `vm_context_create` and the two stacks. One action per instruction
or family of instructions, one step per `vm_step`. The program is arbitrary: any instruction
may stand at any address, so that what is shown holds for every module. Addresses count
instructions, a branch offset is given by its target. Objects are the allocations of frames
and locals; `vm_alloc` may return NULL at any time. `status` says how the process ended:
`panic` (`vm_panic`), `trap` (a signal: a division by zero, a store through NULL), `exit`, or
`undefined` where the code reads what it should not (an NCALL index behind the table, code
that runs off its end). A native routine is the set of its effects on the data stack, each a
number of operands and one of results, neither bounded: `io_select` takes four operands, and
the print routines one more for each conversion.

`VmAlu` is what the computing instructions leave, by the C expressions and their target's
rules: shift counts modulo the width, high words of products, the result that i386 pushes
uninitialized. `VmCalls` is the calling discipline the instructions promise a module: an
activation has its own locals, which only it changes, and RET goes on behind the call with the
caller's locals as they were. `VmCore` implements it (`ImplementsCalls`).

### Formatted output: `Strbuf`, `RtlPrint`

`RtlPrint` is one call of `rtl_xprint_fd` or `rtl_xprint_sb`: a step reads a directive of the
format or puts one character through `put_char`, with its flush. The format is arbitrary
within `DIRECTIVES`; `conv` is the conversion in progress with its flags, width, precision and
argument, and `text` and `space_count` are what the loops of `conv_text` have left. `put` and
`flushed` remember what was put and what the flush procedures were given. An empty data stack
ends in `panic` (`nextarg_stack`), a format that ends within a conversion in `undefined`.
`Strbuf` has the string buffer it prints to, as a value, with the operations of
`rtl_strbuf.c` as operators on it; the native routines use the same ones.

| code | actions |
|---|---|
| `__print_internal` | `PutFormat`, `PutArgument`, `SkipUnknown`, `Convert`, `EndConversion`, `EndFormat`, `RunsOff`, `NoArgument` |
| `conv_text` | `PutText`, `PutPad` |

### From source to memory: `Vma`, `VmLoader`, `Boot`

`Vma` is the assembler: a step of the parser per statement, a step of pass 1 and one of pass 2
per instruction; `pc` is the stage of `main`. The source is arbitrary: any of `Statements` may
stand on each of `LINES` lines, and any of `Few` on `LONG_LINES`; a line may be no statement (`SyntaxError`), and the file may
end in the middle of one (`EndsBroken`: no error is counted). A statement has the kind of its
instruction, which for a machine instruction is the kind of operand behind its opcode, and its
expressions, each the list of its nodes with the children in front (the order in which
`vma_passx_evaluate_expr` takes them). Constants may name constants: `Evaluate` builds their
values level by level, no deeper than there are constants, because no reference is resolved
twice. `symtabs` holds a table for the globals and one per `.SUB`;
`resolved` holds the references whose name has been overwritten. `body` is what follows the
header in the file, a record per byte that says which instruction and which of its bytes it
is, so that a byte at a wrong place is seen. `vma_error` ends the program after `MAX_ERRORS`;
a read through a label without an instruction ends it in the same way.

`VmLoader` is `vm_load_fd`. The table of native routines is the constant `Routines`, by hash.
`Boot` composes the two: when the assembler has returned 0, `Open` hands the loader the file,
perhaps without its end, the header with the rest (`Kept`), because `main` does not look at what
`fclose` returns.

| code | actions |
|---|---|
| `vma_parser.y` | `Parse`, `SyntaxError`, `EndsBroken`, `EndParse` |
| `vma_asm.c`, `vma_out.c` | `Pass1`, `EndPass1`, `Pass2`, `WriteFails`, `EndPass2` |
| `main.c`, `vm_loader.c` | `Open`, `OpenFails`, `AllocModule`, `AllocBase`, `AllocFails`, `ReadBody`, `ReadTable`, `FixUp` |

### Native routines and their module: `VmThunks`, `P2p`

`VmThunks` has an action per native routine that changes anything, parameterised by the
operands it takes and, last, the result `r` it pushes, so that a client composes with it by
naming them: `\E r \in Given : RtlAlloc(BLOCK, r) /\ ...`. `heap` is the heap by what it
promises (`Heap`): any free pointer, or NULL; what stands in a block is an object, a string
buffer with its bytes, an address with its two byte strings as `machine` stores them, or a
descriptor set. `held` is what the module was given and has not given back. `fds` and `net`
are the kernel: what is open, where it is bound and in which mode, and the datagrams under
way, which may be lost, come twice or in any order; any call may fail. `call` remembers the
last call for the properties about results. `ended` says how the process ended: `trap` (a
routine wrote through NULL), `undefined` (a failed `io_read`, or a pointer freed that the
module does not hold), `exit`, `panic`.

`Next` is any module that hands over only what it holds and sends or copies only what was
written, so that what is shown holds for every such module.

`P2p` is `p2p.vmS`, a step from one native call or `log` to the next: `pc` is the label in the
source or the routine called, `stack` the data stack, and `locals` the routine's. The
virtual machine starts one of its routines, or `"any"` module that uses some groups of
native routines (`Others`).

| code | actions |
|---|---|
| `vmt_rtl.c` | `RtlAlloc`, `RtlRealloc`, `RtlFree`, `RtlMemset`, `RtlMemcpy`, `RtlStrbufAlloc`, `RtlStrbufFree`, `RtlStrbufSetLength`, `RtlStrbufResize`, `RtlPrintSb` |
| `vmt_io.c`, `vmt_misc.c` | `IoOpen`, `IoRead`, `Writes` (`io_write`, `socket_send`), `IoClose`, `IoIoctl`, `SysExit` |
| `vmt_sockets.c` | `SockaddrCreate`, `SocketCreate`, `SocketSetBlocking`, `SocketBind`, `SocketListen`, `SocketConnect`, `SocketAccept`, `SocketSendto`, `SocketRecvfrom` (and `socket_recv`), `SocketShutdown` |
| `vmt_select.c` | `FdsetCreate`, `FdsetSet`, `FdsetClear`, `IoSelect` |
| `comm_loop`, `comm_process_packet` | `CreateSocket`, `CreatePeer`, `Bind`, `Receive`, `ProcessPacket`, `FreePacket` |
| `get_hwaddr`, `start`, `log_fatal` | `GetHwaddr`, `Start`, `LogFatal` |
| `get_hwaddr2` | `GetHwaddr2` |

`MCRtlMemory`, `MCVmCore`, `MCRtlPrint`, `MCBoot` and `MCP2p` give the constants their values for TLC.

## Runs

| run | question | bounds |
|---|---|---|
| `RtlMemory` | Is the allocator right until a path that breaks the arena has run? `SlotsDisjoint`, `FreeListSorted`, `Coalesced`, `BlocksFit`, `NothingLost`, `CopyFits`, `ClientDataKept`, `CallsProgress`, `CallsReturn`, `ImplementsHeap` | three pages of three units, sizes of no, one, five and six units, one over `MAX_UNITS` and one that wraps; the client stops once the arena is broken (`STOPS`) |
| `RtlMemoryBroken` | What still holds when the client goes on afterwards? `TypeOK`, `DataIsNoHeader` | two pages |
| `RtlMemoryGrow` | "Simply append to the last free slot" (`rtl_memory.c:74`): violated, two blocks share a unit | as `RtlMemory`, sizes that do not wrap |
| `RtlMemoryShrink` | "we can free() the leftover" (`rtl_memory.c:248`): violated, `rtl_free` takes the client's last unit for a header | as `RtlMemoryGrow` |
| `VmCore` | Any program on the machine: `TypeOK`, `OwnedOnce`, `OnlyLocalsLeaks`, `ArithmeticLaws`, `ImplementsCalls` | words of two bits, two operands, two frames, three objects, two addresses, at most one local |
| `VmCoreNot` | `a -- (~a)` (`vm_opcodes.in:55`): violated, NOT pops two | three addresses, one frame, one object, i386 |
| `RtlPrint` | What reaches the file or the string buffer? `TypeOK`, `LosesOnlyLast`, `StrbufHoldsPrefix`, `FieldsAsAsked`, `ReadsBack` | a buffer of three, words of five bits, four directives, one argument |
| `RtlPrintOctal` | "Unsigned octal" (`rtl_print.c:259`): violated, the base is 18 | three directives |
| `VmaBoot` | Is a module in memory what its source says? `TypeOK`, `EmittedWhereAllocated`, `ReferencesReach`, `LoadsWhatWasWritten`, `RoutinesNamed`, `RefusedOnlyFor` | four lines of 19 statements, or six of the five around a local label; addresses of six bits, bytes of three, two known native routines and an unknown one |
| `VmaConstants` | A constant is evaluated at each reference (`vma_asm.c:218`): violated, the second fails | three statements |
| `P2p` | Do the native routines keep what they promise to any module (`TypeOK`, `Owned`, `HoldsWhatCame`, `NothingMadeUp`, `AddressesAgree`, `BlockingAsAnswered`, `ResizeKeeps`, `WaitsAsAsked`), and does `p2p.vmS` keep to their rules, lose nothing per packet, and end its search (`KeepsTheRules`, `LeavesAsCommented`, `PanicsOnlyForStatus`, `PacketsAndSearchEnd`)? | both machines; two blocks, two descriptors, one datagram under way; bytes of two values; string buffers of two characters; two interfaces; seven combinations of groups |
| `P2pStatus` | `( -- status )` (`p2p.vmS:263`): violated, `get_hwaddr` leaves nothing | as `P2p` |

Why the bounds are enough. Nine units of arena hold three blocks with a gap on either side
of the middle one, so that a freed block meets every combination of neighbours, a walk passes
slots that are too small before one that fits, splits leave two units or none, and the arena
grows up to three times, with every kind of list. The VmCore run has room for a call within a
call, both with locals, whose frames and locals compete for three objects, and for a stack
at, one below and two below its limit; the same properties hold with four objects (849,000
states, checked by hand, as it takes four minutes). Two bits give every sign combination
and every carry of the arithmetic. `MCSymmetry` permutes `Objects`, which no definition tells
apart, and no property of that run is a liveness property. RtlPrint's fields and characters
around them fill the buffer up to twice and pass the size of the string buffer; its four
words are zero, one with a letter in base 16, the lowest int and -1, and widths and precisions
lie below and above every text. VmaBoot's 19 statements hold every kind of operand, a local
label that two `.SUB`s define, references forwards and backwards, a constant by a number and
one by a label, branches within and out of reach of a byte, alignment, and memory reserved in
the middle and at the end of a file, of no length too, with an empty text behind it (`EmptyAtEnd`);
with addresses of six bits, sizes wrap as well. Six lines
of `MCFew` are two closed routines in any arrangement, each with its own `@@l` and a reference to it
from the line itself or from the next; the first routine's label must not be what the second's
reference finds, in either pass (mutant `Lookup_AnyRoutine`). Four lines of any kind are what the
other properties need: a branch over a string, or an alignment, a constant and a label behind it.
A file may be cut at every `BLOCK` bytes, within its header of 32 or behind it. In the P2p run a size
of 5 and a text of three characters pass the 16 bits of a length (`LEN` = 3) and 1 does not,
the texts are shorter and longer than a buffer; four bits of address and two of port tell
every order of the bytes apart, a port of 5 has a bit too many, and the sender's address is no
palindrome; the waits lie below, at and above a second (`SECOND` = 3) and up to the last that
an int of six bits holds, and beyond. Two blocks are what the module itself ever holds; the
other modules use two or so groups of routines at a time, those that share objects: buffers
with memory and with files, addresses with datagrams and with streams, datagrams with sets.
With one run of all the groups together the blocks would only compete for the same two
places. The specifications disable the
deadlock check because the program really stops: the client of a broken arena by the bound
`STOPS` and after a fault, the machine by a panic, a trap, or the program's exit, a print when
it returns, a module when it exits or traps, the assembler when it exits and the loader when it has loaded or panicked.

Fairness: `FairSpec` has weak fairness on `Step`, all the steps of a call in progress and none
of the client's. The process has one thread and a call runs until it returns, so that the code
does take its next step whenever it stands inside a call. `CallsReturn` needs it. `P2pSpec` has weak fairness on
the steps of `p2p.vmS` but the receive: the machine's loop takes the next instruction, and
every native call but the receive returns by itself. Nothing is assumed of the network, and nothing
claimed of when a packet comes: `PacketsAndSearchEnd` starts when one has been received.

## Proofs

A proof stands in the module of its component: `VmCoreProofs` extends `VmCore`, and so on.
Each starts from the assumptions the component's module names, which TLC evaluates on the
instance it checks, and from nothing else.

**The allocator.** `RtlMemoryProofs` proves, from `ConstantsAssumption` (a page has two units
or more, the first page fits below the limit, sizes are below the width), for every arena:

- `TypeCorrect` (`TypeOK`), by the strengthening `LocalsOK`: what `ptr` and `curr` are at each
  place in the code. It holds after the arena is broken as well: whatever the broken code
  reads as a header is a unit of the arena or ends in `undefined`.
- `HeapCorrect`: `HeapInv` is invariant. `SlotsDisjoint`, `FreeListSorted`, `Coalesced` and
  `BlocksFit` are its first conjuncts; alone they are not inductive, because a call in
  progress acts on what its walk has found. `WalkOK` says that `prev` and `curr` are
  neighbours of the free list, around the block to insert or before the break; `MoveOK` that
  the block rtl_realloc works on is still the client's and `old_count` still its length;
  `TakenOK` that the slot taken for the move is long enough. All is claimed until `Broken`
  only, and every step but those that break the arena preserves it. One lemma shows that the
  merge in rtl_realloc (l.228-240) never runs its body: the loop looks at slots below the
  block only, none of which lies behind it.
- `SlotsStayDisjoint`, `FreeListStaysSorted`, `FreeSlotsStayMerged`, `BlocksAlwaysFit`,
  `CopyAlwaysFits` and `HeadersAreHeaders` (`DataIsNoHeader`) follow.
- `EveryCallProgresses` (`CallsProgress`): each step of a call lowers a variant. In order of
  weight: the stage of the call (`Stage`), the room between the break and `LIMIT`, and the
  addresses before the walk (`Ahead`). The walks go up because a header's `next_free` lies
  above it (`HeapInv`); the loop of `rtl_alloc` around `xmem_grow` stays in its stage, but a
  growth raises the break even when the pages are lost to the list, and one that is refused ends
  the call. That a growth raises it needs `BreakOK`, an invariant of its own: the allocator's
  break is never below the kernel's. The theorem also says within which bounds the three stay.

`RtlHeapProofs` goes on from these to what a client sees:

- `ClientDataIsKept` (`ClientDataKept`): a unit a client owns lies inside the slot of its
  block, so it is no header and in no other slot, and every store of a call goes to a header
  or to a free unit that becomes one.
- `ImplementsTheHeap` (`ImplementsHeap`): the initial state and every step map to `Heap`. A
  call opens the request, the step that settles the outcome closes it, and what lies between
  stutters; that a block handed out overlaps no other is `SlotsDisjoint` with `BlocksFit`.
- `NothingIsLost` (`NothingLost`): as long as `history` is empty the slots tile the arena from
  `first_slot` to `arena_brk`. Each of the steps that splits, merges, inserts or grows is shown
  to leave a successor for every slot; `arena_brk` is NULL exactly as long as `first_slot` is.
- `SharedOnlyOnceBroken`: the two comments that the violation runs refute (`NoSharedUnits`,
  `FreesNoOwnedUnit`) are true of every arena until one of the three paths has run, so that these
  paths are the only way to what the runs show.

**The virtual machine.** `VmCoreProofs` proves, from `WordAssumption` and `CoreAssumption`, for
every program, word size and stack limit (`WordAssumption` includes that powers of two are
naturals larger than their exponent, as no prover knows powers):

- `TypeCorrect` (`TypeOK`) and `FreedOnce` (`OwnedOnce`) together, by the inductive `VmInv`,
  their conjunction. Neither is inductive alone: STLOC writes to the object `locals` names and
  RET takes its frame from the object on top of the control stack, and that those hold what
  their type says follows from every object having one owner.
- `CallsImplemented` (`ImplementsCalls`): the initial state and every step map to `VmCalls`.
  Under the mapping, activation i has the locals that frame i + 1 saved, and the running one
  those of the machine; a call saves what is mapped to the same place, and a return takes the
  top frame away.
- `NothingElseLeaks` (`OnlyLocalsLeaks`): by cases over the actions, what is freed or kept.
- `ArithmeticIsLawful` (`ArithmeticLaws`): for every word size and both machines. The laws are not
  the definitions of `VmAlu` but what they must amount to: the dividend comes back from quotient
  and remainder, a signed high word with the low one is the signed product, a signed order is the
  unsigned one with the sign bits flipped. The sign cases of the division are lemmas of their own.

**The native routines.** `VmThunksProofs` proves all of `VmThunks`' properties, for every set of
blocks, descriptors, sizes and texts and for every careful module. `ThunksAssumption` says what
C's types say: a byte has two values or more, addresses, ports and sizes are unsigned, NULL is no
block, and a sender's address is one a datagram can have.

- `TypeCorrect`, `OwnedByTheModule` (`Owned`) and `NothingIsMadeUp` together, by `Inv`, their
  conjunction: a routine that fills a buffer is typed only if it knows that the block is the
  module's, and reads only what was written.
- `AddressesAreTheSame` (`AddressesAgree`): `Split2`/`Join2` and `Split4`/`Join4` are inverse for
  every size of a byte, on both machines; the arithmetic is in `Basics`.
- `BlockingIsAsAnswered`, `ResizeAlwaysKeeps`, `BuffersHoldWhatCame`: the result a routine pushes
  against what it did to the descriptor or the buffer, on every path.
- `WaitsAreAsAsked`: seconds and microseconds for every timeout an int holds. The proof found
  what the bounds of the run had hidden: a negative timeout is refused only if its product with
  1000 fits an int; the property now says so.

`P2pProofs` proves of `p2p.vmS`, from `P2pAssumption` (the module's constants are among the
sizes, ports and addresses of `VmThunks`), that it is such a module, by `ModuleInv`: at every label
what the locals, the stack and `held` are, a block that was refused included.
`P2pKeepsTheRules` (`KeepsTheRules`) maps each step to one of `Next` or to a panic of the
machine; `P2pIsCareful` draws the consequence that all of the above holds of it;
`P2pLeavesAsCommented` and `P2pPanicsOnlyForStatus` say what is left on the stack and held.
`P2pRoutinesProgress` gives the routines a variant: every step but the one from a freed packet
back to the receive comes nearer to the end of its routine (`Place`), or to the last interface
of the search. `P2pStartPanics` makes the finding about `start` a statement about every run:
whatever the kernel answers, its stack is empty at the branch.

**Formatted output.** `RtlPrintProofs` proves all of `RtlPrint`'s properties, for every format,
buffer, word size and text, from `PrintAssumption`: an output buffer of two characters or more
that an unsigned short can count (1024 in the code), and a string buffer whose size is one.

- `PrintIsTyped`, `LosesOnlyTheLast`, `StrbufHoldsAPrefix` by the inductive `PrintInv`. It adds
  to the properties that only whole buffers are gone before the end (`WholeBuffers`), that the
  string buffer is as long as what it was given or full (`StrbufIs`), and what the
  conversion in progress has put and has left (`InProgress`).
- `FieldsAreAsAsked` follows from `InProgress` at the end of a conversion.
- `NumbersReadBack` (`ReadsBack`): `conv_base_r`'s digits, read back, are the number, for every
  base and number, by induction over the number.

**From source to memory.** `BootProofs` proves all of `Boot`'s properties, for every list of
statements, width of an address and of a byte, set of local names and table of routines. From
`VmaAssumption`: an address has whole bytes, a byte has an even number of values, and what a
power of two is, level by level, as no prover knows powers; from `StatementsAssumption`: the
statements are what the rules of `vma_parser.y` build; from `LoaderAssumption`: hashes are
numbers.

- `Invariance`: `Inv` is invariant. None of the properties is inductive, as each speaks of the end
  of a way on which every stage relies on the one before it. `SymbolsOK`: a symbol is a label
  at an instruction or a constant at a `.CONST`, from the first pass on (a label of a broken
  statement has none, so that this needs `errors = 0` while parsing). `LayoutOK`: by pass 1,
  every instruction starts where the one before it ends, plus its alignment, modulo the
  width, and the file's part ends where its last instruction of a kind that allocates does.
  `BodyOK`: as long as nothing wrapped and no error was counted, the length of `body` is the end of
  the last instruction written, and at each of its addresses stand its bytes: that the sizes of
  pass 1 are the bytes of pass 2 is the lemma `WrittenIsSize`. `BehindOK` is its sequel once pass 2
  counts errors: the output lags behind the addresses by no more than the number of errors, as
  each refuses one operand of one byte. `ScopeOK`: where `lookup_stack`
  stands in each stage, by the `.SUB`s passed or, before the first, by where the stage before it
  ended. `LabelsOK`: a symbol in a table is
  that of a line which carries its name in that scope; with `ScopeOK` this is what makes a reference lead to the line its own text means. `OperandsOK`: what pass 2 has written for a native call or a reference; the arithmetic of an
  offset that is cut to a byte and extended again is `OffsetLeads`. `EntryOK` is the entry point,
  and `LoaderOK` what each stage of the loader has in memory, byte by byte from the file.
- `TypeCorrect` (`TypeOK`) is a part of it. The expressions are in it as well: whatever the nodes,
  constants and operators, a value is an address, and a result without one has counted an error
  (`EvaluateResult`, by induction over the nodes and over the depth of constants).
- `EmittedAsAllocated` (`EmittedWhereAllocated`), `ReferencesAlwaysReach` (`ReferencesReach`),
  `LoadsAsWritten` (`LoadsWhatWasWritten`), `RoutinesAsNamed` (`RoutinesNamed`) and
  `RefusedForAReason` (`RefusedOnlyFor`) follow from `Inv` at the end of their stage.

The proofs changed what was claimed: an empty text at the end of the file's part (`EmptyAtEnd`)
leaves the file shorter than its header says; 65,536 native routines do not fit the count in
the header (`Counted`), and `ReferencesReach` holds though addresses wrap.

**`Basics`** has what several components need: quotients and remainders, numbers split into two
digits, sequences as functions on an interval, and induction. The library's induction theorems
take an operator as a parameter, which no prover here can instantiate; `StrongInduction` and
`Induction` take the set of the numbers that have the property instead, and `Recursion` says,
by the same means, that a recursive function exists and satisfies its equation; `TypedRecursion`
is the same for one whose values have a type of their own at each step.

**Only model-checked:** `CallsReturn` and `PacketsAndSearchEnd`, liveness under fairness, which
is out of the prover's reach. What they rest on is proved, for every value of the constants: the
variants of `EveryCallProgresses` and `P2pRoutinesProgress`. What is left to TLC is that some
step of a call or a routine is always possible, and that a variant that only falls must end. Every invariant and action property that a passing run checks is proved.

## What the checks found

- `xmem_grow` "appends" new pages to the last free slot by setting its end to the old break,
  not the new one (l.75): the pages are lost, and if blocks lie behind that slot it is
  stretched over them and they are handed out twice.
- `rtl_realloc` frees the leftover of a shrunk block by its header instead of the address
  after it (l.249).
- NOT takes two operands off the stack (`vm_opcodes.in:55`).
- `%o` converts with base 18 (`rtl_print.c:260`).
- A constant that is defined by a symbol can be used once: resolving a reference overwrites
  its name (`vma_asm.c:107`), and the second evaluation looks up garbage.
- `get_hwaddr` leaves no status (`p2p.vmS:263`): the branch in `start` finds an empty stack, so
  the module always panics there.

Seen while modelling and not counted as findings: ALIGN wraps for sizes within 7 bytes of
2^32 (l.91); the copy in rtl_realloc reads one unit behind the old block (l.257), which faults
when nothing is mapped there; on i386, MULU and MULS push a word nobody set;
`vm_alloc`'s result is used untested in LOCALS and in calls; a second LOCALS leaks; a full
output buffer is flushed without its last character (`rtl_print.c:86`); `%s` prints the NUL,
as `xstrlen` counts it; a statement that breaks off at the end of a source with no newline
is dropped without an error (`vma.c:101`), and a label in front of it faults when it is used;
`.RESx` with a large operand wraps the addresses; a file whose part ends with an empty text
behind an alignment comes short of what its header says (`vma_out.c:84`), and the loader refuses
it; the header counts native routines in 16 bits (`vma_out.c:77`), so that 65,536 of them are none; a `.SUB` that is not closed lends its local
names to the lines before the first one in pass 2; `start` may be a constant, whose value is
then taken for an address (`vma_out.c:71`); a failed `io_read` sets the length of the buffer it
freed and pushes two results; `io_select` waits for whole seconds twice, and a negative timeout
is refused only as long as its microseconds fit an int (`vmt_select.c:66`);
`socket_accept` passes the length of the address where the kernel expects a pointer to it, so
that a call that asks for the peer fails and the connection is gone (`vmt_sockets.c:183`);
the test in `socket_recvfrom` for a buffer it did not get comes too late (l.247), as
`rtl_strbuf_alloc` has written through NULL; `rtl_strbuf_resize` cuts a size to 16 bits where
`rtl_strbuf_alloc` limits it; `get_hwaddr` never closes its socket and does not look whether it
got one. The
properties that would fail for these name the exclusion in their comment. Of the comments of the
opcode table two more are not the code's: OR is "(a & b)" (`vm_opcodes.in:47`), and CMP.LT and
CMP.GT, which `ArithmeticLaws` holds to the order of the code, the one `p2p.vmS:101` relies on.

## Not modelled

- `rtl_alloc_dump`, debug prints and the text of panics: output only.
- `vm_restore_frame`: nothing calls it.
- Self-modifying code and stores over the machine's own structures: VmCore's program writes
  memory that is its own.
- `imp/`: unfinished, linked by nothing. `tests/`: a stub of a test runner.
- The lexer and the grammar within a line, the command line of the assembler, and strings that
  span lines (a warning, then a failed assertion in pass 1). The hash of names is a constant;
  `vm_gen_thunks.pl` computes the same one.
- The contents of memory reserved behind the file's part: the loader does not clear it.
- `sysdep/`: the numbers of the calls, byte loops, and the assembly that loads registers; what
  the wrappers return when the kernel refuses is in `VmThunks`, and the kernel is external.
  `sys_errno` cannot be seen by a module.
- Of the native routines those that only read (`fdset_check`, `rtl_nswapl`, `rtl_nswaps`,
  `rtl_strbuf_get_*`, `sys_time`), the descriptor sets to write and of exceptions in
  `io_select`, and a module that hands over what it does not hold: the machine does not protect
  itself from that.
- Of the kernel, what no property tells apart: a connected datagram socket, the peer of a
  stream, a port 0 that the kernel chooses, and sockets that share an address.
- `rtl_strbuf_append`, `_append_char` and `_append_asciiz`, which nothing calls.
- Of `p2p.vmS` what is never reached: the end of the receive loop, as nothing clears
  `comm_running`, and `start` behind the branch on the status, but for its first load, from
  address 5.

## Plan

The most important behaviour first: everything stands on the allocator, and every module on
the machine's steps.

1. Done: `RtlMemory` over `Heap`, `VmCore` over `VmCalls`, and the proofs of all their
   properties but the liveness.
2. Done: `VmThunks` over `Strbuf`, any module and `P2p` on it, and their proofs, as above.
3. Done: `RtlPrint` over `Strbuf` and its proofs.
4. Done: `Vma`, `VmLoader` and `Boot` and their proofs.

Left: that a loaded module is a program of `VmCore`, which needs bytes for opcodes in both, and
liveness for every value of the constants, which no prover here can take on.
