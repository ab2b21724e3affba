------------------------------ MODULE RtlMemory ------------------------------
(***************************************************************************)
(* The runtime's allocator, src/src/rtl/rtl_memory.c: rtl_alloc, rtl_free, *)
(* rtl_realloc and xmem_grow over one arena that sbrk extends.  Every      *)
(* iteration of a loop in the code is a step; the code between two loops   *)
(* is one step, as nothing runs beside it.                                 *)
(*                                                                         *)
(* Addresses count units of 8 bytes (sizeof(struct slot)), as all pointer  *)
(* arithmetic of the code does; sizes count bytes.  A unit of memory is a  *)
(* struct slot: next_slot[a] and next_free[a] are its two words.  Memory   *)
(* is abstracted to its headers: a unit that is none (fresh, stale, or the *)
(* client's to write) holds Data.  The code must never take Data for a     *)
(* header, and where it does the model stops in "undefined".               *)
(***************************************************************************)
EXTENDS Integers

CONSTANTS
    PAGE_UNITS,   \* units in a page (512 in the code)
    ADDRS,        \* units in the address space: pointers and sizes wrap there
    BRK0,         \* the program break when the process starts
    LIMIT,        \* the break beyond which brk(2) always refuses
    MAX_UNITS,    \* 0xFFFFFF in the code
    Sizes,        \* the sizes, in bytes, the client asks for
    STOPS         \* bound: the client makes no call once the arena is broken

UNIT_SIZE == 8

SizeRange == ADDRS * UNIT_SIZE

ASSUME ConstantsAssumption ==
    /\ PAGE_UNITS \in Nat /\ PAGE_UNITS > 1
    /\ ADDRS \in Nat
    /\ BRK0 \in Nat \ {0}
    /\ LIMIT \in Nat /\ BRK0 + PAGE_UNITS <= LIMIT /\ LIMIT < ADDRS
    /\ MAX_UNITS \in Nat \ {0} /\ MAX_UNITS < ADDRS
    /\ Sizes \subseteq 0 .. SizeRange - 1
    /\ STOPS \in BOOLEAN

NULL == 0
Data == -1          \* a word that is no header's
NoBlock == -1       \* live[p] where the client holds no block at p

\* ALIGN(x, a) for the x that do not wrap.
Align(x, a) == x + ((-x) % a)

Base == Align(BRK0, PAGE_UNITS)

\* The units the arena can ever hold; a pointer handed out is a header plus one.
Units == Base .. LIMIT - 1
Ptrs == Base + 1 .. LIMIT

\* Pointer and size arithmetic modulo the machine's width (both operands fit it).
Wrap(x, range) == IF x < range THEN x ELSE x - range

\* Units of a request of n bytes, its header included, as the code computes it.
UnitsOf_RoundsDown(n) == n \div UNIT_SIZE + 1                           \* mutant
UnitsOf(n) == Wrap(n + UNIT_SIZE - 1, SizeRange) \div UNIT_SIZE + 1

\* Units n bytes really take; Wraps(n) when ALIGN(n, UNIT_SIZE) overflows.
Need(n) == (n + UNIT_SIZE - 1) \div UNIT_SIZE
Wraps(n) == n + UNIT_SIZE - 1 >= SizeRange

VARIABLES
    next_slot, next_free,              \* the memory, as slot headers
    free_anchor, first_slot, arena_brk,\* the static variables
    brk,                               \* the kernel's program break
    live,                              \* what the client holds: pointer -> size asked for
    pc,                                \* where the code stands; "client" between calls
    size, ptr,                         \* arguments of the call in progress
    prev, curr,                        \* prev_free and curr_free (next_free) of the walk
    old_count,                         \* rtl_realloc's count of units to copy
    free,                              \* history: the slots put on the free list and not taken
    history                            \* history: the events that break the arena

memory == <<next_slot, next_free>>
statics == <<free_anchor, first_slot, arena_brk>>
locals == <<size, ptr, prev, curr, old_count>>
vars == <<memory, statics, brk, live, pc, locals, free, history>>

\* The header of the block at ptr.
This_NoHeader == ptr                                                    \* mutant
This == ptr - 1
UnitsNow == UnitsOf(size)
Blocks == {p \in Ptrs : live[p] # NoBlock}
Owned(p) == p .. p + Need(live[p]) - 1

Init ==
    /\ next_slot = [a \in Units |-> Data]
    /\ next_free = [a \in Units |-> Data]
    /\ free_anchor = NULL /\ first_slot = NULL /\ arena_brk = NULL
    /\ brk = BRK0
    /\ live = [p \in Ptrs |-> NoBlock]
    /\ pc = "client"
    /\ size = 0 /\ ptr = NULL /\ prev = NULL /\ curr = NULL /\ old_count = 0
    /\ free = {}
    /\ history = {}

-----------------------------------------------------------------------------
\* Assignments the steps share.

Store(f, a, v) == [x \in Units |-> IF x = a THEN v ELSE f[x]]

Goto(label) == pc' = label

\* Every return ends the client's call: rtl_free and a failed rtl_alloc are the
\* last thing rtl_realloc does.  The locals of the call are gone.
Return ==
    /\ Goto("client")
    /\ size' = 0 /\ ptr' = NULL /\ prev' = NULL /\ curr' = NULL /\ old_count' = 0

\* A header that is the client's data was read: what follows is up to the data.
Undefined ==
    /\ Goto("undefined")
    /\ UNCHANGED <<memory, statics, brk, live, locals, free, history>>

\* The event of a request that ALIGN has wrapped to less than it asks for.
Wrapped == IF Wraps(size) THEN {"wrap"} ELSE {}

Readable(a) == next_slot[a] # Data /\ next_free[a] # Data

-----------------------------------------------------------------------------
\* The client: it writes what it owns, and calls with pointers it holds.

\* Three paths of the code break the arena: growing with a free list that is not empty
\* ("stretch", or "lost" when it only forgets the new pages), shrinking a block in
\* rtl_realloc ("shrink") and a size that wraps in ALIGN ("wrap").
Broken == history \cap {"stretch", "shrink", "wrap"} # {}

ClientRuns == pc = "client" /\ ~(STOPS /\ Broken)

ClientWrites ==
    LET Written(f) ==
          [a \in Units |-> IF \E p \in Blocks : a \in Owned(p) THEN Data ELSE f[a]]
    IN /\ next_slot' = Written(next_slot)
       /\ next_free' = Written(next_free)

ClientAlloc ==
    /\ ClientRuns
    /\ \E n \in Sizes : size' = n
    /\ ClientWrites
    /\ Goto("alloc")
    /\ UNCHANGED <<statics, brk, live, ptr, prev, curr, old_count, free, history>>

ClientFree ==
    /\ ClientRuns
    /\ \E p \in Blocks \cup {NULL} :
         /\ ptr' = p
         /\ live' = [q \in Ptrs |-> IF q = p THEN NoBlock ELSE live[q]]
    /\ ClientWrites
    /\ Goto("free")
    /\ UNCHANGED <<statics, brk, size, prev, curr, old_count, free, history>>

ClientRealloc ==
    /\ ClientRuns
    /\ \E p \in Blocks \cup {NULL}, n \in Sizes : ptr' = p /\ size' = n
    /\ ClientWrites
    /\ Goto("realloc")
    /\ UNCHANGED <<statics, brk, live, prev, curr, old_count, free, history>>

-----------------------------------------------------------------------------
\* rtl_alloc

StartWalk(label) ==
    /\ Goto(label)
    /\ prev' = NULL
    /\ curr' = free_anchor

Advance_Stays == prev' = curr /\ UNCHANGED curr                         \* mutant
Advance == prev' = curr /\ curr' = next_free[curr]

AllocEnter ==
    /\ pc = "alloc"
    /\ IF UnitsNow > MAX_UNITS
       THEN Return
       ELSE StartWalk("fit") /\ UNCHANGED <<size, ptr, old_count>>
    /\ UNCHANGED <<memory, statics, brk, live, free, history>>

\* curr_free + units, and whether the walk stands on a slot it can judge.
NewSlot_NoHeader == Wrap(curr + UnitsNow - 1, ADDRS)                    \* mutant
NewSlot == Wrap(curr + UnitsNow, ADDRS)
AtSlot == pc = "fit" /\ curr # NULL /\ NewSlot > curr /\ Readable(curr)

AllocOverflow ==
    /\ pc = "fit" /\ curr # NULL /\ NewSlot <= curr
    /\ Return
    /\ UNCHANGED <<memory, statics, brk, live, free, history>>

AllocUndefined ==
    /\ pc = "fit" /\ curr # NULL /\ NewSlot > curr /\ ~Readable(curr)
    /\ Undefined

AllocTooSmall ==
    /\ AtSlot /\ next_slot[curr] < NewSlot
    /\ Advance
    /\ UNCHANGED <<memory, statics, brk, live, pc, size, ptr, old_count, free, history>>

\* The slot after the taken one on the list, once a split has run.
Splits_ExactFit == next_slot[curr] >= NewSlot                           \* mutant
Splits == next_slot[curr] > NewSlot + 1
Rest_Forgotten == next_free[curr]                                       \* mutant
Rest == IF Splits THEN NewSlot ELSE next_free[curr]

AllocTake ==
    /\ AtSlot /\ next_slot[curr] >= NewSlot
    /\ next_slot' = IF Splits
                    THEN Store(Store(next_slot, NewSlot, next_slot[curr]), curr, NewSlot)
                    ELSE next_slot
    /\ LET split == IF Splits THEN Store(next_free, NewSlot, next_free[curr]) ELSE next_free
           unlinked == IF prev # NULL THEN Store(split, prev, Rest) ELSE split
       IN next_free' = Store(unlinked, curr, NULL)
    /\ free_anchor' = IF prev # NULL THEN free_anchor ELSE Rest
    /\ free' = (free \ {curr}) \cup (IF Splits THEN {NewSlot} ELSE {})
    /\ history' = history \cup Wrapped
    /\ IF ptr = NULL
       THEN live' = [live EXCEPT ![curr + 1] = size] /\ Return
       ELSE Goto("copy") /\ UNCHANGED <<live, locals>>
    /\ UNCHANGED <<first_slot, arena_brk, brk>>

AllocExhausted ==
    /\ pc = "fit" /\ curr = NULL
    /\ Goto("grow")
    /\ UNCHANGED <<memory, statics, brk, live, locals, free, history>>

-----------------------------------------------------------------------------
\* xmem_grow, called by rtl_alloc with the last slot its walk passed (prev)

Top == IF arena_brk = NULL THEN Align(brk, PAGE_UNITS) ELSE arena_brk
NewBrk == Top + Align(UnitsNow, PAGE_UNITS)

FirstStart == first_slot' = IF arena_brk = NULL THEN Top ELSE first_slot

\* brk(2) grants the pages.  With a free list that is not empty the new pages are
\* "appended" to its last slot by moving that slot's end to Top and no further.
Grow ==
    /\ pc = "grow" /\ NewBrk <= LIMIT
    /\ FirstStart
    /\ brk' = NewBrk /\ arena_brk' = NewBrk
    /\ IF prev # NULL
       THEN /\ next_slot' = Store(next_slot, prev, Top)
            /\ history' = history \cup
                 (IF next_slot[prev] = Top THEN {"lost"} ELSE {"stretch"})
            /\ UNCHANGED <<next_free, free_anchor, free>>
       ELSE /\ next_slot' = Store(next_slot, Top, NewBrk)
            /\ next_free' = Store(next_free, Top, NULL)
            /\ free_anchor' = Top
            /\ free' = free \cup {Top}
            /\ UNCHANGED history
    /\ Goto("fit")
    /\ prev' = NULL
    /\ curr' = free_anchor'
    /\ UNCHANGED <<live, size, ptr, old_count>>

\* brk(2) refuses: it may, for any request.  rtl_alloc returns NULL.
GrowRefused ==
    /\ pc = "grow"
    /\ FirstStart
    /\ arena_brk' = Top
    /\ Return
    /\ UNCHANGED <<memory, free_anchor, brk, live, free, history>>

-----------------------------------------------------------------------------
\* rtl_free

FreeEnter ==
    /\ pc = "free"
    /\ IF ptr = NULL
       THEN Return
       ELSE StartWalk("insert") /\ UNCHANGED <<size, ptr, old_count>>
    /\ UNCHANGED <<memory, statics, brk, live, free, history>>

Walking == curr # NULL /\ curr < This

FreeWalk ==
    /\ pc = "insert" /\ Walking /\ next_free[curr] # Data
    /\ Advance
    /\ UNCHANGED <<memory, statics, brk, live, pc, size, ptr, old_count, free, history>>

\* The headers the insertion compares or copies.
InsertReads ==
    /\ prev # NULL => next_slot[prev] # Data
    /\ curr # NULL => next_slot[This] # Data
    /\ curr # NULL /\ next_slot[This] = curr => Readable(curr)

\* What the insertion merges with, and where the merged slot ends.
MergesUp == prev # NULL /\ next_slot[prev] = This
MergesDown_Never == FALSE                                               \* mutant
MergesDown == curr # NULL /\ next_slot[This] = curr
MergedEnd_Short == next_slot[This]                                      \* mutant
MergedEnd == IF MergesDown THEN next_slot[curr] ELSE next_slot[This]

\* The header a merge has made part of a longer slot's body is stale from there on.
FreeInsert ==
    /\ pc = "insert" /\ ~Walking /\ InsertReads
    /\ LET slot == IF MergesUp THEN prev ELSE This
           linked == IF prev # NULL THEN Store(next_free, prev, This) ELSE next_free
           merged == (IF MergesUp THEN {This} ELSE {}) \cup (IF MergesDown THEN {curr} ELSE {})
           Forget(f) == [a \in Units |-> IF a \in merged THEN Data ELSE f[a]]
       IN /\ next_slot' = Forget(Store(next_slot, slot, MergedEnd))
          /\ next_free' = Forget(Store(linked, slot,
                                       IF MergesDown THEN next_free[curr] ELSE curr))
          /\ free' = (free \cup {slot}) \ (IF MergesDown THEN {curr} ELSE {})
    /\ free_anchor' = IF prev = NULL THEN This ELSE free_anchor
    /\ Return
    /\ UNCHANGED <<first_slot, arena_brk, brk, live, history>>

FreeUndefined ==
    /\ pc = "insert"
    /\ IF Walking THEN next_free[curr] = Data ELSE ~InsertReads
    /\ Undefined

-----------------------------------------------------------------------------
\* rtl_realloc

NewEnd == Wrap(This + UnitsNow, ADDRS)

\* Units of the whole slot, its header included.
OldCount_OneMore == next_slot[This] - This + 1                          \* mutant
OldCount == next_slot[This] - This

ReallocEnter ==
    /\ pc = "realloc"
    /\ \/ /\ ptr = NULL
          /\ Goto("alloc")
          /\ UNCHANGED <<live, locals>>
       \/ /\ ptr # NULL /\ size = 0
          /\ live' = [live EXCEPT ![ptr] = NoBlock]
          /\ Goto("free")
          /\ UNCHANGED locals
       \/ /\ ptr # NULL /\ size # 0
          /\ UnitsNow > MAX_UNITS \/ NewEnd <= This
          /\ Return
          /\ UNCHANGED live
       \/ /\ ptr # NULL /\ size # 0
          /\ UnitsNow <= MAX_UNITS /\ NewEnd > This /\ next_slot[This] # Data
          /\ old_count' = OldCount
          /\ StartWalk("merge")
          /\ UNCHANGED <<live, size, ptr>>
    /\ UNCHANGED <<memory, statics, brk, free, history>>

ReallocUndefined ==
    /\ \/ /\ pc = "realloc" /\ ptr # NULL /\ size # 0
          /\ UnitsNow <= MAX_UNITS /\ NewEnd > This /\ next_slot[This] = Data
       \/ pc = "merge" /\ Walking /\ ~Readable(curr)
    /\ Undefined

\* "There is a free slot behind this one. Merge them.": the loop only looks at the
\* slots below this one.
ReallocWalk ==
    /\ pc = "merge" /\ Walking /\ Readable(curr)
    /\ LET behind == next_slot[This] = curr
       IN /\ next_slot' = IF behind THEN Store(next_slot, This, next_slot[curr]) ELSE next_slot
          /\ next_free' = IF behind /\ prev # NULL
                          THEN Store(next_free, prev, next_free[curr]) ELSE next_free
          /\ free_anchor' = IF behind /\ prev = NULL THEN next_free[curr] ELSE free_anchor
          /\ free' = IF behind THEN free \ {curr} ELSE free
    /\ Advance
    /\ UNCHANGED <<first_slot, arena_brk, brk, live, pc, size, ptr, old_count, history>>

\* The slot is long enough: what is left of it, if anything, goes to rtl_free as the
\* pointer new, so that rtl_free takes the unit before new for the header.
ReallocShrink ==
    /\ pc = "merge" /\ ~Walking /\ NewEnd + 1 <= next_slot[This]
    /\ next_slot' = Store(Store(next_slot, NewEnd, next_slot[This]), This, NewEnd)
    /\ live' = [live EXCEPT ![ptr] = size]
    /\ ptr' = NewEnd
    /\ history' = history \cup {"shrink"} \cup Wrapped
    /\ Goto("free")
    /\ UNCHANGED <<next_free, statics, brk, size, prev, curr, old_count, free>>

ReallocKeep ==
    /\ pc = "merge" /\ ~Walking /\ NewEnd = next_slot[This]
    /\ live' = [live EXCEPT ![ptr] = size]
    /\ history' = history \cup Wrapped
    /\ Return
    /\ UNCHANGED <<memory, statics, brk, free>>

ReallocMove ==
    /\ pc = "merge" /\ ~Walking /\ NewEnd > next_slot[This]
    /\ Goto("alloc")
    /\ UNCHANGED <<memory, statics, brk, live, locals, free, history>>

\* xmemcpy reads old_count units from ptr, one more than the block has, and the unit
\* past the break is not mapped.  What it copies into the new block is Data there
\* already.  Then the old block is freed.
CopyFaults == ptr + old_count > arena_brk

ReallocCopy ==
    /\ pc = "copy" /\ ~CopyFaults
    /\ live' = [live EXCEPT ![ptr] = NoBlock, ![curr + 1] = size]
    /\ Goto("free")
    /\ UNCHANGED <<memory, statics, brk, locals, free, history>>

ReallocFault ==
    /\ pc = "copy" /\ CopyFaults
    /\ Goto("fault")
    /\ UNCHANGED <<memory, statics, brk, live, locals, free, history>>

-----------------------------------------------------------------------------
Client == ClientAlloc \/ ClientFree \/ ClientRealloc

Step ==
    \/ AllocEnter \/ AllocOverflow \/ AllocUndefined \/ AllocTooSmall \/ AllocTake
    \/ AllocExhausted \/ Grow \/ GrowRefused
    \/ FreeEnter \/ FreeWalk \/ FreeInsert \/ FreeUndefined
    \/ ReallocEnter \/ ReallocUndefined \/ ReallocWalk \/ ReallocShrink \/ ReallocKeep
    \/ ReallocMove \/ ReallocCopy \/ ReallocFault

Next == Client \/ Step

Spec == Init /\ [][Next]_vars

\* The program runs on: a call in progress takes its next step.
FairSpec == Spec /\ WF_vars(Step)
-----------------------------------------------------------------------------
(***************************************************************************)
(* Properties: what holds as long as none of the three paths that break    *)
(* the arena has run.                                                      *)
(***************************************************************************)
Labels == {"client", "alloc", "fit", "grow", "free", "insert", "realloc", "merge",
           "copy", "undefined", "fault"}

Links == Units \cup {NULL}

\* Every variable has its type, in every state the code can reach, the broken ones
\* too: list pointers are arena units or NULL, slot ends never pass the break's limit.
TypeOK ==
    /\ next_slot \in [Units -> Units \cup {LIMIT, Data}]
    /\ next_free \in [Units -> Links \cup {Data}]
    /\ free_anchor \in Links /\ first_slot \in {NULL, Base}
    /\ arena_brk \in {NULL} \cup Base .. LIMIT
    /\ brk \in BRK0 .. LIMIT
    /\ live \in [Ptrs -> 0 .. SizeRange - 1 \cup {NoBlock}]
    /\ pc \in Labels
    /\ size \in 0 .. SizeRange - 1
    /\ ptr \in Ptrs \cup {NULL}
    /\ prev \in Links /\ curr \in Links
    /\ old_count \in -LIMIT .. LIMIT
    /\ free \subseteq Units
    /\ history \subseteq {"lost", "stretch", "shrink", "wrap"}

\* A slot that is in nobody's hands but the running call's: the block being freed,
\* the one taken for rtl_realloc.
InHand == IF pc \in {"free", "insert"} /\ ptr # NULL THEN {This}
          ELSE IF pc \in {"copy", "fault"} THEN {curr} ELSE {}

Headers == {p - 1 : p \in Blocks}
Slots == free \cup Headers \cup InHand

\* x is the least slot of S, NULL when S is empty: what a list pointer must be.
IsFirst(x, S) == \/ S = {} /\ x = NULL
                 \/ x \in S /\ \A y \in S : x <= y

\* No unit of memory belongs to two slots, whoever holds them: free slots, blocks of
\* the client and the slot a running call has in hand never overlap (l.44-261).
SlotsDisjoint ==
    ~Broken =>
      /\ free \cap Headers = {} /\ InHand \cap (free \cup Headers) = {}
      /\ \A s \in Slots : next_slot[s] \in s + 1 .. arena_brk
      /\ \A s, t \in Slots : s < t => next_slot[s] <= t

\* "The free list is sorted by address" (l.34): from the anchor it passes every free
\* slot once, in order of address, and ends.
FreeListSorted ==
    ~Broken =>
      /\ IsFirst(free_anchor, free)
      /\ \A f \in free : IsFirst(next_free[f], {g \in free : g > f})

\* rtl_free merges on both sides (l.172, l.183): two free slots never touch.
Coalesced == ~Broken => \A f, g \in free : next_slot[f] # g

\* A block is as long as what was asked for, up to the rounding: the units the client
\* may write are inside its slot, after the header (l.91, l.121, l.243).
BlocksFit == ~Broken => \A p \in Blocks : p + Need(live[p]) <= next_slot[p - 1]

\* Until a growth loses its pages, every unit between the first slot and the break is
\* in some slot: frees give back all they were given, splits drop nothing.
NothingLost ==
    history = {} /\ arena_brk > first_slot =>
      /\ first_slot \in Slots
      /\ \A s \in Slots : next_slot[s] \in Slots \cup {arena_brk}

\* The code reads the client's data as a header only after the arena is broken.
DataIsNoHeader == pc = "undefined" => Broken

\* When a block moves (l.255-258), what is copied covers all the client had and stays
\* inside the new block, although old_count counts the header too.
CopyFits ==
    pc = "copy" /\ ~Broken =>
      /\ Need(live[ptr]) <= old_count
      /\ curr + old_count < next_slot[curr]

\* No call writes a unit that a block of the client owns before and after it, except
\* its own client's writes.
ClientDataKept ==
    [][pc # "client" /\ ~Broken =>
         \A p \in Blocks : live'[p] = live[p] =>
           \A a \in Owned(p) : next_slot'[a] = next_slot[a] /\ next_free'[a] = next_free[a]]_vars

\* Every call returns: the walks end, and rtl_alloc's loop around xmem_grow ends too,
\* even when growing adds nothing to the list.
CallsReturn == pc # "client" ~> (pc \in {"client", "fault"} \/ Broken)

\* The variant of a call.  Stage: how far the code stands from its return.
Stage == [realloc |-> 7, merge |-> 6, alloc |-> 5, fit |-> 4, grow |-> 4, copy |-> 3,
          free |-> 2, insert |-> 1, client |-> 0, undefined |-> 0, fault |-> 0]

\* What a walk has before it: addresses, and xmem_grow once rtl_alloc's has ended.
Ahead == IF curr # NULL THEN LIMIT + 1 - curr ELSE IF pc = "grow" THEN 0 ELSE 1

\* Why every call returns (l.85-261): while the arena is not broken each step of a call
\* comes nearer to its return, or has raised the break, which LIMIT bounds, or has taken
\* its walk to a higher address.
CallsProgress ==
    [][pc \notin {"client", "undefined", "fault"} /\ ~Broken =>
         \/ Stage[pc'] < Stage[pc]
         \/ /\ Stage[pc'] = Stage[pc]
            /\ \/ brk' > brk
               \/ brk' = brk /\ Ahead' < Ahead]_vars

\* "Simply append to the last free slot." (l.74): growing the arena keeps the client's
\* blocks apart.  It does not: the last free slot is stretched over the blocks behind it.
NoSharedUnits == \A p, q \in Blocks : p # q => Owned(p) \cap Owned(q) = {}

\* "Since both are allocated memory, we can free() the leftover." (l.248): what rtl_free
\* is given has its header outside the blocks the client holds.  It has not: rtl_realloc
\* passes the leftover's header, and rtl_free takes the unit before it, the block's last.
FreesNoOwnedUnit == pc = "free" /\ ptr # NULL => \A p \in Blocks : This \notin Owned(p)

-----------------------------------------------------------------------------
(***************************************************************************)
(* The inductive strengthening of SlotsDisjoint, FreeListSorted, Coalesced *)
(* and BlocksFit: what the locals of the running call mean meanwhile.      *)
(***************************************************************************)

\* curr is the first free slot above prev, and prev one of them (or NULL, below all).
WalkOK ==
    pc \in {"fit", "grow", "insert", "merge"} =>
      /\ prev \in free \cup {NULL}
      /\ IsFirst(curr, {g \in free : g > prev})
      /\ pc = "insert" => prev < This
      /\ pc = "grow" => curr = NULL

\* The block rtl_realloc works on is still the client's, and what it wants is longer
\* than old_count once it has turned to rtl_alloc.
MoveOK ==
    ptr # NULL =>
      /\ pc \in {"alloc", "fit", "grow", "realloc", "merge", "copy", "fault"} => ptr \in Blocks
      /\ pc \in {"alloc", "fit", "grow", "merge", "copy"} =>
           /\ NewEnd > This
           /\ old_count = next_slot[This] - This
      /\ pc \in {"alloc", "fit", "grow", "copy"} => NewEnd > next_slot[This]

\* The slot taken for rtl_realloc is long enough for what it wants.
TakenOK ==
    pc = "copy" => /\ ~Wraps(size)
                   /\ next_slot[curr] - curr >= UnitsNow

HeapInv ==
    /\ SlotsDisjoint /\ FreeListSorted /\ Coalesced /\ BlocksFit
    /\ ~Broken => WalkOK /\ MoveOK /\ TakenOK

-----------------------------------------------------------------------------
(***************************************************************************)
(* RtlMemory implements Heap.  A call is a request to Heap until its       *)
(* outcome is settled; the frees that end it change nothing Heap sees.     *)
(***************************************************************************)
NoRequest == [ptr |-> NULL, size |-> -1]

request == IF pc \in {"client", "free", "insert"} THEN NoRequest
           ELSE [ptr |-> ptr, size |-> size]

H == INSTANCE Heap

\* The allocator keeps Heap's promise (blocks never overlap, a refused call changes
\* nothing, a moved block is gone only when the new one is there) until the arena is
\* broken or a wrapped size is granted (rtl_alloc, rtl_free, rtl_realloc, l.85-261).
ImplementsHeap == H!Init /\ [][Broken \/ "wrap" \in history' \/ H!Next]_(H!vars)

=============================================================================
