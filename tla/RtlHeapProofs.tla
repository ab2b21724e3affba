----------------------------- MODULE RtlHeapProofs -----------------------------
(***************************************************************************)
(* What the allocator's clients rely on, proved from the invariants of     *)
(* RtlMemoryProofs: calls leave the clients' data alone, RtlMemory         *)
(* implements Heap, and no unit of the arena is lost.                      *)
(***************************************************************************)
EXTENDS RtlMemoryProofs

\* What the slots' order says of their ends.
LEMMA EndFacts ==
  ASSUME TypeInv, SlotsOK
  PROVE  /\ arena_brk \in Nat /\ arena_brk <= LIMIT
         /\ \A s \in Slots : /\ s \in Units /\ s \in Nat /\ s > 0
                             /\ next_slot[s] \in Nat /\ s < next_slot[s]
                             /\ next_slot[s] <= arena_brk
  <1>1. arena_brk \in Nat /\ arena_brk <= LIMIT
    BY ConstantFacts DEF TypeInv, TypeOK, NULL
  <1>2. \A s \in Slots : s \in Units /\ next_slot[s] \in s + 1 .. arena_brk
    BY SlotFacts DEF SlotsOK
  <1> QED
    BY <1>1, <1>2, ConstantFacts DEF Units

\* A unit the client owns is inside the slot of its block: it is no slot's header and in no
\* other slot.
LEMMA OwnedFacts ==
  ASSUME TypeInv, SlotsOK, NEW p \in Blocks, NEW a \in Owned(p)
  PROVE  /\ a \in Units /\ a \in Nat /\ p - 1 < a /\ a < next_slot[p - 1] /\ a < arena_brk
         /\ a \notin Slots
         /\ \A s \in Slots : s # p - 1 /\ s < a => next_slot[s] <= a
  <1>1. p - 1 \in Slots /\ p \in Nat /\ Need(live[p]) \in Nat
    BY SlotFacts, UnitsOfFacts, ConstantFacts DEF Slots, Ptrs
  <1>2. p + Need(live[p]) <= next_slot[p - 1]
    BY DEF SlotsOK
  <1>3. a \in Nat /\ p - 1 < a /\ a < next_slot[p - 1]
    BY <1>1, <1>2, EndFacts DEF Owned
  <1>4. a \in Units /\ a < arena_brk
    BY <1>1, <1>3, EndFacts, ConstantFacts DEF Units
  <1>5. \A s \in Slots : s # a /\ (s # p - 1 /\ s < a => next_slot[s] <= a)
    <2> SUFFICES ASSUME NEW s \in Slots PROVE s # a /\ (s # p - 1 /\ s < a => next_slot[s] <= a)
      OBVIOUS
    <2>1. p - 1 < s => next_slot[p - 1] <= s
      BY <1>1 DEF SlotsOK
    <2>2. s < p - 1 => next_slot[s] <= p - 1
      BY <1>1 DEF SlotsOK
    <2> QED
      BY <1>1, <1>3, <2>1, <2>2, EndFacts
  <1> QED
    BY <1>3, <1>4, <1>5

-----------------------------------------------------------------------------
(***************************************************************************)
(* The clients' data.  A call writes headers, of slots it has in hand or   *)
(* that are free, and free units where it makes a header.                  *)
(***************************************************************************)

\* A store at another unit leaves this one alone.
LEMMA StoreMisses ==
  ASSUME NEW f \in [Units -> Int], NEW a \in Units, NEW b, b # a, NEW v
  PROVE  Store(f, b, v)[a] = f[a]
  BY DEF Store

Kept(a) == next_slot'[a] = next_slot[a] /\ next_free'[a] = next_free[a]

LEMMA TakeKeepsData ==
  ASSUME TypeInv, SlotsOK, Walks, AllocTake, NEW p \in Blocks, NEW a \in Owned(p)
  PROVE  Kept(a)
  <1>1. curr \in free /\ curr # p - 1 /\ curr \in Slots /\ (prev # NULL => prev \in Slots)
    BY TakeFacts, SlotFacts DEF SlotsOK
  <1>2. a # curr /\ (prev # NULL => a # prev) /\ a \in Units /\ a \in Nat
    BY <1>1, OwnedFacts
  <1>3. Splits => a # NewSlot
    <2>1. Splits => curr < NewSlot /\ NewSlot < next_slot[curr] /\ curr \in Nat /\ NewSlot \in Nat
      BY TakeFacts, EndFacts
    <2>2. curr < a => next_slot[curr] <= a
      BY <1>1, OwnedFacts
    <2> QED
      BY <1>2, <2>1, <2>2, EndFacts, <1>1
  <1> QED
    BY <1>2, <1>3 DEF AllocTake, Store, Kept

LEMMA GrowKeepsData ==
  ASSUME TypeInv, SlotsOK, Walks, Grow, NEW p \in Blocks, NEW a \in Owned(p)
  PROVE  Kept(a)
  <1>1. prev # NULL => prev \in Slots
    BY DEF Grow, Walks, WalkOK, Slots
  <1>2. a \in Units /\ a \in Nat /\ a # Top /\ (prev # NULL => a # prev)
    <2>1. a \in Units /\ a \in Nat /\ a < arena_brk /\ a \notin Slots
      BY OwnedFacts
    <2>2. arena_brk # NULL
      BY <2>1 DEF NULL
    <2> QED
      BY <1>1, <2>1, <2>2, EndFacts DEF Top
  <1> QED
    BY <1>2 DEF Grow, Store, Kept

LEMMA InsertKeepsData ==
  ASSUME TypeInv, SlotsOK, Walks, FreeInsert, NEW p \in Blocks, NEW a \in Owned(p)
  PROVE  Kept(a)
  <1>1. /\ This \in Slots /\ InsertSlot \in Slots
        /\ prev # NULL => prev \in Slots
        /\ MergesDown => curr \in Slots
    BY InsertFacts
  <1>2. /\ a \in Units /\ a # This /\ a # InsertSlot
        /\ prev # NULL => a # prev
        /\ MergesDown => a # curr
    BY <1>1, OwnedFacts
  <1> QED
    BY <1>2 DEF FreeInsert, InsertSlot, Store, Kept

\* The block rtl_realloc shrinks may keep its size, when the client asks for the same one:
\* its units end where the leftover starts.
LEMMA ShrinkKeepsData ==
  ASSUME TypeInv, SlotsOK, Walks, ReallocShrink,
         NEW p \in Blocks, live'[p] = live[p], NEW a \in Owned(p)
  PROVE  Kept(a)
  <1>1. /\ pc = "merge" /\ ptr # NULL /\ ptr \in Blocks /\ This \in Slots /\ ptr \in Nat
        /\ This = ptr - 1 /\ This \in Nat
        /\ NewEnd = This + UnitsNow /\ UnitsNow \in Nat /\ NewEnd < next_slot[This]
        /\ This < NewEnd
        /\ live' = [live EXCEPT ![ptr] = size]
    <2>1. pc = "merge" /\ ptr # NULL /\ ptr \in Blocks /\ NewEnd > This
      BY DEF ReallocShrink, Walks, MoveOK, TypeInv, LocalsOK
    <2>2. This \in Slots /\ ptr \in Nat
      BY <2>1, SlotFacts, ConstantFacts DEF This, Slots, Ptrs
    <2>3. NewEnd = This + UnitsNow /\ UnitsNow \in Nat
      BY <2>1, NoWrapFacts
    <2> QED
      BY <2>1, <2>2, <2>3, EndFacts DEF ReallocShrink, This
  <1>2. a \in Units /\ a \in Nat /\ a # This
    BY <1>1, OwnedFacts
  <1>3. a # NewEnd
    <2>1. CASE p = ptr
      <3>1. live[p] = size
        BY <1>1, <2>1 DEF TypeInv, TypeOK, Blocks
      <3>2. a <= ptr + Need(size) - 1 /\ Need(size) \in Nat
        BY <1>1, <2>1, <3>1, UnitsOfFacts DEF Owned, TypeInv, TypeOK
      <3>3. ~Wraps(size)
        <4>1. ptr + Need(size) <= LIMIT
          <5>1. ptr + Need(live[p]) <= next_slot[p - 1]
            BY <2>1 DEF SlotsOK
          <5> QED
            BY <1>1, <2>1, <3>1, <3>2, <5>1, EndFacts, ConstantFacts
        <4>2. Wraps(size) => Need(size) >= ADDRS
          BY ConstantFacts DEF Wraps, Need, SizeRange, UNIT_SIZE, TypeInv, TypeOK
        <4> QED
          BY <1>1, <3>2, <4>1, <4>2, ConstantFacts
      <3>4. UnitsNow = Need(size) + 1
        BY <3>3, UnitsOfFacts DEF UnitsNow, TypeInv, TypeOK
      <3> QED
        BY <1>1, <1>2, <3>2, <3>4
    <2>2. CASE p # ptr
      <3>1. This # p - 1
        BY <1>1, <2>2, SlotFacts, ConstantFacts DEF Ptrs
      <3>2. This < a => next_slot[This] <= a
        BY <1>1, <3>1, OwnedFacts
      <3> QED
        BY <1>1, <1>2, <3>2, EndFacts
    <2> QED
      BY <2>1, <2>2
  <1> QED
    BY <1>2, <1>3 DEF ReallocShrink, Store, Kept

\* No call writes what a block of the client holds, before and after it
\* (rtl_alloc, rtl_free, rtl_realloc).
THEOREM ClientDataIsKept == Spec => ClientDataKept
  <1>1. TypeInv /\ HeapInv /\ [Next]_vars =>
          [pc # "client" /\ ~Broken =>
             \A p \in Blocks : live'[p] = live[p] =>
               \A a \in Owned(p) : next_slot'[a] = next_slot[a] /\ next_free'[a] = next_free[a]]_vars
    <2> SUFFICES ASSUME TypeInv, HeapInv, Next, pc # "client", ~Broken,
                        NEW p \in Blocks, live'[p] = live[p], NEW a \in Owned(p)
                 PROVE  Kept(a)
      BY DEF Kept
    <2>1. SlotsOK /\ Walks
      BY HeapInvIs
    <2>2. CASE UNCHANGED memory
      BY <2>2 DEF memory, Kept
    <2>3. CASE AllocTake
      BY <2>1, <2>3, TakeKeepsData
    <2>4. CASE Grow
      BY <2>1, <2>4, GrowKeepsData
    <2>5. CASE FreeInsert
      BY <2>1, <2>5, InsertKeepsData
    <2>6. CASE ReallocShrink
      BY <2>1, <2>6, ShrinkKeepsData
    <2>7. CASE ReallocWalk
      BY <2>1, <2>7, MergeIsDead DEF ReallocWalk, Kept
    <2>8. ~Client
      BY DEF Client, ClientAlloc, ClientFree, ClientRealloc, ClientRuns
    <2> QED
      BY <2>2, <2>3, <2>4, <2>5, <2>6, <2>7, <2>8
      DEF Next, Step, AllocEnter, AllocOverflow, AllocUndefined, AllocTooSmall, AllocExhausted,
          GrowRefused, FreeEnter, FreeWalk, FreeUndefined, ReallocEnter, ReallocUndefined,
          ReallocKeep, ReallocMove, ReallocCopy, ReallocFault, Undefined
  <1> QED
    BY <1>1, TypeInvariant, HeapCorrect, PTL DEF Spec, ClientDataKept

-----------------------------------------------------------------------------
(***************************************************************************)
(* RtlMemory implements Heap, step by step.                                *)
(***************************************************************************)

\* The units of a size that has not wrapped, in a slot of its header and them.
LEMMA ExtentsApart ==
  ASSUME TypeInv, SlotsOK, ~Wraps(size), NEW s \in Slots, NEW e \in Nat,
         s + UnitsNow <= e, e <= next_slot[s], NEW p \in Blocks, p - 1 # s
  PROVE  H!Extent(p, live[p]) \cap H!Extent(s + 1, size) = {}
  <1>1. UnitsNow = Need(size) + 1 /\ Need(size) \in Nat
    BY UnitsOfFacts DEF UnitsNow, TypeInv, TypeOK
  <1>2. /\ p - 1 \in Slots /\ p \in Nat /\ Need(live[p]) \in Nat
        /\ p + Need(live[p]) <= next_slot[p - 1]
    BY SlotFacts, UnitsOfFacts, ConstantFacts DEF Slots, Ptrs, SlotsOK
  <1>3. s < p - 1 => next_slot[s] <= p - 1
    BY <1>2 DEF SlotsOK
  <1>4. p - 1 < s => next_slot[p - 1] <= s
    BY <1>2 DEF SlotsOK
  <1> QED
    BY <1>1, <1>2, <1>3, <1>4, EndFacts DEF H!Extent

\* While a call for memory runs, Heap has a request.
LEMMA RequestIs ==
  ASSUME TypeInv
  PROVE  /\ pc \in {"client", "free", "insert"} => request = NoRequest
         /\ pc \notin {"client", "free", "insert"} =>
              request = [ptr |-> ptr, size |-> size] /\ request # NoRequest
  BY DEF request, NoRequest, TypeInv, TypeOK

\* The blocks of Heap are the allocator's.
LEMMA HeapBlocks == H!Blocks = Blocks
  BY DEF H!Blocks, Blocks

LEMMA ClientAsks ==
  ASSUME TypeInv, TypeInv', Client
  PROVE  H!Next \/ UNCHANGED H!vars
  <1>1. pc = "client" /\ request = NoRequest /\ ptr = NULL
    BY RequestIs DEF Client, ClientAlloc, ClientFree, ClientRealloc, ClientRuns, TypeInv, LocalsOK
  <1>2. CASE ClientAlloc
    <2>1. PICK n \in Sizes : size' = n
      BY <1>2 DEF ClientAlloc
    <2>2. request' = [ptr |-> NULL, size |-> n] /\ live' = live
      BY <1>1, <1>2, <2>1 DEF ClientAlloc, Goto, request
    <2>3. H!Ask(NULL, n)
      BY <1>1, <2>2 DEF H!Ask
    <2> QED
      BY <2>3 DEF H!Next
  <1>3. CASE ClientRealloc
    <2>1. PICK p \in Blocks \cup {NULL}, n \in Sizes : ptr' = p /\ size' = n
      BY <1>3 DEF ClientRealloc
    <2>2. request' = [ptr |-> p, size |-> n] /\ live' = live
      BY <1>3, <2>1 DEF ClientRealloc, Goto, request
    <2>3. H!Ask(p, n)
      BY <1>1, <2>2 DEF H!Ask
    <2> QED
      BY <2>1, <2>3, HeapBlocks DEF H!Next
  <1>4. CASE ClientFree
    <2>1. PICK p \in Blocks \cup {NULL} :
             /\ ptr' = p
             /\ live' = [q \in Ptrs |-> IF q = p THEN NoBlock ELSE live[q]]
      BY <1>4 DEF ClientFree
    <2>2. request' = NoRequest /\ live \in [Ptrs -> 0 .. SizeRange - 1 \cup {NoBlock}]
      BY <1>4 DEF ClientFree, Goto, request, TypeInv, TypeOK
    <2>3. CASE p = NULL
      <3>1. NULL \notin Ptrs
        BY ConstantFacts DEF NULL, Ptrs
      <3>2. live' = live
        BY <2>1, <2>2, <2>3, <3>1
      <3> QED
        BY <1>1, <2>2, <3>2 DEF H!vars
    <2>4. CASE p \in Blocks
      <3>1. live' = [live EXCEPT ![p] = NoBlock]
        BY <2>1, <2>2
      <3>2. H!Free(p)
        BY <1>1, <2>2, <3>1 DEF H!Free
      <3> QED
        BY <2>4, <3>2, HeapBlocks DEF H!Next
    <2> QED
      BY <2>3, <2>4
  <1> QED
    BY <1>2, <1>3, <1>4 DEF Client

LEMMA TakeGrants ==
  ASSUME TypeInv, TypeInv', SlotsOK, Walks, AllocTake, ~Wraps(size)
  PROVE  H!Next \/ UNCHANGED H!vars
  <1>1. /\ pc = "fit" /\ curr \in free /\ curr \in Slots /\ curr \in Nat /\ curr \in Units
        /\ curr + UnitsNow <= next_slot[curr] /\ next_slot[curr] \in Nat
        /\ request = [ptr |-> ptr, size |-> size] /\ request # NoRequest
    BY TakeFacts, EndFacts, RequestIs
  <1>2. CASE ptr = NULL
    <2>1. /\ live' = [live EXCEPT ![curr + 1] = size] /\ request' = NoRequest
          /\ curr + 1 \in Ptrs
      BY <1>1, <1>2, ConstantFacts DEF AllocTake, Return, Goto, request, Ptrs, Units
    <2>2. \A p \in Blocks : p - 1 # curr
      BY <1>1, SlotFacts DEF SlotsOK
    <2>3. curr + 1 \notin Blocks
      BY <1>1, <2>2
    <2>4. \A p \in Blocks : H!Extent(p, live[p]) \cap H!Extent(curr + 1, size) = {}
      BY <1>1, <2>2, ExtentsApart
    <2>5. \A p \in Ptrs : p # NULL
      BY ConstantFacts DEF Ptrs, NULL
    <2>6. live' = [p \in Ptrs |-> IF p = curr + 1 THEN size
                                  ELSE IF p = ptr THEN NoBlock ELSE live[p]]
      BY <1>2, <2>1, <2>5 DEF TypeInv, TypeOK
    <2>7. H!Grant(curr + 1)
      BY <1>1, <2>1, <2>3, <2>4, <2>6, HeapBlocks DEF H!Grant, H!Answer
    <2> QED
      BY <2>1, <2>7 DEF H!Next
  <1>3. CASE ptr # NULL
    BY <1>1, <1>3 DEF AllocTake, Goto, locals, request, H!vars
  <1> QED
    BY <1>2, <1>3

LEMMA CopyGrants ==
  ASSUME TypeInv, TypeInv', SlotsOK, Walks, ReallocCopy
  PROVE  H!Next
  <1>1. /\ pc = "copy" /\ ptr # NULL /\ ptr \in Blocks /\ curr # NULL
        /\ request = [ptr |-> ptr, size |-> size] /\ request # NoRequest /\ request' = NoRequest
        /\ live' = [live EXCEPT ![ptr] = NoBlock, ![curr + 1] = size]
    BY RequestIs DEF ReallocCopy, Goto, request, TypeInv, LocalsOK, Walks, MoveOK
  <1>2. /\ curr \in Slots /\ curr \in Units /\ curr \in Nat /\ next_slot[curr] \in Nat
        /\ curr + 1 \in Ptrs
    <2>1. curr \in Slots
      BY <1>1 DEF Slots, InHand
    <2> QED
      BY <2>1, EndFacts, ConstantFacts DEF Units, Ptrs
  <1>3. ~Wraps(size) /\ curr + UnitsNow <= next_slot[curr]
    <2>1. next_slot[curr] - curr >= UnitsNow /\ ~Wraps(size) /\ UnitsNow \in Nat
      BY <1>1, NoWrapFacts DEF Walks, TakenOK
    <2> QED
      BY <1>2, <2>1
  <1>4. \A p \in Blocks : p - 1 # curr
    <2>1. curr \notin Headers
      BY <1>1 DEF SlotsOK, InHand
    <2> QED
      BY <2>1, SlotFacts
  <1>5. curr + 1 \notin Blocks
    BY <1>2, <1>4
  <1>6. \A p \in Blocks : H!Extent(p, live[p]) \cap H!Extent(curr + 1, size) = {}
    BY <1>2, <1>3, <1>4, ExtentsApart
  <1>7. live' = [p \in Ptrs |-> IF p = curr + 1 THEN size
                                ELSE IF p = ptr THEN NoBlock ELSE live[p]]
    BY <1>1, <1>2 DEF TypeInv, TypeOK
  <1>8. H!Grant(curr + 1)
    BY <1>1, <1>5, <1>6, <1>7, HeapBlocks DEF H!Grant, H!Answer
  <1> QED
    BY <1>2, <1>8 DEF H!Next

\* The block stays where it is: it keeps its slot, or the lower part of it.
LEMMA StayResizes ==
  ASSUME TypeInv, TypeInv', SlotsOK, Walks, ~Wraps(size), ReallocShrink \/ ReallocKeep
  PROVE  H!Next
  <1>1. /\ pc = "merge" /\ ptr # NULL /\ ptr \in Blocks
        /\ request = [ptr |-> ptr, size |-> size] /\ request # NoRequest /\ request' = NoRequest
        /\ live' = [live EXCEPT ![ptr] = size]
    BY RequestIs
    DEF ReallocShrink, ReallocKeep, Return, Goto, request, TypeInv, LocalsOK, Walks, MoveOK
  <1>2. /\ This \in Slots /\ This = ptr - 1 /\ ptr \in Nat /\ This \in Nat
        /\ next_slot[This] \in Nat
        /\ This + UnitsNow <= next_slot[This]
    <2>1. This \in Slots /\ This = ptr - 1 /\ ptr \in Nat
      BY <1>1, SlotFacts, ConstantFacts DEF This, Slots, Ptrs
    <2>2. NewEnd = This + UnitsNow /\ UnitsNow \in Nat
      BY <1>1, NoWrapFacts DEF TypeInv, LocalsOK
    <2> QED
      BY <2>1, <2>2, EndFacts DEF ReallocShrink, ReallocKeep
  <1>3. \A p \in Blocks \ {ptr} : p - 1 # This
    BY <1>2, SlotFacts, ConstantFacts DEF Ptrs
  <1>4. \A p \in Blocks \ {ptr} : H!Extent(p, live[p]) \cap H!Extent(This + 1, size) = {}
    BY <1>2, <1>3, ExtentsApart
  <1>5. This + 1 = ptr
    BY <1>2
  <1>6. H!Resize
    BY <1>1, <1>4, <1>5, HeapBlocks DEF H!Resize, H!Answer
  <1> QED
    BY <1>6 DEF H!Next

\* Every other step of a call changes nothing Heap sees, refuses, or frees what
\* rtl_realloc is asked to make empty.
LEMMA OthersImplement ==
  ASSUME TypeInv, TypeInv', pc' # "undefined", Step,
         ~(AllocTake \/ ReallocCopy \/ ReallocShrink \/ ReallocKeep)
  PROVE  H!Next \/ UNCHANGED H!vars
  <1>1. CASE live' = live /\ pc \notin {"client", "free", "insert"} /\ pc' = "client"
    <2>1. H!Refuse
      BY <1>1, RequestIs DEF request, H!Refuse, H!Answer
    <2> QED
      BY <2>1 DEF H!Next
  <1>2. CASE live' = live /\ pc \notin {"client", "free", "insert"}
             /\ pc' \notin {"client", "free", "insert"} /\ UNCHANGED <<ptr, size>>
    BY <1>2 DEF request, H!vars
  <1>3. CASE live' = live /\ pc \in {"free", "insert"} /\ pc' \in {"client", "free", "insert"}
    BY <1>3 DEF request, H!vars
  <1>4. CASE ReallocEnter
    <2>1. CASE ptr # NULL /\ size = 0
      <3>1. /\ live' = [live EXCEPT ![ptr] = NoBlock] /\ pc = "realloc" /\ pc' = "free"
        BY <1>4, <2>1 DEF ReallocEnter, Goto
      <3>2. H!Release
        BY <2>1, <3>1, RequestIs DEF request, H!Release, H!Answer
      <3> QED
        BY <3>2 DEF H!Next
    <2>2. CASE ~(ptr # NULL /\ size = 0)
      BY <1>1, <1>2, <1>4, <2>2 DEF ReallocEnter, Goto, Return, StartWalk, locals
    <2> QED
      BY <2>1, <2>2
  <1>5. CASE AllocEnter \/ AllocOverflow \/ GrowRefused
    BY <1>1, <1>2, <1>5 DEF AllocEnter, AllocOverflow, GrowRefused, Goto, Return, StartWalk
  <1>6. CASE AllocTooSmall \/ AllocExhausted \/ Grow \/ ReallocWalk \/ ReallocMove \/ ReallocFault
    BY <1>2, <1>6
    DEF AllocTooSmall, AtSlot, AllocExhausted, Grow, ReallocWalk, ReallocMove, ReallocFault,
        Goto, locals
  <1>7. CASE FreeEnter \/ FreeWalk \/ FreeInsert
    BY <1>3, <1>7 DEF FreeEnter, FreeWalk, FreeInsert, Goto, Return, StartWalk
  <1>8. ~(AllocUndefined \/ FreeUndefined \/ ReallocUndefined)
    BY DEF AllocUndefined, FreeUndefined, ReallocUndefined, Undefined, Goto
  <1> QED
    BY <1>4, <1>5, <1>6, <1>7, <1>8 DEF Step

\* What the runtime and the virtual machine may rely on: until the arena is broken or a
\* wrapped size is granted, rtl_alloc, rtl_free and rtl_realloc do what Heap promises.
THEOREM ImplementsTheHeap == Spec => ImplementsHeap
  <1>1. Init => H!Init
    BY DEF Init, H!Init, request, NoRequest
  <1>2. TypeInv /\ TypeInv' /\ HeapInv /\ DataIsNoHeader' /\ [Next]_vars =>
          [Broken \/ "wrap" \in history' \/ H!Next]_(H!vars)
    <2> SUFFICES ASSUME TypeInv, TypeInv', HeapInv, DataIsNoHeader', [Next]_vars,
                        ~Broken, "wrap" \notin history'
                 PROVE  H!Next \/ UNCHANGED H!vars
      OBVIOUS
    <2>1. SlotsOK /\ Walks
      BY HeapInvIs
    <2>2. CASE UNCHANGED vars
      BY <2>2 DEF vars, locals, request, H!vars
    <2>3. CASE Client
      BY <2>3, ClientAsks
    <2>4. CASE AllocTake
      BY <2>1, <2>4, TakeGrants DEF AllocTake, Wrapped
    <2>5. CASE ReallocCopy
      BY <2>1, <2>5, CopyGrants
    <2>6. CASE ReallocShrink \/ ReallocKeep
      BY <2>1, <2>6, StayResizes DEF ReallocShrink, ReallocKeep, Wrapped
    <2>7. CASE Step /\ ~(AllocTake \/ ReallocCopy \/ ReallocShrink \/ ReallocKeep)
      <3>1. ASSUME pc' = "undefined" PROVE FALSE
        <4>1. pc # "undefined" /\ history' = history
          BY <2>7, <3>1
          DEF Step, AllocEnter, AllocOverflow, AllocUndefined, AllocTooSmall, AtSlot,
              AllocExhausted, Grow, GrowRefused, FreeEnter, FreeWalk, FreeInsert, FreeUndefined,
              ReallocEnter, ReallocUndefined, ReallocWalk, ReallocMove, ReallocFault, Undefined,
              Return, StartWalk, Goto
        <4> QED
          BY <3>1, <4>1 DEF DataIsNoHeader, Broken
      <3> QED
        BY <2>7, <3>1, OthersImplement
    <2> QED
      BY <2>2, <2>3, <2>4, <2>5, <2>6, <2>7 DEF Next
  <1> QED
    BY <1>1, <1>2, TypeInvariant, HeapCorrect, HeadersAreHeaders, PTL DEF Spec, ImplementsHeap

-----------------------------------------------------------------------------
(***************************************************************************)
(* Nothing is lost: the slots tile the arena.                              *)
(***************************************************************************)
Tiled ==
    /\ first_slot \in Slots
    /\ \A s \in Slots : next_slot[s] \in Slots \cup {arena_brk}

Tiles == arena_brk > first_slot => Tiled

\* The arena has slots only once it has been grown.
LEMMA NoArena ==
  ASSUME TypeInv, SlotsOK, ~(arena_brk > first_slot), arena_brk = NULL <=> first_slot = NULL
  PROVE  Slots = {} /\ arena_brk = first_slot /\ (arena_brk # NULL => arena_brk = Base)
  <1>1. CASE arena_brk = NULL
    <2>1. Slots = {}
      BY <1>1, EndFacts DEF NULL
    <2> QED
      BY <1>1, <2>1
  <1>2. CASE arena_brk # NULL
    <2>1. first_slot = Base /\ arena_brk \in Base .. LIMIT
      BY <1>2 DEF TypeInv, TypeOK
    <2>2. arena_brk = Base
      BY <2>1, ConstantFacts
    <2>3. ASSUME NEW s \in Slots PROVE FALSE
      <3>1. s \in Base .. LIMIT - 1 /\ s < next_slot[s] /\ next_slot[s] <= arena_brk
            /\ next_slot[s] \in Nat /\ s \in Nat
        BY EndFacts DEF Units
      <3> QED
        BY <2>2, <3>1, ConstantFacts
    <2> QED
      BY <2>1, <2>2, <2>3
  <1> QED
    BY <1>1, <1>2

\* A step that hands slots around without moving their ends keeps them tiled.
LEMMA SameTiles ==
  ASSUME Tiles, Slots' = Slots, UNCHANGED <<first_slot, arena_brk>>,
         \A s \in Slots : next_slot'[s] = next_slot[s]
  PROVE  Tiles'
  BY DEF Tiles, Tiled

\* Splitting a slot makes two that tile it.
LEMMA TakeTiles ==
  ASSUME TypeInv, SlotsOK, Walks, Tiles, AllocTake
  PROVE  Tiles'
  <1>1. first_slot' = first_slot /\ arena_brk' = arena_brk
    BY DEF AllocTake
  <1>2. /\ Slots' = Slots \cup TakeRest /\ curr \in Slots
        /\ \A s \in Slots \ {curr} : next_slot'[s] = next_slot[s]
        /\ next_slot'[curr] = IF Splits THEN NewSlot ELSE next_slot[curr]
        /\ Splits => next_slot'[NewSlot] = next_slot[curr]
    BY TakeFacts
  <1> QED
    BY <1>1, <1>2 DEF Tiles, Tiled, TakeRest

\* Merging two slots makes one that covers both.
LEMMA InsertTiles ==
  ASSUME TypeInv, SlotsOK, Walks, Tiles, FreeInsert
  PROVE  Tiles'
  <1> SUFFICES ASSUME arena_brk' > first_slot' PROVE Tiled'
    BY DEF Tiles
  <1>1. Tiled /\ first_slot' = first_slot /\ arena_brk' = arena_brk
    BY DEF FreeInsert, Tiles
  <1>2. /\ Slots' = Slots \ InsertGone /\ InsertSlot \in Slots /\ InsertSlot \notin InsertGone
        /\ This \in Slots /\ prev < This
        /\ next_slot'[InsertSlot] = MergedEnd
        /\ \A s \in Slots' \ {InsertSlot} : next_slot'[s] = next_slot[s]
        /\ MergesUp => prev \in Slots /\ next_slot[prev] = This
        /\ MergesDown => curr \in Slots /\ next_slot[This] = curr /\ curr > This
        /\ \A s \in Slots : s \in Nat /\ next_slot[s] \in Nat /\ next_slot[s] > s
                            /\ next_slot[s] <= arena_brk
    <2>1. MergesDown => curr > This
      BY InsertFacts, ConstantFacts DEF MergesDown
    <2> QED
      BY <2>1, InsertFacts
  <1>3. \A s, t \in Slots : next_slot[s] = next_slot[t] => s = t
    <2> SUFFICES ASSUME NEW s \in Slots, NEW t \in Slots, next_slot[s] = next_slot[t], s < t
                 PROVE  FALSE
      BY <1>2
    <2>1. next_slot[s] <= t
      BY DEF SlotsOK
    <2> QED
      BY <1>2, <2>1
  <1>4. \A s \in Slots : first_slot <= s
    <2>1. first_slot = Base
      BY <1>1, SlotFacts, ConstantFacts DEF Tiled, TypeInv, TypeOK, Units, NULL
    <2> QED
      BY <2>1, SlotFacts, ConstantFacts DEF Units
  <1>5. first_slot \notin InsertGone
    <2>1. first_slot \in Slots
      BY <1>1 DEF Tiled
    <2>2. MergesUp => first_slot # This
      BY <1>2, <1>4, <2>1
    <2>3. MergesDown => first_slot # curr
      BY <1>2, <1>4, <2>1
    <2> QED
      BY <2>2, <2>3 DEF InsertGone, InsertDown
  <1>6. \A s \in Slots' \ {InsertSlot} : next_slot[s] \notin InsertGone
    <2> SUFFICES ASSUME NEW s \in Slots' \ {InsertSlot}, next_slot[s] \in InsertGone
                 PROVE  FALSE
      OBVIOUS
    <2>1. s \in Slots /\ s \notin InsertGone
      BY <1>2
    <2>2. CASE MergesUp /\ next_slot[s] = This
      BY <1>2, <1>3, <2>1, <2>2 DEF InsertSlot
    <2>3. CASE MergesDown /\ next_slot[s] = curr
      <3>1. s = This
        BY <1>2, <1>3, <2>1, <2>3
      <3> QED
        BY <2>1, <3>1 DEF InsertSlot, InsertGone
    <2> QED
      BY <2>2, <2>3 DEF InsertGone, InsertDown
  <1>7. MergedEnd \in Slots \cup {arena_brk} /\ MergedEnd \notin InsertGone
    <2>1. CASE MergesDown
      <3>1. MergedEnd = next_slot[curr] /\ curr \in Slots /\ next_slot[curr] > curr
        BY <1>2, <2>1 DEF MergedEnd
      <3>2. MergedEnd # This /\ MergedEnd # curr
        BY <1>2, <2>1, <3>1
      <3> QED
        BY <1>1, <3>1, <3>2 DEF Tiled, InsertGone, InsertDown
    <2>2. CASE ~MergesDown
      <3>1. MergedEnd = next_slot[This] /\ MergedEnd # This
        BY <1>2, <2>2 DEF MergedEnd
      <3> QED
        BY <1>1, <1>2, <2>2, <3>1 DEF Tiled, InsertGone, InsertDown
    <2> QED
      BY <2>1, <2>2
  <1>8. first_slot' \in Slots'
    BY <1>1, <1>2, <1>5 DEF Tiled
  <1>9. \A s \in Slots' : next_slot'[s] \in Slots' \cup {arena_brk'}
    <2> SUFFICES ASSUME NEW s \in Slots' PROVE next_slot'[s] \in Slots' \cup {arena_brk'}
      OBVIOUS
    <2>1. CASE s = InsertSlot
      BY <1>1, <1>2, <1>7, <2>1
    <2>2. CASE s # InsertSlot
      BY <1>1, <1>2, <1>6, <2>2 DEF Tiled
    <2> QED
      BY <2>1, <2>2
  <1> QED
    BY <1>8, <1>9 DEF Tiled

\* A new slot continues the last one, or is the first.
LEMMA GrowTiles ==
  ASSUME TypeInv, SlotsOK, Walks, Tiles, arena_brk = NULL <=> first_slot = NULL,
         Grow, history' = {}
  PROVE  Tiles'
  <1>1. prev = NULL /\ arena_brk' = NewBrk
    BY DEF Grow
  <1>2. /\ next_slot' = Store(next_slot, Top, NewBrk) /\ free' = free \cup {Top}
        /\ first_slot' = IF arena_brk = NULL THEN Top ELSE first_slot
        /\ Headers' = Headers /\ InHand = {} /\ InHand' = {}
    BY <1>1 DEF Grow, FirstStart, Headers, Blocks, Goto, InHand
  <1>3. Top \in Units
    BY TopFacts, ConstantFacts DEF Grow, Units
  <1>4. Slots' = Slots \cup {Top}
    BY <1>2 DEF Slots
  <1>5. Top \notin Slots
    <2>1. arena_brk # NULL => Top = arena_brk
      BY DEF Top
    <2>2. arena_brk = NULL => Slots = {}
      BY EndFacts DEF NULL
    <2> QED
      BY <2>1, <2>2, EndFacts
  <1>6. next_slot'[Top] = NewBrk /\ \A s \in Slots : next_slot'[s] = next_slot[s]
    BY <1>2, <1>3, <1>5, SlotFacts DEF Store
  <1>7. CASE arena_brk > first_slot
    <2>1. arena_brk # NULL
      <3>1. first_slot \in Slots /\ first_slot \in Nat
        BY <1>7, EndFacts DEF Tiles, Tiled
      <3> QED
        BY <1>7, <3>1, EndFacts DEF NULL
    <2>2. Top = arena_brk /\ first_slot' = first_slot
      BY <1>2, <2>1 DEF Top
    <2> QED
      BY <1>1, <1>4, <1>6, <1>7, <2>2 DEF Tiles, Tiled
  <1>8. CASE ~(arena_brk > first_slot)
    <2>1. Slots = {} /\ first_slot' = Top
      BY <1>2, <1>8, NoArena DEF Top
    <2> QED
      BY <1>1, <1>4, <1>6, <2>1 DEF Tiles, Tiled
  <1> QED
    BY <1>7, <1>8

\* An arena the kernel has refused to start has a place and no slots.
LEMMA RefusedTiles ==
  ASSUME TypeInv, SlotsOK, Tiles, arena_brk = NULL <=> first_slot = NULL, GrowRefused
  PROVE  Tiles'
  <1>1. /\ next_slot' = next_slot /\ Slots' = Slots /\ arena_brk' = Top
        /\ first_slot' = IF arena_brk = NULL THEN Top ELSE first_slot
    BY DEF GrowRefused, FirstStart, Return, Goto, memory, Slots, Headers, Blocks, InHand
  <1>2. CASE arena_brk = NULL
    <2>1. Top \in Nat /\ ~(Top > Top)
      BY TopFacts, ConstantFacts
    <2> QED
      BY <1>1, <1>2, <2>1 DEF Tiles
  <1>3. CASE arena_brk # NULL
    BY <1>1, <1>3, SameTiles DEF Top
  <1> QED
    BY <1>2, <1>3

\* The slots a client or rtl_realloc hands over are slots before and after.
LEMMA HandedOver ==
  ASSUME TypeInv, SlotsOK, Walks,
         ClientFree \/ (ReallocEnter /\ pc' = "free") \/ ReallocCopy
  PROVE  Slots' = Slots /\ UNCHANGED <<first_slot, arena_brk>>
         /\ \A s \in Slots : next_slot'[s] = next_slot[s]
  <1>1. \A p \in Blocks : p \in Int
    BY SlotFacts, ConstantFacts DEF Ptrs
  <1>2. CASE ClientFree
    <2>1. PICK p \in Blocks \cup {NULL} :
             /\ ptr' = p
             /\ live' = [q \in Ptrs |-> IF q = p THEN NoBlock ELSE live[q]]
      BY <1>2 DEF ClientFree
    <2>2. Blocks' = Blocks \ {p}
      BY <2>1 DEF Blocks
    <2>3. /\ InHand = {} /\ InHand' = (IF p # NULL THEN {p - 1} ELSE {}) /\ free' = free
          /\ UNCHANGED <<first_slot, arena_brk>>
      BY <1>2, <2>1 DEF ClientFree, ClientRuns, InHand, Goto, This, statics
    <2>4. Headers' = {q - 1 : q \in Blocks \ {p}}
      BY <2>2 DEF Headers
    <2>5. Headers' \cup InHand' = Headers
      <3>1. NULL \notin Blocks
        BY ConstantFacts DEF Blocks, Ptrs, NULL
      <3>2. CASE p = NULL
        BY <2>3, <2>4, <3>1, <3>2 DEF Headers
      <3>3. CASE p \in Blocks
        BY <1>1, <2>3, <2>4, <3>1, <3>3 DEF Headers
      <3> QED
        BY <2>1, <3>2, <3>3
    <2>6. \A s \in Slots : next_slot'[s] = next_slot[s]
      BY <1>2, WritesMissHeaders DEF ClientFree
    <2> QED
      BY <2>3, <2>5, <2>6 DEF Slots
  <1>3. CASE ReallocEnter /\ pc' = "free"
    <2>1. /\ pc = "realloc" /\ ptr # NULL /\ ptr' = ptr /\ ptr \in Blocks
          /\ live' = [live EXCEPT ![ptr] = NoBlock] /\ free' = free
          /\ next_slot' = next_slot /\ UNCHANGED <<first_slot, arena_brk>>
      BY <1>3 DEF ReallocEnter, Goto, Return, StartWalk, locals, memory, statics, Walks, MoveOK
    <2>2. Blocks' = Blocks \ {ptr}
      BY <2>1 DEF Blocks, TypeInv, TypeOK
    <2>3. Headers' = {q - 1 : q \in Blocks \ {ptr}} /\ InHand = {} /\ InHand' = {ptr - 1}
      BY <1>3, <2>1, <2>2 DEF Headers, InHand, This
    <2>4. Headers' \cup InHand' = Headers
      BY <1>1, <2>1, <2>3 DEF Headers
    <2> QED
      BY <2>1, <2>3, <2>4 DEF Slots
  <1>4. CASE ReallocCopy
    <2>1. /\ pc = "copy" /\ pc' = "free" /\ ptr # NULL /\ ptr' = ptr /\ ptr \in Blocks
          /\ curr # NULL /\ curr' = curr /\ free' = free
          /\ live' = [live EXCEPT ![ptr] = NoBlock, ![curr + 1] = size]
          /\ next_slot' = next_slot /\ UNCHANGED <<first_slot, arena_brk>>
      BY <1>4
      DEF ReallocCopy, Goto, locals, memory, statics, Walks, MoveOK, TypeInv, LocalsOK
    <2>2. InHand = {curr} /\ InHand' = {ptr - 1} /\ curr \in Int /\ curr \notin Headers
          /\ curr + 1 \in Ptrs
      <3>1. InHand = {curr} /\ InHand' = {ptr - 1}
        BY <2>1 DEF InHand, This
      <3>2. curr \in Units /\ curr \notin Headers
        BY <3>1, SlotFacts DEF SlotsOK
      <3> QED
        BY <3>1, <3>2, ConstantFacts DEF Units, Ptrs
    <2>3. curr + 1 # ptr
      <3>1. ptr - 1 \in Headers
        BY <2>1, SlotFacts
      <3> QED
        BY <1>1, <2>1, <2>2, <3>1
    <2>4. Blocks' = (Blocks \ {ptr}) \cup {curr + 1}
      BY <2>1, <2>2, <2>3, ConstantFacts DEF Blocks, TypeInv, TypeOK, NoBlock
    <2>5. Headers' = {q - 1 : q \in (Blocks \ {ptr}) \cup {curr + 1}}
      BY <2>4 DEF Headers
    <2>6. Headers' \cup InHand' = Headers \cup InHand
      BY <1>1, <2>1, <2>2, <2>5 DEF Headers
    <2> QED
      BY <2>1, <2>6 DEF Slots
  <1> QED
    BY <1>2, <1>3, <1>4

LEMMA TilesKept ==
  ASSUME TypeInv, SlotsOK, Walks, arena_brk = NULL <=> first_slot = NULL, Tiles,
         Next, history' = {}, pc' # "undefined"
  PROVE  Tiles'
  <1>1. CASE ClientFree \/ (ReallocEnter /\ pc' = "free") \/ ReallocCopy
    BY <1>1, HandedOver, SameTiles
  <1>2. CASE ClientAlloc \/ ClientRealloc
    <2>1. \A s \in Slots : next_slot'[s] = next_slot[s]
      BY <1>2, WritesMissHeaders DEF ClientAlloc, ClientRealloc
    <2>2. Slots' = Slots /\ UNCHANGED <<first_slot, arena_brk>>
      BY <1>2
      DEF ClientAlloc, ClientRealloc, ClientRuns, Goto, statics, Slots, Headers, Blocks, InHand
    <2> QED
      BY <2>1, <2>2, SameTiles
  <1>3. CASE AllocTake
    BY <1>3, TakeTiles
  <1>4. CASE FreeInsert
    BY <1>4, InsertTiles
  <1>5. CASE Grow
    BY <1>5, GrowTiles
  <1>6. CASE GrowRefused
    BY <1>6, RefusedTiles
  <1>7. CASE AllocEnter \/ AllocOverflow \/ AllocTooSmall \/ AllocExhausted
    <2>1. Slots' = Slots /\ UNCHANGED <<first_slot, arena_brk, next_slot>>
      BY <1>7
      DEF AllocEnter, AllocOverflow, AllocTooSmall, AtSlot, AllocExhausted, Return, StartWalk,
          Goto, statics, memory, locals, Slots, Headers, Blocks, InHand
    <2> QED
      BY <2>1, SameTiles
  <1>8. CASE FreeEnter \/ FreeWalk
    <2>1. Slots' = Slots /\ UNCHANGED <<first_slot, arena_brk, next_slot>>
      BY <1>8
      DEF FreeEnter, FreeWalk, Return, StartWalk, Goto, statics, memory, This, Slots, Headers,
          Blocks, InHand
    <2> QED
      BY <2>1, SameTiles
  <1>9. CASE ReallocEnter /\ pc' # "free"
    <2>1. live' = live /\ pc = "realloc" /\ pc' \notin {"free", "insert", "copy", "fault"}
          /\ free' = free /\ UNCHANGED <<first_slot, arena_brk, next_slot>>
      BY <1>9 DEF ReallocEnter, Return, StartWalk, Goto, statics, memory
    <2>2. Slots' = Slots
      BY <2>1 DEF Slots, Headers, Blocks, InHand
    <2> QED
      BY <2>1, <2>2, SameTiles
  <1>10. CASE ReallocWalk
    <2>1. UNCHANGED <<next_slot, free, live, pc, first_slot, arena_brk>> /\ pc = "merge"
      BY <1>10, MergeIsDead DEF ReallocWalk
    <2>2. Slots' = Slots
      BY <2>1 DEF Slots, Headers, Blocks, InHand
    <2> QED
      BY <2>1, <2>2, SameTiles
  <1>11. CASE ReallocKeep
    <2>1. /\ live' = [live EXCEPT ![ptr] = size] /\ ptr \in Blocks /\ size # NoBlock
          /\ UNCHANGED <<next_slot, free, first_slot, arena_brk>>
          /\ InHand' = {} /\ InHand = {}
      BY <1>11
      DEF ReallocKeep, Return, Goto, statics, memory, InHand, Walks, MoveOK, TypeInv, LocalsOK,
          TypeOK, NoBlock
    <2>2. Blocks' = Blocks
      BY <2>1 DEF Blocks, TypeInv, TypeOK
    <2>3. Slots' = Slots
      BY <2>1, <2>2 DEF Slots, Headers
    <2> QED
      BY <2>1, <2>3, SameTiles
  <1>12. CASE ReallocMove \/ ReallocFault
    <2>1. Slots' = Slots /\ UNCHANGED <<first_slot, arena_brk, next_slot>>
      BY <1>12
      DEF ReallocMove, ReallocFault, Goto, statics, memory, locals, Slots, Headers, Blocks, InHand
    <2> QED
      BY <2>1, SameTiles
  <1>13. ~ReallocShrink /\ ~(AllocUndefined \/ FreeUndefined \/ ReallocUndefined)
    BY DEF ReallocShrink, AllocUndefined, FreeUndefined, ReallocUndefined, Undefined, Goto
  <1> QED
    BY <1>1, <1>2, <1>3, <1>4, <1>5, <1>6, <1>7, <1>8, <1>9, <1>10, <1>11, <1>12, <1>13
    DEF Next, Client, Step

\* rtl_alloc and rtl_free lose no unit: as long as no growth has lost its pages, the slots
\* tile the arena from the first one to its end (l.121-128, l.166-190).
THEOREM NothingIsLost == Spec => []NothingLost
  <1> DEFINE Started == arena_brk = NULL <=> first_slot = NULL
             TileInv == Started /\ (history = {} => Tiles)
  <1>1. Init => TileInv
    BY DEF Init, Tiles, NULL
  <1>2. TypeInv /\ HeapInv /\ DataIsNoHeader' /\ TileInv /\ [Next]_vars => TileInv'
    <2> SUFFICES ASSUME TypeInv, HeapInv, DataIsNoHeader', TileInv, [Next]_vars PROVE TileInv'
      OBVIOUS
    <2>1. CASE UNCHANGED vars
      BY <2>1 DEF vars, memory, statics, locals, Tiles, Tiled, Slots, Headers, Blocks, InHand, This
    <2>2. CASE Next
      <3>1. Started'
        <4>1. Top # NULL /\ NewBrk # NULL
          BY TopFacts, ConstantFacts DEF NULL
        <4> QED
          BY <2>2, <4>1
          DEF Next, Client, Step, ClientAlloc, ClientFree, ClientRealloc, AllocEnter,
              AllocOverflow, AllocUndefined, AllocTooSmall, AllocTake, AllocExhausted, Grow,
              GrowRefused, FirstStart, FreeEnter, FreeWalk, FreeInsert, FreeUndefined,
              ReallocEnter, ReallocUndefined, ReallocWalk, ReallocShrink, ReallocKeep,
              ReallocMove, ReallocCopy, ReallocFault, Undefined, statics
      <3>2. history \subseteq history'
        BY <2>2, HistoryGrows
      <3>3. ASSUME history' = {} PROVE Tiles'
        <4>1. history = {} /\ ~Broken /\ ~Broken' /\ SlotsOK /\ Walks
          BY <3>2, <3>3, HeapInvIs DEF Broken
        <4>2. pc' # "undefined"
          BY <4>1 DEF DataIsNoHeader
        <4> QED
          BY <2>2, <3>3, <4>1, <4>2, TilesKept
      <3> QED
        BY <3>1, <3>3
    <2> QED
      BY <2>1, <2>2
  <1>3. TileInv => NothingLost
    BY DEF Tiles, Tiled, NothingLost
  <1> QED
    BY <1>1, <1>2, <1>3, TypeInvariant, HeapCorrect, HeadersAreHeaders, PTL DEF Spec

\* The two comments the code does not keep (l.74, l.248) are right until one of the paths
\* that break the arena has run: no two blocks share a unit, and no block's unit is freed.
THEOREM SharedOnlyOnceBroken == Spec => [](~Broken => NoSharedUnits /\ FreesNoOwnedUnit)
  <1>1. TypeInv /\ HeapInv => (~Broken => NoSharedUnits /\ FreesNoOwnedUnit)
    <2> SUFFICES ASSUME TypeInv, SlotsOK PROVE NoSharedUnits /\ FreesNoOwnedUnit
      BY HeapInvIs
    <2>1. ASSUME NEW p \in Blocks, NEW q \in Blocks, p # q,
                 NEW a \in Owned(p), a \in Owned(q)
          PROVE  FALSE
      <3>1. p \in Nat /\ q \in Nat /\ q - 1 \in Slots
        BY SlotFacts, ConstantFacts DEF Slots, Ptrs
      <3>2. q - 1 < a /\ a < next_slot[q - 1] /\ a \in Nat /\ next_slot[q - 1] \in Nat
        BY <2>1, <3>1, OwnedFacts, EndFacts
      <3>3. next_slot[q - 1] <= a
        <4>1. q - 1 # p - 1
          BY <2>1, <3>1
        <4> QED
          BY <3>1, <3>2, <4>1, OwnedFacts
      <3> QED
        BY <3>2, <3>3
    <2>2. NoSharedUnits
      BY <2>1 DEF NoSharedUnits
    <2>3. ASSUME pc = "free", ptr # NULL, NEW p \in Blocks, This \in Owned(p)
          PROVE  FALSE
      <3>1. This \in Slots
        BY <2>3 DEF Slots, InHand
      <3> QED
        BY <2>3, <3>1, OwnedFacts
    <2> QED
      BY <2>2, <2>3 DEF FreesNoOwnedUnit
  <1> QED
    BY <1>1, TypeInvariant, HeapCorrect, PTL
=============================================================================
