---------------------------- MODULE RtlMemoryProofs ----------------------------
(***************************************************************************)
(* Proofs about RtlMemory, for every value of its constants.               *)
(***************************************************************************)
EXTENDS RtlMemory, TLAPS

\* ALIGN rounds up, by less than the alignment (l.13).
LEMMA AlignFacts ==
  ASSUME NEW x \in Nat, NEW a \in Nat \ {0}
  PROVE  Align(x, a) \in Nat /\ x <= Align(x, a) /\ Align(x, a) < x + a
  BY DEF Align

\* What the assumptions on the constants say of the arena's place.
LEMMA ConstantFacts ==
  /\ Base \in Nat /\ Base > 0 /\ BRK0 <= Base /\ Base < LIMIT /\ LIMIT \in Nat
  /\ LIMIT < ADDRS /\ ADDRS \in Nat /\ BRK0 \in Nat
  /\ SizeRange \in Nat /\ SizeRange > 0
  BY ConstantsAssumption, AlignFacts DEF Base, SizeRange, UNIT_SIZE

\* A size that does not wrap gets its units and one for the header (l.91).
LEMMA UnitsOfFacts ==
  ASSUME NEW n \in 0 .. SizeRange - 1
  PROVE  /\ UnitsOf(n) \in Nat /\ UnitsOf(n) >= 1
         /\ Need(n) \in Nat
         /\ ~Wraps(n) => UnitsOf(n) = Need(n) + 1
  BY ConstantFacts, ConstantsAssumption DEF UnitsOf, Wraps, Need, Wrap, UNIT_SIZE, SizeRange

-----------------------------------------------------------------------------
(***************************************************************************)
(* Types.  TypeOK alone is not inductive: what the locals mean depends on  *)
(* where the code stands.                                                  *)
(***************************************************************************)
LocalsOK ==
    /\ arena_brk = NULL => brk = BRK0
    /\ pc = "client" => ptr = NULL
    /\ pc \in {"insert", "merge", "copy"} => ptr # NULL
    /\ pc \in {"copy", "fault"} => curr # NULL
    /\ pc = "merge" => NewEnd > This

TypeInv == TypeOK /\ LocalsOK

LEMMA InitTypeInv == Init => TypeInv
  BY ConstantFacts
  DEF Init, TypeInv, TypeOK, LocalsOK, Links, Labels, NULL, Data, NoBlock

LEMMA StoreType ==
  ASSUME NEW S, NEW f \in [Units -> S], NEW a, NEW v \in S
  PROVE  Store(f, a, v) \in [Units -> S]
  BY DEF Store

LEMMA NewSlotFacts ==
  ASSUME TypeOK
  PROVE  /\ UnitsNow \in Nat /\ UnitsNow >= 1
         /\ NewSlot \in Int /\ NewEnd \in Int
         /\ curr # NULL => curr \in Units
         /\ ptr # NULL => This \in Units
  <1>1. UnitsNow \in Nat /\ UnitsNow >= 1
    BY UnitsOfFacts DEF TypeOK, UnitsNow
  <1>2. /\ curr # NULL => curr \in Units
        /\ ptr # NULL => This \in Units
    BY ConstantFacts DEF TypeOK, This, Links, Units, Ptrs, NULL
  <1>3. curr \in Int /\ This \in Int
    BY ConstantFacts DEF TypeOK, This, Links, Units, Ptrs, NULL
  <1> QED
    BY <1>1, <1>2, <1>3, ConstantFacts DEF NewSlot, NewEnd, Wrap

\* Growing never moves the break past the limit, and the arena starts at its base (l.50).
LEMMA TopFacts ==
  ASSUME TypeInv
  PROVE  /\ Top \in Base .. LIMIT
         /\ arena_brk = NULL => Top = Base
         /\ NewBrk \in Nat /\ NewBrk > Top
  <1>1. Top \in Base .. LIMIT /\ (arena_brk = NULL => Top = Base)
    BY ConstantFacts DEF TypeInv, TypeOK, LocalsOK, Top, Base, NULL
  <1>2. Align(UnitsNow, PAGE_UNITS) \in Nat /\ Align(UnitsNow, PAGE_UNITS) >= 1
    <2>1. UnitsNow \in Nat /\ UnitsNow >= 1
      BY NewSlotFacts DEF TypeInv
    <2>2. PAGE_UNITS \in Nat \ {0}
      BY ConstantsAssumption
    <2>3. Align(UnitsNow, PAGE_UNITS) \in Nat /\ UnitsNow <= Align(UnitsNow, PAGE_UNITS)
      BY <2>1, <2>2, AlignFacts
    <2> QED
      BY <2>1, <2>3
  <1>3. QED
    BY <1>1, <1>2, ConstantFacts DEF NewBrk

\* Every variable keeps its type, and the locals of a call are what the code stands on:
\* no walk, insertion or copy runs without the block it is about.
THEOREM TypeInvariant == Spec => []TypeInv
  <1>1. TypeInv /\ [Next]_vars => TypeInv'
    <2> SUFFICES ASSUME TypeInv, [Next]_vars PROVE TypeInv'
      OBVIOUS
    <2> USE ConstantFacts
    <2>1. CASE ClientAlloc
      BY <2>1, ConstantsAssumption
      DEF TypeInv, TypeOK, LocalsOK, NewEnd, This, UnitsNow, Ptrs, Links, NULL,
          ClientAlloc, ClientWrites, Goto, Labels, statics
    <2>2. CASE ClientFree
      BY <2>2
      DEF TypeInv, TypeOK, LocalsOK, NewEnd, This, UnitsNow, Ptrs, Links, NULL,
          ClientFree, ClientWrites, Goto, Labels, statics, Blocks
    <2>3. CASE ClientRealloc
      BY <2>3, ConstantsAssumption
      DEF TypeInv, TypeOK, LocalsOK, NewEnd, This, UnitsNow, Ptrs, Links, NULL,
          ClientRealloc, ClientWrites, Goto, Labels, statics, Blocks
    <2>4. CASE AllocEnter
      BY <2>4
      DEF TypeInv, TypeOK, LocalsOK, NewEnd, This, UnitsNow, Ptrs, Links, NULL,
          AllocEnter, Return, StartWalk, Goto, Labels, memory, statics, Links
    <2>5. CASE AllocOverflow
      BY <2>5
      DEF TypeInv, TypeOK, LocalsOK, NewEnd, This, UnitsNow, Ptrs, Links, NULL,
          AllocOverflow, Return, Goto, Labels, memory, statics, Links
    <2>6. CASE AllocUndefined
      BY <2>6
      DEF TypeInv, TypeOK, LocalsOK, NewEnd, This, UnitsNow, Ptrs, Links, NULL,
          AllocUndefined, Undefined, Goto, Labels, memory, statics, locals
    <2>7. CASE AllocTooSmall
      BY <2>7
      DEF TypeInv, TypeOK, LocalsOK, NewEnd, This, UnitsNow, Ptrs, Links, NULL,
          AllocTooSmall, AtSlot, Advance, Readable, memory, statics, Links
    <2>8. CASE AllocTake
      <3>1. /\ curr \in Units /\ next_slot[curr] \in Units \cup {LIMIT} /\ next_slot[curr] \in Nat
            /\ next_free[curr] \in Links /\ NewSlot \in Nat /\ NewSlot > curr
            /\ prev \in Links /\ curr + 1 \in Ptrs
        <4>1. /\ curr # NULL /\ NewSlot > curr
              /\ next_slot[curr] # Data /\ next_free[curr] # Data
          BY <2>8, Zenon DEF AllocTake, AtSlot, Readable
        <4>2. curr \in Units /\ NewSlot \in Int
          BY <4>1, NewSlotFacts, Zenon DEF TypeInv
        <4>3. /\ next_slot \in [Units -> Units \cup {LIMIT, Data}]
              /\ next_free \in [Units -> Links \cup {Data}] /\ prev \in Links
          BY Zenon DEF TypeInv, TypeOK
        <4>4. next_slot[curr] \in Units \cup {LIMIT} /\ next_free[curr] \in Links
          BY <4>1, <4>2, <4>3
        <4> QED
          BY <4>1, <4>2, <4>3, <4>4, ConstantFacts DEF Units, Ptrs
      <3>2. Splits => NewSlot \in Units
        BY <3>1 DEF Splits, Units
      <3>3. Rest \in Links
        BY <3>1, <3>2 DEF Rest, Links
      <3>4. next_slot' \in [Units -> Units \cup {LIMIT, Data}]
        <4> DEFINE S == Units \cup {LIMIT, Data}
        <4>1. next_slot \in [Units -> S] /\ next_slot[curr] \in S
          BY <3>1 DEF TypeInv, TypeOK
        <4>2. CASE Splits
          <5>1. Store(next_slot, NewSlot, next_slot[curr]) \in [Units -> S]
            BY <4>1, StoreType
          <5>2. NewSlot \in S
            BY <3>2, <4>2
          <5> HIDE DEF S
          <5>3. Store(Store(next_slot, NewSlot, next_slot[curr]), curr, NewSlot) \in [Units -> S]
            BY <5>1, <5>2, StoreType
          <5> QED
            BY <5>3, <4>2, <2>8 DEF AllocTake, S
        <4> QED
          BY <4>1, <4>2, <2>8 DEF AllocTake
      <3>5. next_free' \in [Units -> Links \cup {Data}]
        BY <3>1, <3>2, <3>3, <2>8 DEF TypeInv, TypeOK, AllocTake, Store, Links
      <3>6. free_anchor' \in Links /\ free' \subseteq Units
        BY <3>2, <3>3, <2>8 DEF TypeInv, TypeOK, AllocTake
      <3>7. history' \subseteq {"lost", "stretch", "shrink", "wrap"}
        BY <2>8 DEF TypeInv, TypeOK, AllocTake, Wrapped
      <3>8. /\ live' \in [Ptrs -> 0 .. SizeRange - 1 \cup {NoBlock}]
            /\ pc' \in {"client", "copy"} /\ (pc' = "copy" => ptr # NULL)
        BY <3>1, <2>8 DEF TypeInv, TypeOK, AllocTake, Return, Goto, locals
      <3>9. /\ size' \in 0 .. SizeRange - 1 /\ ptr' \in Ptrs \cup {NULL}
            /\ prev' \in Links /\ curr' \in Links /\ old_count' \in -LIMIT .. LIMIT
        BY <3>1, <2>8 DEF TypeInv, TypeOK, AllocTake, Return, Goto, locals, Links
      <3>10. /\ ptr # NULL => ptr' = ptr /\ curr' = curr
             /\ pc' = "client" => ptr' = NULL
             /\ UNCHANGED <<first_slot, arena_brk, brk>>
        BY <2>8 DEF AllocTake, Return, Goto, locals
      <3>11. (curr # NULL /\ curr' = curr) \/ pc' = "client"
        BY <3>1, <3>8, <3>10 DEF Units, NULL
      <3>12. first_slot' \in {NULL, Base} /\ arena_brk' \in {NULL} \cup Base .. LIMIT
             /\ brk' \in BRK0 .. LIMIT /\ (arena_brk' = NULL => brk' = BRK0)
        BY <3>10 DEF TypeInv, TypeOK, LocalsOK
      <3>13. pc' \in Labels
        BY <3>8 DEF Labels
      <3>14. TypeOK'
        BY <3>4, <3>5, <3>6, <3>7, <3>8, <3>9, <3>12, <3>13, Zenon DEF TypeOK
      <3>15. /\ pc' = "client" => ptr' = NULL
             /\ pc' = "copy" => ptr' # NULL /\ curr' # NULL
             /\ pc' \notin {"insert", "merge", "fault"}
        BY <3>8, <3>10, <3>11
      <3> QED
        BY <3>12, <3>14, <3>15 DEF TypeInv, LocalsOK
    <2>9. CASE AllocExhausted
      BY <2>9
      DEF TypeInv, TypeOK, LocalsOK, NewEnd, This, UnitsNow, Ptrs, Links, NULL,
          AllocExhausted, Goto, Labels, memory, statics, locals
    <2>10. CASE Grow
      <3>1. /\ Top \in Units /\ NewBrk \in Base .. LIMIT /\ NewBrk \in Units \cup {LIMIT}
            /\ NewBrk \in BRK0 .. LIMIT /\ NewBrk # NULL
        BY <2>10, TopFacts DEF Grow, Units, NULL
      <3>2. next_slot' \in [Units -> Units \cup {LIMIT, Data}]
        BY <3>1, <2>10 DEF TypeInv, TypeOK, Grow, Store
      <3>3. next_free' \in [Units -> Links \cup {Data}]
        BY <3>1, <2>10 DEF TypeInv, TypeOK, Grow, Store, Links
      <3>4. free_anchor' \in Links /\ free' \subseteq Units
        BY <3>1, <2>10 DEF TypeInv, TypeOK, Grow, Links
      <3>5. history' \subseteq {"lost", "stretch", "shrink", "wrap"}
        BY <2>10 DEF TypeInv, TypeOK, Grow
      <3>6. first_slot' \in {NULL, Base}
        BY <2>10, TopFacts DEF TypeInv, TypeOK, Grow, FirstStart
      <3> QED
        BY <3>1, <3>2, <3>3, <3>4, <3>5, <3>6, <2>10
        DEF TypeInv, TypeOK, LocalsOK, Grow, Goto, Labels, Links
    <2>11. CASE GrowRefused
      BY <2>11, TopFacts
      DEF TypeInv, TypeOK, LocalsOK, NewEnd, This, UnitsNow, Ptrs, Links, NULL,
          GrowRefused, FirstStart, Return, Goto, Labels, memory, Links
    <2>12. CASE FreeEnter
      BY <2>12
      DEF TypeInv, TypeOK, LocalsOK, NewEnd, This, UnitsNow, Ptrs, Links, NULL,
          FreeEnter, Return, StartWalk, Goto, Labels, memory, statics, Links
    <2>13. CASE FreeWalk
      BY <2>13
      DEF TypeInv, TypeOK, LocalsOK, NewEnd, This, UnitsNow, Ptrs, Links, NULL,
          FreeWalk, Walking, Advance, memory, statics, Links
    <2>14. CASE FreeInsert
      <3>1. /\ ptr \in Ptrs /\ This \in Units /\ prev \in Links /\ curr \in Links
            /\ next_slot[This] \in Units \cup {LIMIT, Data}
            /\ curr # NULL => /\ curr \in Units /\ next_slot[curr] \in Units \cup {LIMIT, Data}
                             /\ next_free[curr] \in Links \cup {Data}
        BY <2>14, NewSlotFacts DEF TypeInv, TypeOK, LocalsOK, FreeInsert, Links
      <3>2. MergedEnd \in Units \cup {LIMIT, Data}
        BY <3>1 DEF MergedEnd, MergesDown
      <3>3. next_slot' \in [Units -> Units \cup {LIMIT, Data}]
        BY <3>2, <2>14 DEF TypeInv, TypeOK, FreeInsert, Store
      <3>4. next_free' \in [Units -> Links \cup {Data}]
        BY <3>1, <2>14 DEF TypeInv, TypeOK, FreeInsert, Store, MergesDown, Links
      <3>5. free_anchor' \in Links /\ free' \subseteq Units
        BY <3>1, <2>14 DEF TypeInv, TypeOK, FreeInsert, MergesUp, Links
      <3> QED
        BY <3>3, <3>4, <3>5, <2>14
        DEF TypeInv, TypeOK, LocalsOK, FreeInsert, Return, Goto, Labels, Links, NULL
    <2>15. CASE FreeUndefined
      BY <2>15
      DEF TypeInv, TypeOK, LocalsOK, NewEnd, This, UnitsNow, Ptrs, Links, NULL,
          FreeUndefined, Undefined, Goto, Labels, memory, statics, locals
    <2>16. CASE ReallocEnter
      <3>1. live' \in [Ptrs -> 0 .. SizeRange - 1 \cup {NoBlock}]
        BY <2>16 DEF TypeInv, TypeOK, ReallocEnter
      <3>2. old_count' \in -LIMIT .. LIMIT
        <4>1. ptr # NULL => This \in Units /\ next_slot[This] \in Units \cup {LIMIT, Data}
          BY NewSlotFacts DEF TypeInv, TypeOK
        <4>2. ptr # NULL /\ next_slot[This] # Data => OldCount \in -LIMIT .. LIMIT
          BY <4>1 DEF OldCount, Units
        <4>3. old_count \in -LIMIT .. LIMIT /\ 0 \in -LIMIT .. LIMIT
          BY DEF TypeInv, TypeOK
        <4> QED
          BY <4>2, <4>3, <2>16 DEF ReallocEnter, locals, Return
      <3>3. /\ size' \in 0 .. SizeRange - 1 /\ ptr' \in Ptrs \cup {NULL}
            /\ prev' \in Links /\ curr' \in Links
        BY <2>16 DEF TypeInv, TypeOK, ReallocEnter, locals, Return, StartWalk, Links
      <3>4. /\ pc' \in {"alloc", "free", "client", "merge"}
            /\ pc' = "client" => ptr' = NULL
            /\ pc' = "merge" => ptr' # NULL /\ NewEnd' > This'
        BY <2>16 DEF ReallocEnter, locals, Return, StartWalk, Goto, NewEnd, This, UnitsNow
      <3> QED
        BY <3>1, <3>2, <3>3, <3>4, <2>16
        DEF TypeInv, TypeOK, LocalsOK, ReallocEnter, Labels, memory, statics
    <2>17. CASE ReallocUndefined
      BY <2>17
      DEF TypeInv, TypeOK, LocalsOK, NewEnd, This, UnitsNow, Ptrs, Links, NULL,
          ReallocUndefined, Undefined, Goto, Labels, memory, statics, locals
    <2>18. CASE ReallocWalk
      <3>1. /\ ptr \in Ptrs /\ This \in Units /\ prev \in Links
            /\ curr \in Units /\ next_slot[curr] \in Units \cup {LIMIT}
            /\ next_free[curr] \in Links
        BY <2>18, NewSlotFacts DEF TypeInv, TypeOK, LocalsOK, ReallocWalk, Walking, Readable
      <3>2. next_slot' \in [Units -> Units \cup {LIMIT, Data}]
        BY <3>1, <2>18 DEF TypeInv, TypeOK, ReallocWalk, Store
      <3>3. next_free' \in [Units -> Links \cup {Data}]
        BY <3>1, <2>18 DEF TypeInv, TypeOK, ReallocWalk, Store
      <3>4. free_anchor' \in Links /\ free' \subseteq Units /\ prev' \in Links /\ curr' \in Links
        BY <3>1, <2>18 DEF TypeInv, TypeOK, ReallocWalk, Advance, Links
      <3> QED
        BY <3>2, <3>3, <3>4, <2>18
        DEF TypeInv, TypeOK, LocalsOK, ReallocWalk, NewEnd, This, UnitsNow
    <2>19. CASE ReallocShrink
      <3>1. /\ ptr \in Ptrs /\ This \in Units /\ NewEnd > This /\ NewEnd \in Int
            /\ next_slot[This] \in Units \cup {LIMIT, Data}
        BY <2>19, NewSlotFacts DEF TypeInv, TypeOK, LocalsOK, ReallocShrink
      <3>2. next_slot[This] # Data /\ NewEnd \in Units /\ NewEnd \in Ptrs
        BY <3>1, <2>19 DEF ReallocShrink, Units, Ptrs, Data
      <3>3. next_slot' \in [Units -> Units \cup {LIMIT, Data}]
        BY <3>1, <3>2, <2>19 DEF TypeInv, TypeOK, ReallocShrink, Store
      <3>4. /\ live' \in [Ptrs -> 0 .. SizeRange - 1 \cup {NoBlock}]
            /\ history' \subseteq {"lost", "stretch", "shrink", "wrap"}
        BY <2>19 DEF TypeInv, TypeOK, ReallocShrink, Wrapped
      <3> QED
        BY <3>2, <3>3, <3>4, <2>19
        DEF TypeInv, TypeOK, LocalsOK, ReallocShrink, Goto, Labels, statics, Ptrs, NULL
    <2>20. CASE ReallocKeep
      BY <2>20, NewSlotFacts
      DEF TypeInv, TypeOK, LocalsOK, NewEnd, This, UnitsNow, Ptrs, Links, NULL,
          ReallocKeep, Return, Wrapped, Goto, Labels, memory, statics, Links
    <2>21. CASE ReallocMove
      BY <2>21
      DEF TypeInv, TypeOK, LocalsOK, NewEnd, This, UnitsNow, Ptrs, Links, NULL,
          ReallocMove, Goto, Labels, memory, statics, locals
    <2>22. CASE ReallocCopy
      BY <2>22, NewSlotFacts
      DEF TypeInv, TypeOK, LocalsOK, NewEnd, This, UnitsNow, Ptrs, Links, NULL,
          ReallocCopy, Goto, Labels, memory, statics, locals
    <2>23. CASE ReallocFault
      BY <2>23
      DEF TypeInv, TypeOK, LocalsOK, NewEnd, This, UnitsNow, Ptrs, Links, NULL,
          ReallocFault, Goto, Labels, memory, statics, locals
    <2>24. CASE UNCHANGED vars
      BY <2>24 DEF TypeInv, TypeOK, LocalsOK, NewEnd, This, UnitsNow, vars, memory, statics, locals
    <2> QED
      BY <2>1, <2>2, <2>3, <2>4, <2>5, <2>6, <2>7, <2>8, <2>9, <2>10, <2>11, <2>12, <2>13,
         <2>14, <2>15, <2>16, <2>17, <2>18, <2>19, <2>20, <2>21, <2>22, <2>23, <2>24
      DEF Next, Client, Step
  <1>2. QED
    BY <1>1, InitTypeInv, PTL DEF Spec

\* Every variable keeps its type, after the arena is broken too (src/rtl/rtl_memory.c).
THEOREM TypeCorrect == Spec => []TypeOK
  BY TypeInvariant, PTL DEF TypeInv

-----------------------------------------------------------------------------
(***************************************************************************)
(* The heap.  SlotsOK is HeapInv's statement about memory, Walks what it   *)
(* says of the running call, both without the condition ~Broken.           *)
(***************************************************************************)
SlotsOK ==
    /\ free \cap Headers = {} /\ InHand \cap (free \cup Headers) = {}
    /\ \A s \in Slots : next_slot[s] \in s + 1 .. arena_brk
    /\ \A s, t \in Slots : s < t => next_slot[s] <= t
    /\ IsFirst(free_anchor, free)
    /\ \A f \in free : IsFirst(next_free[f], {g \in free : g > f})
    /\ \A f, g \in free : next_slot[f] # g
    /\ \A p \in Blocks : p + Need(live[p]) <= next_slot[p - 1]

Walks == WalkOK /\ MoveOK /\ TakenOK

LEMMA HeapInvIs == HeapInv <=> (~Broken => SlotsOK /\ Walks)
  BY DEF HeapInv, SlotsOK, Walks, SlotsDisjoint, FreeListSorted, Coalesced, BlocksFit

LEMMA InitHeapInv == Init => SlotsOK /\ Walks
  <1> SUFFICES ASSUME Init PROVE SlotsOK /\ Walks
    OBVIOUS
  <1>1. Blocks = {} /\ free = {} /\ Headers = {} /\ InHand = {} /\ Slots = {}
    BY DEF Init, Blocks, Headers, InHand, Slots
  <1> QED
    BY <1>1 DEF Init, SlotsOK, Walks, WalkOK, MoveOK, TakenOK, IsFirst

\* Where the slots are: units of the arena, below the break.
LEMMA SlotFacts ==
  ASSUME TypeInv
  PROVE  /\ \A p \in Blocks : p \in Ptrs /\ p - 1 \in Units /\ p - 1 \in Headers
                              /\ live[p] \in 0 .. SizeRange - 1
         /\ Headers \subseteq Units /\ free \subseteq Units
         /\ InHand \subseteq Units
         /\ Slots \subseteq Units
         /\ \A h \in Headers : h + 1 \in Blocks
  <1>1. /\ \A p \in Blocks : p \in Ptrs /\ p - 1 \in Units /\ p - 1 \in Headers
                             /\ live[p] \in 0 .. SizeRange - 1
        /\ Headers \subseteq Units /\ free \subseteq Units
        /\ \A h \in Headers : h + 1 \in Blocks
    BY ConstantFacts DEF TypeInv, TypeOK, Blocks, Headers, Ptrs, Units
  <1>2. InHand \subseteq Units
    BY ConstantFacts DEF TypeInv, TypeOK, LocalsOK, InHand, Ptrs, Units, This, Links, NULL
  <1> QED
    BY <1>1, <1>2 DEF Slots

\* Slots may change hands, what the client asked of them too, and the arena may grow
\* behind them: the headers are what matters.
LEMMA SameHeaders ==
  ASSUME TypeInv, SlotsOK,
         UNCHANGED <<free, free_anchor>>,
         arena_brk' \in Nat, arena_brk <= arena_brk',
         \A s \in Slots : next_slot'[s] = next_slot[s] /\ next_free'[s] = next_free[s],
         Headers' \cup InHand' \subseteq Headers \cup InHand,
         Headers' \cap InHand' = {},
         \A p \in Blocks' : p + Need(live'[p]) <= next_slot[p - 1]
  PROVE  SlotsOK'
  <1>1. Slots' \subseteq Slots /\ free \subseteq Slots
    BY DEF Slots
  <1>2. \A p \in Blocks' : p - 1 \in Slots
    <2>1. \A p \in Blocks' : p - 1 \in Headers'
      BY DEF Headers
    <2> QED
      BY <2>1 DEF Slots
  <1>3. free' \cap Headers' = {} /\ InHand' \cap (free' \cup Headers') = {}
    BY DEF SlotsOK
  <1>4. \A s \in Slots' : next_slot'[s] \in s + 1 .. arena_brk'
    <2>1. \A s \in Slots : s \in Nat /\ next_slot[s] \in s + 1 .. arena_brk
      BY SlotFacts, ConstantFacts DEF SlotsOK, Units
    <2>2. arena_brk \in Nat
      BY ConstantFacts DEF TypeInv, TypeOK, NULL
    <2> QED
      BY <1>1, <2>1, <2>2
  <1>5. \A s, t \in Slots' : s < t => next_slot'[s] <= t
    BY <1>1 DEF SlotsOK
  <1>6. IsFirst(free_anchor', free')
    BY DEF SlotsOK
  <1>7. \A f \in free' : IsFirst(next_free'[f], {g \in free' : g > f})
    BY <1>1 DEF SlotsOK
  <1>8. \A f, g \in free' : next_slot'[f] # g
    BY <1>1 DEF SlotsOK
  <1>9. \A p \in Blocks' : p + Need(live'[p]) <= next_slot'[p - 1]
    BY <1>2
  <1> QED
    BY <1>3, <1>4, <1>5, <1>6, <1>7, <1>8, <1>9 DEF SlotsOK, IsFirst

LEMMA QuietStep ==
  ASSUME TypeInv, SlotsOK,
         UNCHANGED <<memory, free_anchor, arena_brk, live, free>>, InHand' = InHand
  PROVE  SlotsOK'
  <1>0. arena_brk' \in Nat /\ arena_brk <= arena_brk'
    BY ConstantFacts DEF TypeInv, TypeOK, NULL
  <1>1. Blocks' = Blocks /\ Headers' = Headers
    BY DEF Blocks, Headers
  <1>2. /\ Headers \cap InHand = {}
        /\ \A p \in Blocks : p + Need(live[p]) <= next_slot[p - 1]
    BY DEF SlotsOK
  <1> QED
    BY <1>0, <1>1, <1>2, SameHeaders DEF memory

\* What the client writes is inside its blocks, so no slot's header.
LEMMA WritesMissHeaders ==
  ASSUME TypeInv, SlotsOK, ClientWrites
  PROVE  \A s \in Slots : next_slot'[s] = next_slot[s] /\ next_free'[s] = next_free[s]
  <1>1. ASSUME NEW s \in Slots, NEW p \in Blocks PROVE s \notin Owned(p)
    <2>1. /\ p - 1 \in Slots /\ s \in Int /\ p \in Int /\ Need(live[p]) \in Nat
          /\ next_slot[p - 1] \in Int
      <3>1. p - 1 \in Slots /\ p \in Ptrs /\ p - 1 \in Units /\ s \in Units
            /\ live[p] \in 0 .. SizeRange - 1
        BY SlotFacts DEF Slots
      <3>2. next_slot[p - 1] \in Units \cup {LIMIT, Data}
        BY <3>1 DEF TypeInv, TypeOK
      <3> QED
        BY <3>1, <3>2, ConstantFacts, UnitsOfFacts DEF Units, Ptrs, Data
    <2>2. p + Need(live[p]) <= next_slot[p - 1]
      BY DEF SlotsOK
    <2>3. p - 1 < s => next_slot[p - 1] <= s
      BY <2>1 DEF SlotsOK
    <2> QED
      BY <2>1, <2>2, <2>3 DEF Owned
  <1>2. Slots \subseteq Units
    BY SlotFacts
  <1> QED
    BY <1>1, <1>2 DEF ClientWrites

LEMMA ClientSteps ==
  ASSUME TypeInv, SlotsOK, pc = "client", Client
  PROVE  SlotsOK'
  <1>0. arena_brk' \in Nat /\ arena_brk <= arena_brk'
    BY ConstantFacts
    DEF TypeInv, TypeOK, NULL, Client, ClientAlloc, ClientFree, ClientRealloc, statics
  <1>1. InHand = {}
    BY DEF InHand
  <1>2. \A s \in Slots : next_slot'[s] = next_slot[s] /\ next_free'[s] = next_free[s]
    BY WritesMissHeaders DEF Client, ClientAlloc, ClientFree, ClientRealloc
  <1>3. /\ Headers \cap InHand = {}
        /\ \A p \in Blocks : p + Need(live[p]) <= next_slot[p - 1]
    BY DEF SlotsOK
  <1>4. CASE ClientAlloc \/ ClientRealloc
    <2>1. InHand' = {} /\ Blocks' = Blocks /\ Headers' = Headers /\ live' = live
      BY <1>4 DEF ClientAlloc, ClientRealloc, InHand, Blocks, Headers, Goto
    <2> QED
      BY <1>0, <1>1, <1>2, <1>3, <1>4, <2>1, SameHeaders DEF ClientAlloc, ClientRealloc, statics
  <1>5. CASE ClientFree
    <2>1. PICK p \in Blocks \cup {NULL} :
             /\ ptr' = p
             /\ live' = [q \in Ptrs |-> IF q = p THEN NoBlock ELSE live[q]]
      BY <1>5 DEF ClientFree
    <2>2. Blocks' = Blocks \ {p} /\ \A q \in Blocks' : live'[q] = live[q]
      BY <2>1 DEF Blocks
    <2>3. InHand' = IF p # NULL THEN {p - 1} ELSE {}
      BY <2>1, <1>5 DEF ClientFree, InHand, Goto, This
    <2>4. Headers' = {q - 1 : q \in Blocks \ {p}}
      BY <2>2 DEF Headers
    <2>5. \A q \in Blocks : q \in Int
      BY SlotFacts, ConstantFacts DEF Ptrs
    <2>6. Headers' \cup InHand' \subseteq Headers \cup InHand /\ Headers' \cap InHand' = {}
      BY <2>1, <2>3, <2>4, <2>5 DEF Headers
    <2> QED
      BY <1>0, <1>2, <1>3, <1>5, <2>2, <2>6, SameHeaders DEF ClientFree, statics
  <1> QED
    BY <1>4, <1>5 DEF Client

\* Pointer arithmetic that has not wrapped is arithmetic.
LEMMA NoWrapFacts ==
  ASSUME TypeInv
  PROVE  /\ UnitsNow \in Nat /\ UnitsNow >= 1
         /\ curr # NULL /\ NewSlot > curr => NewSlot = curr + UnitsNow
         /\ ptr # NULL /\ NewEnd > This => NewEnd = This + UnitsNow
  <1>1. UnitsNow \in Nat /\ UnitsNow >= 1 /\ UnitsNow <= ADDRS
    BY ConstantFacts, ConstantsAssumption
    DEF TypeInv, TypeOK, UnitsNow, UnitsOf, Wrap, UNIT_SIZE, SizeRange
  <1>2. /\ curr # NULL => curr \in Nat
        /\ ptr # NULL => This \in Nat
    BY NewSlotFacts, ConstantFacts DEF TypeInv, Units
  <1> QED
    BY <1>1, <1>2, ConstantFacts DEF NewSlot, NewEnd, Wrap

\* What rtl_alloc leaves of the slot curr: a slot of the size asked for, and TakeRest.
TakeRest == IF Splits THEN {NewSlot} ELSE {}

LEMMA TakeFacts ==
  ASSUME TypeInv, SlotsOK, Walks, AllocTake
  PROVE  /\ pc = "fit" /\ InHand = {} /\ curr # NULL
         /\ free' = (free \ {curr}) \cup TakeRest
         /\ arena_brk' = arena_brk
         /\ prev \in free \cup {NULL} /\ curr \in free
         /\ \A g \in free : g > prev => curr <= g
         /\ prev < curr
         /\ Slots \subseteq Units /\ curr \in Units /\ curr \in Slots /\ free \subseteq Slots
         /\ \A s \in Slots : s \in Nat /\ s > 0 /\ next_slot[s] \in Nat
         /\ prev \in Nat
         /\ NewSlot = curr + UnitsNow /\ UnitsNow \in Nat /\ UnitsNow >= 1
         /\ NewSlot \in Nat /\ NewSlot <= next_slot[curr]
         /\ next_slot[curr] \in curr + 1 .. arena_brk /\ arena_brk \in Nat /\ arena_brk <= LIMIT
         /\ Splits => NewSlot + 1 < next_slot[curr] /\ NewSlot \in Units
         /\ \A s \in Slots \ {curr} :
              IF s < curr THEN next_slot[s] <= curr ELSE s >= next_slot[curr]
         /\ \A s \in Slots \ {curr} : next_slot'[s] = next_slot[s]
         /\ next_slot'[curr] = IF Splits THEN NewSlot ELSE next_slot[curr]
         /\ Splits => next_slot'[NewSlot] = next_slot[curr]
         /\ \A f \in free \ {curr, prev} : next_free'[f] = next_free[f]
         /\ prev # NULL => next_free'[prev] = Rest
         /\ Splits => next_free'[NewSlot] = next_free[curr]
         /\ free_anchor' = IF prev # NULL THEN free_anchor ELSE Rest
         /\ Headers' \cup InHand' = Headers \cup {curr} /\ Headers' \cap InHand' = {}
         /\ Slots' = Slots \cup TakeRest
  <1> DEFINE e == next_slot[curr]
             N == IF Splits THEN {NewSlot} ELSE {}
  <1>1. /\ pc = "fit" /\ InHand = {} /\ curr # NULL
        /\ free' = (free \ {curr}) \cup N
        /\ arena_brk' = arena_brk
    BY DEF AllocTake, AtSlot, InHand
  <1>2. /\ prev \in free \cup {NULL} /\ curr \in free
        /\ \A g \in free : g > prev => curr <= g
        /\ prev < curr
    BY <1>1 DEF Walks, WalkOK, IsFirst
  <1>3. /\ Slots \subseteq Units /\ curr \in Units /\ curr \in Slots /\ free \subseteq Slots
        /\ \A s \in Slots : s \in Nat /\ s > 0 /\ next_slot[s] \in Nat
        /\ prev \in Nat
    <2>1. Slots \subseteq Units /\ free \subseteq Slots
      BY SlotFacts DEF Slots
    <2>2. \A s \in Slots : next_slot[s] \in s + 1 .. arena_brk
      BY DEF SlotsOK
    <2> QED
      BY <1>2, <2>1, <2>2, ConstantFacts DEF Units, NULL
  <1>4. /\ NewSlot = curr + UnitsNow /\ UnitsNow \in Nat /\ UnitsNow >= 1
        /\ NewSlot \in Nat /\ NewSlot <= e
        /\ e \in curr + 1 .. arena_brk /\ arena_brk \in Nat /\ arena_brk <= LIMIT
    <2>1. NewSlot > curr /\ next_slot[curr] >= NewSlot
      BY DEF AllocTake, AtSlot
    <2>2. arena_brk \in Nat /\ arena_brk <= LIMIT
      BY ConstantFacts DEF TypeInv, TypeOK, NULL
    <2>3. e \in curr + 1 .. arena_brk
      BY <1>3 DEF SlotsOK
    <2> QED
      BY <1>1, <1>3, <2>1, <2>2, <2>3, NoWrapFacts
  <1>5. Splits => NewSlot + 1 < e /\ NewSlot \in Units
    BY <1>3, <1>4, ConstantFacts DEF Splits, Units
  <1>6. \A s \in Slots \ {curr} : IF s < curr THEN next_slot[s] <= curr ELSE s >= e
    <2> SUFFICES ASSUME NEW s \in Slots \ {curr}
                 PROVE  IF s < curr THEN next_slot[s] <= curr ELSE s >= e
      OBVIOUS
    <2>1. s < curr => next_slot[s] <= curr
      BY <1>3 DEF SlotsOK
    <2>2. curr < s => e <= s
      BY <1>3 DEF SlotsOK
    <2> QED
      BY <1>3, <2>1, <2>2
  <1>7. /\ \A s \in Slots \ {curr} : next_slot'[s] = next_slot[s]
        /\ next_slot'[curr] = IF Splits THEN NewSlot ELSE e
        /\ Splits => next_slot'[NewSlot] = e
    <2>1. CASE Splits
      <3>1. next_slot' = Store(Store(next_slot, NewSlot, e), curr, NewSlot)
        BY <2>1 DEF AllocTake
      <3>2. NewSlot \notin Slots /\ NewSlot # curr
        BY <1>3, <1>4, <1>5, <1>6, <2>1
      <3> QED
        BY <1>3, <1>5, <2>1, <3>1, <3>2 DEF Store
    <2>2. CASE ~Splits
      BY <2>2 DEF AllocTake
    <2> QED
      BY <2>1, <2>2
  <1>8. /\ \A f \in free \ {curr, prev} : next_free'[f] = next_free[f]
        /\ prev # NULL => next_free'[prev] = Rest
        /\ Splits => next_free'[NewSlot] = next_free[curr]
        /\ free_anchor' = IF prev # NULL THEN free_anchor ELSE Rest
    <2>1. NewSlot # curr /\ prev # curr /\ NewSlot # prev /\ curr \in Units
      BY <1>2, <1>3, <1>4
    <2>2. Splits => NewSlot \notin Slots
      BY <1>3, <1>4, <1>5, <1>6
    <2> QED
      BY <1>2, <1>3, <1>5, <2>1, <2>2 DEF AllocTake, Store, NULL
  <1> HIDE DEF e
  <1>9. Headers' \cup InHand' = Headers \cup {curr} /\ Headers' \cap InHand' = {}
    <2>1. CASE ptr = NULL
      <3>1. live' = [live EXCEPT ![curr + 1] = size] /\ pc' = "client" /\ curr + 1 \in Ptrs
        BY <1>3, <2>1, ConstantFacts DEF AllocTake, Return, Goto, Ptrs, Units
      <3>2. Blocks' = Blocks \cup {curr + 1}
        BY <3>1, ConstantFacts DEF Blocks, TypeInv, TypeOK, NoBlock
      <3>3. Headers' = {p - 1 : p \in Blocks \cup {curr + 1}}
        BY <3>2 DEF Headers
      <3>4. (curr + 1) - 1 = curr
        BY <1>3
      <3>5. Headers' = Headers \cup {curr}
        BY <3>3, <3>4 DEF Headers
      <3> QED
        BY <3>1, <3>5 DEF InHand
    <2>2. CASE ptr # NULL
      <3>1. pc' = "copy" /\ curr' = curr /\ live' = live
        BY <2>2 DEF AllocTake, Goto, locals
      <3>2. Headers' = Headers /\ InHand' = {curr}
        BY <3>1 DEF Headers, Blocks, InHand
      <3> QED
        BY <3>2, <1>2 DEF SlotsOK
    <2> QED
      BY <2>1, <2>2
  <1>10. Slots' = Slots \cup N
    BY <1>1, <1>2, <1>9 DEF Slots
  <1> QED
    BY <1>1, <1>2, <1>3, <1>4, <1>5, <1>6, <1>7, <1>8, <1>9, <1>10
    DEF TakeRest, e

\* rtl_alloc takes the slot curr off the list, or its lower part.
LEMMA TakeKeepsSlots ==
  ASSUME TypeInv, SlotsOK, Walks, AllocTake, ~Wraps(size)
  PROVE  SlotsOK'
  <1> DEFINE e == next_slot[curr]
             N == IF Splits THEN {NewSlot} ELSE {}
  <1>1. /\ pc = "fit" /\ InHand = {} /\ curr # NULL
        /\ free' = (free \ {curr}) \cup N
        /\ arena_brk' = arena_brk
    BY TakeFacts DEF TakeRest
  <1>2. /\ prev \in free \cup {NULL} /\ curr \in free
        /\ \A g \in free : g > prev => curr <= g
        /\ prev < curr
    BY TakeFacts DEF TakeRest
  <1>3. /\ Slots \subseteq Units /\ curr \in Units /\ curr \in Slots /\ free \subseteq Slots
        /\ \A s \in Slots : s \in Nat /\ s > 0 /\ next_slot[s] \in Nat
        /\ prev \in Nat
    BY TakeFacts DEF TakeRest
  <1>4. /\ NewSlot = curr + UnitsNow /\ UnitsNow \in Nat /\ UnitsNow >= 1
        /\ NewSlot \in Nat /\ NewSlot <= e
        /\ e \in curr + 1 .. arena_brk /\ arena_brk \in Nat /\ arena_brk <= LIMIT
    BY TakeFacts DEF TakeRest
  <1>5. Splits => NewSlot + 1 < e /\ NewSlot \in Units
    BY TakeFacts DEF TakeRest
  <1>6. \A s \in Slots \ {curr} : IF s < curr THEN next_slot[s] <= curr ELSE s >= e
    BY TakeFacts DEF TakeRest
  <1>7. /\ \A s \in Slots \ {curr} : next_slot'[s] = next_slot[s]
        /\ next_slot'[curr] = IF Splits THEN NewSlot ELSE e
        /\ Splits => next_slot'[NewSlot] = e
    BY TakeFacts DEF TakeRest
  <1>8. /\ \A f \in free \ {curr, prev} : next_free'[f] = next_free[f]
        /\ prev # NULL => next_free'[prev] = Rest
        /\ Splits => next_free'[NewSlot] = next_free[curr]
        /\ free_anchor' = IF prev # NULL THEN free_anchor ELSE Rest
    BY TakeFacts DEF TakeRest
  <1> HIDE DEF e
  <1>9. Headers' \cup InHand' = Headers \cup {curr} /\ Headers' \cap InHand' = {}
    BY TakeFacts DEF TakeRest
  <1>10. Slots' = Slots \cup N
    BY TakeFacts DEF TakeRest
  <1>11. free' \cap Headers' = {} /\ InHand' \cap (free' \cup Headers') = {}
    <2>1. free' \cap (Headers \cup {curr}) = {}
      <3>1. free \cap Headers = {}
        BY DEF SlotsOK
      <3>2. N \cap (Slots \cup {curr}) = {}
        BY <1>3, <1>4, <1>5, <1>6
      <3> QED
        BY <1>1, <3>1, <3>2 DEF Slots
    <2> QED
      BY <1>9, <2>1
  <1>12. \A s \in Slots' : next_slot'[s] \in s + 1 .. arena_brk'
    <2>1. \A s \in Slots \ {curr} : next_slot'[s] \in s + 1 .. arena_brk
      BY <1>7 DEF SlotsOK
    <2> QED
      BY <1>1, <1>3, <1>4, <1>5, <1>7, <1>10, <2>1
  <1>13. \A s, t \in Slots' : s < t => next_slot'[s] <= t
    <2> SUFFICES ASSUME NEW s \in Slots', NEW t \in Slots', s < t
                 PROVE  next_slot'[s] <= t
      OBVIOUS
    <2>1. CASE s \in Slots \ {curr} /\ t \in Slots
      BY <1>7, <2>1 DEF SlotsOK
    <2>2. CASE s \in Slots \ {curr} /\ t \in N
      BY <1>3, <1>4, <1>5, <1>6, <1>7, <2>2
    <2>3. CASE s = curr
      BY <1>3, <1>4, <1>5, <1>6, <1>7, <1>10, <2>3
    <2>4. CASE s \in N
      BY <1>3, <1>4, <1>5, <1>6, <1>7, <1>10, <2>4
    <2> QED
      BY <1>10, <2>1, <2>2, <2>3, <2>4
  <1>14. \A g \in free : IF g < curr THEN g <= prev ELSE g = curr \/ g >= e
    BY <1>2, <1>3, <1>6
  <1>15. /\ IsFirst(next_free[curr], {g \in free : g > curr})
         /\ IsFirst(Rest, {g \in free' : g > prev})
    <2>1. IsFirst(next_free[curr], {g \in free : g > curr})
      BY <1>2 DEF SlotsOK
    <2>2. CASE Splits
      <3>1. Rest = NewSlot /\ NewSlot \in free' /\ NewSlot > prev
        BY <1>1, <1>2, <1>3, <1>4, <2>2 DEF Rest
      <3>2. \A g \in free' : g > prev => NewSlot <= g
        BY <1>1, <1>2, <1>3, <1>4, <1>14, <2>2
      <3>3. Rest \in {g \in free' : g > prev}
        BY <3>1
      <3>4. \A g \in {h \in free' : h > prev} : Rest <= g
        BY <3>1, <3>2
      <3> QED
        BY <2>1, <3>3, <3>4 DEF IsFirst
    <2>3. CASE ~Splits
      <3>1. Rest = next_free[curr] /\ free' = free \ {curr}
        BY <1>1, <2>3 DEF Rest
      <3>2. \A g \in free : g > prev /\ g # curr <=> g > curr
        BY <1>2, <1>3
      <3>3. {g \in free' : g > prev} = {g \in free : g > curr}
        BY <3>1, <3>2, <1>3
      <3> QED
        BY <2>1, <3>1, <3>3
    <2> QED
      BY <2>1, <2>2, <2>3
  <1>16. \A f \in free : f > prev => IsFirst(next_free[f], {g \in free' : g > f}) \/ f = curr
    <2> SUFFICES ASSUME NEW f \in free, f > prev, f # curr
                 PROVE  IsFirst(next_free[f], {g \in free' : g > f})
      OBVIOUS
    <2>1. {g \in free' : g > f} = {g \in free : g > f}
      BY <1>1, <1>2, <1>3, <1>4, <1>5, <1>14
    <2> QED
      BY <2>1 DEF SlotsOK
  <1>17. \A f \in free : f < prev => IsFirst(next_free[f], {g \in free' : g > f})
    <2> SUFFICES ASSUME NEW f \in free, f < prev
                 PROVE  IsFirst(next_free[f], {g \in free' : g > f})
      OBVIOUS
    <2>1. prev \in free /\ prev > f
      BY <1>2, <1>3 DEF NULL
    <2>2. /\ next_free[f] \in free /\ next_free[f] > f /\ next_free[f] <= prev
          /\ \A g \in free : g > f => next_free[f] <= g
      BY <2>1 DEF SlotsOK, IsFirst
    <2>3. next_free[f] \in free'
      BY <1>1, <1>2, <1>3, <2>1, <2>2
    <2>4. ASSUME NEW g \in free', g > f PROVE next_free[f] <= g
      <3>1. CASE g \in free
        BY <2>2, <2>4, <3>1
      <3>2. CASE g \in N
        <4>1. next_free[f] \in Slots /\ curr \in Slots /\ prev \in Nat
          BY <1>3, <2>2
        <4>2. next_free[f] \in Nat /\ curr \in Nat
          BY <1>3, <4>1
        <4>3. next_free[f] < curr
          BY <1>2, <2>2, <4>1, <4>2
        <4> QED
          BY <1>4, <3>2, <4>2, <4>3
      <3> QED
        BY <1>1, <3>1, <3>2
    <2> QED
      BY <2>2, <2>3, <2>4 DEF IsFirst
  <1>18. Splits => IsFirst(next_free[curr], {g \in free' : g > NewSlot})
    <2> SUFFICES ASSUME Splits PROVE {g \in free' : g > NewSlot} = {g \in free : g > curr}
      BY <1>15
    <2> QED
      BY <1>1, <1>3, <1>4, <1>5, <1>14
  <1>19. \A f \in free' : IsFirst(next_free'[f], {g \in free' : g > f})
    <2> SUFFICES ASSUME NEW f \in free' PROVE IsFirst(next_free'[f], {g \in free' : g > f})
      OBVIOUS
    <2>1. CASE f \in N
      BY <1>8, <1>18, <2>1
    <2>2. CASE f = prev /\ prev # NULL
      BY <1>8, <1>15, <2>2
    <2>3. CASE f \in free \ {curr} /\ f # prev
      <3>1. next_free'[f] = next_free[f]
        BY <1>8, <2>3
      <3>2. f > prev \/ f < prev
        BY <1>2, <1>3, <2>3 DEF NULL
      <3> QED
        BY <1>16, <1>17, <2>3, <3>1, <3>2
    <2>4. prev = NULL => prev \notin free
      BY <1>3 DEF NULL
    <2> QED
      BY <1>1, <2>1, <2>2, <2>3, <2>4
  <1>20. IsFirst(free_anchor', free')
    <2>1. CASE prev = NULL
      <3>1. {g \in free' : g > prev} = free'
        BY <1>1, <1>3, <1>4, <2>1 DEF NULL
      <3> QED
        BY <1>8, <1>15, <2>1, <3>1
    <2>2. CASE prev # NULL
      <3>1. free_anchor \in free /\ \A g \in free : free_anchor <= g
        BY <1>2 DEF SlotsOK, IsFirst
      <3>2. free_anchor \in free' /\ \A g \in free' : free_anchor <= g
        BY <1>1, <1>2, <1>3, <1>4, <2>2, <3>1
      <3> QED
        BY <1>8, <2>2, <3>2 DEF IsFirst
    <2> QED
      BY <2>1, <2>2
  <1>21. \A f, g \in free' : next_slot'[f] # g
    <2> SUFFICES ASSUME NEW f \in free', NEW g \in free' PROVE next_slot'[f] # g
      OBVIOUS
    <2>1. CASE f \in free \ {curr} /\ g \in free
      BY <1>3, <1>7, <2>1 DEF SlotsOK
    <2>2. CASE f \in free \ {curr} /\ g \in N
      <3>1. next_slot'[f] = next_slot[f] /\ next_slot[f] \in Nat /\ f \in Nat
        BY <1>3, <1>7, <2>2
      <3>2. f < curr => next_slot[f] <= curr
        BY <1>3, <1>6, <2>2
      <3>3. f >= curr => f >= e /\ next_slot[f] > f
        BY <1>3, <1>6, <2>2 DEF SlotsOK
      <3> QED
        BY <1>3, <1>4, <1>5, <2>2, <3>1, <3>2, <3>3
    <2>3. CASE f \in N
      <3>1. next_slot'[f] = e /\ f = NewSlot
        BY <1>7, <2>3
      <3>2. \A h \in free : e # h
        BY <1>2 DEF SlotsOK, e
      <3> QED
        BY <1>1, <1>4, <1>5, <2>3, <3>1, <3>2
    <2> QED
      BY <1>1, <2>1, <2>2, <2>3
  <1>22. \A p \in Blocks' : p + Need(live'[p]) <= next_slot'[p - 1]
    <2> SUFFICES ASSUME NEW p \in Blocks' PROVE p + Need(live'[p]) <= next_slot'[p - 1]
      OBVIOUS
    <2>1. CASE p \in Blocks /\ live'[p] = live[p]
      <3>1. p - 1 \in Slots \ {curr}
        BY <1>2, <2>1, SlotFacts DEF Slots, SlotsOK
      <3> QED
        BY <1>7, <2>1, <3>1 DEF SlotsOK
    <2>2. CASE p = curr + 1 /\ live'[p] = size
      <3>1. UnitsNow = Need(size) + 1 /\ Need(size) \in Nat
        BY UnitsOfFacts DEF TypeInv, TypeOK, UnitsNow
      <3>2. p - 1 = curr
        BY <1>3, <2>2
      <3>3. next_slot'[curr] >= NewSlot
        BY <1>4, <1>7
      <3> QED
        BY <1>3, <1>4, <2>2, <3>1, <3>2, <3>3
    <2> QED
      <3>1. CASE ptr = NULL
        BY <2>1, <2>2, <3>1 DEF AllocTake, Blocks, TypeInv, TypeOK
      <3>2. CASE ptr # NULL
        BY <2>1, <3>2 DEF AllocTake, Blocks, TypeInv, TypeOK
      <3> QED
        BY <3>1, <3>2
  <1> QED
    BY <1>11, <1>12, <1>13, <1>19, <1>20, <1>21, <1>22 DEF SlotsOK

\* What rtl_free leaves: the slot InsertSlot, one of its own or the one before it, which ends
\* at MergedEnd and is followed on the list by InsertNext; the slots InsertGone are merged.
InsertSlot == IF MergesUp THEN prev ELSE This
InsertDown == IF MergesDown THEN {curr} ELSE {}
InsertGone == (IF MergesUp THEN {This} ELSE {}) \cup InsertDown
InsertNext == IF MergesDown THEN next_free[curr] ELSE curr

LEMMA InsertFacts ==
  ASSUME TypeInv, SlotsOK, Walks, FreeInsert
  PROVE  /\ pc = "insert" /\ ptr # NULL /\ InHand = {This} /\ InHand' = {}
         /\ free' = (free \cup {InsertSlot}) \ InsertDown
         /\ arena_brk' = arena_brk /\ live' = live /\ Blocks' = Blocks /\ Headers' = Headers
         /\ free_anchor' = IF prev = NULL THEN This ELSE free_anchor
         /\ This \in Slots /\ This \notin free /\ This \notin Headers
         /\ free \subseteq Slots /\ Headers \subseteq Slots /\ Slots \subseteq Units
         /\ Slots = free \cup Headers \cup {This}
         /\ \A s \in Slots : s \in Nat /\ s > 0 /\ next_slot[s] \in Nat /\ next_slot[s] > s
                             /\ next_slot[s] <= arena_brk
         /\ prev \in free \cup {NULL} /\ prev \in Nat /\ prev < This
         /\ prev # NULL => prev \in free /\ prev \in Slots
         /\ IsFirst(curr, {g \in free : g > prev})
         /\ curr = NULL \/ (curr \in free /\ curr \in Slots /\ curr > This)
         /\ \A g \in free : g > prev => curr # NULL /\ curr <= g
         /\ \A g \in free : g # This /\ (g > This => g > prev) /\ (g > prev => g > This)
         /\ MergesUp => prev \in free /\ prev \in Slots /\ next_slot[prev] = This
         /\ MergesDown => curr \in free /\ curr \in Slots /\ next_slot[This] = curr
         /\ InsertSlot \in Slots /\ InsertSlot \in Nat /\ InsertSlot <= This /\ InsertSlot >= prev
         /\ InsertSlot \in free' /\ InsertSlot \notin Headers
         /\ Slots' = Slots \ InsertGone
         /\ InsertSlot \notin InsertGone
         /\ next_slot'[InsertSlot] = MergedEnd
         /\ \A s \in Slots' \ {InsertSlot} : next_slot'[s] = next_slot[s]
         /\ next_free'[InsertSlot] = InsertNext
         /\ ~MergesUp /\ prev # NULL => next_free'[prev] = This
         /\ \A s \in Slots' \ {InsertSlot, prev} : next_free'[s] = next_free[s]
  <1> DEFINE slot == IF MergesUp THEN prev ELSE This
             gone == (IF MergesUp THEN {This} ELSE {}) \cup (IF MergesDown THEN {curr} ELSE {})
             D == IF MergesDown THEN {curr} ELSE {}
             next == IF MergesDown THEN next_free[curr] ELSE curr
  <1>1. /\ pc = "insert" /\ ptr # NULL /\ InHand = {This} /\ InHand' = {}
        /\ free' = (free \cup {slot}) \ D
        /\ arena_brk' = arena_brk /\ live' = live /\ Blocks' = Blocks /\ Headers' = Headers
        /\ free_anchor' = IF prev = NULL THEN This ELSE free_anchor
    BY DEF FreeInsert, Return, Goto, InHand, TypeInv, LocalsOK, Blocks, Headers
  <1>2. /\ This \in Slots /\ This \notin free /\ This \notin Headers
        /\ free \subseteq Slots /\ Headers \subseteq Slots /\ Slots \subseteq Units
        /\ Slots = free \cup Headers \cup {This}
    BY <1>1, SlotFacts DEF Slots, SlotsOK
  <1>3. \A s \in Slots : s \in Nat /\ s > 0 /\ next_slot[s] \in Nat /\ next_slot[s] > s
                         /\ next_slot[s] <= arena_brk
    <2>1. arena_brk \in Nat
      BY ConstantFacts DEF TypeInv, TypeOK, NULL
    <2>2. \A s \in Slots : next_slot[s] \in s + 1 .. arena_brk
      BY DEF SlotsOK
    <2> QED
      BY <1>2, <2>1, <2>2, ConstantFacts DEF Units
  <1>4. /\ prev \in free \cup {NULL} /\ prev \in Nat /\ prev < This
        /\ prev # NULL => prev \in free /\ prev \in Slots
        /\ IsFirst(curr, {g \in free : g > prev})
    BY <1>1, <1>2, <1>3 DEF Walks, WalkOK, NULL
  <1>5. /\ curr = NULL \/ (curr \in free /\ curr \in Slots /\ curr > This)
        /\ \A g \in free : g > prev => curr # NULL /\ curr <= g
    <2>1. curr = NULL \/ (curr \in free /\ curr \in Slots)
      BY <1>2, <1>4 DEF IsFirst
    <2>2. curr # NULL => curr > This
      <3>1. curr = NULL \/ ~(curr < This)
        BY DEF FreeInsert, Walking
      <3> QED
        BY <1>2, <1>3, <2>1, <3>1
    <2>3. ASSUME NEW g \in free, g > prev PROVE curr # NULL /\ curr <= g
      BY <1>2, <1>3, <1>4, <2>3 DEF IsFirst, NULL
    <2> QED
      BY <2>1, <2>2, <2>3
  <1>6. \A g \in free : g # This /\ (g > This => g > prev) /\ (g > prev => g > This)
    <2> SUFFICES ASSUME NEW g \in free
                 PROVE  g # This /\ (g > This => g > prev) /\ (g > prev => g > This)
      OBVIOUS
    <2>1. g # This /\ g \in Nat /\ This \in Nat
      BY <1>2, <1>3
    <2>2. g > prev => curr <= g /\ curr > This /\ curr \in Nat
      BY <1>3, <1>5
    <2> QED
      BY <1>4, <2>1, <2>2
  <1>7. /\ MergesUp => prev \in free /\ prev \in Slots /\ next_slot[prev] = This
        /\ MergesDown => curr \in free /\ curr \in Slots /\ next_slot[This] = curr
        /\ slot \in Slots /\ slot \in Nat /\ slot <= This /\ slot >= prev
        /\ slot \in free' /\ slot \notin Headers
    <2>1. /\ MergesUp => prev \in free /\ prev \in Slots /\ next_slot[prev] = This
          /\ MergesDown => curr \in free /\ curr \in Slots /\ next_slot[This] = curr
      BY <1>4, <1>5 DEF MergesUp, MergesDown
    <2>2. slot \in Slots /\ slot \in Nat /\ slot <= This /\ slot >= prev
      BY <1>2, <1>3, <1>4, <2>1
    <2>3. slot \notin D
      BY <1>2, <1>3, <1>5, <2>1, <2>2
    <2>4. free \cap Headers = {}
      BY DEF SlotsOK
    <2> QED
      BY <1>1, <1>2, <2>1, <2>2, <2>3, <2>4
  <1>8. /\ Slots' = Slots \ gone
        /\ slot \notin gone
    <2>1. slot \notin gone
      BY <1>2, <1>3, <1>4, <1>5, <1>7
    <2>2. Slots' = free' \cup Headers
      BY <1>1 DEF Slots
    <2>3. D \cap Headers = {} /\ This \notin Headers
      BY <1>2, <1>7 DEF SlotsOK
    <2>4. MergesUp => free' = free \ D
      BY <1>1, <1>7
    <2>5. ~MergesUp => free' = (free \cup {This}) \ D
      BY <1>1
    <2> QED
      BY <1>2, <1>7, <2>1, <2>2, <2>3, <2>4, <2>5
  <1>9. /\ next_slot'[slot] = MergedEnd
        /\ \A s \in Slots' \ {slot} : next_slot'[s] = next_slot[s]
        /\ next_free'[slot] = next
        /\ ~MergesUp /\ prev # NULL => next_free'[prev] = This
        /\ \A s \in Slots' \ {slot, prev} : next_free'[s] = next_free[s]
    <2>1. /\ next_slot' = [a \in Units |-> IF a \in gone THEN Data
                                           ELSE Store(next_slot, slot, MergedEnd)[a]]
          /\ next_free' = [a \in Units |-> IF a \in gone THEN Data
               ELSE Store(IF prev # NULL THEN Store(next_free, prev, This) ELSE next_free,
                          slot, next)[a]]
      BY DEF FreeInsert
    <2>2. /\ slot \in Units /\ \A s \in Slots' : s \in Units /\ s \notin gone
          /\ prev # NULL => prev \in Units /\ prev \notin gone
      <3>1. prev # NULL => prev \notin gone
        BY <1>2, <1>3, <1>4, <1>5, <1>7
      <3> QED
        BY <1>2, <1>4, <1>7, <1>8, <3>1
    <2> HIDE DEF slot, gone, next
    <2>3. /\ next_slot'[slot] = MergedEnd
          /\ \A s \in Slots' \ {slot} : next_slot'[s] = next_slot[s]
      BY <1>8, <2>1, <2>2 DEF Store
    <2>4. next_free'[slot] = next
      BY <1>8, <2>1, <2>2 DEF Store
    <2>5. ~MergesUp /\ prev # NULL => next_free'[prev] = This
      <3>1. ~MergesUp => prev # slot
        BY <1>4, <1>2, <1>3 DEF slot
      <3> QED
        BY <2>1, <2>2, <3>1 DEF Store
    <2>6. \A s \in Slots' \ {slot, prev} : next_free'[s] = next_free[s]
      BY <2>1, <2>2 DEF Store
    <2> QED
      BY <2>3, <2>4, <2>5, <2>6
  <1> QED
    BY <1>1, <1>2, <1>3, <1>4, <1>5, <1>6, <1>7, <1>8, <1>9
    DEF InsertSlot, InsertDown, InsertGone, InsertNext

\* rtl_free links the block into the list and merges it with the free slots it touches.
LEMMA InsertKeepsSlots ==
  ASSUME TypeInv, SlotsOK, Walks, FreeInsert
  PROVE  SlotsOK'
  <1> DEFINE slot == IF MergesUp THEN prev ELSE This
             gone == (IF MergesUp THEN {This} ELSE {}) \cup (IF MergesDown THEN {curr} ELSE {})
             D == IF MergesDown THEN {curr} ELSE {}
             next == IF MergesDown THEN next_free[curr] ELSE curr
  <1>1. /\ pc = "insert" /\ ptr # NULL /\ InHand = {This} /\ InHand' = {}
        /\ free' = (free \cup {slot}) \ D
        /\ arena_brk' = arena_brk /\ live' = live /\ Blocks' = Blocks /\ Headers' = Headers
        /\ free_anchor' = IF prev = NULL THEN This ELSE free_anchor
    BY InsertFacts DEF InsertSlot, InsertDown, InsertGone, InsertNext
  <1>2. /\ This \in Slots /\ This \notin free /\ This \notin Headers
        /\ free \subseteq Slots /\ Headers \subseteq Slots /\ Slots \subseteq Units
        /\ Slots = free \cup Headers \cup {This}
    BY InsertFacts DEF InsertSlot, InsertDown, InsertGone, InsertNext
  <1>3. \A s \in Slots : s \in Nat /\ s > 0 /\ next_slot[s] \in Nat /\ next_slot[s] > s
                         /\ next_slot[s] <= arena_brk
    BY InsertFacts DEF InsertSlot, InsertDown, InsertGone, InsertNext
  <1>4. /\ prev \in free \cup {NULL} /\ prev \in Nat /\ prev < This
        /\ prev # NULL => prev \in free /\ prev \in Slots
        /\ IsFirst(curr, {g \in free : g > prev})
    BY InsertFacts DEF InsertSlot, InsertDown, InsertGone, InsertNext
  <1>5. /\ curr = NULL \/ (curr \in free /\ curr \in Slots /\ curr > This)
        /\ \A g \in free : g > prev => curr # NULL /\ curr <= g
    BY InsertFacts DEF InsertSlot, InsertDown, InsertGone, InsertNext
  <1>6. \A g \in free : g # This /\ (g > This => g > prev) /\ (g > prev => g > This)
    BY InsertFacts DEF InsertSlot, InsertDown, InsertGone, InsertNext
  <1>7. /\ MergesUp => prev \in free /\ prev \in Slots /\ next_slot[prev] = This
        /\ MergesDown => curr \in free /\ curr \in Slots /\ next_slot[This] = curr
        /\ slot \in Slots /\ slot \in Nat /\ slot <= This /\ slot >= prev
        /\ slot \in free' /\ slot \notin Headers
    BY InsertFacts DEF InsertSlot, InsertDown, InsertGone, InsertNext
  <1>8. /\ Slots' = Slots \ gone
        /\ slot \notin gone
    BY InsertFacts DEF InsertSlot, InsertDown, InsertGone, InsertNext
  <1>9. /\ next_slot'[slot] = MergedEnd
        /\ \A s \in Slots' \ {slot} : next_slot'[s] = next_slot[s]
        /\ next_free'[slot] = next
        /\ ~MergesUp /\ prev # NULL => next_free'[prev] = This
        /\ \A s \in Slots' \ {slot, prev} : next_free'[s] = next_free[s]
    BY InsertFacts DEF InsertSlot, InsertDown, InsertGone, InsertNext
  <1>10. /\ MergedEnd \in Nat /\ MergedEnd > This /\ MergedEnd > slot /\ MergedEnd <= arena_brk
         /\ MergedEnd >= next_slot[This]
    BY <1>2, <1>3, <1>5, <1>7 DEF MergedEnd
  <1>11. \A s \in Slots' : s > slot => s >= MergedEnd
    <2> SUFFICES ASSUME NEW s \in Slots', s > slot PROVE s >= MergedEnd
      OBVIOUS
    <2>1. s \in Slots /\ s \notin gone /\ s \in Nat
      BY <1>3, <1>8
    <2>2. s > This
      <3>1. CASE MergesUp
        <4>1. prev < s /\ s # This
          BY <2>1, <3>1
        <4>2. next_slot[prev] <= s
          BY <1>7, <2>1, <3>1, <4>1 DEF SlotsOK
        <4> QED
          BY <1>2, <1>3, <1>7, <2>1, <3>1, <4>1, <4>2
      <3>2. CASE ~MergesUp
        BY <3>2
      <3> QED
        BY <3>1, <3>2
    <2>3. next_slot[This] <= s
      BY <1>2, <2>1, <2>2 DEF SlotsOK
    <2>4. CASE MergesDown
      <3>1. curr < s
        <4>1. s # curr /\ curr \in Nat
          BY <1>3, <1>7, <2>1, <2>4
        <4> QED
          BY <1>7, <2>1, <2>3, <2>4, <4>1
      <3>2. next_slot[curr] <= s
        BY <1>7, <2>1, <2>4, <3>1 DEF SlotsOK
      <3> QED
        BY <1>3, <1>7, <2>1, <2>4, <3>2 DEF MergedEnd
    <2>5. CASE ~MergesDown
      BY <1>2, <1>3, <2>1, <2>3, <2>5 DEF MergedEnd
    <2> QED
      BY <2>4, <2>5
  <1> HIDE DEF slot
  <1>12. free' \cap Headers' = {} /\ InHand' \cap (free' \cup Headers') = {}
    BY <1>1, <1>7 DEF SlotsOK
  <1>13. \A s \in Slots' : next_slot'[s] \in s + 1 .. arena_brk'
    BY <1>1, <1>3, <1>7, <1>8, <1>9, <1>10
  <1>14. \A s, t \in Slots' : s < t => next_slot'[s] <= t
    <2> SUFFICES ASSUME NEW s \in Slots', NEW t \in Slots', s < t PROVE next_slot'[s] <= t
      OBVIOUS
    <2>1. CASE s = slot
      BY <1>3, <1>8, <1>9, <1>10, <1>11, <2>1
    <2>2. CASE s # slot
      BY <1>8, <1>9, <2>2 DEF SlotsOK
    <2> QED
      BY <2>1, <2>2
  <1>15. \A g \in free' : g > slot => g \in free /\ g > prev /\ g > This
    BY <1>1, <1>3, <1>4, <1>6, <1>7, <1>2 DEF slot
  <1>16. IsFirst(next, {g \in free' : g > slot})
    <2>1. CASE MergesDown
      <3>1. IsFirst(next_free[curr], {g \in free : g > curr})
        BY <1>7, <2>1 DEF SlotsOK
      <3>2. \A g \in free : g > curr <=> (g > prev /\ g # curr)
        BY <1>2, <1>3, <1>4, <1>5, <1>6, <1>7, <2>1
      <3>3. {g \in free' : g > slot} = {g \in free : g > curr}
        <4>1. \A g \in free' : g > slot => g \in free /\ g > curr
          BY <1>1, <1>15, <2>1, <3>2
        <4>2. \A g \in free : g > curr => g \in free' /\ g > slot
          <5> SUFFICES ASSUME NEW g \in free, g > curr PROVE g \in free' /\ g > slot
            OBVIOUS
          <5>1. g \in Nat /\ curr \in Nat /\ curr > This /\ This \in Nat /\ g # curr
            BY <1>2, <1>3, <1>5, <1>7, <2>1
          <5> QED
            BY <1>1, <1>7, <5>1
        <4> QED
          BY <4>1, <4>2, <1>1
      <3> QED
        BY <2>1, <3>1, <3>3
    <2>2. CASE ~MergesDown
      <3>1. \A g \in free : g > prev => g \in free' /\ g > slot
        <4> SUFFICES ASSUME NEW g \in free, g > prev PROVE g \in free' /\ g > slot
          OBVIOUS
        <4>1. g > This /\ g \in Nat /\ This \in Nat
          BY <1>2, <1>3, <1>6
        <4> QED
          BY <1>1, <1>7, <2>2, <4>1
      <3>2. {g \in free' : g > slot} = {g \in free : g > prev}
        BY <1>15, <3>1
      <3> QED
        BY <1>4, <2>2, <3>2
    <2> QED
      BY <2>1, <2>2
  <1>17. \A f \in free : f < prev => IsFirst(next_free[f], {g \in free' : g > f})
    <2> SUFFICES ASSUME NEW f \in free, f < prev
                 PROVE  IsFirst(next_free[f], {g \in free' : g > f})
      OBVIOUS
    <2>1. prev \in free /\ prev > f /\ f \in Nat
      BY <1>2, <1>3, <1>4 DEF NULL
    <2>2. /\ next_free[f] \in free /\ next_free[f] > f /\ next_free[f] <= prev
          /\ \A g \in free : g > f => next_free[f] <= g
      BY <2>1 DEF SlotsOK, IsFirst
    <2>3. next_free[f] \in Nat
      BY <1>2, <1>3, <2>2
    <2>4. next_free[f] \in free'
      BY <1>1, <1>2, <1>3, <1>4, <1>5, <1>7, <2>2, <2>3
    <2>5. ASSUME NEW g \in free', g > f PROVE next_free[f] <= g
      <3>1. CASE g \in free
        BY <2>2, <2>5, <3>1
      <3>2. CASE g = slot
        BY <1>4, <1>7, <2>2, <2>3, <3>2
      <3> QED
        BY <1>1, <3>1, <3>2
    <2> QED
      BY <2>2, <2>4, <2>5 DEF IsFirst
  <1>18. \A f \in free' : f > slot => IsFirst(next_free[f], {g \in free' : g > f})
    <2> SUFFICES ASSUME NEW f \in free', f > slot
                 PROVE  IsFirst(next_free[f], {g \in free' : g > f})
      OBVIOUS
    <2>1. f \in free /\ f > prev /\ f > This /\ f \in Nat /\ f # slot
      BY <1>2, <1>3, <1>7, <1>15
    <2>2. curr # NULL /\ curr <= f /\ curr \in Nat
      BY <1>3, <1>5, <2>1
    <2>3. {g \in free' : g > f} = {g \in free : g > f}
      <3>1. \A g \in free' : g > f => g \in free
        BY <1>1, <1>7, <2>1
      <3>2. \A g \in free : g > f => g \in free'
        BY <1>1, <1>2, <1>3, <2>1, <2>2
      <3> QED
        BY <3>1, <3>2
    <2> QED
      BY <2>1, <2>3 DEF SlotsOK
  <1>19. \A g \in free' : g > prev /\ ~MergesUp => This <= g
    BY <1>1, <1>2, <1>3, <1>6 DEF slot
  <1>20. \A f \in free' : IsFirst(next_free'[f], {g \in free' : g > f})
    <2> SUFFICES ASSUME NEW f \in free' PROVE IsFirst(next_free'[f], {g \in free' : g > f})
      OBVIOUS
    <2>0. f \in Slots' /\ f \in Nat
      BY <1>3, <1>8 DEF Slots
    <2>1. CASE f = slot
      BY <1>9, <1>16, <2>1
    <2>2. CASE f = prev /\ f # slot
      <3>1. ~MergesUp /\ prev # NULL /\ slot = This
        BY <1>3, <1>8, <2>0, <2>2 DEF slot, NULL
      <3>2. next_free'[f] = This
        BY <1>9, <2>2, <3>1
      <3>3. This \in {g \in free' : g > f} /\ \A g \in {h \in free' : h > f} : This <= g
        BY <1>4, <1>7, <1>19, <2>2, <3>1
      <3> QED
        BY <3>2, <3>3 DEF IsFirst
    <2>3. CASE f # prev /\ f # slot
      <3>1. next_free'[f] = next_free[f]
        BY <1>9, <2>0, <2>3
      <3>2. f \in free
        BY <1>1, <2>3
      <3>3. f < prev \/ f > slot
        <4>1. f > prev => f > This
          BY <1>6, <3>2
        <4> QED
          BY <1>2, <1>3, <1>4, <1>7, <2>0, <2>3, <4>1
      <3> QED
        BY <1>17, <1>18, <3>1, <3>2, <3>3
    <2> QED
      BY <2>1, <2>2, <2>3
  <1>21. IsFirst(free_anchor', free')
    <2>1. CASE prev = NULL
      <3>1. free_anchor' = This /\ slot = This /\ This \in free'
        BY <1>1, <1>7, <2>1 DEF slot, MergesUp
      <3>2. ~MergesUp /\ \A g \in free' : g > prev
        <4>1. \A g \in free' : g \in Slots /\ g > 0
          BY <1>1, <1>2, <1>3, <1>7
        <4> QED
          BY <2>1, <4>1 DEF MergesUp, NULL
      <3> QED
        BY <1>19, <3>1, <3>2 DEF IsFirst
    <2>2. CASE prev # NULL
      <3>1. free_anchor \in free /\ \A g \in free : free_anchor <= g
        BY <1>4, <2>2 DEF SlotsOK, IsFirst
      <3>2. free_anchor <= prev /\ free_anchor \in Nat
        BY <1>2, <1>3, <1>4, <2>2, <3>1
      <3>3. free_anchor \in free'
        BY <1>1, <1>2, <1>3, <1>4, <1>5, <1>7, <3>1, <3>2
      <3>4. \A g \in free' : free_anchor <= g
        <4> SUFFICES ASSUME NEW g \in free' PROVE free_anchor <= g
          OBVIOUS
        <4>1. CASE g \in free
          BY <3>1, <4>1
        <4>2. CASE g = slot
          BY <1>4, <1>7, <3>2, <4>2
        <4> QED
          BY <1>1, <4>1, <4>2
      <3> QED
        BY <1>1, <2>2, <3>3, <3>4 DEF IsFirst
    <2> QED
      BY <2>1, <2>2
  <1>22. \A f, g \in free' : next_slot'[f] # g
    <2> SUFFICES ASSUME NEW f \in free', NEW g \in free' PROVE next_slot'[f] # g
      OBVIOUS
    <2>0. /\ f \in Slots' /\ f \in Slots /\ f \in Nat /\ g \in Slots' /\ g \in Slots /\ g \in Nat
          /\ This \in Nat
      BY <1>2, <1>3, <1>8 DEF Slots
    <2>1. CASE f = slot
      <3>1. next_slot'[f] = MergedEnd
        BY <1>9, <2>1
      <3>2. g = slot \/ g \in free
        BY <1>1
      <3>3. CASE g \in free /\ MergesDown
        BY <1>7, <3>1, <3>3 DEF MergedEnd, SlotsOK
      <3>4. CASE g \in free /\ ~MergesDown
        <4>1. MergedEnd = next_slot[This]
          BY <3>4 DEF MergedEnd
        <4>2. ASSUME next_slot[This] = g PROVE FALSE
          <5>1. g > This
            BY <1>2, <1>3, <4>2
          <5>2. curr # NULL /\ curr <= g /\ curr \in Slots /\ curr > This /\ curr \in Nat
            BY <1>3, <1>5, <1>6, <3>4, <5>1
          <5>3. next_slot[This] <= curr
            BY <1>2, <5>2 DEF SlotsOK
          <5>4. next_slot[This] = curr
            BY <2>0, <4>2, <5>2, <5>3
          <5> QED
            BY <3>4, <5>2, <5>4 DEF MergesDown
        <4> QED
          BY <3>1, <4>1, <4>2
      <3> QED
        BY <1>10, <3>1, <3>2, <3>3, <3>4, <1>7
    <2>2. CASE f # slot
      <3>1. next_slot'[f] = next_slot[f] /\ f \in free
        BY <1>1, <1>9, <2>0, <2>2
      <3>2. CASE g \in free
        BY <3>1, <3>2 DEF SlotsOK
      <3>3. CASE g = slot /\ g \notin free
        <4>1. slot = This /\ ~MergesUp
          BY <1>7, <3>3 DEF slot
        <4>2. ASSUME next_slot[f] = This PROVE FALSE
          <5>1. f < This
            BY <1>3, <2>0, <4>2
          <5>2. f <= prev
            BY <1>4, <1>6, <2>0, <3>1, <5>1
          <5>3. CASE f = prev
            BY <1>3, <2>0, <4>1, <4>2, <5>3 DEF MergesUp, NULL
          <5>4. CASE f < prev
            <6>1. prev \in Slots
              BY <1>4, <2>0, <5>4 DEF NULL
            <6>2. next_slot[f] <= prev
              BY <2>0, <5>4, <6>1 DEF SlotsOK
            <6> QED
              BY <1>3, <1>4, <2>0, <4>2, <6>2
          <5> QED
            BY <1>4, <2>0, <5>2, <5>3, <5>4
        <4> QED
          BY <3>1, <3>3, <4>1, <4>2
      <3> QED
        BY <1>1, <3>2, <3>3
    <2> QED
      BY <2>1, <2>2
  <1>23. \A p \in Blocks' : p + Need(live'[p]) <= next_slot'[p - 1]
    <2> SUFFICES ASSUME NEW p \in Blocks PROVE p + Need(live[p]) <= next_slot'[p - 1]
      BY <1>1
    <2>1. p - 1 \in Headers
      BY SlotFacts
    <2>2. p - 1 \in Slots' \ {slot}
      BY <1>1, <1>7, <2>1 DEF Slots
    <2> QED
      BY <1>9, <2>2 DEF SlotsOK
  <1> QED
    BY <1>12, <1>13, <1>14, <1>20, <1>21, <1>22, <1>23 DEF SlotsOK

\* Growing an arena whose free list is empty adds one free slot; a growth that appends
\* nothing ("lost") leaves the slots as they are.
LEMMA GrowKeepsSlots ==
  ASSUME TypeInv, SlotsOK, Walks, Grow, "stretch" \notin history'
  PROVE  SlotsOK'
  <1>1. /\ pc = "grow" /\ pc' = "fit" /\ InHand = {} /\ InHand' = {}
        /\ arena_brk' = NewBrk /\ live' = live /\ Blocks' = Blocks /\ Headers' = Headers
    BY DEF Grow, Goto, InHand, Blocks, Headers
  <1>2. /\ Top \in Units /\ NewBrk \in Nat /\ NewBrk > Top /\ Top \in Nat
        /\ arena_brk \in Nat /\ arena_brk <= Top
    <2>1. Top \in Base .. LIMIT /\ NewBrk \in Nat /\ NewBrk > Top /\ NewBrk <= LIMIT
      BY TopFacts DEF Grow
    <2>2. arena_brk \in Nat /\ arena_brk <= Top
      BY <2>1, ConstantFacts DEF TypeInv, TypeOK, Top, NULL
    <2> QED
      BY <2>1, <2>2, ConstantFacts DEF Units
  <1>3. \A s \in Slots : s \in Units /\ s \in Nat /\ s > 0 /\ next_slot[s] \in Nat
                         /\ s < next_slot[s] /\ next_slot[s] <= Top
    <2>1. \A s \in Slots : next_slot[s] \in s + 1 .. arena_brk
      BY DEF SlotsOK
    <2> QED
      BY <1>2, <2>1, SlotFacts, ConstantFacts DEF Units
  <1>4. CASE prev # NULL
    <2>1. next_slot' = Store(next_slot, prev, Top) /\ next_slot[prev] = Top
          /\ UNCHANGED <<next_free, free_anchor, free>>
      BY <1>4 DEF Grow
    <2>2. \A s \in Slots : next_slot'[s] = next_slot[s]
      BY <1>3, <2>1 DEF Store
    <2>3. \A p \in Blocks' : p + Need(live'[p]) <= next_slot[p - 1]
      BY <1>1 DEF SlotsOK
    <2> QED
      BY <1>1, <1>2, <2>1, <2>2, <2>3, SameHeaders
  <1>5. CASE prev = NULL
    <2>1. free = {}
      <3>1. curr = NULL /\ IsFirst(curr, {g \in free : g > prev}) /\ free \subseteq Slots
        BY <1>1 DEF Walks, WalkOK, Slots
      <3>2. \A g \in free : g > 0
        BY <1>3, <3>1
      <3>3. {g \in free : g > prev} = free
        BY <1>5, <3>2 DEF NULL
      <3> QED
        BY <3>1, <3>2, <3>3 DEF IsFirst, NULL
    <2>2. /\ next_slot' = Store(next_slot, Top, NewBrk)
          /\ next_free' = Store(next_free, Top, NULL)
          /\ free_anchor' = Top /\ free' = {Top}
      BY <1>5, <2>1 DEF Grow
    <2>3. Slots = Headers /\ Slots' = Headers \cup {Top} /\ Top \notin Headers
      <3>1. Slots = Headers /\ Slots' = Headers \cup {Top}
        BY <1>1, <2>1, <2>2 DEF Slots
      <3> QED
        BY <1>2, <1>3, <3>1
    <2>4. /\ next_slot'[Top] = NewBrk /\ next_free'[Top] = NULL
          /\ \A s \in Headers : next_slot'[s] = next_slot[s]
      BY <1>2, <1>3, <2>2, <2>3 DEF Store
    <2>5. \A s \in Slots' : next_slot'[s] \in s + 1 .. arena_brk'
      BY <1>1, <1>2, <1>3, <2>3, <2>4
    <2>6. \A s, t \in Slots' : s < t => next_slot'[s] <= t
      <3> SUFFICES ASSUME NEW s \in Slots', NEW t \in Slots', s < t PROVE next_slot'[s] <= t
        OBVIOUS
      <3>1. CASE s \in Headers /\ t \in Headers
        BY <2>3, <2>4, <3>1 DEF SlotsOK
      <3>2. CASE s \in Headers /\ t = Top
        BY <1>3, <2>3, <2>4, <3>2
      <3>3. CASE s = Top
        BY <1>2, <1>3, <2>3, <3>3
      <3> QED
        BY <2>3, <3>1, <3>2, <3>3
    <2>7. /\ IsFirst(free_anchor', free')
          /\ \A f \in free' : IsFirst(next_free'[f], {g \in free' : g > f})
          /\ \A f, g \in free' : next_slot'[f] # g
      <3>1. {g \in free' : g > Top} = {}
        BY <1>2, <2>2
      <3> QED
        BY <1>2, <2>2, <2>4, <3>1 DEF IsFirst
    <2>8. \A p \in Blocks' : p + Need(live'[p]) <= next_slot'[p - 1]
      BY <1>1, <2>4, SlotFacts DEF SlotsOK
    <2>9. free' \cap Headers' = {} /\ InHand' \cap (free' \cup Headers') = {}
      BY <1>1, <2>2, <2>3
    <2> QED
      BY <2>5, <2>6, <2>7, <2>8, <2>9 DEF SlotsOK
  <1> QED
    BY <1>4, <1>5

LEMMA RefusedKeepsSlots ==
  ASSUME TypeInv, SlotsOK, GrowRefused
  PROVE  SlotsOK'
  <1>1. arena_brk' \in Nat /\ arena_brk <= arena_brk'
    BY TopFacts, ConstantFacts DEF GrowRefused, TypeInv, TypeOK, Top, NULL
  <1>2. /\ InHand = {} /\ InHand' = {} /\ Blocks' = Blocks /\ Headers' = Headers
        /\ live' = live /\ UNCHANGED <<free, free_anchor, next_slot, next_free>>
    BY DEF GrowRefused, Return, Goto, InHand, Blocks, Headers, memory
  <1> QED
    BY <1>1, <1>2, SameHeaders DEF SlotsOK

\* rtl_realloc's loop looks for the free slot behind this one among those before it.
LEMMA MergeIsDead ==
  ASSUME TypeInv, SlotsOK, Walks, pc = "merge", Walking
  PROVE  next_slot[This] # curr
  <1>1. ptr \in Blocks /\ This \in Slots /\ curr < This
    <2>1. ptr \in Blocks /\ curr < This
      BY DEF Walking, Walks, MoveOK, TypeInv, LocalsOK
    <2> QED
      BY <2>1, SlotFacts DEF This, Slots
  <1>2. next_slot[This] \in This + 1 .. arena_brk /\ This \in Nat /\ curr \in Nat
    BY <1>1, SlotFacts, ConstantFacts
    DEF SlotsOK, Units, TypeInv, TypeOK, Links, NULL
  <1> QED
    BY <1>1, <1>2

\* rtl_realloc hands slots from the client to rtl_free and back; its own merge never runs.
LEMMA ReallocKeepsSlots ==
  ASSUME TypeInv, SlotsOK, Walks,
         ReallocEnter \/ ReallocWalk \/ ReallocCopy \/ (ReallocKeep /\ ~Wraps(size))
  PROVE  SlotsOK'
  <1>1. /\ \A p \in Blocks : p + Need(live[p]) <= next_slot[p - 1]
        /\ Headers \cap InHand = {} /\ Headers \cap free = {} /\ InHand \cap free = {}
    BY DEF SlotsOK
  <1>2. CASE ReallocWalk
    <2>1. next_slot[This] # curr
      BY <1>2, MergeIsDead DEF ReallocWalk
    <2>2. UNCHANGED <<memory, free_anchor, arena_brk, live, free>> /\ InHand' = InHand
      BY <1>2, <2>1 DEF ReallocWalk, memory, InHand
    <2> QED
      BY <2>2, QuietStep
  <1>3. arena_brk' \in Nat /\ arena_brk <= arena_brk'
    BY ConstantFacts
    DEF TypeInv, TypeOK, NULL, ReallocEnter, ReallocWalk, ReallocCopy, ReallocKeep, statics
  <1>4. CASE ReallocEnter
    <2>1. InHand = {} /\ UNCHANGED <<memory, free, free_anchor>>
      BY <1>4 DEF ReallocEnter, InHand, statics
    <2>2. CASE ptr # NULL /\ size = 0
      <3>1. /\ live' = [live EXCEPT ![ptr] = NoBlock] /\ pc' = "free" /\ ptr' = ptr
            /\ pc = "realloc"
        BY <1>4, <2>2 DEF ReallocEnter, Goto, locals
      <3>2. ptr \in Blocks /\ \A p \in Blocks : p \in Int
        BY <2>2, <3>1, SlotFacts, ConstantFacts DEF Walks, MoveOK, Ptrs
      <3>3. Blocks' = Blocks \ {ptr} /\ \A q \in Blocks' : live'[q] = live[q]
        BY <3>1 DEF Blocks, TypeInv, TypeOK
      <3>4. InHand' = {ptr - 1}
        BY <2>2, <3>1 DEF InHand, This
      <3>5. Headers' = {q - 1 : q \in Blocks \ {ptr}}
        BY <3>3 DEF Headers
      <3>6. Headers' \cup InHand' \subseteq Headers \cup InHand /\ Headers' \cap InHand' = {}
        BY <3>2, <3>4, <3>5 DEF Headers
      <3> QED
        BY <1>1, <1>3, <2>1, <3>3, <3>6, SameHeaders DEF memory
    <2>3. CASE ~(ptr # NULL /\ size = 0)
      <3>1. live' = live /\ InHand' = {}
        BY <1>4, <2>3 DEF ReallocEnter, Goto, Return, StartWalk, InHand
      <3>2. UNCHANGED <<memory, free_anchor, arena_brk, live, free>>
        BY <1>4, <3>1 DEF ReallocEnter, statics
      <3> QED
        BY <2>1, <3>1, <3>2, QuietStep
    <2> QED
      BY <2>2, <2>3
  <1>5. CASE ReallocCopy
    <2>1. /\ InHand = {curr} /\ pc = "copy" /\ pc' = "free" /\ ptr' = ptr /\ ptr # NULL
          /\ live' = [live EXCEPT ![ptr] = NoBlock, ![curr + 1] = size]
          /\ UNCHANGED <<memory, free, free_anchor>>
      BY <1>5 DEF ReallocCopy, InHand, statics, locals, Goto, TypeInv, LocalsOK
    <2>2. /\ ptr \in Blocks /\ \A p \in Blocks : p \in Int
          /\ curr \in Units /\ curr \in Int /\ curr + 1 \in Ptrs /\ curr + 1 # ptr
          /\ ptr - 1 \in Headers
      <3>1. ptr \in Blocks /\ curr \in Units /\ ptr - 1 \in Headers
        BY <2>1, SlotFacts DEF Walks, MoveOK
      <3>2. curr # ptr - 1
        BY <1>1, <2>1, <3>1
      <3> QED
        BY <3>1, <3>2, SlotFacts, ConstantFacts DEF Ptrs, Units
    <2>3. /\ Blocks' = (Blocks \ {ptr}) \cup {curr + 1}
          /\ \A q \in Blocks \ {ptr} : q # curr + 1 => live'[q] = live[q]
          /\ live'[curr + 1] = size
      BY <2>1, <2>2, ConstantFacts DEF Blocks, TypeInv, TypeOK, NoBlock
    <2>4. InHand' = {ptr - 1}
      BY <2>1 DEF InHand, This
    <2>5. Headers' = {q - 1 : q \in (Blocks \ {ptr}) \cup {curr + 1}}
      BY <2>3 DEF Headers
    <2>6. Headers' \cup InHand' \subseteq Headers \cup InHand /\ Headers' \cap InHand' = {}
      BY <2>1, <2>2, <2>4, <2>5 DEF Headers
    <2>7. (curr + 1) + Need(size) <= next_slot[curr]
      <3>1. UnitsNow = Need(size) + 1 /\ Need(size) \in Nat /\ next_slot[curr] - curr >= UnitsNow
        BY <2>1, UnitsOfFacts DEF Walks, TakenOK, TypeInv, TypeOK, UnitsNow
      <3>2. next_slot[curr] \in Int
        BY <2>2, ConstantFacts DEF TypeInv, TypeOK, Units, Data
      <3> QED
        BY <2>2, <3>1, <3>2
    <2>8. \A p \in Blocks' : p + Need(live'[p]) <= next_slot[p - 1]
      <3>1. (curr + 1) - 1 = curr
        BY <2>2
      <3> QED
        BY <1>1, <2>3, <2>7, <3>1
    <2> QED
      BY <1>3, <2>1, <2>6, <2>8, SameHeaders DEF memory
  <1>6. CASE ReallocKeep /\ ~Wraps(size)
    <2>1. /\ InHand = {} /\ InHand' = {} /\ pc = "merge" /\ ptr # NULL
          /\ live' = [live EXCEPT ![ptr] = size] /\ NewEnd = next_slot[This]
          /\ UNCHANGED <<memory, free, free_anchor>>
      BY <1>6 DEF ReallocKeep, InHand, Return, Goto, statics, TypeInv, LocalsOK
    <2>2. ptr \in Blocks /\ This \in Nat /\ This = ptr - 1 /\ ptr \in Nat
      BY <2>1, SlotFacts, ConstantFacts DEF Walks, MoveOK, This, Ptrs, Units
    <2>3. /\ Blocks' = Blocks /\ live'[ptr] = size
          /\ \A q \in Blocks \ {ptr} : live'[q] = live[q]
      BY <2>1, <2>2, ConstantFacts DEF Blocks, TypeInv, TypeOK, NoBlock
    <2>4. Headers' = Headers
      BY <2>3 DEF Headers
    <2>5. ptr + Need(size) <= next_slot[ptr - 1]
      <3>1. UnitsNow = Need(size) + 1 /\ Need(size) \in Nat
        BY <1>6, UnitsOfFacts DEF TypeInv, TypeOK, UnitsNow
      <3>2. NewEnd = This + UnitsNow
        BY <2>1, NoWrapFacts DEF TypeInv, LocalsOK
      <3> QED
        BY <2>1, <2>2, <3>1, <3>2
    <2> QED
      BY <1>1, <1>3, <2>1, <2>3, <2>4, <2>5, SameHeaders DEF memory
  <1> QED
    BY <1>2, <1>4, <1>5, <1>6

-----------------------------------------------------------------------------
\* What the locals mean is kept too.  A walk starts at the anchor ...
LEMMA StartsOK ==
  ASSUME TypeInv', SlotsOK', prev' = NULL, curr' = free_anchor'
  PROVE  prev' \in free' \cup {NULL} /\ IsFirst(curr', {g \in free' : g > prev'})
  <1>1. \A g \in free' : g > 0
    BY ConstantFacts DEF TypeInv, TypeOK, Units
  <1>2. {g \in free' : g > prev'} = free'
    BY <1>1 DEF NULL
  <1>3. IsFirst(free_anchor', free')
    BY DEF SlotsOK
  <1> QED
    BY <1>2, <1>3

\* ... and goes from a slot to the next one.
LEMMA AdvanceOK ==
  ASSUME TypeInv, SlotsOK, Walks, pc \in {"fit", "insert", "merge"}, curr # NULL,
         Advance, free' = free
  PROVE  prev' \in free' /\ prev' = curr /\ IsFirst(curr', {g \in free' : g > prev'})
  BY DEF Walks, WalkOK, IsFirst, SlotsOK, Advance

\* The header of the block rtl_realloc moves is not the allocator's to touch.
LEMMA MovedHeaderKept ==
  ASSUME TypeInv, SlotsOK, Walks, ptr # NULL,
         AllocTake \/ (Grow /\ "stretch" \notin history')
  PROVE  next_slot'[This] = next_slot[This]
  <1>1. /\ ptr \in Blocks /\ This \in Headers /\ This \in Slots /\ This \notin free
        /\ This \in Units /\ This \in Nat
    BY SlotFacts, ConstantFacts
    DEF Walks, MoveOK, AllocTake, AtSlot, Grow, This, Slots, SlotsOK, Units
  <1>2. next_slot[This] \in This + 1 .. arena_brk /\ arena_brk \in Nat
    BY <1>1, ConstantFacts DEF SlotsOK, TypeInv, TypeOK, NULL
  <1>3. CASE AllocTake
    <2>1. curr \in free /\ curr \in Slots /\ curr \in Nat /\ curr # NULL /\ curr # This
      <3>1. curr \in free
        BY <1>3 DEF AllocTake, AtSlot, Walks, WalkOK, IsFirst
      <3> QED
        BY <1>1, <1>3, <3>1, SlotFacts, ConstantFacts DEF AllocTake, AtSlot, Slots, Units
    <2>2. Splits => NewSlot # This
      <3>1. NewSlot > curr /\ next_slot[curr] >= NewSlot /\ NewSlot \in Int
        BY <1>3, NewSlotFacts DEF AllocTake, AtSlot, TypeInv
      <3>2. curr < This => next_slot[curr] <= This
        BY <1>1, <2>1 DEF SlotsOK
      <3>3. Splits => next_slot[curr] > NewSlot
        <4>1. next_slot[curr] \in Int
          BY <2>1, SlotFacts, ConstantFacts DEF SlotsOK, Slots, TypeInv, TypeOK, Units, Data
        <4> QED
          BY <3>1, <4>1 DEF Splits
      <3>4. next_slot[curr] \in Int
        BY <2>1, SlotFacts, ConstantFacts DEF SlotsOK, Slots, TypeInv, TypeOK, Units, Data
      <3> QED
        BY <1>1, <2>1, <3>1, <3>2, <3>3, <3>4
    <2> QED
      BY <1>1, <1>3, <2>1, <2>2 DEF AllocTake, Store
  <1>4. CASE Grow /\ "stretch" \notin history'
    <2>1. prev # NULL => next_slot' = Store(next_slot, prev, Top) /\ next_slot[prev] = Top
      BY <1>4 DEF Grow
    <2>2. prev = NULL => next_slot' = Store(next_slot, Top, NewBrk)
      BY <1>4 DEF Grow
    <2>3. This < Top
      BY <1>1, <1>2, TopFacts, ConstantFacts DEF Top, NULL
    <2> QED
      BY <1>1, <2>1, <2>2, <2>3 DEF Store
  <1> QED
    BY <1>3, <1>4

LEMMA SlotsKept ==
  ASSUME TypeInv, SlotsOK, Walks, Next, ~Broken'
  PROVE  SlotsOK'
  <1>1. "stretch" \notin history' /\ "wrap" \notin history' /\ "shrink" \notin history'
    BY DEF Broken
  <1>2. CASE Client
    BY <1>2, ClientSteps DEF Client, ClientAlloc, ClientFree, ClientRealloc, ClientRuns
  <1>3. CASE AllocTake
    BY <1>1, <1>3, TakeKeepsSlots DEF AllocTake, Wrapped
  <1>4. CASE Grow
    BY <1>1, <1>4, GrowKeepsSlots
  <1>5. CASE GrowRefused
    BY <1>5, RefusedKeepsSlots
  <1>6. CASE FreeInsert
    BY <1>6, InsertKeepsSlots
  <1>7. CASE ReallocEnter \/ ReallocWalk \/ ReallocCopy \/ ReallocKeep
    BY <1>1, <1>7, ReallocKeepsSlots DEF ReallocKeep, Wrapped
  <1>8. CASE ReallocShrink
    BY <1>1, <1>8 DEF ReallocShrink
  <1>9. CASE AllocEnter \/ AllocOverflow \/ AllocUndefined \/ AllocTooSmall \/ AllocExhausted
    BY <1>9, QuietStep
    DEF AllocEnter, AllocOverflow, AllocUndefined, AllocTooSmall, AllocExhausted, AtSlot,
        Undefined, Return, StartWalk, Goto, InHand, statics, locals
  <1>10. CASE FreeEnter \/ FreeWalk \/ FreeUndefined
    <2>1. UNCHANGED <<memory, free_anchor, arena_brk, live, free>>
      BY <1>10 DEF FreeEnter, FreeWalk, FreeUndefined, Undefined, statics
    <2>2. CASE ptr' = ptr /\ pc' \in {"insert", "free"} /\ pc \in {"insert", "free"}
      BY <2>1, <2>2, QuietStep DEF InHand, This
    <2>3. CASE ptr = NULL /\ pc' = "client"
      BY <2>1, <2>3, <1>10, QuietStep
      DEF InHand, FreeEnter, FreeWalk, FreeUndefined, Undefined, Goto
    <2>4. CASE FreeUndefined
      <3>1. pc' = "undefined" /\ InHand' = {}
        BY <2>4 DEF FreeUndefined, Undefined, Goto, InHand
      <3>2. \A p \in Blocks : p + Need(live[p]) <= next_slot[p - 1]
        BY DEF SlotsOK
      <3>3. arena_brk' \in Nat /\ arena_brk <= arena_brk'
        BY <2>1, ConstantFacts DEF TypeInv, TypeOK, NULL
      <3> QED
        BY <2>1, <3>1, <3>2, <3>3, SameHeaders DEF memory, Blocks, Headers
    <2> QED
      BY <1>10, <2>2, <2>3, <2>4 DEF FreeEnter, FreeWalk, Return, StartWalk, Goto
  <1>11. CASE ReallocUndefined \/ ReallocMove \/ ReallocFault
    BY <1>11, QuietStep
    DEF ReallocUndefined, ReallocMove, ReallocFault, Undefined, Goto, InHand, statics, locals
  <1> QED
    BY <1>2, <1>3, <1>4, <1>5, <1>6, <1>7, <1>8, <1>9, <1>10, <1>11 DEF Next, Step

LEMMA WalkKept ==
  ASSUME TypeInv, TypeInv', SlotsOK, SlotsOK', Walks, Next, ~Broken'
  PROVE  WalkOK'
  <1>1. CASE pc' \notin {"fit", "grow", "insert", "merge"}
    BY <1>1 DEF WalkOK
  <1>2. CASE AllocEnter \/ Grow \/ ReallocEnter
    BY <1>1, <1>2, StartsOK
    DEF AllocEnter, Grow, ReallocEnter, StartWalk, Return, Goto, statics, WalkOK
  <1>3. CASE FreeEnter
    <2>1. ptr # NULL => prev' = NULL /\ curr' = free_anchor' /\ pc' = "insert" /\ ptr' = ptr
      BY <1>3 DEF FreeEnter, StartWalk, Goto, statics
    <2>2. ptr # NULL => This' > NULL
      BY <2>1, NewSlotFacts, ConstantFacts DEF TypeInv, This, Units, NULL
    <2>3. ptr = NULL => pc' = "client"
      BY <1>3 DEF FreeEnter, Return, Goto
    <2> QED
      BY <1>1, <2>1, <2>2, <2>3, StartsOK DEF WalkOK
  <1>4. CASE AllocTooSmall \/ FreeWalk \/ ReallocWalk
    <2>1. pc' = pc /\ ptr' = ptr /\ pc \in {"fit", "insert", "merge"} /\ curr # NULL /\ Advance
      BY <1>4 DEF AllocTooSmall, AtSlot, FreeWalk, ReallocWalk, Walking
    <2>2. free' = free
      BY <1>4, MergeIsDead DEF AllocTooSmall, FreeWalk, ReallocWalk
    <2>3. pc' = "insert" => curr < This'
      BY <1>4, <2>1 DEF AllocTooSmall, AtSlot, FreeWalk, ReallocWalk, Walking, This
    <2> QED
      BY <2>1, <2>2, <2>3, AdvanceOK DEF WalkOK
  <1>5. CASE AllocExhausted
    BY <1>5 DEF AllocExhausted, Goto, locals, Walks, WalkOK
  <1>6. CASE ~(AllocEnter \/ Grow \/ ReallocEnter \/ FreeEnter \/ AllocTooSmall \/ FreeWalk
               \/ ReallocWalk \/ AllocExhausted)
    <2>1. pc' \notin {"fit", "grow", "insert", "merge"}
      BY <1>6
      DEF Next, Client, Step, ClientAlloc, ClientFree, ClientRealloc, AllocOverflow,
          AllocUndefined, AllocTake, GrowRefused, FreeInsert, FreeUndefined, ReallocUndefined,
          ReallocShrink, ReallocKeep, ReallocMove, ReallocCopy, ReallocFault, Undefined,
          Return, Goto
    <2> QED
      BY <1>1, <2>1
  <1> QED
    BY <1>2, <1>3, <1>4, <1>5, <1>6

LEMMA MoveKept ==
  ASSUME TypeInv, TypeInv', SlotsOK, SlotsOK', Walks, Next, ~Broken'
  PROVE  MoveOK' /\ TakenOK'
  <1>1. CASE pc' \in {"client", "free", "insert", "undefined"}
    BY <1>1 DEF MoveOK, TakenOK
  <1>2. CASE Client
    <2>1. CASE ClientAlloc
      BY <2>1 DEF ClientAlloc, ClientRuns, Goto, TypeInv, LocalsOK, MoveOK, TakenOK
    <2>2. CASE ClientFree
      BY <1>1, <2>2 DEF ClientFree, Goto
    <2>3. CASE ClientRealloc
      BY <2>3 DEF ClientRealloc, Goto, MoveOK, TakenOK, Blocks
    <2> QED
      BY <1>2, <2>1, <2>2, <2>3 DEF Client
  <1>3. CASE AllocTake
    <2>1. CASE ptr = NULL
      BY <1>1, <1>3, <2>1 DEF AllocTake, Return, Goto
    <2>2. CASE ptr # NULL
      <3>1. /\ pc = "fit" /\ pc' = "copy" /\ UNCHANGED locals /\ live' = live
            /\ NewSlot > curr /\ next_slot[curr] >= NewSlot /\ curr # NULL
        BY <1>3, <2>2 DEF AllocTake, AtSlot, Goto
      <3>2. next_slot'[This] = next_slot[This]
        BY <1>3, <2>2, MovedHeaderKept
      <3>3. MoveOK'
        BY <3>1, <3>2, <2>2 DEF Walks, MoveOK, Blocks, NewEnd, This, UnitsNow, locals
      <3>4. ~Wraps(size)
        BY <1>3 DEF AllocTake, Wrapped, Broken
      <3>5. /\ NewSlot = curr + UnitsNow /\ UnitsNow \in Nat /\ curr \in Units /\ curr \in Int
            /\ next_slot[curr] \in Int
        <4>1. NewSlot = curr + UnitsNow /\ UnitsNow \in Nat
          BY <3>1, NoWrapFacts, Zenon
        <4>2. curr \in Units
          BY <3>1, NewSlotFacts, Zenon DEF TypeInv
        <4>3. next_slot \in [Units -> Units \cup {LIMIT, Data}]
          BY Zenon DEF TypeInv, TypeOK
        <4>4. next_slot[curr] \in Units \cup {LIMIT, Data}
          BY <4>2, <4>3
        <4> QED
          BY <4>1, <4>2, <4>4, ConstantFacts DEF Units, Data
      <3>6. next_slot'[curr] >= NewSlot
        BY <1>3, <3>1, <3>5 DEF AllocTake, Store
      <3>7. next_slot'[curr] \in Int
        BY <3>5, ConstantFacts DEF TypeInv, TypeOK, Units, Data
      <3>8. TakenOK'
        BY <3>1, <3>4, <3>5, <3>6, <3>7 DEF TakenOK, UnitsNow, locals
      <3> QED
        BY <3>3, <3>8
    <2> QED
      BY <2>1, <2>2
  <1>4. CASE Grow
    <2>1. /\ pc = "grow" /\ pc' = "fit" /\ live' = live /\ ptr' = ptr /\ size' = size
          /\ old_count' = old_count
      BY <1>4 DEF Grow, Goto
    <2>2. ptr # NULL => next_slot'[This] = next_slot[This]
      BY <1>4, MovedHeaderKept DEF Broken
    <2> QED
      BY <2>1, <2>2 DEF Walks, MoveOK, TakenOK, Blocks, NewEnd, This, UnitsNow
  <1>5. CASE AllocEnter \/ AllocTooSmall \/ AllocExhausted
    <2>1. CASE pc' = "client"
      BY <1>1, <2>1
    <2>2. CASE pc' # "client"
      <3>1. /\ UNCHANGED <<next_slot, live, size, ptr, old_count>>
            /\ pc \in {"alloc", "fit"} /\ pc' \in {"fit", "grow"}
        BY <1>5, <2>2
        DEF AllocEnter, AllocTooSmall, AtSlot, AllocExhausted, Return, StartWalk, Goto, memory,
            locals
      <3> QED
        BY <3>1 DEF Walks, MoveOK, TakenOK, Blocks, NewEnd, This, UnitsNow
    <2> QED
      BY <2>1, <2>2
  <1>6. CASE ReallocEnter
    <2>1. CASE pc' \in {"client", "free"}
      BY <1>1, <2>1
    <2>2. CASE pc' = "alloc"
      BY <1>6, <2>2 DEF ReallocEnter, Return, StartWalk, Goto, locals, MoveOK, TakenOK
    <2>3. CASE pc' = "merge"
      <3>1. /\ pc = "realloc" /\ ptr # NULL /\ NewEnd > This /\ old_count' = OldCount
            /\ UNCHANGED <<next_slot, live, size, ptr>>
        BY <1>6, <2>3 DEF ReallocEnter, Return, StartWalk, Goto, memory
      <3> QED
        BY <2>3, <3>1 DEF Walks, MoveOK, TakenOK, Blocks, NewEnd, This, UnitsNow, OldCount
    <2> QED
      BY <1>6, <2>1, <2>2, <2>3 DEF ReallocEnter, Return, StartWalk, Goto
  <1>7. CASE ReallocWalk
    <2>1. UNCHANGED <<next_slot, live, size, ptr, old_count, pc>> /\ pc = "merge"
      BY <1>7, MergeIsDead DEF ReallocWalk
    <2> QED
      BY <2>1 DEF Walks, MoveOK, TakenOK, Blocks, NewEnd, This, UnitsNow
  <1>8. CASE ReallocMove
    BY <1>8 DEF ReallocMove, Goto, memory, locals, Walks, MoveOK, TakenOK, Blocks, NewEnd,
                This, UnitsNow
  <1>9. CASE ReallocFault
    BY <1>9 DEF ReallocFault, Goto, memory, locals, Walks, MoveOK, TakenOK, Blocks
  <1>10. CASE \/ AllocOverflow \/ AllocUndefined \/ GrowRefused \/ FreeEnter \/ FreeWalk
              \/ FreeInsert \/ FreeUndefined \/ ReallocUndefined \/ ReallocShrink
              \/ ReallocKeep \/ ReallocCopy
    BY <1>1, <1>10
    DEF AllocOverflow, AllocUndefined, GrowRefused, FreeEnter, FreeWalk, FreeInsert,
        FreeUndefined, ReallocUndefined, ReallocShrink, ReallocKeep, ReallocCopy, Undefined,
        StartWalk, Return, Goto
  <1> QED
    BY <1>2, <1>3, <1>4, <1>5, <1>6, <1>7, <1>8, <1>9, <1>10 DEF Next, Step

\* The events are history: nothing mends a broken arena.
LEMMA HistoryGrows ==
  ASSUME Next
  PROVE  history \subseteq history'
  BY DEF Next, Client, Step, ClientAlloc, ClientFree, ClientRealloc, AllocEnter, AllocOverflow,
         AllocUndefined, AllocTooSmall, AllocTake, AllocExhausted, Grow, GrowRefused,
         FreeEnter, FreeWalk, FreeInsert, FreeUndefined, ReallocEnter, ReallocUndefined,
         ReallocWalk, ReallocShrink, ReallocKeep, ReallocMove, ReallocCopy, ReallocFault,
         Undefined

LEMMA BrokenStays ==
  ASSUME Next, Broken
  PROVE  Broken'
  BY HistoryGrows DEF Broken

-----------------------------------------------------------------------------
\* The inductive invariant of the allocator: the slots are disjoint, sorted, merged and
\* long enough, and a running walk's prev and curr stand on neighbours of the free list,
\* until one of the paths that break the arena has run (rtl_alloc, rtl_free, rtl_realloc).
THEOREM HeapCorrect == Spec => []HeapInv
  <1>1. Init => HeapInv
    BY InitHeapInv, HeapInvIs
  <1>2. TypeInv /\ TypeInv' /\ HeapInv /\ [Next]_vars => HeapInv'
    <2> SUFFICES ASSUME TypeInv, TypeInv', HeapInv, [Next]_vars PROVE HeapInv'
      OBVIOUS
    <2>1. CASE Next
      <3>1. CASE Broken'
        BY <3>1 DEF HeapInv, SlotsDisjoint, FreeListSorted, Coalesced, BlocksFit
      <3>2. CASE ~Broken'
        <4>1. SlotsOK /\ Walks
          BY <2>1, <3>2, BrokenStays, HeapInvIs
        <4>2. SlotsOK'
          BY <2>1, <3>2, <4>1, SlotsKept
        <4>3. WalkOK' /\ MoveOK' /\ TakenOK'
          BY <2>1, <3>2, <4>1, <4>2, WalkKept, MoveKept
        <4> QED
          BY <4>2, <4>3
          DEF HeapInv, SlotsOK, SlotsDisjoint, FreeListSorted, Coalesced, BlocksFit
      <3> QED
        BY <3>1, <3>2
    <2>2. CASE UNCHANGED vars
      BY <2>2
      DEF HeapInv, SlotsDisjoint, FreeListSorted, Coalesced, BlocksFit, WalkOK, MoveOK, TakenOK,
          Broken, Slots, Headers, InHand, Blocks, This, NewEnd, UnitsNow, vars, memory, statics,
          locals
    <2> QED
      BY <2>1, <2>2
  <1>3. QED
    BY <1>1, <1>2, TypeInvariant, PTL DEF Spec

\* Slots never overlap, whoever holds them (rtl_alloc, rtl_free, rtl_realloc).
THEOREM SlotsStayDisjoint == Spec => []SlotsDisjoint
  BY HeapCorrect, PTL DEF HeapInv

\* The free list is sorted by address, complete and finite (l.34).
THEOREM FreeListStaysSorted == Spec => []FreeListSorted
  BY HeapCorrect, PTL DEF HeapInv

\* rtl_free leaves no two free slots that touch (l.172, l.183).
THEOREM FreeSlotsStayMerged == Spec => []Coalesced
  BY HeapCorrect, PTL DEF HeapInv

\* A block is as long as what the client asked for (l.91, l.121, l.243).
THEOREM BlocksAlwaysFit == Spec => []BlocksFit
  BY HeapCorrect, PTL DEF HeapInv

\* rtl_realloc copies the whole block, and inside the new one (l.209, l.257).
THEOREM CopyAlwaysFits == Spec => []CopyFits
  <1>1. TypeInv /\ HeapInv => CopyFits
    <2> SUFFICES ASSUME TypeInv, HeapInv, pc = "copy", ~Broken
                 PROVE  Need(live[ptr]) <= old_count /\ curr + old_count < next_slot[curr]
      BY DEF CopyFits
    <2>1. SlotsOK /\ MoveOK /\ TakenOK
      BY HeapInvIs DEF Walks
    <2>2. /\ ptr # NULL /\ ptr \in Blocks /\ old_count = next_slot[This] - This
          /\ NewEnd > This /\ NewEnd > next_slot[This] /\ next_slot[curr] - curr >= UnitsNow
      BY <2>1 DEF MoveOK, TakenOK, TypeInv, LocalsOK
    <2>3. /\ ptr \in Nat /\ This = ptr - 1 /\ This \in Units /\ This \in Nat
          /\ curr \in Units /\ curr \in Nat /\ NewEnd = This + UnitsNow /\ UnitsNow \in Nat
          /\ Need(live[ptr]) \in Nat
      BY <2>2, SlotFacts, NewSlotFacts, NoWrapFacts, UnitsOfFacts, ConstantFacts
      DEF This, Units, Ptrs, TypeInv, LocalsOK
    <2>4. next_slot[This] \in Int /\ next_slot[curr] \in Int
      BY <2>3, ConstantFacts DEF TypeInv, TypeOK, Units, Data
    <2>5. ptr + Need(live[ptr]) <= next_slot[This]
      BY <2>1, <2>2, <2>3 DEF SlotsOK
    <2> QED
      BY <2>2, <2>3, <2>4, <2>5
  <1> QED
    BY <1>1, TypeInvariant, HeapCorrect, PTL

\* The code follows a header that is the client's data only in a broken arena.
THEOREM HeadersAreHeaders == Spec => []DataIsNoHeader
  <1>1. Init => DataIsNoHeader
    BY DEF Init, DataIsNoHeader
  <1>2. TypeInv /\ HeapInv /\ DataIsNoHeader /\ [Next]_vars => DataIsNoHeader'
    <2> SUFFICES ASSUME TypeInv, HeapInv, DataIsNoHeader, Next, pc' = "undefined", ~Broken'
                 PROVE  FALSE
      BY DEF DataIsNoHeader, Broken, vars
    <2>1. SlotsOK /\ Walks
      BY BrokenStays, HeapInvIs
    <2>2. \A s \in Slots : next_slot[s] # Data
      <3>1. \A s \in Slots : s \in Nat /\ next_slot[s] \in s + 1 .. arena_brk /\ arena_brk \in Nat
        BY <2>1, SlotFacts, ConstantFacts DEF SlotsOK, Units, TypeInv, TypeOK, NULL
      <3> QED
        BY <3>1 DEF Data
    <2>3. \A f \in free : Readable(f)
      <3>1. \A f \in free : next_free[f] \in free \cup {NULL}
        BY <2>1 DEF SlotsOK, IsFirst
      <3>2. free \subseteq Slots /\ \A g \in free \cup {NULL} : g # Data
        BY SlotFacts, ConstantFacts DEF Slots, Units, Data, NULL
      <3> QED
        BY <2>2, <3>1, <3>2 DEF Readable
    <2>4. pc \in {"fit", "insert", "merge"} =>
            /\ prev # NULL => prev \in free
            /\ curr # NULL => curr \in free
      BY <2>1 DEF Walks, WalkOK, IsFirst
    <2>5. ~AllocUndefined
      <3> SUFFICES ASSUME AllocUndefined PROVE FALSE
        OBVIOUS
      <3>1. pc = "fit" /\ curr # NULL /\ ~Readable(curr)
        BY DEF AllocUndefined
      <3>2. curr \in free
        BY <2>4, <3>1
      <3> QED
        BY <2>3, <3>1, <3>2
    <2>6. ~FreeUndefined
      <3> SUFFICES ASSUME FreeUndefined PROVE FALSE
        OBVIOUS
      <3>1. pc = "insert"
        BY DEF FreeUndefined
      <3>2. This \in Slots
        BY <3>1 DEF Slots, InHand, TypeInv, LocalsOK
      <3>3. /\ prev # NULL => next_slot[prev] # Data
            /\ curr # NULL => Readable(curr)
        BY <2>3, <2>4, <3>1 DEF Readable
      <3>4. InsertReads
        BY <2>2, <3>2, <3>3 DEF InsertReads
      <3>5. Walking => next_free[curr] # Data
        BY <3>3 DEF Walking, Readable
      <3> QED
        BY <3>4, <3>5 DEF FreeUndefined
    <2>7. ~ReallocUndefined
      <3> SUFFICES ASSUME ReallocUndefined PROVE FALSE
        OBVIOUS
      <3>1. CASE pc = "realloc" /\ ptr # NULL /\ next_slot[This] = Data
        <4>1. This \in Headers
          BY <2>1, <3>1 DEF Walks, MoveOK, This, Headers
        <4> QED
          BY <2>2, <3>1, <4>1 DEF Slots
      <3>2. CASE pc = "merge" /\ Walking /\ ~Readable(curr)
        <4>1. curr \in free
          BY <2>4, <3>2 DEF Walking
        <4> QED
          BY <2>3, <3>2, <4>1
      <3> QED
        BY <3>1, <3>2 DEF ReallocUndefined
    <2>8. AllocUndefined \/ FreeUndefined \/ ReallocUndefined \/ pc = "undefined"
      BY DEF Next, Client, Step, ClientAlloc, ClientFree, ClientRealloc, AllocEnter, AllocOverflow,
             AllocTooSmall, AllocTake, AllocExhausted, Grow, GrowRefused, FreeEnter, FreeWalk,
             FreeInsert, ReallocEnter, ReallocWalk, ReallocShrink, ReallocKeep, ReallocMove,
             ReallocCopy, ReallocFault, StartWalk, Return, Goto
    <2>9. pc # "undefined"
      BY BrokenStays DEF DataIsNoHeader
    <2> QED
      BY <2>5, <2>6, <2>7, <2>8, <2>9
  <1> QED
    BY <1>1, <1>2, TypeInvariant, HeapCorrect, PTL DEF Spec

-----------------------------------------------------------------------------
(***************************************************************************)
(* The variant of the calls: each of its parts is bounded, and a walk      *)
(* stands on a free slot below the one it goes to, as WalkOK says.         *)
(***************************************************************************)

\* What a walk has before it is never negative, and the break never passes LIMIT.
LEMMA VariantBounded ==
  ASSUME TypeOK
  PROVE  Stage[pc] \in 0 .. 7 /\ brk <= LIMIT /\ Ahead \in 0 .. LIMIT
  <1>1. Stage[pc] \in 0 .. 7
    BY DEF TypeOK, Labels, Stage
  <1>2. brk \in Nat /\ brk <= LIMIT
    BY ConstantFacts DEF TypeOK
  <1>3. Ahead \in 0 .. LIMIT
    <2>1. curr # NULL => curr \in Base .. LIMIT - 1
      BY DEF TypeOK, Links, Units
    <2> QED
      BY <2>1, ConstantFacts DEF Ahead
  <1> QED
    BY <1>1, <1>2, <1>3

\* A walk that goes on from a slot goes to a higher one, or off the list's end.
LEMMA AdvanceAhead ==
  ASSUME TypeInv, SlotsOK, Walks, pc \in {"fit", "insert", "merge"}, curr # NULL,
         Advance, pc' = pc
  PROVE  Ahead' < Ahead
  <1>1. curr \in free /\ curr \in Base .. LIMIT - 1
    BY DEF Walks, WalkOK, IsFirst, TypeInv, TypeOK, Links, Units
  <1>2. IsFirst(next_free[curr], {g \in free : g > curr})
    BY <1>1 DEF SlotsOK
  <1>3. curr' = NULL \/ (curr' \in free /\ curr' > curr)
    BY <1>2 DEF IsFirst, Advance
  <1>4. curr' = NULL \/ (curr' \in Base .. LIMIT - 1 /\ curr' > curr)
    BY <1>3 DEF TypeInv, TypeOK, Units
  <1>5. Ahead = LIMIT + 1 - curr /\ Ahead > 1
    BY <1>1, ConstantFacts DEF Ahead
  <1>6. CASE curr' = NULL
    BY <1>5, <1>6 DEF Ahead
  <1>7. CASE curr' # NULL
    <2>1. Ahead' = LIMIT + 1 - curr'
      BY <1>7 DEF Ahead
    <2> QED
      BY <1>1, <1>4, <1>5, <1>7, <2>1, ConstantFacts
  <1> QED
    BY <1>6, <1>7

\* The allocator's own break is never below the kernel's: after a refused first growth it
\* is the aligned one (l.50).
BreakOK == arena_brk # NULL => brk <= arena_brk

LEMMA BreakKept ==
  ASSUME TypeInv, BreakOK, [Next]_vars
  PROVE  BreakOK'
  <1> USE ConstantFacts
  <1>1. Top >= brk /\ Top \in Nat /\ Top # NULL
    BY TopFacts DEF BreakOK, Top, TypeInv, LocalsOK, TypeOK, Base, NULL
  <1>2. CASE Grow
    BY <1>2, TopFacts DEF Grow, BreakOK
  <1>3. CASE GrowRefused
    BY <1>1, <1>3 DEF GrowRefused, BreakOK
  <1>4. CASE UNCHANGED <<arena_brk, brk>>
    BY <1>4 DEF BreakOK
  <1>5. Grow \/ GrowRefused \/ UNCHANGED <<arena_brk, brk>>
    BY DEF Next, Client, Step, ClientAlloc, ClientFree, ClientRealloc, AllocEnter,
           AllocOverflow, AllocUndefined, AllocTooSmall, AllocTake, AllocExhausted, FreeEnter,
           FreeWalk, FreeInsert, FreeUndefined, ReallocEnter, ReallocUndefined, ReallocWalk,
           ReallocShrink, ReallocKeep, ReallocMove, ReallocCopy, ReallocFault, Undefined,
           vars, statics
  <1> QED
    BY <1>2, <1>3, <1>4, <1>5

LEMMA BreakStaysBelow == Spec => []BreakOK
  <1>1. Init => BreakOK
    BY DEF Init, BreakOK
  <1>2. TypeInv /\ BreakOK /\ [Next]_vars => BreakOK'
    BY BreakKept
  <1> QED
    BY <1>1, <1>2, TypeInvariant, PTL DEF Spec

\* Growing raises the break, even when it adds nothing to the free list (l.58-80).
LEMMA GrowRaises ==
  ASSUME TypeInv, BreakOK, Grow
  PROVE  brk' > brk
  <1>1. Top >= brk /\ Top \in Int /\ brk \in Int
    BY TopFacts, ConstantFacts DEF BreakOK, Top, TypeInv, LocalsOK, TypeOK, Base, NULL
  <1> QED
    BY <1>1, TopFacts DEF Grow

\* One step of a call, before the arena is broken.
LEMMA StepProgress ==
  ASSUME TypeInv, BreakOK, SlotsOK, Walks, Step,
         pc \notin {"client", "undefined", "fault"}
  PROVE  \/ Stage[pc'] < Stage[pc]
         \/ Stage[pc'] = Stage[pc] /\ (brk' > brk \/ (brk' = brk /\ Ahead' < Ahead))
  <1>1. CASE AllocEnter \/ AllocOverflow \/ AllocUndefined \/ FreeEnter \/ FreeInsert
             \/ FreeUndefined \/ GrowRefused
    BY <1>1 DEF AllocEnter, AllocOverflow, AllocUndefined, FreeEnter, FreeInsert, FreeUndefined,
                GrowRefused, Return, StartWalk, Goto, Undefined, Stage
  <1>2. CASE ReallocEnter \/ ReallocUndefined \/ ReallocShrink \/ ReallocKeep \/ ReallocMove
             \/ ReallocCopy \/ ReallocFault
    BY <1>2 DEF ReallocEnter, ReallocUndefined, ReallocShrink, ReallocKeep, ReallocMove,
                ReallocCopy, ReallocFault, Return, StartWalk, Goto, Undefined, Stage
  <1>3. CASE AllocTake
    BY <1>3 DEF AllocTake, AtSlot, Return, Goto, Stage
  <1>4. CASE AllocExhausted
    <2>1. /\ pc = "fit" /\ curr = NULL /\ pc' = "grow" /\ curr' = NULL /\ brk' = brk
      BY <1>4 DEF AllocExhausted, Goto, locals
    <2>2. Ahead = 1 /\ Ahead' = 0
      BY <2>1 DEF Ahead
    <2> QED
      BY <2>1, <2>2 DEF Stage, TypeInv, TypeOK
  <1>5. CASE Grow
    BY <1>5, GrowRaises DEF Grow, Goto, Stage
  <1>6. CASE AllocTooSmall \/ FreeWalk \/ ReallocWalk
    <2>1. /\ pc \in {"fit", "insert", "merge"} /\ curr # NULL /\ Advance
          /\ pc' = pc /\ brk' = brk
      <3>1. CASE AllocTooSmall
        BY <3>1 DEF AllocTooSmall, AtSlot
      <3>2. CASE FreeWalk
        BY <3>2 DEF FreeWalk, Walking
      <3>3. CASE ReallocWalk
        BY <3>3 DEF ReallocWalk, Walking
      <3> QED
        BY <1>6, <3>1, <3>2, <3>3
    <2> QED
      BY <2>1, AdvanceAhead
  <1> QED
    BY <1>1, <1>2, <1>3, <1>4, <1>5, <1>6 DEF Step

\* Each step of a call comes nearer to its return, has raised the break or has taken its
\* walk to a higher address, and none of the three can go on for ever: why rtl_alloc,
\* rtl_free and rtl_realloc return while the arena is not broken.
THEOREM EveryCallProgresses ==
  Spec => CallsProgress /\ [](Stage[pc] \in 0 .. 7 /\ brk <= LIMIT /\ Ahead \in 0 .. LIMIT)
  <1> DEFINE Nearer ==
        pc \notin {"client", "undefined", "fault"} /\ ~Broken =>
          \/ Stage[pc'] < Stage[pc]
          \/ /\ Stage[pc'] = Stage[pc]
             /\ \/ brk' > brk
                \/ brk' = brk /\ Ahead' < Ahead
  <1>1. TypeInv /\ BreakOK /\ HeapInv /\ [Next]_vars => [Nearer]_vars
    <2> SUFFICES ASSUME TypeInv, BreakOK, HeapInv, Next,
                        pc \notin {"client", "undefined", "fault"}, ~Broken
                 PROVE  \/ Stage[pc'] < Stage[pc]
                        \/ /\ Stage[pc'] = Stage[pc]
                           /\ brk' > brk \/ (brk' = brk /\ Ahead' < Ahead)
      OBVIOUS
    <2>1. Step
      BY DEF Next, Client, ClientAlloc, ClientFree, ClientRealloc, ClientRuns
    <2> QED
      BY <2>1, StepProgress, HeapInvIs
  <1>2. TypeInv => Stage[pc] \in 0 .. 7 /\ brk <= LIMIT /\ Ahead \in 0 .. LIMIT
    BY VariantBounded DEF TypeInv
  <1> QED
    BY <1>1, <1>2, TypeInvariant, BreakStaysBelow, HeapCorrect, PTL DEF Spec, CallsProgress
=============================================================================
