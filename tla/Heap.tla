--------------------------------- MODULE Heap ---------------------------------
(***************************************************************************)
(* What rtl_alloc, rtl_realloc and rtl_free promise the runtime and the    *)
(* virtual machine: blocks of memory that never overlap.  One client makes *)
(* one call at a time; a call for memory may always be refused, and then   *)
(* nothing has changed.                                                    *)
(***************************************************************************)
EXTENDS Integers

CONSTANTS
    Ptrs,         \* the addresses a block may have
    Sizes,        \* the sizes the client asks for
    NULL,         \* no pointer
    NoBlock,      \* live[p] where the client holds no block
    NoRequest,    \* no call for memory is waiting for its answer
    Need(_)       \* the units a block of so many bytes takes

VARIABLES
    live,         \* pointer -> size asked for, or NoBlock
    request       \* the call for memory in progress: the block to move, and the size

vars == <<live, request>>

Blocks == {p \in Ptrs : live[p] # NoBlock}
Extent(p, n) == p .. p + Need(n) - 1

Init ==
    /\ live = [p \in Ptrs |-> NoBlock]
    /\ request = NoRequest

\* rtl_alloc(n) is rtl_realloc(NULL, n).
Ask(p, n) ==
    /\ request = NoRequest
    /\ request' = [ptr |-> p, size |-> n]
    /\ UNCHANGED live

Free(p) ==
    /\ request = NoRequest
    /\ live' = [live EXCEPT ![p] = NoBlock]
    /\ UNCHANGED request

Answer == request # NoRequest /\ request' = NoRequest

\* NULL: the client keeps what it has.
Refuse == Answer /\ UNCHANGED live

\* A new block, or the old one moved: clear of every block held, the moved one included.
Grant(q) ==
    /\ Answer
    /\ q \notin Blocks
    /\ \A p \in Blocks : Extent(p, live[p]) \cap Extent(q, request.size) = {}
    /\ live' = [p \in Ptrs |-> IF p = q THEN request.size
                               ELSE IF p = request.ptr THEN NoBlock ELSE live[p]]

\* The block keeps its place.
Resize ==
    /\ Answer
    /\ request.ptr # NULL
    /\ \A p \in Blocks \ {request.ptr} :
         Extent(p, live[p]) \cap Extent(request.ptr, request.size) = {}
    /\ live' = [live EXCEPT ![request.ptr] = request.size]

\* rtl_realloc(p, 0) frees.
Release ==
    /\ Answer
    /\ request.ptr # NULL /\ request.size = 0
    /\ live' = [live EXCEPT ![request.ptr] = NoBlock]

Next ==
    \/ \E p \in Blocks \cup {NULL}, n \in Sizes : Ask(p, n)
    \/ \E p \in Blocks : Free(p)
    \/ Refuse \/ Resize \/ Release
    \/ \E q \in Ptrs : Grant(q)

Spec == Init /\ [][Next]_vars
=============================================================================
