------------------------------- MODULE P2pProofs -------------------------------
(***************************************************************************)
(* Proofs about the peer to peer module: every call it makes is one of a   *)
(* careful module, with which what is proved of those holds of it too.     *)
(***************************************************************************)
EXTENDS P2p, VmThunksProofs

-----------------------------------------------------------------------------
\* The invariant: what the module has in its hands and on the data stack at each label.

\* The labels of get_hwaddr (and start), of get_hwaddr2 and of the receive loop.
Hwaddr == {"start", "get_hwaddr", "ifconf", "buffer", "fill", "SIOCGIFCONF", "num_ifaces",
           "leave", "leave_ifconf", "status"}
Searching == {"SIOCGIFNAME", "SIOCGIFHWADDR", "check_hwaddr", "loop_next"}
Hwaddr2 == {"ifreq", "loop", "loop_end", "io_close"} \cup Searching

\* What the module has been given, or nothing where the memory was refused.
InHands(p) == {p} \ {NULL}
IsBlock(p) ==
  p # NULL => p \in held /\ heap[p].kind = "block" /\ Len(heap[p].data) = BLOCK

\* The receive loop has the peer's address, and in it one packet.
HasPeer == locals.peer \in held /\ heap[locals.peer].kind = "sockaddr"

InCommLoop ==
  /\ pc \in {"bind", "recv_loop"} => stack = <<>> /\ held = {locals.peer} /\ HasPeer
  /\ pc \in {"comm_process_packet", "rtl_free"} =>
       \E r \in Ptrs :
         /\ held = {locals.peer, r} /\ r # locals.peer /\ HasPeer
         /\ stack = IF pc = "rtl_free" THEN <<r>> ELSE <<r, r>>

\* get_hwaddr has two blocks, of which it gives back the second first.
InGetHwaddr ==
  /\ pc \in Hwaddr => stack = IF pc = "num_ifaces" THEN <<"ifc_len">> ELSE <<>>
  /\ pc = "buffer" => held = InHands(locals.ifconf) /\ IsBlock(locals.ifconf)
  /\ pc \in {"fill", "SIOCGIFCONF", "num_ifaces", "leave"} =>
       /\ held = InHands(locals.ifconf) \cup InHands(locals.buffer)
       /\ locals.buffer = locals.ifconf => locals.buffer = NULL
       /\ IsBlock(locals.ifconf)
  /\ pc = "SIOCGIFCONF" => locals.ifconf # NULL
  /\ pc = "leave_ifconf" => held = InHands(locals.ifconf)

\* get_hwaddr2 has one block, and no descriptor but the socket's.
InGetHwaddr2 ==
  /\ pc \in Hwaddr2 => \A fd \in Fds \ {locals.sockfd} : fds[fd] = Closed
  /\ pc = "get_hwaddr2" => \A fd \in Fds : fds[fd] = Closed
  /\ pc \in {"ifreq", "loop"} \cup Searching => stack = <<>>
  /\ pc \in {"loop", "loop_end"} \cup Searching =>
       held = InHands(locals.buffer) /\ IsBlock(locals.buffer)
  /\ pc \in Searching => locals.buffer # NULL
  /\ pc \in {"loop_end", "io_close"} => stack \in {<<0>>, <<1>>}
  /\ pc = "io_close" => held = {}

\* At its start a routine has nothing.
AtStart ==
  pc \in Routines \cup {"ifconf", "ifreq", "sockaddr"} => held = {} /\ stack = <<>>

Stands == AtStart /\ InCommLoop /\ InGetHwaddr /\ InGetHwaddr2

Locals ==
  [sockfd : AnyFd, peer : Given, ifconf : Given, buffer : Given, index : Nat \ {0}]

ModuleInv ==
  /\ locals \in Locals
  /\ uses \subseteq Groups
  /\ pc \in Hwaddr => entry # "get_hwaddr2"
  /\ pc \in {"recv_loop", "returned"} => ended = "no"
  /\ ended = "panic" => pc = "status"
  /\ ended = "no" => Stands
  /\ pc = "returned" /\ entry = "get_hwaddr2" =>
       stack \in {<<0>>, <<1>>} /\ held = {} /\ \A fd \in Fds : fds[fd] = Closed

-----------------------------------------------------------------------------
\* Every call of the module is a call of Next.

LEMMA UseIsNext ==
  ASSUME ended = "no", Cardinality(net') <= IN_FLIGHT,
         \/ UsesMemory \/ UsesFiles \/ UsesAddresses \/ UsesDatagrams
         \/ Frees \/ SysExit
  PROVE  Next
  <1>1. ASSUME NEW group \in Groups, Uses(group)
        PROVE  Next
    BY <1>1 DEF Next, Calls
  <1>2. /\ UsesMemory => Uses("memory")
        /\ UsesFiles => Uses("files")
        /\ UsesAddresses => Uses("addresses")
        /\ UsesDatagrams => Uses("datagrams")
    BY DEF Uses
  <1>3. {"memory", "files", "addresses", "datagrams"} \subseteq Groups
    BY DEF Groups
  <1>4. Frees \/ SysExit => Next
    BY DEF Next, Calls
  <1> QED
    BY <1>1, <1>2, <1>3, <1>4

\* A trap is one of any call that does not look whether it got its memory.
LEMMA TrapIsNext ==
  ASSUME ended = "no", Traps, Cardinality(net') <= IN_FLIGHT
  PROVE  Next
  <1>1. NULL \in Given /\ 0 \in Ips /\ COMM_PORT \in Ports
    BY P2pAssumption DEF Given
  <1>2. SockaddrCreate(0, COMM_PORT, NULL)
    BY DEF SockaddrCreate, ObtainsOrTraps
  <1>3. UsesAddresses
    BY <1>1, <1>2 DEF UsesAddresses
  <1> QED
    BY <1>3, UseIsNext

\* A step with no call is one that frees nothing.
LEMMA NoCallIsNext ==
  ASSUME Inv, ended = "no", NoCallMade, Cardinality(net') <= IN_FLIGHT
  PROVE  Next
  <1>1. NULL \notin Ptrs /\ held \subseteq Ptrs /\ heap = [q \in Ptrs |-> heap[q]]
    BY ThunksAssumption DEF Inv, TypeOK
  <1>2. [q \in Ptrs |-> IF q = NULL THEN NoBlock ELSE heap[q]] = [q \in Ptrs |-> heap[q]]
    BY <1>1
  <1>3. Releases(NULL)
    BY <1>1, <1>2 DEF Releases, NoCallMade
  <1>4. RtlFree(NULL)
    BY <1>3 DEF RtlFree, NoCallMade
  <1>5. Frees
    BY <1>4 DEF Frees
  <1> QED
    BY <1>5, UseIsNext

LEMMA CallIsNext ==
  ASSUME ended = "no", Cardinality(net') <= IN_FLIGHT
  PROVE  /\ \A r \in Given : RtlAlloc(BLOCK, r) => Next
         /\ \A p \in held \cup {NULL} : RtlFree(p) => Next
         /\ \A p \in held : heap[p].kind = "block" /\ Len(heap[p].data) = BLOCK
              /\ RtlMemset(p, "zero", BLOCK) => Next
         /\ \A r \in AnyFd : SocketCreate(2, r) => Next
         /\ \A r \in Given : SockaddrCreate(0, COMM_PORT, r) => Next
         /\ \A fd \in AnyFd, sa \in held, r \in {0, Failed} :
              heap[sa].kind = "sockaddr" /\ SocketBind(fd, sa, r) => Next
         /\ \A fd \in AnyFd, sa \in held, r \in Given :
              heap[sa].kind = "sockaddr" /\ SocketRecvfrom(fd, PACKET, sa, r) => Next
         /\ \A fd \in AnyFd, p \in held, r \in {0, Failed} :
              heap[p].kind = "block" /\ IoIoctl(fd, p, r) => Next
         /\ \A fd \in AnyFd : IoClose(fd) => Next
  <1>1. PACKET \in Sizes /\ BLOCK \in Sizes /\ 0 \in Ips /\ COMM_PORT \in Ports
        /\ BLOCK \in Nat
    BY P2pAssumption, ThunksAssumption
  <1>2. \A p \in held : heap[p].kind = "block" => p \in Holds("block") /\ p \in Memory
    BY DEF Holds, Memory
  <1>3. \A p \in held : heap[p].kind = "sockaddr" => p \in Holds("sockaddr")
    BY DEF Holds
  <1>4. \A r \in Given : RtlAlloc(BLOCK, r) => Next
    BY <1>1, UseIsNext DEF UsesMemory
  <1>5. \A p \in held \cup {NULL} : RtlFree(p) => Next
    BY UseIsNext DEF Frees
  <1>6. ASSUME NEW p \in held, heap[p].kind = "block", Len(heap[p].data) = BLOCK,
               RtlMemset(p, "zero", BLOCK)
        PROVE  Next
    <2>1. BLOCK <= Len(heap[p].data)
      BY <1>1, <1>6
    <2> QED
      BY <1>1, <1>2, <1>6, <2>1, UseIsNext DEF UsesMemory
  <1>7. \A r \in AnyFd : SocketCreate(2, r) => Next
    BY UseIsNext DEF UsesDatagrams, UsesSockets
  <1>8. \A r \in Given : SockaddrCreate(0, COMM_PORT, r) => Next
    BY <1>1, UseIsNext DEF UsesAddresses
  <1>9. \A fd \in AnyFd, sa \in held, r \in {0, Failed} :
          heap[sa].kind = "sockaddr" /\ SocketBind(fd, sa, r) => Next
    BY <1>3, UseIsNext DEF UsesDatagrams
  <1>10. \A fd \in AnyFd, sa \in held, r \in Given :
           heap[sa].kind = "sockaddr" /\ SocketRecvfrom(fd, PACKET, sa, r) => Next
    BY <1>1, <1>3, UseIsNext DEF UsesDatagrams, UsesSockets
  <1>11. \A fd \in AnyFd, p \in held, r \in {0, Failed} :
           heap[p].kind = "block" /\ IoIoctl(fd, p, r) => Next
    BY <1>2, UseIsNext DEF UsesFiles
  <1>12. \A fd \in AnyFd : IoClose(fd) => Next
    BY UseIsNext DEF UsesFiles
  <1> QED
    BY <1>4, <1>5, <1>6, <1>7, <1>8, <1>9, <1>10, <1>11, <1>12

-----------------------------------------------------------------------------
\* What a call does to what is in the hands of the module.

LEMMA AllocHands ==
  ASSUME Inv, ended = "no", NEW r \in Given, RtlAlloc(BLOCK, r)
  PROVE  /\ held' = held \cup InHands(r)
         /\ r # NULL => /\ r \in Ptrs /\ r \notin held
                        /\ heap'[r].kind = "block" /\ Len(heap'[r].data) = BLOCK
         /\ \A p \in held : heap'[p] = heap[p]
         /\ UNCHANGED <<fds, ended>>
  <1>1. HeapOK /\ BLOCK \in Nat /\ NULL \notin Ptrs
    BY InvGives, P2pAssumption, ThunksAssumption
  <1>2. UNCHANGED <<fds, ended>>
    BY DEF RtlAlloc
  <1>3. CASE Refused(r)
    BY <1>2, <1>3 DEF Refused, InHands
  <1>4. CASE Obtains(Block(BLOCK), r)
    <2>1. r \in Ptrs /\ r \notin held /\ heap'[r] = Block(BLOCK)
      BY <1>1, <1>4, AllocatedGood, ObtainsHeap
    <2>2. Block(BLOCK).kind = "block" /\ Len(Block(BLOCK).data) = BLOCK
      BY <1>1, JunkIs DEF Block
    <2>3. \A p \in held : heap'[p] = heap[p]
      BY <1>1, <1>4, <2>1 DEF Obtains, HeapOK, Blocks, Free
    <2> QED
      BY <1>1, <1>2, <1>4, <2>1, <2>2, <2>3 DEF Obtains, InHands
  <1> QED
    BY <1>3, <1>4 DEF RtlAlloc

LEMMA FreeHands ==
  ASSUME Inv, ended = "no", NEW p \in held \cup {NULL}, RtlFree(p)
  PROVE  /\ held' = held \ {p} /\ \A q \in held \ {p} : heap'[q] = heap[q]
         /\ UNCHANGED <<fds, ended>>
  BY DEF RtlFree, Releases, Inv, TypeOK

LEMMA MemsetHands ==
  ASSUME Inv, ended = "no", NEW p \in held, heap[p].kind = "block",
         Len(heap[p].data) = BLOCK, NEW byte \in {"zero", "one"}, RtlMemset(p, byte, BLOCK)
  PROVE  /\ held' = held /\ heap'[p].kind = "block" /\ Len(heap'[p].data) = BLOCK
         /\ \A q \in held \ {p} : heap'[q] = heap[q]
         /\ UNCHANGED <<fds, ended>>
  <1>1. HeapOK /\ BLOCK \in Nat
    BY InvGives, P2pAssumption, ThunksAssumption
  <1> DEFINE object == Filled(heap[p], [i \in 1 .. BLOCK |-> byte])
  <1>2. Good(heap[p]) /\ BLOCK <= Len(heap[p].data) /\ p \in Ptrs
    BY <1>1, HeldIsGood
  <1>3. object.kind = "block" /\ Len(object.data) = BLOCK
    BY <1>1, <1>2, MemsetGood
  <1>4. heap' = [heap EXCEPT ![p] = object] /\ UNCHANGED <<held, fds, ended>>
    BY DEF RtlMemset, Changes
  <1> HIDE DEF object
  <1>5. heap'[p] = object /\ \A q \in held \ {p} : heap'[q] = heap[q]
    BY <1>1, <1>2, <1>4 DEF HeapOK, Blocks, Free
  <1> QED
    BY <1>3, <1>4, <1>5

\* A call of the kernel with a block: it may write to it.
LEMMA IoctlHands ==
  ASSUME Inv, ended = "no", NEW p \in held, heap[p].kind = "block",
         Len(heap[p].data) = BLOCK, NEW fd, NEW r, IoIoctl(fd, p, r)
  PROVE  /\ held' = held /\ heap'[p].kind = "block" /\ Len(heap'[p].data) = BLOCK
         /\ \A q \in held \ {p} : heap'[q] = heap[q]
         /\ UNCHANGED <<fds, ended>>
  <1>1. CASE Failing(r)
    BY <1>1 DEF Failing
  <1>2. ASSUME NEW byte \in {"zero", "one"}, RtlMemset(p, byte, BLOCK)
        PROVE  /\ held' = held /\ heap'[p].kind = "block" /\ Len(heap'[p].data) = BLOCK
               /\ \A q \in held \ {p} : heap'[q] = heap[q]
               /\ UNCHANGED <<fds, ended>>
    BY <1>2, MemsetHands
  <1> QED
    BY <1>1, <1>2 DEF IoIoctl

LEMMA SocketHands ==
  ASSUME Inv, NEW r \in AnyFd, SocketCreate(2, r)
  PROVE  /\ UNCHANGED <<heap, held, ended>>
         /\ \A fd \in Fds \ {r} : fds[fd] = Closed => fds'[fd] = Closed
  <1>1. fds \in [Fds -> Files \cup {Closed}] /\ SocketType[2] = "dgram" /\ 2 \in DOMAIN SocketType
    BY DEF Inv, TypeOK, SocketType
  <1>2. OpensOrFails(File("dgram", {}), r)
    BY <1>1 DEF SocketCreate
  <1> QED
    BY <1>1, <1>2 DEF OpensOrFails

LEMMA SockaddrHands ==
  ASSUME Inv, ended = "no", NEW r \in Given, SockaddrCreate(0, COMM_PORT, r)
  PROVE  \/ ended' = "trap"
         \/ /\ r \in Ptrs /\ held' = held \cup {r} /\ heap'[r].kind = "sockaddr"
            /\ ended' = "no"
  <1>1. HeapOK /\ RestOK
    BY InvGives
  <1>2. Sockaddr(0, COMM_PORT).kind = "sockaddr" /\ Good(Sockaddr(0, COMM_PORT))
    <2>1. 0 \in 0 .. WORD - 1 /\ COMM_PORT \in Nat
      BY P2pAssumption, ThunksAssumption
    <2> QED
      BY <1>1, <2>1, SockaddrIs, SockaddrGood DEF RestOK
  <1>3. CASE Obtains(Sockaddr(0, COMM_PORT), r) /\ UNCHANGED ended
    BY <1>1, <1>2, <1>3, ObtainsHeap DEF Obtains
  <1> QED
    BY <1>3 DEF SockaddrCreate, ObtainsOrTraps, Traps

LEMMA ReceiveHands ==
  ASSUME Inv, ended = "no", NEW fd, NEW sa \in held, heap[sa].kind = "sockaddr",
         NEW r \in Given, SocketRecvfrom(fd, PACKET, sa, r)
  PROVE  \/ r = NULL /\ ended' \in {"trap", "no"}
         \/ /\ r \in Ptrs /\ r \notin held /\ held' = held \cup {r}
            /\ heap'[sa].kind = "sockaddr" /\ ended' = "no"
  <1>1. HeapOK /\ RestOK
    BY InvGives
  <1>2. heap[sa] \in SockaddrObjects /\ sa \in Ptrs
    BY <1>1, HeldIsGood, SockaddrFacts
  <1>4. \A address : WithAddress(heap[sa], address).kind = "sockaddr"
    BY <1>2 DEF WithAddress, SockaddrObjects
  <1>5. Free \cap held = {}
    BY <1>1 DEF HeapOK, Blocks
  <1>6. ASSUME NEW d \in Arrived(fd), r \in Free,
               heap' = [p \in Ptrs |->
                CASE p = r -> Received(PACKET, d.bytes)
                  [] p = sa /\ fds[fd].kind = "dgram" -> WithAddress(heap[sa], d.src)
                  [] OTHER -> heap[p]],
               held' = held \cup {r}, UNCHANGED ended
        PROVE  /\ r \in Ptrs /\ r \notin held /\ held' = held \cup {r}
               /\ heap'[sa].kind = "sockaddr" /\ ended' = "no"
    <2>1. r \in Ptrs /\ r \notin held /\ r # sa
      BY <1>5, <1>6 DEF Free
    <2>2. heap'[sa] = IF fds[fd].kind = "dgram" THEN WithAddress(heap[sa], d.src)
                      ELSE heap[sa]
      BY <1>2, <1>6, <2>1
    <2> QED
      BY <1>4, <1>6, <2>1, <2>2
  <1> QED
    BY <1>6 DEF SocketRecvfrom, Traps

-----------------------------------------------------------------------------
\* One action after the other: a call of Next, or the branch that finds no status.

Panicking == ended = "no" /\ pc = "status" /\ Panics
Rests == Inv /\ ModuleInv /\ ended = "no" /\ Cardinality(net') <= IN_FLIGHT

LEMMA TwoOfIt ==
  ASSUME NEW r
  PROVE  /\ Len(<<r, r>>) = 2 /\ SubSeq(<<r, r>>, 2, 2) = <<r>>
         /\ <<r>> # <<>> /\ Head(<<r>>) = r /\ Tail(<<r>>) = <<>>
         /\ Len(<<r>>) = 1 /\ SubSeq(<<r>>, 2, 1) = <<>>
         /\ <<r>> \o <<>> = <<r>> /\ <<r, r>> \o <<>> = <<r, r>>
         /\ Len(<<>>) = 0 /\ SubSeq(<<>>, 1, 0) = <<>>
  <1>1. <<r, r>> \in Seq({r}) /\ <<r>> \in Seq({r}) /\ <<>> \in Seq({r})
        /\ Len(<<r, r>>) = 2 /\ Len(<<r>>) = 1 /\ Len(<<>>) = 0
    OBVIOUS
  <1> DEFINE part == SubSeq(<<r, r>>, 2, 2)
             all == <<r>> \o <<>>
             both == <<r, r>> \o <<>>
  <1>2. part \in Seq({r}) /\ Len(part) = 1 /\ part[1] = r
    BY <1>1
  <1> HIDE DEF part
  <1>3. part = <<r>>
    <2>1. part \in [1 .. 1 -> {r}]
      BY <1>2, LenProperties
    <2> QED
      BY <2>1
  <1> USE DEF part
  <1>4. Head(<<r>>) = r /\ Tail(<<r>>) = <<>> /\ <<r>> # <<>>
    BY <1>1
  <1>5. SubSeq(<<r>>, 2, 1) = <<>> /\ SubSeq(<<>>, 1, 0) = <<>>
    BY <1>1
  <1>6. all = <<r>> /\ both = <<r, r>>
    BY <1>1
  <1> QED
    BY <1>1, <1>3, <1>4, <1>5, <1>6

\* What is left to show of a step: where it stands.
LEMMA ModuleInvIf ==
  ASSUME ModuleInv, UNCHANGED <<entry, uses>>,
         locals' \in Locals,
         pc' \in Hwaddr => pc \in Hwaddr,
         pc' = "returned" => entry # "get_hwaddr2",
         pc' \in {"recv_loop", "returned"} => ended' = "no",
         ended' # "panic", ended' = "no" => Stands'
  PROVE  ModuleInv'
  BY DEF ModuleInv

\* The labels of the receive loop are none of the others'.
LEMMA StandsInCommLoop ==
  ASSUME pc' \in {"sockaddr", "bind", "recv_loop", "comm_process_packet", "rtl_free"}
  PROVE  /\ AtStart' /\ InCommLoop' => Stands'
         /\ pc' \notin Hwaddr /\ pc' # "returned"
  BY DEF Stands, InGetHwaddr, InGetHwaddr2, Hwaddr, Hwaddr2, Searching

\* Nothing is known of the hands of a module about to give up.
LEMMA StandsNowhere ==
  ASSUME pc' = "log_fatal"
  PROVE  Stands' /\ pc' \notin Hwaddr /\ pc' # "returned"
  BY DEF Stands, AtStart, InCommLoop, InGetHwaddr, InGetHwaddr2, Hwaddr, Hwaddr2, Searching,
         Routines

LEMMA CreateSocketStep ==
  ASSUME Rests, CreateSocket
  PROVE  Next /\ ModuleInv'
  <1>1. PICK r \in AnyFd :
          /\ SocketCreate(2, r)
          /\ Then(IF r < 0 THEN "log_fatal" ELSE "sockaddr", "sockfd", r)
    BY DEF CreateSocket
  <1>2. Next
    BY <1>1, CallIsNext DEF Rests
  <1>3. UNCHANGED <<heap, held, ended>>
    BY <1>1, SocketHands DEF Rests
  <1>4. pc = "comm_loop" /\ held = {} /\ stack = <<>>
    BY DEF CreateSocket, At, Rests, ModuleInv, Stands, AtStart, Routines
  <1>5. locals' \in Locals
    BY <1>1 DEF Rests, ModuleInv, Locals, Then
  <1>6. ModuleInv'
    BY <1>1, <1>3, <1>4, <1>5
       DEF Rests, ModuleInv, Stands, AtStart, InCommLoop, InGetHwaddr, InGetHwaddr2, Hwaddr,
           Hwaddr2, Searching, Routines, Then
  <1> QED
    BY <1>2, <1>6

LEMMA CreatePeerStep ==
  ASSUME Rests, CreatePeer
  PROVE  Next /\ ModuleInv'
  <1>1. PICK r \in Given : SockaddrCreate(0, COMM_PORT, r) /\ Then("bind", "peer", r)
    BY DEF CreatePeer
  <1>2. Next
    BY <1>1, CallIsNext DEF Rests
  <1>3. \/ ended' = "trap"
        \/ /\ r \in Ptrs /\ held' = held \cup {r} /\ heap'[r].kind = "sockaddr"
           /\ ended' = "no"
    BY <1>1, SockaddrHands DEF Rests
  <1>4. pc = "sockaddr" /\ held = {} /\ stack = <<>>
    BY DEF CreatePeer, At, Rests, ModuleInv, Stands, AtStart
  <1>5. locals' = [locals EXCEPT !.peer = r] /\ locals'.peer = r /\ locals' \in Locals
    BY <1>1 DEF Rests, ModuleInv, Locals, Then
  <1>6. ended' = "no" => held' = {locals'.peer} /\ HasPeer'
    BY <1>3, <1>4, <1>5 DEF HasPeer
  <1>7. ModuleInv'
    BY <1>1, <1>3, <1>4, <1>5, <1>6, StandsInCommLoop, ModuleInvIf
       DEF Rests, AtStart, InCommLoop, Routines, Then
  <1> QED
    BY <1>2, <1>7

LEMMA BindStep ==
  ASSUME Rests, Bind
  PROVE  Next /\ ModuleInv'
  <1>1. PICK r \in {0, Failed} :
          /\ SocketBind(locals.sockfd, locals.peer, r)
          /\ Goto(IF r < 0 THEN "log_fatal" ELSE "recv_loop")
    BY DEF Bind
  <1>2. pc = "bind" /\ held = {locals.peer} /\ stack = <<>> /\ HasPeer
    BY DEF Bind, At, Rests, ModuleInv, Stands, InCommLoop
  <1>3. Next
    BY <1>1, <1>2, CallIsNext DEF Rests, HasPeer, ModuleInv, Locals
  <1>4. UNCHANGED <<heap, held, ended>>
    BY <1>1 DEF SocketBind, Failing
  <1>5. ModuleInv'
    BY <1>1, <1>2, <1>4, StandsInCommLoop, StandsNowhere, ModuleInvIf
       DEF Rests, ModuleInv, AtStart, InCommLoop, Routines, Goto, HasPeer
  <1> QED
    BY <1>3, <1>5

LEMMA ReceiveStep ==
  ASSUME Rests, Receive
  PROVE  Next /\ ModuleInv'
  <1>1. PICK r \in Given :
          /\ SocketRecvfrom(locals.sockfd, PACKET, locals.peer, r)
          /\ pc' = IF r = NULL THEN "log_fatal" ELSE "comm_process_packet"
          /\ stack' = <<r, r>> \o stack
          /\ UNCHANGED <<entry, uses, locals>>
    BY DEF Receive
  <1>2. pc = "recv_loop" /\ held = {locals.peer} /\ stack = <<>> /\ HasPeer
    BY DEF Receive, At, Rests, ModuleInv, Stands, InCommLoop
  <1>3. Next
    BY <1>1, <1>2, CallIsNext DEF Rests, HasPeer, ModuleInv, Locals
  <1>4. \/ r = NULL /\ ended' \in {"trap", "no"}
        \/ /\ r \in Ptrs /\ r \notin held /\ held' = held \cup {r}
           /\ heap'[locals.peer].kind = "sockaddr" /\ ended' = "no" /\ r # NULL
    <2>1. locals.peer \in held /\ heap[locals.peer].kind = "sockaddr" /\ NULL \notin Ptrs
      BY <1>2, ThunksAssumption DEF HasPeer
    <2> QED
      BY <1>1, <2>1, ReceiveHands DEF Rests
  <1>5. stack' = <<r, r>>
    BY <1>1, <1>2, TwoOfIt
  <1>6. locals' \in Locals
    BY <1>1 DEF Rests, ModuleInv
  <1>7. CASE r = NULL
    BY <1>1, <1>3, <1>4, <1>6, <1>7, StandsNowhere, ModuleInvIf DEF Rests
  <1>8. CASE r # NULL
    <2>1. /\ r \in Ptrs /\ held' = {locals.peer, r} /\ r # locals.peer
          /\ heap'[locals.peer].kind = "sockaddr" /\ ended' = "no"
          /\ pc' = "comm_process_packet"
      BY <1>1, <1>2, <1>4, <1>8
    <2>2. HasPeer'
      BY <1>1, <2>1 DEF HasPeer
    <2> QED
      BY <1>1, <1>3, <1>5, <1>6, <2>1, <2>2, StandsInCommLoop, ModuleInvIf
         DEF Rests, AtStart, InCommLoop, Routines
  <1> QED
    BY <1>3, <1>7, <1>8

LEMMA ProcessPacketStep ==
  ASSUME Rests, ProcessPacket
  PROVE  Next /\ ModuleInv'
  <1>1. pc = "comm_process_packet"
    BY DEF ProcessPacket, Logs, At
  <1>2. PICK r \in Ptrs :
          /\ held = {locals.peer, r} /\ r # locals.peer /\ HasPeer
          /\ stack = <<r, r>>
    BY <1>1 DEF Rests, ModuleInv, Stands, InCommLoop
  <1>3. Len(stack) = 2 /\ SubSeq(stack, 2, 2) = <<r>>
    BY <1>2, TwoOfIt
  <1>4. /\ NoCallMade /\ stack' = <<r>>
        /\ pc' = "rtl_free" /\ UNCHANGED <<entry, uses, locals>>
    <2>1. ~(Len(stack) < 1) /\ SubSeq(stack, 1 + 1, Len(stack)) = <<r>>
      BY <1>3
    <2> QED
      BY <2>1 DEF ProcessPacket, Logs, PacketOperands
  <1>5. Next
    BY <1>4, NoCallIsNext DEF Rests
  <1>6. UNCHANGED <<heap, held, fds, ended>>
    BY <1>4 DEF NoCallMade
  <1>7. ModuleInv'
    BY <1>1, <1>2, <1>4, <1>6, StandsInCommLoop, ModuleInvIf
       DEF Rests, ModuleInv, AtStart, InCommLoop, Routines, HasPeer
  <1> QED
    BY <1>5, <1>7

LEMMA FreePacketStep ==
  ASSUME Rests, FreePacket
  PROVE  Next /\ ModuleInv'
  <1>1. pc = "rtl_free"
    BY DEF FreePacket, At
  <1>2. PICK r \in Ptrs :
          /\ held = {locals.peer, r} /\ r # locals.peer /\ HasPeer
          /\ stack = <<r>>
    BY <1>1 DEF Rests, ModuleInv, Stands, InCommLoop
  <1>3. stack # <<>> /\ Head(stack) = r /\ Tail(stack) = <<>>
    BY <1>2, TwoOfIt
  <1>4. /\ RtlFree(r) /\ stack' = <<>>
        /\ pc' = "recv_loop" /\ UNCHANGED <<entry, uses, locals>>
    BY <1>3 DEF FreePacket
  <1>5. Next
    BY <1>2, <1>4, CallIsNext DEF Rests
  <1>6. held' = {locals.peer} /\ heap'[locals.peer] = heap[locals.peer] /\ ended' = ended
    BY <1>2, <1>4, FreeHands DEF Rests
  <1>7. ModuleInv'
    BY <1>1, <1>2, <1>4, <1>6, StandsInCommLoop, ModuleInvIf
       DEF Rests, ModuleInv, AtStart, InCommLoop, Routines, HasPeer
  <1> QED
    BY <1>5, <1>7

LEMMA LogFatalStep ==
  ASSUME Rests, LogFatal
  PROVE  Next /\ ModuleInv'
  <1>1. Next
    BY UseIsNext DEF Rests, LogFatal
  <1>2. ModuleInv'
    BY DEF Rests, ModuleInv, Stands, AtStart, InCommLoop, InGetHwaddr,
              InGetHwaddr2, Hwaddr, Hwaddr2, Searching, Routines, LogFatal, SysExit, Stays, module, At
  <1> QED
    BY <1>1, <1>2

-----------------------------------------------------------------------------
\* get_hwaddr and start.

LEMMA StandsInHwaddr ==
  ASSUME pc' \in Hwaddr
  PROVE  /\ AtStart' /\ InGetHwaddr' => Stands'
         /\ pc' # "returned" /\ pc' # "recv_loop"
  BY DEF Stands, InCommLoop, InGetHwaddr2, Hwaddr, Hwaddr2, Searching

LEMMA StartStep ==
  ASSUME Rests, Logs("start", 0, "get_hwaddr")
  PROVE  Next /\ ModuleInv'
  <1>1. pc = "start" /\ pc \in Hwaddr
    BY DEF Logs, At, Hwaddr
  <1>2. held = {} /\ stack = <<>> /\ locals \in Locals
    BY <1>1 DEF Rests, ModuleInv, Stands, AtStart, Routines
  <1>3. NoCallMade /\ stack' = <<>> /\ pc' = "get_hwaddr" /\ UNCHANGED <<entry, uses, locals>>
    <2>1. ~(Len(stack) < 0) /\ SubSeq(stack, 0 + 1, Len(stack)) = <<>>
      BY <1>2, TwoOfIt
    <2> QED
      BY <2>1 DEF Logs
  <1>4. Next
    BY <1>3, NoCallIsNext DEF Rests
  <1>5. held' = {} /\ ended' = "no" /\ locals' \in Locals
    BY <1>2, <1>3 DEF Rests, NoCallMade
  <1>6. ModuleInv'
    BY <1>1, <1>3, <1>5, StandsInHwaddr, ModuleInvIf
       DEF Rests, AtStart, InGetHwaddr, Hwaddr
  <1> QED
    BY <1>4, <1>6

LEMMA GetHwaddrSocketStep ==
  ASSUME Rests, GetHwaddrSocket
  PROVE  Next /\ ModuleInv'
  <1>1. PICK r \in AnyFd : SocketCreate(2, r) /\ Then("ifconf", "sockfd", r)
    BY DEF GetHwaddrSocket
  <1>2. Next
    BY <1>1, CallIsNext DEF Rests
  <1>3. pc = "get_hwaddr" /\ pc \in Hwaddr /\ held = {} /\ stack = <<>>
    BY DEF GetHwaddrSocket, At, Rests, ModuleInv, Stands, AtStart, Routines, Hwaddr
  <1>4. held' = {} /\ ended' = "no" /\ stack' = <<>>
    BY <1>1, <1>3, SocketHands DEF Rests, Then
  <1>5. locals' \in Locals
    BY <1>1 DEF Rests, ModuleInv, Locals, Then
  <1>6. ModuleInv'
    BY <1>1, <1>3, <1>4, <1>5, StandsInHwaddr, ModuleInvIf
       DEF Rests, AtStart, InGetHwaddr, Hwaddr, Then
  <1> QED
    BY <1>2, <1>6

LEMMA IfconfStep ==
  ASSUME Rests, Allocates("ifconf", "ifconf", "buffer")
  PROVE  Next /\ ModuleInv'
  <1>1. PICK r \in Given : RtlAlloc(BLOCK, r) /\ Then("buffer", "ifconf", r)
    BY DEF Allocates
  <1>2. Next
    BY <1>1, CallIsNext DEF Rests
  <1>3. pc = "ifconf" /\ pc \in Hwaddr /\ held = {} /\ stack = <<>>
    BY DEF Allocates, At, Rests, ModuleInv, Stands, AtStart, Hwaddr
  <1>4. /\ held' = InHands(r) /\ ended' = "no" /\ stack' = <<>>
        /\ r # NULL => heap'[r].kind = "block" /\ Len(heap'[r].data) = BLOCK
    BY <1>1, <1>3, AllocHands DEF Rests, Then
  <1>5. locals' \in Locals /\ locals'.ifconf = r
    BY <1>1 DEF Rests, ModuleInv, Locals, Then
  <1>6. held' = InHands(locals'.ifconf) /\ IsBlock(locals.ifconf)'
    BY <1>4, <1>5 DEF IsBlock, InHands
  <1>7. ModuleInv'
    BY <1>1, <1>3, <1>4, <1>5, <1>6, StandsInHwaddr, ModuleInvIf
       DEF Rests, AtStart, InGetHwaddr, Hwaddr, Routines, Then, InHands, IsBlock
  <1> QED
    BY <1>2, <1>7

LEMMA BufferStep ==
  ASSUME Rests, Allocates("buffer", "buffer", "fill")
  PROVE  Next /\ ModuleInv'
  <1>1. PICK r \in Given : RtlAlloc(BLOCK, r) /\ Then("fill", "buffer", r)
    BY DEF Allocates
  <1>2. Next
    BY <1>1, CallIsNext DEF Rests
  <1>3. /\ pc = "buffer" /\ pc \in Hwaddr /\ held = InHands(locals.ifconf) /\ stack = <<>>
        /\ IsBlock(locals.ifconf)
    BY DEF Allocates, At, Rests, ModuleInv, Stands, InGetHwaddr, Hwaddr
  <1>4. /\ held' = held \cup InHands(r) /\ ended' = "no" /\ stack' = <<>>
        /\ r # NULL => r \notin held
        /\ \A p \in held : heap'[p] = heap[p]
    BY <1>1, <1>3, AllocHands DEF Rests, Then
  <1>5. locals' \in Locals /\ locals'.buffer = r /\ locals'.ifconf = locals.ifconf
    BY <1>1 DEF Rests, ModuleInv, Locals, Then
  <1>6. /\ held' = InHands(locals'.ifconf) \cup InHands(locals'.buffer)
        /\ IsBlock(locals.ifconf)'
        /\ locals'.buffer = locals'.ifconf => locals'.buffer = NULL
    BY <1>3, <1>4, <1>5 DEF IsBlock, InHands
  <1>7. ModuleInv'
    BY <1>1, <1>3, <1>4, <1>5, <1>6, StandsInHwaddr, ModuleInvIf
       DEF Rests, AtStart, InGetHwaddr, Hwaddr, Routines, Then, InHands, IsBlock
  <1> QED
    BY <1>2, <1>7

LEMMA FillStep ==
  ASSUME Rests, Stores("fill", locals.ifconf, "SIOCGIFCONF")
  PROVE  Next /\ ModuleInv'
  <1>1. /\ pc = "fill" /\ pc \in Hwaddr /\ stack = <<>> /\ locals \in Locals
        /\ held = InHands(locals.ifconf) \cup InHands(locals.buffer)
        /\ locals.buffer = locals.ifconf => locals.buffer = NULL
        /\ IsBlock(locals.ifconf)
    BY DEF Stores, At, Rests, ModuleInv, Stands, InGetHwaddr, Hwaddr
  <1>2. CASE locals.ifconf = NULL
    <2>1. Traps /\ Stays
      BY <1>2 DEF Stores
    <2>2. Next
      BY <2>1, TrapIsNext DEF Rests
    <2>3. ModuleInv'
      BY <1>1, <2>1, StandsInHwaddr, ModuleInvIf DEF Rests, Traps, Stays, module
    <2> QED
      BY <2>2, <2>3
  <1>3. CASE locals.ifconf # NULL
    <2>1. RtlMemset(locals.ifconf, "zero", BLOCK) /\ Goto("SIOCGIFCONF")
      BY <1>3 DEF Stores
    <2>2. /\ locals.ifconf \in held /\ heap[locals.ifconf].kind = "block"
          /\ Len(heap[locals.ifconf].data) = BLOCK
      BY <1>1, <1>3 DEF IsBlock
    <2>3. Next
      BY <2>1, <2>2, CallIsNext DEF Rests
    <2>4. /\ held' = held /\ heap'[locals.ifconf].kind = "block"
          /\ Len(heap'[locals.ifconf].data) = BLOCK /\ ended' = "no"
      BY <2>1, <2>2, MemsetHands DEF Rests
    <2>5. /\ held' = InHands(locals'.ifconf) \cup InHands(locals'.buffer)
          /\ IsBlock(locals.ifconf)'
          /\ locals'.buffer = locals'.ifconf => locals'.buffer = NULL
      BY <1>1, <2>1, <2>2, <2>4 DEF IsBlock, InHands, Goto
    <2>6. ModuleInv'
      BY <1>1, <1>3, <2>1, <2>4, <2>5, StandsInHwaddr, ModuleInvIf
         DEF Rests, AtStart, InGetHwaddr, Hwaddr, Routines, Goto, InHands, IsBlock
    <2> QED
      BY <2>3, <2>6
  <1> QED
    BY <1>2, <1>3

LEMMA SiocgifconfStep ==
  ASSUME Rests, Siocgifconf
  PROVE  Next /\ ModuleInv'
  <1>1. /\ pc = "SIOCGIFCONF" /\ pc \in Hwaddr /\ stack = <<>> /\ locals \in Locals
        /\ held = InHands(locals.ifconf) \cup InHands(locals.buffer)
        /\ locals.buffer = locals.ifconf => locals.buffer = NULL
        /\ IsBlock(locals.ifconf) /\ locals.ifconf # NULL
    BY DEF Siocgifconf, At, Rests, ModuleInv, Stands, InGetHwaddr, Hwaddr
  <1>2. PICK r \in {0, Failed} :
         /\ IoIoctl(locals.sockfd, locals.ifconf, r)
         /\ IF r # 0 THEN Goto("log_fatal")
            ELSE /\ stack' = <<"ifc_len">> \o stack
                 /\ pc' = "num_ifaces" /\ UNCHANGED <<entry, uses, locals>>
    BY DEF Siocgifconf
  <1>3. /\ locals.ifconf \in held /\ heap[locals.ifconf].kind = "block"
        /\ Len(heap[locals.ifconf].data) = BLOCK
    BY <1>1 DEF IsBlock
  <1>4. Next
    BY <1>1, <1>2, <1>3, CallIsNext DEF Rests, Locals
  <1>5. /\ held' = held /\ heap'[locals.ifconf].kind = "block"
        /\ Len(heap'[locals.ifconf].data) = BLOCK /\ ended' = "no"
    BY <1>2, <1>3, IoctlHands DEF Rests
  <1>6. locals' = locals /\ UNCHANGED <<entry, uses>>
    BY <1>2 DEF Goto
  <1>7. CASE pc' = "log_fatal"
    BY <1>1, <1>4, <1>5, <1>6, <1>7, StandsNowhere, ModuleInvIf DEF Rests
  <1>8. CASE pc' # "log_fatal"
    <2>1. stack' = <<"ifc_len">> /\ pc' = "num_ifaces"
      BY <1>1, <1>2, <1>8, TwoOfIt DEF Goto
    <2>2. /\ held' = InHands(locals'.ifconf) \cup InHands(locals'.buffer)
          /\ IsBlock(locals.ifconf)'
          /\ locals'.buffer = locals'.ifconf => locals'.buffer = NULL
      BY <1>1, <1>3, <1>5, <1>6 DEF IsBlock, InHands
    <2>3. ModuleInv'
      BY <1>1, <1>5, <1>6, <2>1, <2>2, StandsInHwaddr, ModuleInvIf
         DEF Rests, AtStart, InGetHwaddr, Hwaddr, Routines, InHands, IsBlock
    <2> QED
      BY <1>4, <2>3
  <1> QED
    BY <1>7, <1>8

LEMMA NumIfacesStep ==
  ASSUME Rests, Logs("num_ifaces", 1, "leave")
  PROVE  Next /\ ModuleInv'
  <1>1. /\ pc = "num_ifaces" /\ pc \in Hwaddr /\ stack = <<"ifc_len">> /\ locals \in Locals
        /\ held = InHands(locals.ifconf) \cup InHands(locals.buffer)
        /\ locals.buffer = locals.ifconf => locals.buffer = NULL
        /\ IsBlock(locals.ifconf)
    BY DEF Logs, At, Rests, ModuleInv, Stands, InGetHwaddr, Hwaddr
  <1>2. NoCallMade /\ stack' = <<>> /\ pc' = "leave" /\ UNCHANGED <<entry, uses, locals>>
    <2>1. ~(Len(stack) < 1) /\ SubSeq(stack, 1 + 1, Len(stack)) = <<>>
      BY <1>1, TwoOfIt
    <2> QED
      BY <2>1 DEF Logs
  <1>3. Next
    BY <1>2, NoCallIsNext DEF Rests
  <1>4. /\ held' = InHands(locals'.ifconf) \cup InHands(locals'.buffer)
        /\ IsBlock(locals.ifconf)' /\ ended' = "no" /\ locals' \in Locals
        /\ locals'.buffer = locals'.ifconf => locals'.buffer = NULL
    BY <1>1, <1>2 DEF IsBlock, InHands, NoCallMade, Rests
  <1>5. ModuleInv'
    BY <1>1, <1>2, <1>4, StandsInHwaddr, ModuleInvIf
       DEF Rests, AtStart, InGetHwaddr, Hwaddr, Routines, InHands, IsBlock
  <1> QED
    BY <1>3, <1>5

LEMMA LeaveStep ==
  ASSUME Rests, GivesBack("leave", locals.buffer, "leave_ifconf")
  PROVE  Next /\ ModuleInv'
  <1>1. /\ pc = "leave" /\ pc \in Hwaddr /\ stack = <<>> /\ locals \in Locals
        /\ held = InHands(locals.ifconf) \cup InHands(locals.buffer)
        /\ locals.buffer = locals.ifconf => locals.buffer = NULL
    BY DEF GivesBack, At, Rests, ModuleInv, Stands, InGetHwaddr, Hwaddr
  <1>2. RtlFree(locals.buffer) /\ Goto("leave_ifconf")
    BY DEF GivesBack
  <1>3. locals.buffer \in held \cup {NULL}
    BY <1>1 DEF InHands
  <1>4. Next
    BY <1>2, <1>3, CallIsNext DEF Rests
  <1>5. held' = held \ {locals.buffer} /\ ended' = "no"
    BY <1>2, <1>3, FreeHands DEF Rests
  <1>6. held' = InHands(locals'.ifconf) /\ locals' \in Locals
    BY <1>1, <1>2, <1>5 DEF InHands, Goto
  <1>7. ModuleInv'
    BY <1>1, <1>2, <1>5, <1>6, StandsInHwaddr, ModuleInvIf
       DEF Rests, AtStart, InGetHwaddr, Hwaddr, Routines, Goto, InHands
  <1> QED
    BY <1>4, <1>7

LEMMA LeaveIfconfStep ==
  ASSUME Rests, GivesBack("leave_ifconf", IfconfGivenBack, Returns)
  PROVE  Next /\ ModuleInv'
  <1>1. /\ pc = "leave_ifconf" /\ pc \in Hwaddr /\ stack = <<>> /\ locals \in Locals
        /\ held = InHands(locals.ifconf) /\ entry # "get_hwaddr2"
    BY DEF GivesBack, At, Rests, ModuleInv, Stands, InGetHwaddr, Hwaddr
  <1>2. RtlFree(locals.ifconf) /\ Goto(Returns)
    BY DEF GivesBack, IfconfGivenBack
  <1>3. locals.ifconf \in held \cup {NULL}
    BY <1>1 DEF InHands
  <1>4. Next
    BY <1>2, <1>3, CallIsNext DEF Rests
  <1>5. ended' = "no" /\ locals' \in Locals /\ stack' = <<>>
    BY <1>1, <1>2, <1>3, FreeHands DEF Rests, Goto
  <1>6. pc' \in {"status", "returned"}
    BY <1>2 DEF Goto, Returns
  <1>7. Stands'
    BY <1>5, <1>6
       DEF Stands, AtStart, InCommLoop, InGetHwaddr, InGetHwaddr2, Hwaddr, Hwaddr2, Searching,
           Routines
  <1>8. ModuleInv'
    BY <1>1, <1>2, <1>5, <1>6, <1>7, ModuleInvIf DEF Rests, Goto
  <1> QED
    BY <1>4, <1>8

\* get_hwaddr leaves no status: the branch finds nothing.
LEMMA BranchOnStatusStep ==
  ASSUME Rests, BranchOnStatus
  PROVE  Panicking /\ ModuleInv'
  <1>1. pc = "status" /\ stack = <<>>
    BY DEF BranchOnStatus, At, Rests, ModuleInv, Stands, InGetHwaddr, Hwaddr
  <1>2. Panicking
    BY <1>1 DEF BranchOnStatus, Panicking, Rests
  <1>3. ModuleInv'
    BY <1>1, <1>2 DEF Panicking, Panics, module, Rests, ModuleInv
  <1> QED
    BY <1>2, <1>3

-----------------------------------------------------------------------------
\* get_hwaddr2.

OnlySocket == \A fd \in Fds \ {locals.sockfd} : fds[fd] = Closed

LEMMA StandsInHwaddr2 ==
  ASSUME pc' \in Hwaddr2
  PROVE  /\ AtStart' /\ InGetHwaddr2' => Stands'
         /\ pc' # "returned" /\ pc' # "recv_loop" /\ pc' \notin Hwaddr
  BY DEF Stands, InCommLoop, InGetHwaddr, Hwaddr, Hwaddr2, Searching

LEMMA GetHwaddr2SocketStep ==
  ASSUME Rests, GetHwaddr2Socket
  PROVE  Next /\ ModuleInv'
  <1>1. PICK r \in AnyFd : SocketCreate(2, r) /\ Then("ifreq", "sockfd", r)
    BY DEF GetHwaddr2Socket
  <1>2. Next
    BY <1>1, CallIsNext DEF Rests
  <1>3. pc = "get_hwaddr2" /\ held = {} /\ stack = <<>> /\ \A fd \in Fds : fds[fd] = Closed
    BY DEF GetHwaddr2Socket, At, Rests, ModuleInv, Stands, AtStart, Routines, InGetHwaddr2
  <1>4. /\ held' = {} /\ ended' = "no" /\ stack' = <<>>
        /\ \A fd \in Fds \ {r} : fds'[fd] = Closed
    BY <1>1, <1>3, SocketHands DEF Rests, Then
  <1>5. locals' \in Locals /\ locals'.sockfd = r
    BY <1>1 DEF Rests, ModuleInv, Locals, Then
  <1>6. ModuleInv'
    BY <1>1, <1>3, <1>4, <1>5, StandsInHwaddr2, ModuleInvIf
       DEF Rests, AtStart, InGetHwaddr2, Hwaddr2, Searching, Then
  <1> QED
    BY <1>2, <1>6

LEMMA IfreqStep ==
  ASSUME Rests, Allocates("ifreq", "buffer", "loop")
  PROVE  Next /\ ModuleInv'
  <1>1. PICK r \in Given : RtlAlloc(BLOCK, r) /\ Then("loop", "buffer", r)
    BY DEF Allocates
  <1>2. Next
    BY <1>1, CallIsNext DEF Rests
  <1>3. pc = "ifreq" /\ held = {} /\ stack = <<>> /\ OnlySocket
    BY DEF Allocates, At, Rests, ModuleInv, Stands, AtStart, InGetHwaddr2, Hwaddr2, OnlySocket
  <1>4. /\ held' = InHands(r) /\ ended' = "no" /\ stack' = <<>> /\ fds' = fds
        /\ r # NULL => heap'[r].kind = "block" /\ Len(heap'[r].data) = BLOCK
    BY <1>1, <1>3, AllocHands DEF Rests, Then
  <1>5. locals' \in Locals /\ locals'.buffer = r /\ locals'.sockfd = locals.sockfd
    BY <1>1 DEF Rests, ModuleInv, Locals, Then
  <1>6. held' = InHands(locals'.buffer) /\ IsBlock(locals.buffer)' /\ OnlySocket'
    BY <1>3, <1>4, <1>5 DEF IsBlock, InHands, OnlySocket
  <1>7. ModuleInv'
    BY <1>1, <1>3, <1>4, <1>5, <1>6, StandsInHwaddr2, ModuleInvIf
       DEF Rests, AtStart, InGetHwaddr2, Hwaddr2, Searching, Routines, OnlySocket, Then
  <1> QED
    BY <1>2, <1>7

\* The block, at the labels where the module has one.
LEMMA HasBlock ==
  ASSUME Rests, pc \in {"loop"} \cup Searching
  PROVE  /\ stack = <<>> /\ locals \in Locals /\ OnlySocket
         /\ held = InHands(locals.buffer) /\ IsBlock(locals.buffer)
         /\ pc \in Searching => locals.buffer # NULL
  BY DEF Rests, ModuleInv, Stands, InGetHwaddr2, Hwaddr2, OnlySocket

\* A step that leaves the hands as they are, but for what is in the block.
LEMMA SearchGoesOn ==
  ASSUME Rests, pc \in {"loop"} \cup Searching, locals.buffer # NULL,
         UNCHANGED <<entry, uses, fds, held>>, ended' = "no",
         heap'[locals.buffer].kind = "block", Len(heap'[locals.buffer].data) = BLOCK,
         locals' \in Locals, locals'.buffer = locals.buffer, locals'.sockfd = locals.sockfd,
         \/ stack' = stack /\ pc' \in {"loop", "log_fatal"} \cup Searching
         \/ stack' \in {<< 0 >>, << 1 >>} /\ pc' = "loop_end"
  PROVE  ModuleInv'
  <1>1. /\ stack = <<>> /\ OnlySocket /\ held = InHands(locals.buffer)
        /\ IsBlock(locals.buffer)
    BY HasBlock
  <1>2. held' = InHands(locals'.buffer) /\ IsBlock(locals.buffer)' /\ OnlySocket'
        /\ locals'.buffer # NULL
    BY <1>1 DEF IsBlock, InHands, OnlySocket
  <1>3. CASE pc' = "log_fatal"
    BY <1>3, StandsNowhere, ModuleInvIf DEF Rests
  <1>4. CASE pc' # "log_fatal"
    BY <1>1, <1>2, <1>4, StandsInHwaddr2, ModuleInvIf
       DEF Rests, AtStart, InGetHwaddr2, Hwaddr2, Searching, Routines, OnlySocket
  <1> QED
    BY <1>3, <1>4

LEMMA LoopStep ==
  ASSUME Rests, Stores("loop", locals.buffer, "SIOCGIFNAME")
  PROVE  Next /\ ModuleInv'
  <1>1. pc = "loop" /\ pc \in {"loop"} \cup Searching
    BY DEF Stores, At
  <1>2. locals \in Locals /\ IsBlock(locals.buffer)
    BY <1>1, HasBlock
  <1>3. CASE locals.buffer = NULL
    <2>1. Traps /\ Stays
      BY <1>3 DEF Stores
    <2>2. Next
      BY <2>1, TrapIsNext DEF Rests
    <2>3. pc' \in Hwaddr2
      BY <1>1, <2>1 DEF Hwaddr2, Stays, module
    <2>4. ModuleInv'
      BY <1>2, <2>1, <2>3, StandsInHwaddr2, ModuleInvIf DEF Rests, Traps, Stays, module
    <2> QED
      BY <2>2, <2>4
  <1>4. CASE locals.buffer # NULL
    <2>1. RtlMemset(locals.buffer, "zero", BLOCK) /\ Goto("SIOCGIFNAME")
      BY <1>4 DEF Stores
    <2>2. /\ locals.buffer \in held /\ heap[locals.buffer].kind = "block"
          /\ Len(heap[locals.buffer].data) = BLOCK
      BY <1>2, <1>4 DEF IsBlock
    <2>3. Next
      BY <2>1, <2>2, CallIsNext DEF Rests
    <2>4. /\ held' = held /\ heap'[locals.buffer].kind = "block" /\ fds' = fds
          /\ Len(heap'[locals.buffer].data) = BLOCK /\ ended' = "no"
      BY <2>1, <2>2, MemsetHands DEF Rests
    <2>5. pc' \in Searching
      BY <2>1 DEF Goto, Searching
    <2>6. ModuleInv'
      BY <1>1, <1>2, <1>4, <2>1, <2>4, <2>5, SearchGoesOn DEF Goto
    <2> QED
      BY <2>3, <2>6
  <1> QED
    BY <1>3, <1>4

LEMMA SiocStep ==
  ASSUME Rests, Siocgifname \/ Siocgifhwaddr
  PROVE  Next /\ ModuleInv'
  <1>1. pc \in {"loop"} \cup Searching /\ pc \in Searching
    BY DEF Siocgifname, Siocgifhwaddr, At, Searching
  <1>2. PICK r \in {0, Failed}, label \in {"log_fatal"} \cup Searching :
          IoIoctl(locals.sockfd, locals.buffer, r) /\ Goto(label)
    BY DEF Siocgifname, Siocgifhwaddr, Searching
  <1>3. locals \in Locals /\ IsBlock(locals.buffer) /\ locals.buffer # NULL
    BY <1>1, HasBlock
  <1>4. /\ locals.buffer \in held /\ heap[locals.buffer].kind = "block"
        /\ Len(heap[locals.buffer].data) = BLOCK
    BY <1>3 DEF IsBlock
  <1>5. Next
    BY <1>2, <1>3, <1>4, CallIsNext DEF Rests, Locals
  <1>6. /\ held' = held /\ heap'[locals.buffer].kind = "block" /\ fds' = fds
        /\ Len(heap'[locals.buffer].data) = BLOCK /\ ended' = "no"
    BY <1>2, <1>4, IoctlHands DEF Rests
  <1>7. ModuleInv'
    BY <1>1, <1>2, <1>3, <1>6, SearchGoesOn DEF Goto
  <1> QED
    BY <1>5, <1>7

LEMMA CheckHwaddrStep ==
  ASSUME Rests, CheckHwaddr
  PROVE  Next /\ ModuleInv'
  <1>1. pc \in {"loop"} \cup Searching /\ pc \in Searching
    BY DEF CheckHwaddr, At, Searching
  <1>2. NoCallMade /\ (Goto("loop_next") \/ LeavesStatus(1))
    BY DEF CheckHwaddr
  <1>3. locals \in Locals /\ IsBlock(locals.buffer) /\ locals.buffer # NULL /\ stack = <<>>
    BY <1>1, HasBlock
  <1>4. Next
    BY <1>2, NoCallIsNext DEF Rests
  <1>5. /\ held' = held /\ heap'[locals.buffer].kind = "block" /\ fds' = fds
        /\ Len(heap'[locals.buffer].data) = BLOCK /\ ended' = "no" /\ UNCHANGED locals
    BY <1>2, <1>3 DEF IsBlock, NoCallMade, Rests, Goto, LeavesStatus
  <1>6. \/ stack' = stack /\ pc' \in {"loop", "log_fatal"} \cup Searching
        \/ stack' \in {<<0>>, <<1>>} /\ pc' = "loop_end"
    BY <1>2, <1>3, TwoOfIt DEF Goto, LeavesStatus, Searching
  <1>7. UNCHANGED <<entry, uses>>
    BY <1>2 DEF Goto, LeavesStatus
  <1>8. ModuleInv'
    BY <1>1, <1>3, <1>5, <1>6, <1>7, SearchGoesOn
  <1> QED
    BY <1>4, <1>8

LEMMA LoopNextStep ==
  ASSUME Rests, LoopNext
  PROVE  Next /\ ModuleInv'
  <1>1. pc \in {"loop"} \cup Searching /\ pc \in Searching
    BY DEF LoopNext, At, Searching
  <1>2. /\ NoCallMade
        /\ \/ NextIndex # 0 /\ Then("loop", "index", NextIndex)
           \/ LeavesStatus(0)
    BY DEF LoopNext
  <1>3. locals \in Locals /\ IsBlock(locals.buffer) /\ locals.buffer # NULL /\ stack = <<>>
    BY <1>1, HasBlock
  <1>4. Next
    BY <1>2, NoCallIsNext DEF Rests
  <1>5. NextIndex \in Nat
    BY <1>3 DEF NextIndex, Locals
  <1>6. locals' \in Locals /\ locals'.buffer = locals.buffer /\ locals'.sockfd = locals.sockfd
    BY <1>2, <1>3, <1>5 DEF Locals, Then, LeavesStatus
  <1>7. /\ held' = held /\ heap'[locals.buffer].kind = "block" /\ fds' = fds
        /\ Len(heap'[locals.buffer].data) = BLOCK /\ ended' = "no"
    BY <1>2, <1>3 DEF IsBlock, NoCallMade, Rests
  <1>8. \/ stack' = stack /\ pc' \in {"loop", "log_fatal"} \cup Searching
        \/ stack' \in {<<0>>, <<1>>} /\ pc' = "loop_end"
    BY <1>2, <1>3, TwoOfIt DEF Then, LeavesStatus
  <1>9. UNCHANGED <<entry, uses>>
    BY <1>2 DEF Then, LeavesStatus
  <1>10. ModuleInv'
    BY <1>1, <1>3, <1>6, <1>7, <1>8, <1>9, SearchGoesOn
  <1> QED
    BY <1>4, <1>10

LEMMA LoopEndStep ==
  ASSUME Rests, GivesBack("loop_end", GivenBack, "io_close")
  PROVE  Next /\ ModuleInv'
  <1>1. /\ pc = "loop_end" /\ stack \in {<<0>>, <<1>>} /\ OnlySocket
        /\ held = InHands(locals.buffer) /\ locals \in Locals
    BY DEF GivesBack, At, Rests, ModuleInv, Stands, InGetHwaddr2, Hwaddr2, OnlySocket
  <1>2. RtlFree(locals.buffer) /\ Goto("io_close")
    BY DEF GivesBack, GivenBack
  <1>3. locals.buffer \in held \cup {NULL}
    BY <1>1 DEF InHands
  <1>4. Next
    BY <1>2, <1>3, CallIsNext DEF Rests
  <1>5. held' = {} /\ ended' = "no" /\ fds' = fds
    BY <1>1, <1>2, <1>3, FreeHands DEF Rests, InHands
  <1>6. OnlySocket' /\ locals' \in Locals /\ stack' \in {<<0>>, <<1>>}
    BY <1>1, <1>2, <1>5 DEF OnlySocket, Goto
  <1>7. ModuleInv'
    BY <1>1, <1>2, <1>5, <1>6, StandsInHwaddr2, ModuleInvIf
       DEF Rests, AtStart, InGetHwaddr2, Hwaddr2, Searching, Routines, OnlySocket, Goto
  <1> QED
    BY <1>4, <1>7

LEMMA CloseSocketStep ==
  ASSUME Rests, CloseSocket
  PROVE  Next /\ ModuleInv'
  <1>1. /\ pc = "io_close" /\ stack \in {<<0>>, <<1>>} /\ held = {} /\ OnlySocket
        /\ locals \in Locals /\ uses \subseteq Groups
    BY DEF CloseSocket, At, Rests, ModuleInv, Stands, InGetHwaddr2, Hwaddr2, OnlySocket
  <1>2. IoClose(locals.sockfd) /\ Goto("returned")
    BY DEF CloseSocket
  <1>3. Next
    BY <1>1, <1>2, CallIsNext DEF Rests, Locals
  <1>4. held' = {} /\ ended' = "no" /\ \A fd \in Fds : fds'[fd] = Closed
    BY <1>1, <1>2 DEF IoClose, OnlySocket, Rests
  <1>5. Stands'
    BY <1>2
       DEF Goto, Stands, AtStart, InCommLoop, InGetHwaddr, InGetHwaddr2, Hwaddr, Hwaddr2,
           Searching, Routines
  <1>6. ModuleInv'
    BY <1>1, <1>2, <1>4, <1>5 DEF ModuleInv, Goto, Hwaddr
  <1> QED
    BY <1>3, <1>6

-----------------------------------------------------------------------------
\* Any step.

LEMMA ModuleStep ==
  ASSUME Inv, ModuleInv, Module, Cardinality(net') <= IN_FLIGHT
  PROVE  (Next \/ Panicking) /\ ModuleInv'
  <1>1. ended = "no"
    BY DEF Module, Start, GetHwaddr, GetHwaddr2, CommLoop, LogFatal, Logs, BranchOnStatus,
           GetHwaddrSocket, Allocates, Stores, Siocgifconf, GivesBack, GetHwaddr2Socket,
           Siocgifname, Siocgifhwaddr, CheckHwaddr, LoopNext, CloseSocket, CreateSocket,
           CreatePeer, Bind, Receive, ProcessPacket, FreePacket, At
  <1>2. Rests
    BY <1>1 DEF Rests
  <1>3. CASE Start
    BY <1>2, <1>3, StartStep, BranchOnStatusStep DEF Start
  <1>4. CASE GetHwaddr
    BY <1>2, <1>4, GetHwaddrSocketStep, IfconfStep, BufferStep, FillStep, SiocgifconfStep,
       NumIfacesStep, LeaveStep, LeaveIfconfStep DEF GetHwaddr
  <1>5. CASE GetHwaddr2
    BY <1>2, <1>5, GetHwaddr2SocketStep, IfreqStep, LoopStep, SiocStep, CheckHwaddrStep,
       LoopNextStep, LoopEndStep, CloseSocketStep DEF GetHwaddr2
  <1>6. CASE CommLoop
    BY <1>2, <1>6, CreateSocketStep, CreatePeerStep, BindStep, ReceiveStep,
       ProcessPacketStep, FreePacketStep DEF CommLoop
  <1>7. CASE LogFatal
    BY <1>2, <1>7, LogFatalStep
  <1> QED
    BY <1>3, <1>4, <1>5, <1>6, <1>7 DEF Module

\* No native routine panics: a panic is the virtual machine's.
LEMMA CallsNeverPanic ==
  ASSUME ended = "no", Calls(Groups)
  PROVE  ended' # "panic"
  <1>1. CASE Frees \/ SysExit
    BY <1>1 DEF Frees, SysExit, RtlFree
  <1>2. CASE UsesMemory
    BY <1>2 DEF UsesMemory, RtlAlloc, RtlRealloc, RtlMemset, RtlMemcpy, Changes
  <1>3. CASE UsesBuffers
    BY <1>3 DEF UsesBuffers, RtlStrbufAlloc, ObtainsOrTraps, Traps, RtlStrbufFree, RtlFree,
                RtlStrbufResize, RtlPrintSb, RtlStrbufSetLength, Changes
  <1>4. CASE UsesFiles
    BY <1>4 DEF UsesFiles, IoOpen, OpensOrFails, IoRead, Traps, Writes, IoClose, IoIoctl,
                Failing, RtlMemset, Changes
  <1>5. CASE UsesModes
    BY <1>5 DEF UsesModes, IoOpen, OpensOrFails, SocketCreate, Failing, IoClose,
                SocketSetBlocking
  <1>6. CASE UsesAddresses
    BY <1>6 DEF UsesAddresses, SockaddrCreate, ObtainsOrTraps, Traps
  <1>7. ASSUME NEW type \in {1, 2}, UsesSockets(type)
        PROVE  ended' # "panic"
    BY <1>7 DEF UsesSockets, SocketCreate, OpensOrFails, Failing, IoClose, SocketRecvfrom,
                Traps
  <1>8. CASE UsesDatagrams
    BY <1>7, <1>8 DEF UsesDatagrams, SocketBind, SocketSendto, Failing
  <1>9. CASE UsesStreams
    BY <1>7, <1>9 DEF UsesStreams, SocketListen, SocketConnect, SocketShutdown, Becomes,
                      SocketAccept, OpensOrFails, Failing, Writes
  <1>10. CASE UsesSets
    BY <1>10 DEF UsesSets, FdsetCreate, ObtainsOrTraps, Traps, FdsetSet, FdsetClear, Changes,
                 IoSelect
  <1> QED
    BY <1>1, <1>2, <1>3, <1>4, <1>5, <1>6, <1>8, <1>9, <1>10 DEF Calls, Uses, Groups

LEMMA P2pStep ==
  ASSUME Inv, ModuleInv, [P2pNext]_P2pVars
  PROVE  ([Next]_vars \/ Panicking) /\ ModuleInv'
  <1>1. CASE Module /\ Cardinality(net') <= IN_FLIGHT
    BY <1>1, ModuleStep
  <1>2. CASE AnyModule
    <2>1. /\ ended = "no" /\ pc = "any" /\ uses \subseteq Groups /\ Calls(uses)
          /\ UNCHANGED <<entry, uses, pc, stack, locals>> /\ locals \in Locals
      BY <1>2 DEF AnyModule, At, Stays, module, ModuleInv
    <2>2. Calls(Groups)
      BY <2>1 DEF Calls
    <2>3. ended' # "panic"
      BY <2>1, <2>2, CallsNeverPanic
    <2>4. Stands'
      BY <2>1
         DEF Stands, AtStart, InCommLoop, InGetHwaddr, InGetHwaddr2, Hwaddr, Hwaddr2,
             Searching, Routines
    <2>5. ModuleInv'
      BY <2>1, <2>3, <2>4, ModuleInvIf
    <2> QED
      BY <2>1, <2>2, <2>5 DEF Next
  <1>3. CASE ended = "no" /\ Network /\ Stays
    <2>1. UNCHANGED <<heap, held, fds, ended, entry, uses, pc, stack, locals>>
      BY <1>3 DEF Network, Arrives, Lost, Stays, module
    <2>2. ModuleInv'
      BY <2>1 DEF ModuleInv, Stands, AtStart, InCommLoop, InGetHwaddr, InGetHwaddr2, HasPeer,
                  IsBlock
    <2> QED
      BY <1>3, <2>2 DEF Next
  <1>4. CASE UNCHANGED P2pVars
    <2>1. UNCHANGED <<heap, held, fds, ended, entry, uses, pc, stack, locals>> /\ UNCHANGED vars
      BY <1>4 DEF P2pVars, module, vars
    <2>2. ModuleInv'
      BY <2>1 DEF ModuleInv, Stands, AtStart, InCommLoop, InGetHwaddr, InGetHwaddr2, HasPeer,
                  IsBlock
    <2> QED
      BY <2>1, <2>2
  <1> QED
    BY <1>1, <1>2, <1>3, <1>4 DEF P2pNext

LEMMA InitModuleInv == P2pInit => Inv /\ ModuleInv
  <1> SUFFICES ASSUME P2pInit PROVE Inv /\ ModuleInv
    OBVIOUS
  <1>1. Inv
    BY InitInv DEF P2pInit
  <1>2. held = {} /\ ended = "no" /\ stack = <<>> /\ \A fd \in Fds : fds[fd] = Closed
    BY DEF P2pInit, Init
  <1>3. locals \in Locals /\ uses \subseteq Groups
    BY P2pAssumption DEF P2pInit, Locals, AnyFd, Given
  <1>4. pc = entry /\ pc \in {"start", "comm_loop", "get_hwaddr", "get_hwaddr2", "any"}
    BY DEF P2pInit, Routines
  <1>5. Stands
    BY <1>2, <1>4
       DEF Stands, AtStart, InCommLoop, InGetHwaddr, InGetHwaddr2, Hwaddr, Hwaddr2, Searching,
           Routines
  <1>6. ModuleInv
    BY <1>2, <1>3, <1>4, <1>5 DEF ModuleInv, Hwaddr
  <1> QED
    BY <1>1, <1>6

\* The virtual machine's panic changes nothing but how the process ended.
LEMMA InvStep ==
  ASSUME Inv, ModuleInv, [P2pNext]_P2pVars
  PROVE  Inv'
  <1>1. CASE Next
    BY <1>1, NextInv
  <1>2. CASE UNCHANGED vars
    BY <1>2, StutterInv
  <1>3. CASE Panicking
    <2>1. ended = "no" /\ ended' \in Ends /\ UNCHANGED <<machine, heap, held, fds, net>>
      BY <1>3 DEF Panicking, Panics, Ends
    <2> QED
      BY <2>1, TrapsInv
  <1> QED
    BY <1>1, <1>2, <1>3, P2pStep


LEMMA P2pInvariant == P2pSpec => [](Inv /\ ModuleInv)
  <1>1. Inv /\ ModuleInv /\ [P2pNext]_P2pVars => Inv' /\ ModuleInv'
    BY P2pStep, InvStep
  <1> QED
    BY <1>1, InitModuleInv, PTL DEF P2pSpec

\* Every native call of the peer to peer module is one of a careful module, or the process
\* ends in a panic of the virtual machine (src/src/modules/p2p.vmS).
THEOREM P2pKeepsTheRules == P2pSpec => KeepsTheRules
  <1>1. Inv /\ ModuleInv /\ [P2pNext]_P2pVars
          => [(entry \in Routines) => (Next \/ ended' = "panic")]_vars
    BY P2pStep DEF Panicking, Panics
  <1> QED
    BY <1>1, P2pInvariant, PTL DEF P2pSpec, KeepsTheRules

\* The receive loop is back at its head with an empty data stack and the peer's address
\* only, and get_hwaddr2 returns with a status, nothing held and nothing open.
THEOREM P2pLeavesAsCommented == P2pSpec => []LeavesAsCommented
  <1>1. ModuleInv => LeavesAsCommented
    BY DEF ModuleInv, Stands, InCommLoop, LeavesAsCommented
  <1> QED
    BY <1>1, P2pInvariant, PTL

\* Only the branch on get_hwaddr's status finds too little on the data stack.
THEOREM P2pPanicsOnlyForStatus == P2pSpec => []PanicsOnlyForStatus
  <1>1. ModuleInv => PanicsOnlyForStatus
    BY DEF ModuleInv, PanicsOnlyForStatus
  <1> QED
    BY <1>1, P2pInvariant, PTL

LEMMA PanicKeeps ==
  ASSUME Panicking
  PROVE  /\ BlockingAsAnswered => BlockingAsAnswered'
         /\ ResizeKeeps => ResizeKeeps'
         /\ AsSent => AsSent'
         /\ WaitsAsAsked => WaitsAsAsked'
  BY DEF Panicking, Panics, BlockingAsAnswered, ResizeKeeps, AsSent, WaitsAsAsked

CallsAsAnswered == BlockingAsAnswered /\ ResizeKeeps /\ AsSent /\ WaitsAsAsked

LEMMA CallsKept ==
  ASSUME Inv, ModuleInv, [P2pNext]_P2pVars, CallsAsAnswered
  PROVE  CallsAsAnswered'
  <1>1. CASE [Next]_vars
    BY <1>1, BlockingKept, ResizeKept, AsSentKept, WaitsKept DEF CallsAsAnswered
  <1>2. CASE Panicking
    BY <1>2, PanicKeeps DEF CallsAsAnswered
  <1> QED
    BY <1>1, <1>2, P2pStep

\* What holds of any careful module holds of this one: memory keeps its form, no block is
\* lost, no byte made up, and the calls do what they answer.
THEOREM P2pIsCareful ==
  P2pSpec => [](/\ TypeOK /\ Owned /\ NothingMadeUp /\ AddressesAgree /\ HoldsWhatCame
                /\ BlockingAsAnswered /\ ResizeKeeps /\ WaitsAsAsked)
  <1>1. P2pInit => CallsAsAnswered
    BY DEF P2pInit, Init, CallsAsAnswered, BlockingAsAnswered, ResizeKeeps, AsSent, WaitsAsAsked
  <1>2. Inv /\ ModuleInv /\ [P2pNext]_P2pVars /\ CallsAsAnswered => CallsAsAnswered'
    BY CallsKept
  <1>3. Inv /\ CallsAsAnswered
          => /\ TypeOK /\ Owned /\ NothingMadeUp /\ AddressesAgree /\ HoldsWhatCame
             /\ BlockingAsAnswered /\ ResizeKeeps /\ WaitsAsAsked
    BY AddressesAgreeIf, HoldsIf DEF Inv, CallsAsAnswered
  <1> QED
    BY <1>1, <1>2, <1>3, P2pInvariant, PTL DEF P2pSpec

-----------------------------------------------------------------------------
\* The variant of the routines: how far a label stands from the end of its routine, in one
\* turn of its loop.
Place ==
  [start |-> 10, get_hwaddr |-> 9, ifconf |-> 8, buffer |-> 7, fill |-> 6, SIOCGIFCONF |-> 5,
   num_ifaces |-> 4, leave |-> 3, leave_ifconf |-> 2, status |-> 1,
   get_hwaddr2 |-> 10, ifreq |-> 9, loop |-> 8, SIOCGIFNAME |-> 7, SIOCGIFHWADDR |-> 6,
   check_hwaddr |-> 5, loop_next |-> 4, loop_end |-> 3, io_close |-> 2,
   comm_loop |-> 7, sockaddr |-> 6, bind |-> 5, recv_loop |-> 4, comm_process_packet |-> 3,
   rtl_free |-> 2, log_fatal |-> 1, returned |-> 0]

\* The only way back is from a packet that is freed to the next one (p2p.vmS:126), and from
\* one interface to the one below it (p2p.vmS:350): any other step of the module comes
\* nearer to the end of its routine, or ends the process.
RoutinesProgress ==
  [][Module =>
       \/ ended' # "no"
       \/ pc = "rtl_free" /\ pc' = "recv_loop"
       \/ locals'.index \in Nat \ {0} /\ locals'.index < locals.index
       \/ locals'.index = locals.index /\ Place[pc'] < Place[pc]]_P2pVars

\* Comes nearer without a new interface.
Nearer == locals'.index = locals.index /\ Place[pc'] < Place[pc]

LEMMA OtherLocal ==
  ASSUME locals \in Locals, NEW label, NEW r, NEW next,
         label \in {"sockfd", "peer", "ifconf", "buffer"}, Then(next, label, r)
  PROVE  pc' = next /\ locals'.index = locals.index
  BY DEF Then, Locals

LEMMA CommLoopProgresses ==
  ASSUME locals \in Locals, CommLoop
  PROVE  ended' # "no" \/ (pc = "rtl_free" /\ pc' = "recv_loop") \/ Nearer
  <1>1. CASE CreateSocket
    <2>1. PICK r \in AnyFd : Then(IF r < 0 THEN "log_fatal" ELSE "sockaddr", "sockfd", r)
      BY <1>1 DEF CreateSocket
    <2>2. pc' \in {"log_fatal", "sockaddr"} /\ locals'.index = locals.index
      BY <2>1, OtherLocal
    <2> QED
      BY <1>1, <2>2 DEF CreateSocket, At, Nearer, Place
  <1>2. CASE CreatePeer
    <2>1. pc = "sockaddr" /\ \E r \in Given : Then("bind", "peer", r)
      BY <1>2 DEF CreatePeer, At
    <2>2. pc' = "bind" /\ locals'.index = locals.index
      BY <2>1, OtherLocal
    <2> QED
      BY <2>1, <2>2 DEF Nearer, Place
  <1>3. CASE Bind
    <2>1. pc = "bind" /\ pc' \in {"log_fatal", "recv_loop"} /\ UNCHANGED locals
      BY <1>3 DEF Bind, At, Goto
    <2> QED
      BY <2>1 DEF Nearer, Place
  <1>4. CASE Receive
    <2>1. pc = "recv_loop" /\ pc' \in {"log_fatal", "comm_process_packet"} /\ UNCHANGED locals
      BY <1>4 DEF Receive, At
    <2> QED
      BY <2>1 DEF Nearer, Place
  <1>5. CASE ProcessPacket
    BY <1>5 DEF ProcessPacket, Logs, At, Panics, Nearer, Place
  <1>6. CASE FreePacket
    BY <1>6 DEF FreePacket, At, Panics
  <1> QED
    BY <1>1, <1>2, <1>3, <1>4, <1>5, <1>6 DEF CommLoop

LEMMA GetHwaddrProgresses ==
  ASSUME locals \in Locals, Start \/ GetHwaddr
  PROVE  ended' # "no" \/ Nearer
  <1>1. CASE GetHwaddrSocket
    <2>1. pc = "get_hwaddr" /\ \E r \in AnyFd : Then("ifconf", "sockfd", r)
      BY <1>1 DEF GetHwaddrSocket, At
    <2>2. pc' = "ifconf" /\ locals'.index = locals.index
      BY <2>1, OtherLocal
    <2> QED
      BY <2>1, <2>2 DEF Nearer, Place
  <1>2. CASE Allocates("ifconf", "ifconf", "buffer")
    <2>1. pc = "ifconf" /\ \E r \in Given : Then("buffer", "ifconf", r)
      BY <1>2 DEF Allocates, At
    <2>2. pc' = "buffer" /\ locals'.index = locals.index
      BY <2>1, OtherLocal
    <2> QED
      BY <2>1, <2>2 DEF Nearer, Place
  <1>3. CASE Allocates("buffer", "buffer", "fill")
    <2>1. pc = "buffer" /\ \E r \in Given : Then("fill", "buffer", r)
      BY <1>3 DEF Allocates, At
    <2>2. pc' = "fill" /\ locals'.index = locals.index
      BY <2>1, OtherLocal
    <2> QED
      BY <2>1, <2>2 DEF Nearer, Place
  <1>4. CASE Stores("fill", locals.ifconf, "SIOCGIFCONF")
    BY <1>4 DEF Stores, At, Traps, Goto, Nearer, Place
  <1>5. CASE Siocgifconf
    BY <1>5 DEF Siocgifconf, At, Goto, Nearer, Place
  <1>6. CASE Logs("num_ifaces", 1, "leave") \/ Logs("start", 0, "get_hwaddr")
    BY <1>6 DEF Logs, At, Panics, Nearer, Place
  <1>7. CASE GivesBack("leave", locals.buffer, "leave_ifconf")
    BY <1>7 DEF GivesBack, At, Goto, Nearer, Place
  <1>8. CASE GivesBack("leave_ifconf", IfconfGivenBack, Returns)
    <2>1. Returns \in {"status", "returned"}
      BY DEF Returns
    <2> QED
      BY <1>8, <2>1 DEF GivesBack, At, Goto, Nearer, Place
  <1>9. CASE BranchOnStatus
    BY <1>9 DEF BranchOnStatus, Panics, SysExit, Traps
  <1> QED
    BY <1>1, <1>2, <1>3, <1>4, <1>5, <1>6, <1>7, <1>8, <1>9 DEF Start, GetHwaddr

LEMMA GetHwaddr2Progresses ==
  ASSUME locals \in Locals, GetHwaddr2
  PROVE  \/ ended' # "no" \/ Nearer
         \/ locals'.index \in Nat \ {0} /\ locals'.index < locals.index
  <1>1. CASE GetHwaddr2Socket
    <2>1. pc = "get_hwaddr2" /\ \E r \in AnyFd : Then("ifreq", "sockfd", r)
      BY <1>1 DEF GetHwaddr2Socket, At
    <2>2. pc' = "ifreq" /\ locals'.index = locals.index
      BY <2>1, OtherLocal
    <2> QED
      BY <2>1, <2>2 DEF Nearer, Place
  <1>2. CASE Allocates("ifreq", "buffer", "loop")
    <2>1. pc = "ifreq" /\ \E r \in Given : Then("loop", "buffer", r)
      BY <1>2 DEF Allocates, At
    <2>2. pc' = "loop" /\ locals'.index = locals.index
      BY <2>1, OtherLocal
    <2> QED
      BY <2>1, <2>2 DEF Nearer, Place
  <1>3. CASE Stores("loop", locals.buffer, "SIOCGIFNAME")
    BY <1>3 DEF Stores, At, Traps, Goto, Nearer, Place
  <1>4. CASE Siocgifname \/ Siocgifhwaddr
    BY <1>4 DEF Siocgifname, Siocgifhwaddr, At, Goto, Nearer, Place
  <1>5. CASE CheckHwaddr
    BY <1>5 DEF CheckHwaddr, LeavesStatus, At, Goto, Nearer, Place
  <1>6. CASE LoopNext
    <2>1. CASE NextIndex # 0
      <3>1. locals' = [locals EXCEPT !.index = NextIndex]
        BY <1>6, <2>1 DEF LoopNext, Then
      <3>2. locals.index \in Nat \ {0} /\ locals'.index = locals.index - 1
        BY <3>1 DEF Locals, NextIndex
      <3> QED
        BY <2>1, <3>2 DEF NextIndex
    <2>2. CASE NextIndex = 0
      BY <1>6, <2>2 DEF LoopNext, LeavesStatus, At, Nearer, Place
    <2> QED
      BY <2>1, <2>2
  <1>7. CASE GivesBack("loop_end", GivenBack, "io_close")
    BY <1>7 DEF GivesBack, At, Goto, Nearer, Place
  <1>8. CASE CloseSocket
    BY <1>8 DEF CloseSocket, At, Goto, Nearer, Place
  <1> QED
    BY <1>1, <1>2, <1>3, <1>4, <1>5, <1>6, <1>7, <1>8 DEF GetHwaddr2

\* The search for an interface and the work on a packet end: each step comes nearer, and
\* the places and interfaces left are numbers.  The receive loop alone goes on for ever.
THEOREM P2pRoutinesProgress == P2pSpec => RoutinesProgress
  <1>1. Inv /\ ModuleInv /\ [P2pNext]_P2pVars
          => [Module =>
                \/ ended' # "no"
                \/ pc = "rtl_free" /\ pc' = "recv_loop"
                \/ locals'.index \in Nat \ {0} /\ locals'.index < locals.index
                \/ locals'.index = locals.index /\ Place[pc'] < Place[pc]]_P2pVars
    <2> SUFFICES ASSUME ModuleInv, Module
                 PROVE  \/ ended' # "no"
                        \/ pc = "rtl_free" /\ pc' = "recv_loop"
                        \/ locals'.index \in Nat \ {0} /\ locals'.index < locals.index
                        \/ Nearer
      BY Zenon DEF Nearer
    <2>1. locals \in Locals
      BY DEF ModuleInv
    <2>2. LogFatal => ended' # "no"
      BY DEF LogFatal, SysExit
    <2> QED
      BY <2>1, <2>2, CommLoopProgresses, GetHwaddrProgresses, GetHwaddr2Progresses DEF Module
  <1> QED
    BY <1>1, P2pInvariant, PTL DEF P2pSpec, RoutinesProgress

\* get_hwaddr leaves no status, whatever its calls came to (p2p.vmS:263): the branch on it
\* finds an empty stack each time, and start ends in the machine's panic (p2p.vmS:35).
THEOREM P2pStartPanics ==
  P2pSpec => [][pc = "status" /\ Module => stack = <<>> /\ ended' = "panic"]_P2pVars
  <1>1. ModuleInv => [pc = "status" /\ Module => stack = <<>> /\ ended' = "panic"]_P2pVars
    <2> SUFFICES ASSUME ModuleInv, pc = "status", Module
                 PROVE  stack = <<>> /\ ended' = "panic"
      OBVIOUS
    <2>1. ~CommLoop
      BY DEF CommLoop, CreateSocket, CreatePeer, Bind, Receive, ProcessPacket, FreePacket, Logs, At
    <2>2. ~GetHwaddr2
      BY DEF GetHwaddr2, GetHwaddr2Socket, Allocates, Stores, Siocgifname, Siocgifhwaddr,
             CheckHwaddr, LoopNext, GivesBack, CloseSocket, At
    <2>3. ~GetHwaddr
      BY DEF GetHwaddr, GetHwaddrSocket, Allocates, Stores, Siocgifconf, Logs, GivesBack, At
    <2>4. BranchOnStatus
      BY <2>1, <2>2, <2>3 DEF Module, Start, Logs, LogFatal, At
    <2>5. ended = "no" /\ stack = <<>>
      BY <2>4 DEF BranchOnStatus, At, ModuleInv, Stands, InGetHwaddr, Hwaddr
    <2> QED
      BY <2>4, <2>5 DEF BranchOnStatus, Panics
  <1> QED
    BY <1>1, P2pInvariant, PTL DEF P2pSpec
=============================================================================
