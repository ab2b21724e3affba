------------------------------- MODULE VmThunks -------------------------------
(***************************************************************************)
(* The native routines a module calls (src/src/vm_thunks/): memory, string *)
(* buffers, files, sockets, addresses and descriptor sets, one action per  *)
(* routine, with the kernel behind them.  An action's parameters are the   *)
(* operands it takes and, last, the result it pushes.  Next is a module of *)
(* which only is known that it hands over what it holds.                   *)
(***************************************************************************)
EXTENDS Strbuf

CONSTANTS
    Ptrs, NULL,   \* blocks of memory
    Fds,          \* descriptors the kernel gives out
    NoBlock, Closed, NoAddress, NoCall,
    BYTE,         \* values of a byte in a number (256)
    SECOND,       \* milliseconds of a second, microseconds of a millisecond (1000)
    INT,          \* values of an int (2^32)
    HOST,         \* this host's address
    EPHEMERAL,    \* the port the kernel gives a socket that is not bound
    Sizes,        \* bound: sizes a module asks for
    Texts,        \* bound: what it prints, and what it is sent
    Ips, Ports,   \* bound: words it makes addresses of
    Timeouts,     \* bound: how long it waits
    Senders,      \* bound: the addresses others send from
    IN_FLIGHT     \* bound: datagrams on their way

\* The values of two bytes, and of four.
SHORT == BYTE * BYTE
WORD == SHORT * SHORT

\* What is in memory: what somebody wrote, or Junk.
Chars == {"zero", "one"} \cup UNION {Range(text) : text \in Texts}
Bytes == Chars \cup {Junk}

StrbufOK(sb) == sb.length <= sb.max_length /\ Len(sb.data) = sb.max_length

BlockObjects == [kind : {"block"}, data : Seq(Bytes)]
StrbufObjects ==
    {sb \in [kind : {"strbuf"}, length : 0 .. LEN - 1, max_length : 0 .. LEN - 1,
             data : Seq(Bytes)] : StrbufOK(sb)}
SockaddrObjects ==
    [kind : {"sockaddr"}, s_addr : [1 .. 4 -> 0 .. BYTE - 1],
     sin_port : [1 .. 2 -> 0 .. BYTE - 1]]
FdsetObjects == [kind : {"fdset"}, set : SUBSET Fds]
Objects == BlockObjects \cup StrbufObjects \cup SockaddrObjects \cup FdsetObjects

Addresses == (0 .. WORD - 1) \X (0 .. SHORT - 1)
Flags == {"O_APPEND", "O_NONBLOCK"}
Files ==
    [kind : {"file", "stream", "dgram", "raw", "listening", "connected"},
     bound : Addresses \cup {NoAddress}, flags : SUBSET Flags]

ASSUME ThunksAssumption ==
    /\ NULL \notin Ptrs /\ NoBlock \notin Objects /\ Closed \notin Files
    /\ Fds \subseteq Nat
    /\ BYTE \in Nat \ {0, 1} /\ SECOND \in Nat \ {0} /\ INT \in Nat \ {0}
    /\ Ips \cup {HOST} \subseteq 0 .. WORD - 1 /\ EPHEMERAL \in 0 .. SHORT - 1
    /\ Senders \subseteq Addresses
    /\ Sizes \subseteq Nat /\ Ports \subseteq Nat /\ Timeouts \subseteq Int
    /\ Texts \subseteq Seq(Chars) /\ Junk \notin Chars

VARIABLES
    machine,      \* what the program is built for: "i386", or "mips" (big-endian)
    heap,         \* pointer -> what is in the block
    held,         \* the pointers the module has and has not given back
    fds,          \* descriptor -> what is open there
    net,          \* datagrams on their way to the sockets here, or gone out
    ended,        \* "no", or how the process ended
    call          \* history: what the last call was given and what it gave

vars == <<machine, heap, held, fds, net, ended, call>>

Failed == -1
Unchecked == UNCHANGED machine /\ call' = NoCall

Init ==
    /\ machine \in {"i386", "mips"}
    /\ heap = [p \in Ptrs |-> NoBlock] /\ held = {}
    /\ fds = [fd \in Fds |-> Closed] /\ net = {}
    /\ ended = "no" /\ call = NoCall

Traps == ended' = "trap" /\ UNCHANGED <<machine, heap, held, fds, net, call>>

-----------------------------------------------------------------------------
\* Memory.  The heap gives any block that is free, or refuses.
Free == {p \in Ptrs : heap[p] = NoBlock}
Blocks == Ptrs \ Free

Obtains(object, r) ==
    /\ r \in Free
    /\ heap' = [heap EXCEPT ![r] = object]
    /\ held' = held \cup {r}

\* rtl_realloc: in place or elsewhere.
Moves(p, object, r) ==
    /\ r \in Free \cup {p}
    /\ heap' = [q \in Ptrs |-> IF q = r THEN object
                               ELSE IF q = p THEN NoBlock ELSE heap[q]]
    /\ held' = (held \ {p}) \cup {r}

Refused(r) == r = NULL /\ UNCHANGED <<heap, held>>

\* A routine that does not look whether it got its memory writes through NULL.
ObtainsOrTraps(object, r) ==
    \/ Obtains(object, r) /\ Unchecked /\ UNCHANGED <<fds, net, ended>>
    \/ r = NULL /\ Traps

Block(size) == [kind |-> "block", data |-> [i \in 1 .. size |-> Junk]]

RtlAlloc(size, r) ==
    /\ Obtains(Block(size), r) \/ Refused(r)
    /\ Unchecked /\ UNCHANGED <<fds, net, ended>>

\* rtl_free(NULL) does nothing; a pointer that is not held breaks the heap.
Releases(p) ==
    /\ heap' = [q \in Ptrs |-> IF q = p THEN NoBlock ELSE heap[q]]
    /\ held' = held \ {p}

RtlFree(p) ==
    \/ p \in held \cup {NULL} /\ Releases(p) /\ Unchecked /\ UNCHANGED <<fds, net, ended>>
    \/ /\ p \notin held \cup {NULL}
       /\ ended' = "undefined"
       /\ UNCHANGED <<machine, heap, held, fds, net, call>>

\* rtl_realloc(NULL, size) allocates, and rtl_realloc(p, 0) frees p.
RtlRealloc(p, size, r) ==
    /\ \/ p = NULL /\ (Obtains(Block(size), r) \/ Refused(r))
       \/ p # NULL /\ size = 0 /\ r = NULL /\ Releases(p)
       \/ /\ p # NULL /\ size > 0
          /\ LET data == [i \in 1 .. size |->
                            IF i <= Len(heap[p].data) THEN heap[p].data[i] ELSE Junk]
             IN Moves(p, [heap[p] EXCEPT !.data = data], r) \/ Refused(r)
    /\ Unchecked /\ UNCHANGED <<fds, net, ended>>

Changes(p, object) ==
    /\ heap' = [heap EXCEPT ![p] = object]
    /\ Unchecked /\ UNCHANGED <<held, fds, net, ended>>

RtlMemset(p, byte, size) ==
    Changes(p, Filled(heap[p], [i \in 1 .. size |-> byte]))

RtlMemcpy(dest, src, size) ==
    Changes(dest, Filled(heap[dest], SubSeq(heap[src].data, 1, size)))

-----------------------------------------------------------------------------
\* String buffers.
Buffer(sb) == [kind |-> "strbuf", length |-> sb.length,
               max_length |-> sb.max_length, data |-> sb.data]

RtlStrbufAlloc(size, r) == ObtainsOrTraps(Buffer(Allocated(size)), r)

RtlStrbufFree(p) == RtlFree(p)

RtlStrbufSetLength(p, length) == Changes(p, WithLength(heap[p], length))

RtlStrbufResize(p, size, r) ==
    \/ Grows(heap[p], size) /\ r = NULL /\ Traps
    \/ /\ IF Grows(heap[p], size)
          THEN Moves(p, Resized(heap[p], size), r)
          ELSE r = p /\ UNCHANGED <<heap, held>>
       /\ call' = [routine |-> "resize", size |-> size, before |-> heap[p], result |-> r]
       /\ UNCHANGED <<machine, fds, net, ended>>

RtlPrintSb(p, text) == Changes(p, Appended(heap[p], text))

-----------------------------------------------------------------------------
\* Files.  Any call of the kernel may fail, and on a descriptor that is not open it
\* does; the wrappers of both machines then give -1.
Open(fd) == fd \in Fds /\ fds[fd] # Closed

OpensOrFails(file, r) ==
    /\ \/ r \in Fds /\ fds[r] = Closed /\ fds' = [fds EXCEPT ![r] = file]
       \/ r = Failed /\ UNCHANGED fds
    /\ Unchecked /\ UNCHANGED <<heap, held, net, ended>>

File(kind, flags) == [kind |-> kind, bound |-> NoAddress, flags |-> flags]

Failing(r) == r = Failed /\ Unchecked /\ UNCHANGED <<heap, held, fds, net, ended>>

IoOpen(flags, r) == OpensOrFails(File("file", flags), r)

\* How much a read or a receive is asked for: the buffer's size, which may be less
\* than the module asked for.
Room_AsAsked(sb, size) == size                                          \* mutant
Room(sb, size) == sb.max_length

\* What is left of the buffer of a call that fails.
Dropped_Kept(sb) == sb                                                  \* mutant
Dropped(sb) == NoBlock

\* The kernel puts bytes into a buffer of size, and the routine gives it the length the
\* kernel returns.
LengthOf_Whole(sb, came) == sb.max_length                               \* mutant
LengthOf(sb, came) == Len(came)

Received(size, bytes) ==
    LET sb == Allocated(size)
        came == SubSeq(bytes, 1, Smaller(Len(bytes), Room(sb, size)))
    IN Buffer(WithLength(Filled(sb, came), LengthOf(sb, came)))

\* A failed read frees the buffer and goes on: it sets the length of the freed buffer,
\* and pushes it above NULL.
IoRead(fd, size, r) ==
    \/ r = NULL /\ Traps
    \/ /\ Open(fd)
       /\ \E bytes \in Texts :
            /\ Obtains(Received(size, bytes), r)
            /\ call' = [routine |-> "io_read", bytes |-> bytes, size |-> size, result |-> r]
       /\ UNCHANGED <<machine, fds, net, ended>>
    \/ /\ r \in Free
       /\ held' = held \cup {r}
       /\ ended' = "undefined"
       /\ UNCHANGED <<machine, heap, fds, net, call>>

\* io_write, socket_send: all of it, some of it, or nothing.
Writes(fd, p, r) ==
    /\ r \in 0 .. heap[p].length => Open(fd)
    /\ r \in Failed .. heap[p].length
    /\ Unchecked /\ UNCHANGED <<heap, held, fds, net, ended>>

IoClose(fd) ==
    /\ fds' = [f \in Fds |-> IF f = fd THEN Closed ELSE fds[f]]
    /\ Unchecked /\ UNCHANGED <<heap, held, net, ended>>

\* The kernel may write to the block.
IoIoctl(fd, p, r) ==
    \/ Failing(r)
    \/ /\ Open(fd) /\ r = 0
       /\ \E byte \in {"zero", "one"} : RtlMemset(p, byte, Len(heap[p].data))

-----------------------------------------------------------------------------
\* Addresses.  A number of two or four bytes, most significant first, and as the machine
\* stores it.
Split2(x) == <<(x \div BYTE) % BYTE, x % BYTE>>
Split4(x) == Split2(x \div SHORT) \o Split2(x)
Join2(bytes) == bytes[1] * BYTE + bytes[2]
Join4(bytes) == Join2(bytes) * SHORT + bytes[3] * BYTE + bytes[4]

InMemory(bytes) == IF machine = "mips" THEN bytes ELSE Reverse(bytes)

rtl_htons(x) == IF machine = "mips" THEN x ELSE Join2(Reverse(Split2(x)))
rtl_htonl_Stays(x) == x                                                 \* mutant
rtl_htonl(x) == IF machine = "mips" THEN x ELSE Join4(Reverse(Split4(x)))

Sockaddr(ip, port) ==
    [kind |-> "sockaddr", s_addr |-> InMemory(Split4(rtl_htonl(ip))),
     sin_port |-> InMemory(Split2(rtl_htons(port)))]

SockaddrCreate(ip, port, r) == ObtainsOrTraps(Sockaddr(ip, port), r)

sockaddr_get_ip(sa) == rtl_htonl(Join4(InMemory(sa.s_addr)))
sockaddr_get_port(sa) == rtl_htons(Join2(InMemory(sa.sin_port)))

\* The kernel reads and writes them most significant byte first.
AddressIn(sa) == <<Join4(sa.s_addr), Join2(sa.sin_port)>>
WithAddress(sa, address) ==
    [sa EXCEPT !.s_addr = Split4(address[1]), !.sin_port = Split2(address[2])]

-----------------------------------------------------------------------------
\* Sockets.
Socket(fd) == Open(fd) /\ fds[fd].kind # "file"

SocketType == <<"stream", "dgram", "raw">>

SocketCreate(type, r) ==
    IF type \in DOMAIN SocketType
    THEN OpensOrFails(File(SocketType[type], {}), r)
    ELSE Failing(r)

\* The flags F_SETFL is given.  The test for a failed F_GETFL is never true: all the bits
\* of -1 are then taken for flags.
NewFlags_Only(fd, blocking) == IF blocking THEN {} ELSE {"O_NONBLOCK"}  \* mutant
NewFlags(fd, blocking) ==
    LET flags == IF Open(fd) THEN fds[fd].flags ELSE Flags
    IN IF blocking THEN flags \ {"O_NONBLOCK"} ELSE flags \cup {"O_NONBLOCK"}

SocketSetBlocking(fd, blocking, r) ==
    /\ \/ Open(fd) /\ r = 0 /\ fds' = [fds EXCEPT ![fd].flags = NewFlags(fd, blocking)]
       \/ r = Failed /\ UNCHANGED fds
    /\ call' = [routine |-> "set_blocking", fd |-> fd, blocking |-> blocking,
                before |-> fds, result |-> r]
    /\ UNCHANGED <<machine, heap, held, net, ended>>

IsHere(address) == address[1] \in {0, HOST}
Takes(bound, address) ==
    /\ bound # NoAddress
    /\ bound[2] = address[2] /\ bound[1] \in {0, address[1]}

Binds(fd, address) == fds' = [fds EXCEPT ![fd].bound = address]

SocketBind(fd, sa, r) ==
    \/ Failing(r)
    \/ /\ Socket(fd) /\ fds[fd].bound = NoAddress /\ r = 0
       /\ IsHere(AddressIn(heap[sa]))
       /\ \A other \in Fds : Open(other) => ~Takes(fds[other].bound, AddressIn(heap[sa]))
       /\ Binds(fd, AddressIn(heap[sa]))
       /\ Unchecked /\ UNCHANGED <<heap, held, net, ended>>

Becomes(fd, from, kind, r) ==
    \/ Failing(r)
    \/ /\ Open(fd) /\ fds[fd].kind = from /\ r = 0
       /\ fds' = [fds EXCEPT ![fd].kind = kind]
       /\ Unchecked /\ UNCHANGED <<heap, held, net, ended>>

SocketListen(fd, r) == Becomes(fd, "stream", "listening", r)
SocketConnect(fd, r) == Becomes(fd, "stream", "connected", r)
SocketShutdown(fd, r) == Becomes(fd, "connected", "stream", r)

\* The length of the address is passed where the kernel expects a pointer to it: a call
\* that asks for the peer's address fails, and the connection is gone.
SocketAccept(fd, sa, r) ==
    IF sa = NULL /\ Open(fd) /\ fds[fd].kind = "listening"
    THEN OpensOrFails(File("connected", {}), r)
    ELSE Failing(r)

\* A socket that is not bound is, when it sends.
SourceOf(fd) == IF fds[fd].bound = NoAddress THEN <<0, EPHEMERAL>> ELSE fds[fd].bound

SocketSendto(fd, p, sa, r) ==
    \/ Failing(r)
    \/ /\ Open(fd) /\ fds[fd].kind = "dgram"
       /\ r = heap[p].length
       /\ net' = net \cup {[src |-> SourceOf(fd), dst |-> AddressIn(heap[sa]),
                            bytes |-> Contents(heap[p])]}
       /\ Binds(fd, SourceOf(fd))
       /\ Unchecked /\ UNCHANGED <<heap, held, ended>>

\* What the kernel has for a socket.
Arrived(fd) ==
    IF ~Open(fd) THEN {}
    ELSE CASE fds[fd].kind = "dgram" -> {d \in net : Takes(fds[fd].bound, d.dst)}
           [] fds[fd].kind = "connected" ->
                [src : Senders, dst : {NoAddress}, bytes : Texts]
           [] OTHER -> {}

\* socket_recv, and socket_recvfrom: sa is where the sender's address goes, or NULL.  A
\* datagram is gone once it is received, unless the network has it twice.
SocketRecvfrom(fd, size, sa, r) ==
    \/ r = NULL /\ Traps
    \/ \E d \in Arrived(fd) :
         /\ r \in Free
         /\ heap' = [p \in Ptrs |->
                CASE p = r -> Received(size, d.bytes)
                  [] p = sa /\ fds[fd].kind = "dgram" -> WithAddress(heap[sa], d.src)
                  [] OTHER -> heap[p]]
         /\ held' = held \cup {r}
         /\ net' \in {net, net \ {d}}
         /\ call' = [routine |-> "recv", fd |-> fd, bytes |-> d.bytes, size |-> size,
                     src |-> d.src, sa |-> sa, result |-> r]
         /\ UNCHANGED <<machine, fds, ended>>
    \/ /\ r = NULL
       /\ \E p \in Free : heap' = [heap EXCEPT ![p] = Dropped(Buffer(Allocated(size)))]
       /\ Unchecked /\ UNCHANGED <<held, fds, net, ended>>

-----------------------------------------------------------------------------
\* Descriptor sets.  Only the one to read is modelled; the other two are NULL.
FdsetCreate(r) == ObtainsOrTraps([kind |-> "fdset", set |-> {}], r)
FdsetSet(p, fd) == Changes(p, [heap[p] EXCEPT !.set = @ \cup {fd}])
FdsetClear(p, fd) == Changes(p, [heap[p] EXCEPT !.set = @ \ {fd}])

\* C divides towards zero, and an int wraps.
Quot(n, d) == IF n < 0 THEN -((-n) \div d) ELSE n \div d
AsInt(n) == ((n + (INT \div 2)) % INT) - (INT \div 2)

tv_sec(timeout) == Quot(timeout, SECOND)
tv_usec_Cut(timeout) == timeout % SECOND                                \* mutant
tv_usec(timeout) == AsInt(timeout * SECOND)

\* The kernel carries whole seconds of tv_usec, and refuses what is below zero then.
MICRO == SECOND * SECOND
WaitSec(timeout) == tv_sec(timeout) + Quot(tv_usec(timeout), MICRO)
WaitUsec(timeout) == tv_usec(timeout) - (MICRO * Quot(tv_usec(timeout), MICRO))
Refuses(timeout) == WaitSec(timeout) < 0 \/ WaitUsec(timeout) < 0
Wait(timeout) == WaitSec(timeout) * MICRO + WaitUsec(timeout)

\* What may be found ready: a datagram socket when there is one for it, a file always,
\* and another socket as it happens.
Ready(p) ==
    {ready \in SUBSET heap[p].set : \A fd \in heap[p].set :
        /\ fds[fd].kind = "file" => fd \in ready
        /\ fds[fd].kind = "dgram" => (fd \in ready <=> Arrived(fd) # {})}

\* What is ready at once or in time, or else nothing.
IoSelect(p, timeout, r) ==
    /\ IF Refuses(timeout) \/ \E fd \in heap[p].set : ~Open(fd)
       THEN r = Failed /\ UNCHANGED heap
       ELSE \E ready \in Ready(p) :
              heap' = [heap EXCEPT ![p].set = ready] /\ r = Cardinality(ready)
    /\ call' = [routine |-> "select", ptr |-> p, timeout |-> timeout, result |-> r]
    /\ UNCHANGED <<machine, held, fds, net, ended>>

SysExit == ended' = "exit" /\ UNCHANGED <<machine, heap, held, fds, net, call>>

-----------------------------------------------------------------------------
\* Any module that uses what it holds, and gives a buffer a length, copies or sends only
\* over bytes that were written.
Holds(kind) == {p \in held : heap[p].kind = kind}
Memory == Holds("block") \cup Holds("strbuf")
Given == Ptrs \cup {NULL}
AnyFd == Fds \cup {Failed}

Written(data, count) ==
    count <= Len(data) /\ \A i \in 1 .. count : data[i] # Junk

Frees == \E p \in held \cup {NULL} : RtlFree(p)

UsesMemory ==
    \/ \E size \in Sizes, r \in Given : RtlAlloc(size, r)
    \/ \E p \in Holds("block") \cup {NULL}, size \in Sizes \cup {0}, r \in Given :
         RtlRealloc(p, size, r)
    \/ \E p \in Memory, size \in Sizes :
         size <= Len(heap[p].data) /\ RtlMemset(p, "zero", size)
    \/ \E dest, src \in Memory, size \in Sizes :
         /\ size <= Len(heap[dest].data) /\ Written(heap[src].data, size)
         /\ RtlMemcpy(dest, src, size)

UsesBuffers ==
    \/ \E size \in Sizes, r \in Given : RtlStrbufAlloc(size, r)
    \/ \E p \in Holds("strbuf") :
         \/ RtlStrbufFree(p)
         \/ \E size \in Sizes, r \in Given : RtlStrbufResize(p, size, r)
         \/ \E text \in Texts : RtlPrintSb(p, text)
         \/ \E length \in Sizes \cup {0} :
              /\ Written(heap[p].data, WithLength(heap[p], length).length)
              /\ RtlStrbufSetLength(p, length)

UsesFiles ==
    \/ \E r \in AnyFd : IoOpen({"O_APPEND"}, r)
    \/ \E fd \in AnyFd :
         \/ \E size \in Sizes, r \in Given : IoRead(fd, size, r)
         \/ \E p \in Holds("strbuf"), r \in Failed .. LEN : Writes(fd, p, r)
         \/ IoClose(fd)
         \/ \E p \in Holds("block"), r \in {0, Failed} : IoIoctl(fd, p, r)

UsesModes ==
    \/ \E r \in AnyFd : IoOpen({"O_APPEND"}, r)
    \/ \E type \in {1, 2, 4}, r \in AnyFd : SocketCreate(type, r)
    \/ \E fd \in AnyFd :
         \/ IoClose(fd)
         \/ \E blocking \in BOOLEAN, r \in {0, Failed} : SocketSetBlocking(fd, blocking, r)

UsesAddresses ==
    \E ip \in Ips, port \in Ports, r \in Given : SockaddrCreate(ip, port, r)

UsesSockets(type) ==
    \/ \E r \in AnyFd : SocketCreate(type, r)
    \/ \E fd \in AnyFd :
         \/ IoClose(fd)
         \/ \E size \in Sizes, sa \in Holds("sockaddr") \cup {NULL}, r \in Given :
              SocketRecvfrom(fd, size, sa, r)

UsesDatagrams ==
    \/ UsesSockets(2)
    \/ \E fd \in AnyFd, sa \in Holds("sockaddr") :
         \/ \E r \in {0, Failed} : SocketBind(fd, sa, r)
         \/ \E p \in Holds("strbuf"), r \in Failed .. LEN : SocketSendto(fd, p, sa, r)

UsesStreams ==
    \/ UsesSockets(1)
    \/ \E fd \in AnyFd, r \in {0, Failed} :
         SocketListen(fd, r) \/ SocketConnect(fd, r) \/ SocketShutdown(fd, r)
    \/ \E fd, r \in AnyFd, sa \in Holds("sockaddr") \cup {NULL} : SocketAccept(fd, sa, r)
    \/ \E fd \in AnyFd, p \in Holds("strbuf"), r \in Failed .. LEN : Writes(fd, p, r)

UsesSets ==
    \/ \E r \in Given : FdsetCreate(r)
    \/ \E p \in Holds("fdset") :
         \/ \E fd \in Fds : FdsetSet(p, fd) \/ FdsetClear(p, fd)
         \/ \E timeout \in Timeouts, r \in Failed .. Cardinality(Fds) : IoSelect(p, timeout, r)

Uses(group) ==
    CASE group = "memory" -> UsesMemory
      [] group = "buffers" -> UsesBuffers
      [] group = "files" -> UsesFiles
      [] group = "modes" -> UsesModes
      [] group = "addresses" -> UsesAddresses
      [] group = "datagrams" -> UsesDatagrams
      [] group = "streams" -> UsesStreams
      [] group = "sets" -> UsesSets

Groups ==
    {"memory", "buffers", "files", "modes", "addresses", "datagrams", "streams", "sets"}

\* Others send to the sockets here; the network loses.
Arrives ==
    /\ \E src \in Senders, fd \in Fds, bytes \in Texts :
         /\ Open(fd) /\ fds[fd].bound # NoAddress
         /\ net' = net \cup {[src |-> src, dst |-> <<HOST, fds[fd].bound[2]>>,
                              bytes |-> bytes]}
    /\ Unchecked /\ UNCHANGED <<heap, held, fds, ended>>

Lost ==
    /\ \E d \in net : net' = net \ {d}
    /\ Unchecked /\ UNCHANGED <<heap, held, fds, ended>>

Network == (Arrives \/ Lost) /\ Cardinality(net') <= IN_FLIGHT

\* A module that uses the routines of some groups.
Calls(groups) ==
    /\ \/ \E group \in groups : Uses(group)
       \/ Frees \/ SysExit
    /\ Cardinality(net') <= IN_FLIGHT

Next == ended = "no" /\ (Calls(Groups) \/ Network)

Spec == Init /\ [][Next]_vars

-----------------------------------------------------------------------------
\* Every block keeps its form: no routine lets anybody write behind a buffer, though a
\* buffer may be smaller than the module asked for.
TypeOK ==
    /\ machine \in {"i386", "mips"}
    /\ held \subseteq Ptrs
    /\ heap \in [Ptrs -> Objects \cup {NoBlock}]
    /\ fds \in [Fds -> Files \cup {Closed}]
    /\ net \subseteq [src : Addresses, dst : Addresses, bytes : Seq(Chars)]
    /\ ended \in {"no", "exit", "trap", "panic", "undefined"}

\* The module has every block there is and no other: no routine keeps a block, or frees
\* one and hands it over, on the ways out of a call that fails either (socket_recvfrom,
\* vmt_sockets.c:258).  A failed io_read does (vmt_io.c:32); what is called after it is
\* undefined.
Owned == ended # "undefined" => held = Blocks

\* A buffer that was read or received has what came, as far as it was asked for and
\* 16 bits go, and the sender's address can be read from the address given.
HoldsWhatCame ==
    call # NoCall /\ call.routine \in {"recv", "io_read"} =>
      /\ Contents(heap[call.result]) =
           SubSeq(call.bytes, 1, Smaller(Len(call.bytes), Smaller(call.size, LEN - 1)))
      /\ call.routine = "recv" /\ call.sa # NULL /\ fds[call.fd].kind = "dgram" =>
           call.src = <<sockaddr_get_ip(heap[call.sa]), sockaddr_get_port(heap[call.sa])>>

\* Between its start and its length a buffer has bytes somebody wrote: a routine sets no
\* length over memory it only allocated, whatever comes short, is cut, or moves.
NothingMadeUp ==
    \A p \in Blocks : heap[p].kind = "strbuf" =>
      Written(heap[p].data, heap[p].length)

\* Whoever wrote an address, the module (vmt_sockets.c:59) or the kernel, and whatever the
\* order of the machine's bytes, the kernel and the module read the same in it, and a
\* datagram goes where the module asked, but for the bits of a port above 16.
AddressesAgree ==
    /\ \A p \in Blocks : heap[p].kind = "sockaddr" =>
         AddressIn(heap[p]) = <<sockaddr_get_ip(heap[p]), sockaddr_get_port(heap[p])>>
    /\ \A ip \in Ips, port \in Ports : AddressIn(Sockaddr(ip, port)) = <<ip, port % SHORT>>

\* A socket is in the mode asked for when the answer is 0, and as before when it is -1,
\* its other flags as before in both: the test that is never true (vmt_sockets.c:137) is
\* made up for by the second call, which fails too.
BlockingAsAnswered ==
    call # NoCall /\ call.routine = "set_blocking" =>
      IF call.result = Failed THEN fds = call.before
      ELSE /\ \A fd \in Fds \ {call.fd} : fds[fd] = call.before[fd]
           /\ ("O_NONBLOCK" \in fds[call.fd].flags) = ~call.blocking
           /\ fds[call.fd].flags \ {"O_NONBLOCK"}
                = call.before[call.fd].flags \ {"O_NONBLOCK"}

\* rtl_strbuf_resize keeps what is in the buffer, wherever it moves, and the buffer is as
\* large as asked unless the size has more than 16 bits (rtl_strbuf.c:33).
ResizeKeeps ==
    call # NoCall /\ call.routine = "resize" =>
      LET sb == heap[call.result]
      IN /\ Contents(sb) = Contents(call.before)
         /\ sb.max_length >= call.before.max_length
         /\ call.size < LEN => sb.max_length >= call.size

\* A wait of less than a second lasts as long as asked, a longer one at least that and
\* at most twice (vmt_select.c:66: tv_usec is not the remainder), and a negative one is
\* refused, as far as an int holds the microseconds.  Behind that a wait may have any
\* length, a negative one too.
WaitsAsAsked ==
    call # NoCall /\ call.routine = "select" =>
      LET asked == call.timeout * SECOND
      IN asked \in -(INT \div 2) .. (INT \div 2) - 1 =>
           IF call.timeout < 0 THEN call.result = Failed
           ELSE /\ ~Refuses(call.timeout)
                /\ Wait(call.timeout) \in asked .. 2 * asked
                /\ call.timeout < SECOND => Wait(call.timeout) = asked
=============================================================================
