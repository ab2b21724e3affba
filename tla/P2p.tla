--------------------------------- MODULE P2p ---------------------------------
(***************************************************************************)
(* The peer to peer module, src/src/modules/p2p.vmS, as a client of the    *)
(* native routines: a step from one native call to the next, with the data *)
(* stack and the routine's locals.  The virtual machine starts one of its  *)
(* routines, or else a module of which only is known which routines it     *)
(* uses.                                                                   *)
(***************************************************************************)
EXTENDS VmThunks

CONSTANTS
    COMM_PORT,    \* 9771 in the code
    PACKET,       \* longest packet received (0x1000)
    BLOCK,        \* size of a block of the module's
    INDEXES,      \* interfaces tried (16)
    Others        \* bound: the groups of routines that other modules use

Routines == {"start", "comm_loop", "get_hwaddr", "get_hwaddr2"}

ASSUME P2pAssumption ==
    /\ COMM_PORT \in Ports /\ 0 \in Ips /\ {PACKET, BLOCK} \subseteq Sizes
    /\ INDEXES \in Nat \ {0} /\ Others \subseteq SUBSET Groups

VARIABLES
    entry,        \* the routine that was started, or "any"
    uses,         \* any: the groups of routines it uses
    pc,           \* the native call or the label it stands at
    stack,        \* the data stack
    locals        \* @@sockfd, @@peer, @@ifconf, @@buffer, @@index

module == <<entry, uses, pc, stack, locals>>
P2pVars == <<vars, module>>

P2pInit ==
    /\ Init
    /\ \/ entry \in Routines /\ uses = {}
       \/ entry = "any" /\ uses \in Others
    /\ pc = entry
    /\ stack = <<>>
    /\ locals = [sockfd |-> Failed, peer |-> NULL, ifconf |-> NULL,
                 buffer |-> NULL, index |-> INDEXES]

-----------------------------------------------------------------------------
At(label) == ended = "no" /\ pc = label
Goto(label) == pc' = label /\ UNCHANGED <<entry, uses, stack, locals>>
Stays == UNCHANGED module

Panics ==
    /\ ended' = "panic"
    /\ UNCHANGED <<machine, heap, held, fds, net, call, module>>

\* Goes on unless the process has ended, with r in a local.
Then(label, local, r) ==
    /\ pc' = label
    /\ locals' = [locals EXCEPT ![local] = r]
    /\ UNCHANGED <<entry, uses, stack>>

NoCallMade == Unchecked /\ UNCHANGED <<heap, held, fds, net, ended>>

\* log_fatal: the text is printed, and the process ends.
LogFatal == At("log_fatal") /\ SysExit /\ Stays

\* log: the text is printed with as many operands as it has conversions.
Logs(label, operands, next) ==
    /\ At(label)
    /\ IF Len(stack) < operands THEN Panics
       ELSE /\ NoCallMade
            /\ stack' = SubSeq(stack, operands + 1, Len(stack))
            /\ pc' = next /\ UNCHANGED <<entry, uses, locals>>

\* A word stored at the start of a block, or a little behind address 0.
Stores(label, p, next) ==
    /\ At(label)
    /\ IF p = NULL THEN Traps /\ Stays
       ELSE RtlMemset(p, "zero", BLOCK) /\ Goto(next)

Allocates(label, local, next) ==
    /\ At(label)
    /\ \E r \in Given : RtlAlloc(BLOCK, r) /\ Then(next, local, r)

GivesBack(label, p, next) == At(label) /\ RtlFree(p) /\ Goto(next)

-----------------------------------------------------------------------------
\* comm_loop.
CreateSocket ==
    /\ At("comm_loop")
    /\ \E r \in AnyFd :
         /\ SocketCreate(2, r)
         /\ Then(IF r < 0 THEN "log_fatal" ELSE "sockaddr", "sockfd", r)

CreatePeer ==
    /\ At("sockaddr")
    /\ \E r \in Given : SockaddrCreate(0, COMM_PORT, r) /\ Then("bind", "peer", r)

Bind ==
    /\ At("bind")
    /\ \E r \in {0, Failed} :
         /\ SocketBind(locals.sockfd, locals.peer, r)
         /\ Goto(IF r < 0 THEN "log_fatal" ELSE "recv_loop")

\* The buffer twice: for the packet's routine, and to free it.
Receive ==
    /\ At("recv_loop")
    /\ \E r \in Given :
         /\ SocketRecvfrom(locals.sockfd, PACKET, locals.peer, r)
         /\ pc' = IF r = NULL THEN "log_fatal" ELSE "comm_process_packet"
         /\ stack' = <<r, r>> \o stack
         /\ UNCHANGED <<entry, uses, locals>>

\* comm_process_packet drops the descriptor and the address, and prints the packet, which
\* rtl_print_fd takes from the stack.
PacketOperands_Two == 2                                                 \* mutant
PacketOperands == 1
ProcessPacket == Logs("comm_process_packet", PacketOperands, "rtl_free")

\* comm_running is 1, and nothing changes it: the loop is never left.
FreePacket ==
    /\ At("rtl_free")
    /\ IF stack = <<>> THEN Panics
       ELSE /\ RtlFree(Head(stack))
            /\ stack' = Tail(stack)
            /\ pc' = "recv_loop" /\ UNCHANGED <<entry, uses, locals>>

CommLoop == CreateSocket \/ CreatePeer \/ Bind \/ Receive \/ ProcessPacket \/ FreePacket

-----------------------------------------------------------------------------
\* get_hwaddr, which does not look at its descriptor, and start.
Returns == IF entry = "start" THEN "status" ELSE "returned"

GetHwaddrSocket ==
    /\ At("get_hwaddr")
    /\ \E r \in AnyFd : SocketCreate(2, r) /\ Then("ifconf", "sockfd", r)

Siocgifconf ==
    /\ At("SIOCGIFCONF")
    /\ \E r \in {0, Failed} :
         /\ IoIoctl(locals.sockfd, locals.ifconf, r)
         /\ IF r # 0 THEN Goto("log_fatal")
            ELSE /\ stack' = <<"ifc_len">> \o stack
                 /\ pc' = "num_ifaces" /\ UNCHANGED <<entry, uses, locals>>

IfconfGivenBack_Buffer == locals.buffer                                 \* mutant
IfconfGivenBack == locals.ifconf

GetHwaddr ==
    \/ GetHwaddrSocket
    \/ Allocates("ifconf", "ifconf", "buffer")
    \/ Allocates("buffer", "buffer", "fill")
    \/ Stores("fill", locals.ifconf, "SIOCGIFCONF")
    \/ Siocgifconf
    \/ Logs("num_ifaces", 1, "leave")
    \/ GivesBack("leave", locals.buffer, "leave_ifconf")
    \/ GivesBack("leave_ifconf", IfconfGivenBack, Returns)

\* start branches on the status, and then loads a byte from address 5.
BranchOnStatus ==
    /\ At("status")
    /\ IF stack = <<>> THEN Panics
       ELSE (IF Head(stack) = 0 THEN SysExit ELSE Traps) /\ Stays

Start == Logs("start", 0, "get_hwaddr") \/ BranchOnStatus

-----------------------------------------------------------------------------
\* get_hwaddr2 tries one interface after the other, from the last to the first.
GetHwaddr2Socket ==
    /\ At("get_hwaddr2")
    /\ \E r \in AnyFd : SocketCreate(2, r) /\ Then("ifreq", "sockfd", r)

Siocgifname ==
    /\ At("SIOCGIFNAME")
    /\ \E r \in {0, Failed} :
         /\ IoIoctl(locals.sockfd, locals.buffer, r)
         /\ Goto(IF r # 0 THEN "loop_next" ELSE "SIOCGIFHWADDR")

Siocgifhwaddr ==
    /\ At("SIOCGIFHWADDR")
    /\ \E r \in {0, Failed} :
         /\ IoIoctl(locals.sockfd, locals.buffer, r)
         /\ Goto(IF r # 0 THEN "log_fatal" ELSE "check_hwaddr")

LeavesStatus(status) ==
    /\ stack' = <<status>> \o stack
    /\ pc' = "loop_end" /\ UNCHANGED <<entry, uses, locals>>

\* All zeros are a loopback's address.
CheckHwaddr ==
    /\ At("check_hwaddr")
    /\ NoCallMade
    /\ IF Head(heap[locals.buffer].data) = "zero" THEN Goto("loop_next") ELSE LeavesStatus(1)

NextIndex_Stays == locals.index                                         \* mutant
NextIndex == locals.index - 1

LoopNext ==
    /\ At("loop_next")
    /\ NoCallMade
    /\ IF NextIndex # 0 THEN Then("loop", "index", NextIndex) ELSE LeavesStatus(0)

CloseSocket == At("io_close") /\ IoClose(locals.sockfd) /\ Goto("returned")

GivenBack_Forgotten == NULL                                             \* mutant
GivenBack == locals.buffer

GetHwaddr2 ==
    \/ GetHwaddr2Socket
    \/ Allocates("ifreq", "buffer", "loop")
    \/ Stores("loop", locals.buffer, "SIOCGIFNAME")
    \/ Siocgifname \/ Siocgifhwaddr \/ CheckHwaddr \/ LoopNext
    \/ GivesBack("loop_end", GivenBack, "io_close")
    \/ CloseSocket

-----------------------------------------------------------------------------
Module == Start \/ GetHwaddr \/ GetHwaddr2 \/ CommLoop \/ LogFatal

AnyModule == At("any") /\ Calls(uses) /\ Stays

P2pNext ==
    \/ Module /\ Cardinality(net') <= IN_FLIGHT
    \/ AnyModule
    \/ ended = "no" /\ Network /\ Stays

\* The virtual machine takes the module's next instruction, and every native call returns
\* but the receive, which may wait for ever.
P2pSpec == P2pInit /\ [][P2pNext]_P2pVars /\ WF_P2pVars(Module /\ pc # "recv_loop")

-----------------------------------------------------------------------------
\* Every native call of the module is one a careful module makes: it gives back what it
\* holds, once, reads and writes only what it holds, and sends only what was written.
KeepsTheRules == [][(entry \in Routines) => (Next \/ ended' = "panic")]_vars

\* The receive loop (p2p.vmS:126) stands at its head with the data stack it was called
\* with and nothing but the peer's address in its hands, after any number of packets;
\* get_hwaddr2 ( -- status ) returns with a status, its buffer freed and its socket closed.
LeavesAsCommented ==
    /\ pc = "recv_loop" => stack = <<>> /\ held = {locals.peer}
    /\ pc = "returned" /\ entry = "get_hwaddr2" =>
         /\ stack \in {<<0>>, <<1>>} /\ held = {}
         /\ \A fd \in Fds : fds[fd] = Closed

\* The only branch or call that finds too little on the data stack is the branch on
\* get_hwaddr's status (p2p.vmS:35).
PanicsOnlyForStatus == ended = "panic" => pc = "status"

\* Every packet received is printed and freed before the next, and the search for an
\* interface ends, with an address or without (p2p.vmS:350).
PacketsAndSearchEnd ==
    /\ pc = "comm_process_packet" ~> pc = "recv_loop"
    /\ pc = "get_hwaddr2" ~> (pc = "returned" \/ ended # "no")

\* The comment of get_hwaddr (p2p.vmS:263) says "( -- status )": it returns with a status
\* on the data stack.
StatusLeft == pc = "status" => Len(stack) = 1
=============================================================================
