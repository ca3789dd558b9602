------------------------------ MODULE MacFinder ------------------------------
(***************************************************************************)
(* MacFinder.ip2mac: the children of an iOS scan whose ping failed ask the *)
(* kernel for the link-layer address of their hosts, each on a routing     *)
(* socket of its own.  The kernel sends what it has to say to every        *)
(* routing socket, and ip2mac takes the first message it reads for the     *)
(* answer: all requests have the same rtm_pid and rtm_seq.                 *)
(***************************************************************************)
EXTENDS Naturals, Sequences

CONSTANTS
    Children,    \* the scan's children; each asks for the host of its own
    MaxEvents    \* bound: changes of the ARP table and news of routes

VARIABLES
    lookup,      \* where the child's call of ip2mac is
    sockets,     \* the messages that wait on the child's socket
    arp,         \* what the kernel knows of the child's host
    found,       \* ip2mac has returned an address
    events,      \* how many events of the environment there have been
    own,         \* history: the kernel's answer to the child's own request
    misled       \* history: the children that were not given that answer first

mvars == <<lookup, sockets, arp, found, events, own, misled>>

(* A message is told apart by six octets; nobody looks at its type.  They are an
   address; or nothing, when the entry is incomplete, when the gateway is an IP
   address and when the message is shorter; or 08:00:00:00:00:00; and in a message
   that is not about a route they are whatever stands there. *)
Zeros  == "00:00:00:00:00:00"
NoLan  == "08:00:00:00:00:00"
Mac    == "mac"
Octets == {Zeros, NoLan, Mac}

(* Where ip2mac looks for them: it counts by the sizes, in octets, of its own
   copies of the kernel's structures (36 octets, with the padding, stand before
   the metrics), and the head of a sockaddr_dl. *)
RtMetrics     == 4 * (10 + 4)
RtMsghdr      == 36 + RtMetrics
SockaddrInarp == 16
MacIndex      == RtMsghdr + SockaddrInarp + 8

(* Where the kernel puts them, and what is read of a buffer that was cleared *)
Message(o) == [index |-> 92 + 16 + 8, octets |-> o]
Shown(m)   == IF m.index = MacIndex THEN m.octets ELSE Zeros

Init ==
    /\ lookup = [c \in Children |-> "pinging"]
    /\ sockets = [c \in Children |-> <<>>]
    /\ arp \in [Children -> Octets]
    /\ found = [c \in Children |-> FALSE]
    /\ events = 0
    /\ own = [c \in Children |-> Zeros]
    /\ misled = {}

Goto(c, from, to) == lookup[c] = from /\ lookup' = [lookup EXCEPT ![c] = to]

(* A message reaches every routing socket that is open. *)
Open == {c \in Children : lookup[c] \in {"write", "read"}}
Broadcast(m) ==
    sockets' = [c \in Children |->
                   IF c \in Open THEN Append(sockets[c], m) ELSE sockets[c]]

(* The child's ping has failed and ip2mac begins: socket(), ... *)
Socket(c) ==
    /\ Goto(c, "pinging", "write")
    /\ UNCHANGED <<sockets, arp, found, events, own, misled>>

(* ... which may find no descriptor left.  write and read then fail too, and
   the buffer, which nothing has filled, gives no address. *)
SocketFails(c) ==
    /\ Goto(c, "pinging", "done")
    /\ misled' = misled \cup {c}
    /\ UNCHANGED <<sockets, arp, found, events, own>>

(* write: RTM_GET with RTF_LLINFO; the kernel answers before it returns. *)
Write(c) ==
    /\ Goto(c, "write", "read")
    /\ Broadcast(Message(arp[c]))
    /\ own' = [own EXCEPT ![c] = arp[c]]
    /\ misled' = IF sockets[c] # <<>> THEN misled \cup {c} ELSE misled
    /\ UNCHANGED <<arp, found, events>>

(* write fails before the kernel has looked: nobody is answered, and the child
   goes on to read all the same. *)
WriteFails(c) ==
    /\ Goto(c, "write", "read")
    /\ misled' = misled \cup {c}
    /\ UNCHANGED <<sockets, arp, found, events, own>>

(* The octets that are taken for no address.  Mutant: 08:00... is one. *)
NoAddressZeros == {Zeros}
NoAddress == {Zeros, NoLan}

(* read, which blocks as long as there is no message, and close.  Mutant: the
   first message is thought to be the request itself. *)
ReadSecond(c) ==
    /\ Len(sockets[c]) > 1
    /\ Goto(c, "read", "done")
    /\ sockets' = [sockets EXCEPT ![c] = <<>>]
    /\ found' = [found EXCEPT ![c] = Shown(sockets[c][2]) \notin NoAddress]
    /\ UNCHANGED <<arp, events, own, misled>>

ReadAnswer(c) ==
    /\ sockets[c] # <<>>
    /\ Goto(c, "read", "done")
    /\ sockets' = [sockets EXCEPT ![c] = <<>>]
    /\ found' = [found EXCEPT ![c] = Shown(Head(sockets[c])) \notin NoAddress]
    /\ UNCHANGED <<arp, events, own, misled>>

(* The environment: the ARP table changes, and the kernel has news. *)
ArpChanges(c) ==
    /\ events < MaxEvents
    /\ arp' \in {[arp EXCEPT ![c] = o] : o \in Octets \ {arp[c]}}
    /\ events' = events + 1
    /\ UNCHANGED <<lookup, sockets, found, own, misled>>

News ==
    /\ events < MaxEvents /\ Open # {}
    /\ \E o \in Octets : Broadcast(Message(o))
    /\ events' = events + 1
    /\ UNCHANGED <<lookup, arp, found, own, misled>>

LookupStep(c) ==
    Socket(c) \/ SocketFails(c) \/ Write(c) \/ WriteFails(c) \/ ReadAnswer(c)

Next == (\E c \in Children : LookupStep(c) \/ ArpChanges(c)) \/ News

-----------------------------------------------------------------------------
(* ip2mac finds an address exactly when the kernel, asked for it, has one:
   unless another message came between its socket() and its write(), or one of
   the two failed.  What comes later, and the requests that the other children
   write meanwhile, do not mislead it. *)
WrongMacExplained ==
    \A c \in Children :
        lookup[c] = "done" /\ c \notin misled => (found[c] <=> own[c] = Mac)

(* A child whose write did not fail returns from ip2mac. *)
EveryLookupReturns ==
    \A c \in Children :
        lookup[c] = "write" ~> lookup[c] = "done" \/ c \in misled
=============================================================================
