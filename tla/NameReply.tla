------------------------------ MODULE NameReply ------------------------------
(***************************************************************************)
(* The names that Android's processHost finds, for several hosts at once.  *)
(* Each call asks mDNS and, if that gives nothing, NetBIOS, with a socket  *)
(* of its own each time and one receive that times out.  The sockets are   *)
(* not connected, so a receive takes whatever arrives at its port: also a  *)
(* reply to a request that another call made from that port and gave up.   *)
(* The network may lose, repeat, delay and reorder: a reply to a request   *)
(* may arrive, any number of times, once the request is in asked.          *)
(***************************************************************************)
EXTENDS Integers, Sequences

CONSTANTS
    Tasks,     \* the calls of processHost
    Address,   \* the octets of the address that each of them resolves
    Ports,     \* the ephemeral ports of the device
    NoPort     \* no socket

Octets == 0..255

ASSUME NameAssumption ==
    /\ Address \in [Tasks -> Seq(Octets)]
    /\ \A t \in Tasks : Len(Address[t]) \in {4, 16}
    /\ NoPort \notin Ports

VARIABLES
    pc,         \* where each call is
    port,       \* the port of the socket it has open
    asked,      \* the requests sent so far
    hostname    \* host.hostname, and whose name it is

vars == <<pc, port, asked, hostname>>

Addresses == {Address[t] : t \in Tasks}

(* The first four octets, which reverseName takes for the whole address *)
Question(a) == <<a[1], a[2], a[3], a[4]>>
Subjects    == Addresses \cup {Question(a) : a \in Addresses}

Pcs   == {"lookup", "mdns", "ask", "receive",
          "netbios", "nbask", "nbreceive", "done"}
Ids   == {n \in Nat : n < 65536}
Names == [via : {"none", "dns", "mDNS", "NetBIOS"}, of : Subjects \cup {<<>>}]

NoName       == [via |-> "none", of |-> <<>>]
Name(via, a) == [via |-> via, of |-> a]

Init ==
    /\ pc = [t \in Tasks |-> "lookup"]
    /\ port = [t \in Tasks |-> NoPort]
    /\ asked = {}
    /\ hostname = [t \in Tasks |-> NoName]

-----------------------------------------------------------------------------
(* A Byte of the JVM is signed, and the identifier is written as a short.
   Mutant: it is not. *)
Signed(o)       == IF o > 127 THEN o - 256 ELSE o
RequestIdInt(a) == Signed(a[3]) * 255 + Signed(a[4])
RequestId(a) == (Signed(a[3]) * 255 + Signed(a[4])) % 65536
NetBIOSId    == 162 * 256 + 72

High(id) == id \div 256
Low(id)  == id % 256

(* The reply is refused when both octets of its identifier differ.
   Mutant: it is never refused. *)
AcceptsAny(id, mine) == TRUE
Accepts(id, mine) == ~(High(id) # High(mine) /\ Low(id) # Low(mine))

MdnsRequest(t) ==
    [kind |-> "mDNS", by |-> t, from |-> port[t],
     id |-> RequestId(Address[t]), about |-> Question(Address[t])]

NetBIOSRequest(t) ==
    [kind |-> "NetBIOS", by |-> t, from |-> port[t],
     id |-> NetBIOSId, about |-> Address[t]]

Requests == [kind : {"mDNS", "NetBIOS"}, by : Tasks, from : Ports,
             id : Ids, about : Subjects]

-----------------------------------------------------------------------------
Goto(t, from, to) == pc[t] = from /\ pc' = [pc EXCEPT ![t] = to]
Free   == Ports \ {port[t] : t \in Tasks}
Take(t) == \E p \in Free : port' = [port EXCEPT ![t] = p]
Closed(t) == [port EXCEPT ![t] = NoPort]

(* After the look-up mDNS is asked. *)
Lookup(t) ==
    /\ Goto(t, "lookup", "mdns")
    /\ hostname' = [hostname EXCEPT ![t] = Name("dns", Address[t])]
    /\ UNCHANGED <<port, asked>>

(* The constructors.  What they throw ends processHost, and a MulticastSocket
   that cannot join the group is left open. *)
OpenMdns(t) ==
    /\ Goto(t, "mdns", "ask")
    /\ Take(t)
    /\ UNCHANGED <<asked, hostname>>

JoinFails(t) ==
    /\ Goto(t, "mdns", "done")
    /\ Take(t)
    /\ UNCHANGED <<asked, hostname>>

OpenNetBIOS(t) ==
    /\ Goto(t, "netbios", "nbask")
    /\ Take(t)
    /\ UNCHANGED <<asked, hostname>>

OpenFails(t) ==
    /\ Goto(t, "mdns", "done") \/ Goto(t, "netbios", "done")
    /\ UNCHANGED <<port, asked, hostname>>

(* socket.send *)
AskMdns(t) ==
    /\ Goto(t, "ask", "receive")
    /\ asked' = asked \cup {MdnsRequest(t)}
    /\ UNCHANGED <<port, hostname>>

AskNetBIOS(t) ==
    /\ Goto(t, "nbask", "nbreceive")
    /\ asked' = asked \cup {NetBIOSRequest(t)}
    /\ UNCHANGED <<port, hostname>>

(* An IOException of the send, or of the receive when soTimeout is over:
   resolveHostName closes the socket and gives no name.  Mutants: the socket is
   not closed; the receive has no timeout. *)
ClosedOnlyOnReturn(t) == port
ClosedOnError(t) == Closed(t)
NeverTimesOut == {"ask", "nbask"}
MayThrow == {"ask", "receive", "nbask", "nbreceive"}

(* mDNS without a name is followed by NetBIOS, and that by the end. *)
AfterMdns(t) == Goto(t, "ask", "netbios") \/ Goto(t, "receive", "netbios")
AfterNetBIOS(t) == Goto(t, "nbask", "done") \/ Goto(t, "nbreceive", "done")

Throws(t) ==
    /\ pc[t] \in MayThrow
    /\ AfterMdns(t) \/ AfterNetBIOS(t)
    /\ port' = ClosedOnError(t)
    /\ UNCHANGED <<asked, hostname>>

(* socket.receive: a reply to any request that was made from this port *)
Arrives(t, q) == pc[t] \in {"receive", "nbreceive"} /\ q \in asked /\ q.from = port[t]

(* mDNS: a reply with another identifier ends the wait, and so does one whose
   name is blank; a reply that does not hold a name where decodeName looks
   makes it throw what is not an IOException, past the close.  Of a NetBIOS
   reply decodeName may make anything. *)
MdnsNothing(t, q) ==
    /\ Arrives(t, q)
    /\ Goto(t, "receive", "netbios")
    /\ port' = Closed(t)
    /\ UNCHANGED <<asked, hostname>>

MdnsName(t, q) ==
    /\ Arrives(t, q) /\ Accepts(q.id, RequestId(Address[t]))
    /\ Goto(t, "receive", "done")
    /\ port' = Closed(t)
    /\ hostname' = [hostname EXCEPT ![t] = Name("mDNS", q.about)]
    /\ UNCHANGED asked

MdnsUndecodable(t, q) ==
    /\ Arrives(t, q) /\ Accepts(q.id, RequestId(Address[t]))
    /\ Goto(t, "receive", "done")
    /\ UNCHANGED <<port, asked, hostname>>

(* NetBIOS: the lengths and the type are tested, the identifier is not; an mDNS
   reply fails these tests.  No name, or a blank one, leaves the host's.
   Mutant: the type is not tested. *)
HasAnyType(q) == TRUE
HasNbstatType(q) == q.kind = "NetBIOS"

NetBIOSNothing(t, q) ==
    /\ Arrives(t, q)
    /\ Goto(t, "nbreceive", "done")
    /\ port' = Closed(t)
    /\ UNCHANGED <<asked, hostname>>

NetBIOSName(t, q) ==
    /\ Arrives(t, q) /\ HasNbstatType(q)
    /\ Goto(t, "nbreceive", "done")
    /\ port' = Closed(t)
    /\ hostname' = [hostname EXCEPT ![t] = Name("NetBIOS", q.about)]
    /\ UNCHANGED asked

Reply(t) ==
    \E q \in asked :
        \/ MdnsNothing(t, q) \/ MdnsName(t, q) \/ MdnsUndecodable(t, q)
        \/ NetBIOSNothing(t, q) \/ NetBIOSName(t, q)

CallStep(t) ==
    \/ Lookup(t) \/ OpenMdns(t) \/ JoinFails(t) \/ OpenNetBIOS(t)
    \/ OpenFails(t) \/ AskMdns(t) \/ AskNetBIOS(t) \/ Throws(t)

AllReturned == (\A t \in Tasks : pc[t] = "done") /\ UNCHANGED vars

Next == (\E t \in Tasks : CallStep(t) \/ Reply(t)) \/ AllReturned

Spec == Init /\ [][Next]_vars

(* Each call runs on a thread of Dispatchers.IO, and what it waits for times
   out; no reply has to come. *)
FairSpec == Spec /\ \A t \in Tasks : WF_vars(CallStep(t))

-----------------------------------------------------------------------------
TypeOK ==
    /\ pc \in [Tasks -> Pcs]
    /\ port \in [Tasks -> Ports \cup {NoPort}]
    /\ asked \subseteq Requests
    /\ hostname \in [Tasks -> Names]

(* The identifier is 256 times the third octet, plus the fourth minus the third:
   its upper octet is the third one, or one less when the fourth is smaller,
   and its lower octet is the difference of the two. *)
Side(a) == Signed(a[3]) - (IF Signed(a[4]) < Signed(a[3]) THEN 1 ELSE 0)
Diff(a) == Signed(a[4]) - Signed(a[3])
Confusable(a, b) ==
    \/ Side(a) % 256 = Side(b) % 256
    \/ Diff(a) % 256 = Diff(b) % 256

(* q was made by another call, from the port that t then used for its own. *)
SamePort(t, kind, q) ==
    /\ q.by # t
    /\ \E mine \in asked : mine.by = t /\ mine.kind = kind /\ mine.from = q.from

(* A host is given the mDNS name of another address in two ways only: it is no
   IPv4 host, for which the name of its first four octets is asked; or its call
   got the port of an earlier one whose reply was still to come, and the two
   addresses are confusable: in a subnet of 256, on the same side of the third
   octet. *)
WrongMdnsNameExplained ==
    \A t \in Tasks :
        LET a == Address[t]
            n == hostname[t]
        IN n.via = "mDNS" /\ n.of # a =>
               \/ Len(a) # 4 /\ n.of = Question(a)
               \/ \E q \in asked :
                      /\ q.about = n.of /\ SamePort(t, "mDNS", q)
                      /\ q.kind = "mDNS" => Confusable(a, Address[q.by])
                      /\ q.kind = "NetBIOS" => Accepts(NetBIOSId, RequestId(a))

(* A host is given the NetBIOS name of another one only when its call got the
   port of that one's call: nothing in the reply is compared with the host. *)
WrongNetBIOSNameExplained ==
    \A t \in Tasks :
        LET n == hostname[t]
        IN n.via = "NetBIOS" /\ n.of # Address[t] =>
               \E q \in asked : /\ q.kind = "NetBIOS" /\ q.about = n.of
                                 /\ SamePort(t, "NetBIOS", q)

(* A call that has returned leaves no socket open, but for one whose mDNS part
   threw what resolveHostName does not catch; it then never came to NetBIOS and
   its host has the name of the look-up. *)
OpenSocketExplained ==
    \A t \in Tasks : pc[t] = "done" /\ port[t] # NoPort =>
        /\ hostname[t] = Name("dns", Address[t])
        /\ \A q \in asked : q.by = t => q.kind = "mDNS"

(* Every call of processHost returns, whatever replies come and with however
   few ports: the scan's steps ProcessHost and PostTask wait for it. *)
EveryCallReturns == \A t \in Tasks : <>(pc[t] = "done")
=============================================================================
