------------------------------- MODULE IosName -------------------------------
(***************************************************************************)
(* The names that resolveHostname finds on iOS, for several hosts at once: *)
(* mDNS, then NetBIOS, then gethostbyaddr, until one gives a name.  The    *)
(* mDNS socket is bound to a port that the last octet of the address       *)
(* chooses, and shares it with every other host of that octet.  A reply is *)
(* read on the channel's event loop while the call itself goes on, and the *)
(* call's promise is kept by the first of a name and the timeout.          *)
(* The network may lose, repeat, delay and reorder: a reply to a request   *)
(* may arrive, any number of times, once the request is in asked.          *)
(***************************************************************************)
EXTENDS Integers, Sequences

CONSTANTS
    Tasks,     \* the calls of resolveHostname
    Address    \* the octets of the IPv4 address that each of them resolves

Octets    == 0..255
Addresses == Octets \X Octets \X Octets \X Octets

ASSUME IosNameAssumption == Address \in [Tasks -> Addresses]

VARIABLES
    pc,        \* where each call is
    channel,   \* its datagram channel is open
    timer,     \* the task that keeps the promise with nil
    promise,   \* responsePromise
    asked,     \* the requests sent so far
    hostname   \* what the call has found

vars == <<pc, channel, timer, promise, asked, hostname>>

Pcs == {"mdns", "bind", "join", "schedule", "write", "await", "cancel",
        "close", "netbios", "dns", "done"}
Timers   == {"none", "armed", "over"}
Vias     == {"none", "mDNS", "NetBIOS", "dns"}
Ports    == 7654..7909
Ids      == {n \in Nat : n < 65536}
Requests == [by : Tasks, from : Ports, id : Ids]
Names    == [via : Vias, of : {Address[t] : t \in Tasks} \cup {<<>>}]

Name(via, a) == [via |-> via, of |-> a]
NoName  == Name("none", <<>>)
Pending == Name("pending", <<>>)

Init ==
    /\ pc = [t \in Tasks |-> "mdns"]
    /\ channel = [t \in Tasks |-> FALSE]
    /\ timer = [t \in Tasks |-> "none"]
    /\ promise = [t \in Tasks |-> Pending]
    /\ asked = {}
    /\ hostname = [t \in Tasks |-> NoName]

-----------------------------------------------------------------------------
(* Mutant of RequestId: the second octet is in it, and UInt8(id >> 8) traps. *)
RequestIdLong(a) == a[2] * 65025 + a[3] * 255 + a[4]
RequestId(a) == a[3] * 255 + a[4]
BindPort(a)  == a[4] + 7654
High(id)     == id \div 256
Low(id)      == id % 256

(* The reply is ignored when both octets of its identifier differ.
   Mutant: it never is. *)
AcceptsAny(id, mine) == TRUE
Accepts(id, mine) == ~(High(id) # High(mine) /\ Low(id) # Low(mine))

Request(t) == [by |-> t, from |-> BindPort(Address[t]),
               id |-> RequestId(Address[t])]

Goto(t, from, to) == pc[t] = from /\ pc' = [pc EXCEPT ![t] = to]

(* Before each resolver: scanningTask?.isCancelled, which holds only between
   cancel and the clearing of the field. *)
GivesUp(t) ==
    /\ \E p \in {"mdns", "netbios", "dns"} : Goto(t, p, "done")
    /\ UNCHANGED <<channel, timer, promise, asked, hostname>>

GoesOn(t) ==
    /\ Goto(t, "mdns", "bind")
    /\ UNCHANGED <<channel, timer, promise, asked, hostname>>

(* createDatagramChannel: SO_REUSEPORT lets any number bind the port.  A channel
   that is bound and cannot join the group is left open. *)
Bind(t) ==
    /\ Goto(t, "bind", "join")
    /\ channel' = [channel EXCEPT ![t] = TRUE]
    /\ UNCHANGED <<timer, promise, asked, hostname>>

Join(t) ==
    /\ Goto(t, "join", "schedule")
    /\ UNCHANGED <<channel, timer, promise, asked, hostname>>

(* scheduleTask.  Mutant: nothing is scheduled. *)
NothingScheduled == "none"
Scheduled == "armed"

Schedule(t) ==
    /\ Goto(t, "schedule", "write")
    /\ timer' = [timer EXCEPT ![t] = Scheduled]
    /\ UNCHANGED <<channel, promise, asked, hostname>>

Write(t) ==
    /\ Goto(t, "write", "await")
    /\ asked' = asked \cup {Request(t)}
    /\ UNCHANGED <<channel, timer, promise, hostname>>

(* catch: nil, whatever is open by then *)
Throws(t) ==
    /\ \E p \in {"bind", "join", "write"} : Goto(t, p, "netbios")
    /\ UNCHANGED <<channel, timer, promise, asked, hostname>>

(* The timeout, on an event loop.  The first to keep the promise has kept it. *)
Keep(t, name) ==
    promise' = [promise EXCEPT ![t] = IF @ = Pending THEN name ELSE @]

TimesOut(t) ==
    /\ timer[t] = "armed"
    /\ timer' = [timer EXCEPT ![t] = "over"]
    /\ Keep(t, NoName)
    /\ UNCHANGED <<pc, channel, asked, hostname>>

(* channelRead, on an event loop, for a reply to any request that was made from
   this port.  One that is not accepted, or holds no name, changes nothing. *)
ChannelRead(t) ==
    /\ channel[t]
    /\ \E q \in asked :
          /\ q.from = BindPort(Address[t])
          /\ Accepts(q.id, RequestId(Address[t]))
          /\ Keep(t, Name("mDNS", Address[q.by]))
    /\ UNCHANGED <<pc, channel, timer, asked, hostname>>

(* futureResult.get(), then the timeout is cancelled and the channel closed.
   Mutant: it is not. *)
Await(t) ==
    /\ Goto(t, "await", "cancel")
    /\ promise[t] # Pending
    /\ UNCHANGED <<channel, timer, promise, asked, hostname>>

CancelTimeout(t) ==
    /\ Goto(t, "cancel", "close")
    /\ timer' = [timer EXCEPT ![t] = "over"]
    /\ UNCHANGED <<channel, promise, asked, hostname>>

StaysOpen(t) == channel
Closed(t) == [channel EXCEPT ![t] = FALSE]

Close(t) ==
    /\ Goto(t, "close", IF promise[t] = NoName THEN "netbios" ELSE "done")
    /\ channel' = Closed(t)
    /\ hostname' = [hostname EXCEPT ![t] = promise[t]]
    /\ UNCHANGED <<timer, promise, asked>>

(* TONetBIOSNameService and gethostbyaddr (external): a name or nil *)
AskNetBIOS(t) ==
    /\ \/ /\ Goto(t, "netbios", "done")
          /\ hostname' = [hostname EXCEPT ![t] = Name("NetBIOS", Address[t])]
       \/ Goto(t, "netbios", "dns") /\ UNCHANGED hostname
    /\ UNCHANGED <<channel, timer, promise, asked>>

AskDns(t) ==
    /\ Goto(t, "dns", "done")
    /\ \/ hostname' = [hostname EXCEPT ![t] = Name("dns", Address[t])]
       \/ UNCHANGED hostname
    /\ UNCHANGED <<channel, timer, promise, asked>>

CallStep(t) ==
    \/ GivesUp(t) \/ GoesOn(t) \/ Bind(t) \/ Join(t) \/ Schedule(t) \/ Write(t)
    \/ Throws(t) \/ Await(t) \/ CancelTimeout(t) \/ Close(t)
    \/ AskNetBIOS(t) \/ AskDns(t)

AllReturned == (\A t \in Tasks : pc[t] = "done") /\ UNCHANGED vars

Next ==
    \/ \E t \in Tasks : CallStep(t) \/ TimesOut(t) \/ ChannelRead(t)
    \/ AllReturned

Spec == Init /\ [][Next]_vars

(* The tasks and the event loops run; no reply has to come. *)
FairSpec ==
    Spec /\ \A t \in Tasks : WF_vars(CallStep(t)) /\ WF_vars(TimesOut(t))

-----------------------------------------------------------------------------
TypeOK ==
    /\ pc \in [Tasks -> Pcs]
    /\ channel \in [Tasks -> BOOLEAN]
    /\ timer \in [Tasks -> Timers]
    /\ promise \in [Tasks -> Names \cup {Pending}]
    /\ asked \subseteq Requests
    /\ hostname \in [Tasks -> Names]

(* Two hosts with the same last octet whose identifiers share an octet: their
   third octets are equal, or they are the last octet and the one after it,
   as in x.y.7.7 and x.y.8.7. *)
Confusable(a, b) ==
    /\ a[4] = b[4]
    /\ a[3] = b[3] \/ {a[3], b[3]} = {a[4], a[4] + 1}

(* A host is given the mDNS name of another only when the two are confusable;
   in a subnet of 256 none is, for there the port tells the hosts apart. *)
WrongNameExplained ==
    \A t \in Tasks :
        LET n == hostname[t]
        IN n.via = "mDNS" => n.of = Address[t] \/ Confusable(n.of, Address[t])

(* A call that has returned leaves a channel or a timeout behind only if it
   failed before its request was sent; in particular a name or a timeout that
   comes while the call goes on finds both of them cleaned up after it. *)
LeftoversExplained ==
    \A t \in Tasks :
        pc[t] = "done" /\ (channel[t] \/ timer[t] = "armed") =>
            \A q \in asked : q.by # t

(* Every call of resolveHostname returns, whether replies come or not: the
   scan's PostHost waits for it. *)
EveryResolutionReturns == \A t \in Tasks : <>(pc[t] = "done")
=============================================================================
