---------------------------- MODULE IosNameProofs ----------------------------
(***************************************************************************)
(* Types, and whose name a host may be given, for any number of calls and  *)
(* any addresses.                                                          *)
(***************************************************************************)
EXTENDS IosName, TLAPS

-----------------------------------------------------------------------------
(* The identifiers *)

(* The upper octet of an identifier is the third octet of the address, or one
   less where the fourth octet is smaller than the third. *)
LEMMA HighOctet ==
    ASSUME NEW k \in Octets, NEW l \in Octets
    PROVE  (k * 255 + l) \div 256 = IF l >= k THEN k ELSE k - 1
  BY SMT DEF Octets

(* The lower octet is their difference. *)
LEMMA LowOctet ==
    ASSUME NEW k \in Octets, NEW l \in Octets
    PROVE  (k * 255 + l) % 256 = IF l >= k THEN l - k ELSE l - k + 256
  BY SMT DEF Octets

(* The third octets k and j of two hosts that share the fourth octet l, when
   their identifiers share an octet. *)
LEMMA SharedOctet ==
    ASSUME NEW k \in Octets, NEW j \in Octets, NEW l \in Octets,
           \/ (k * 255 + l) \div 256 = (j * 255 + l) \div 256
           \/ (k * 255 + l) % 256 = (j * 255 + l) % 256
    PROVE  k = j \/ (k = l /\ j = l + 1) \/ (j = l /\ k = l + 1)
<1>1. CASE (k * 255 + l) \div 256 = (j * 255 + l) \div 256
  <2>1. (IF l >= k THEN k ELSE k - 1) = IF l >= j THEN j ELSE j - 1
    BY <1>1, HighOctet
  <2> QED  BY <2>1 DEF Octets
<1>2. CASE (k * 255 + l) % 256 = (j * 255 + l) % 256
  <2>1. (IF l >= k THEN l - k ELSE l - k + 256)
            = IF l >= j THEN l - j ELSE l - j + 256
    BY <1>2, LowOctet
  <2> QED  BY <2>1 DEF Octets
<1> QED  BY <1>1, <1>2

LEMMA SamePortSameOctet ==
    ASSUME NEW i \in Octets, NEW j \in Octets, i + 7654 = j + 7654
    PROVE  i = j
  BY DEF Octets

(* Two hosts of one port accept each other's replies only when they are
   confusable. *)
LEMMA AcceptedConfusable ==
    ASSUME NEW a \in Addresses, NEW b \in Addresses,
           BindPort(a) = BindPort(b), Accepts(RequestId(a), RequestId(b))
    PROVE  Confusable(a, b)
<1>1. a[3] \in Octets /\ a[4] \in Octets /\ b[3] \in Octets /\ b[4] \in Octets
  BY DEF Addresses
<1>2. a[4] = b[4]
  <2>1. a[4] + 7654 = b[4] + 7654
    BY DEF BindPort
  <2> QED  BY <1>1, <2>1, SamePortSameOctet
<1>3. \/ (a[3] * 255 + a[4]) \div 256 = (b[3] * 255 + a[4]) \div 256
      \/ (a[3] * 255 + a[4]) % 256 = (b[3] * 255 + a[4]) % 256
  BY <1>2, Zenon DEF Accepts, High, Low, RequestId
<1>4. a[3] = b[3] \/ (a[3] = a[4] /\ b[3] = a[4] + 1)
                  \/ (b[3] = a[4] /\ a[3] = a[4] + 1)
  BY <1>1, <1>3, SharedOctet
<1> QED  BY <1>2, <1>4, Zenon DEF Confusable

-----------------------------------------------------------------------------
(* Types.  A call's identifier and port are in range, so that no conversion to
   UInt8 traps. *)
LEMMA Ranges ==
    ASSUME NEW k \in Octets, NEW l \in Octets
    PROVE  k * 255 + l \in Ids /\ l + 7654 \in Ports
<1>1. k \in Int /\ l \in Int /\ 0 <= k /\ k <= 255 /\ 0 <= l /\ l <= 255
  BY DEF Octets
<1>2. k * 255 + l \in Int /\ 0 <= k * 255 + l /\ k * 255 + l <= 65535
  BY <1>1
<1>3. l + 7654 \in Ports
  BY <1>1 DEF Ports
<1> QED  BY <1>2, <1>3 DEF Ids

LEMMA RequestTyped ==
    ASSUME NEW t \in Tasks PROVE Request(t) \in Requests
<1>1. Address[t] \in Addresses
  BY IosNameAssumption
<1>2. Address[t][3] \in Octets /\ Address[t][4] \in Octets
  BY <1>1 DEF Addresses
<1>3. BindPort(Address[t]) \in Ports /\ RequestId(Address[t]) \in Ids
  BY <1>2, Ranges DEF BindPort, RequestId
<1> QED  BY <1>3 DEF Request, Requests

LEMMA NameTyped ==
    ASSUME NEW t \in Tasks, NEW via \in Vias
    PROVE  Name(via, Address[t]) \in Names /\ NoName \in Names
  BY DEF Name, NoName, Names, Vias

(* A call that closes its channel has an answer or a timeout to return. *)
PromiseKept == \A t \in Tasks : pc[t] \in {"cancel", "close"} => promise[t] # Pending

TypeInv == TypeOK /\ PromiseKept

LEMMA TypeStep == TypeInv /\ [Next]_vars => TypeInv'
<1> SUFFICES ASSUME TypeInv, [Next]_vars PROVE TypeInv'
  OBVIOUS
<1> USE DEF TypeInv, PromiseKept
<1>1. ASSUME NEW t \in Tasks, CallStep(t) PROVE TypeInv'
  <2>1. CASE GivesUp(t) \/ GoesOn(t) \/ Join(t) \/ Throws(t) \/ Await(t)
    BY <2>1 DEF GivesUp, GoesOn, Join, Throws, Await, Goto, TypeOK, Pcs
  <2>2. CASE Bind(t)
    BY <2>2 DEF Bind, Goto, TypeOK, Pcs
  <2>3. CASE Schedule(t) \/ CancelTimeout(t)
    BY <2>3 DEF Schedule, Scheduled, CancelTimeout, Goto, TypeOK, Pcs, Timers
  <2>4. CASE Write(t)
    BY <2>4, RequestTyped DEF Write, Goto, TypeOK, Pcs
  <2>5. CASE Close(t)
    <3>1. promise[t] \in Names
      BY <2>5 DEF Close, Goto, TypeOK
    <3> QED  BY <2>5, <3>1 DEF Close, Closed, Goto, TypeOK, Pcs
  <2>6. CASE AskNetBIOS(t) \/ AskDns(t)
    <3>1. Name("NetBIOS", Address[t]) \in Names /\ Name("dns", Address[t]) \in Names
      BY NameTyped DEF Vias
    <3> QED  BY <2>6, <3>1 DEF AskNetBIOS, AskDns, Goto, TypeOK, Pcs
  <2> QED  BY <1>1, <2>1, <2>2, <2>3, <2>4, <2>5, <2>6 DEF CallStep
<1>2. ASSUME NEW t \in Tasks, TimesOut(t) PROVE TypeInv'
  <2>1. NoName \in Names /\ NoName # Pending
    BY NameTyped DEF NoName, Pending, Name, Names, Vias
  <2> QED  BY <1>2, <2>1 DEF TimesOut, Keep, TypeOK, Timers
<1>3. ASSUME NEW t \in Tasks, ChannelRead(t) PROVE TypeInv'
  <2>1. PICK q \in asked : Keep(t, Name("mDNS", Address[q.by]))
    BY <1>3 DEF ChannelRead
  <2>2. q \in Requests
    BY DEF TypeOK
  <2>3. q.by \in Tasks
    BY <2>2 DEF Requests
  <2>4. Name("mDNS", Address[q.by]) \in Names
    BY <2>3, NameTyped DEF Vias
  <2>5. Name("mDNS", Address[q.by]) # Pending
    BY DEF Name, Pending
  <2> QED  BY <1>3, <2>1, <2>4, <2>5 DEF ChannelRead, Keep, TypeOK
<1>4. CASE UNCHANGED vars
  BY <1>4 DEF vars, TypeOK
<1> QED  BY <1>1, <1>2, <1>3, <1>4 DEF Next, AllReturned

(* The variables keep their types. *)
THEOREM TypeCorrect == Spec => []TypeOK
<1>1. Init => TypeInv
  BY DEF Init, TypeInv, PromiseKept, TypeOK, Pcs, Timers, Names, NoName, Name, Vias
<1>2. TypeInv => TypeOK
  BY DEF TypeInv
<1> QED  BY <1>1, <1>2, TypeStep, PTL DEF Spec

-----------------------------------------------------------------------------
(* Whose name *)

Explained(n, t) ==
    n.via = "mDNS" => n.of = Address[t] \/ Confusable(n.of, Address[t])

(* The requests are those of their calls, and what a promise has been kept with
   is explained before the call takes it over. *)
NameInv ==
    /\ TypeInv
    /\ \A q \in asked : /\ q.id = RequestId(Address[q.by])
                        /\ q.from = BindPort(Address[q.by])
    /\ \A t \in Tasks : Explained(promise[t], t) /\ Explained(hostname[t], t)

LEMMA Unnamed ==
    ASSUME NEW t, NEW a, NEW via, via # "mDNS"
    PROVE  Explained(Name(via, a), t)
  BY DEF Explained, Name

(* The answers that a channel lets through are explained. *)
LEMMA ReadExplained ==
    ASSUME NameInv, NEW t \in Tasks, NEW q \in asked,
           q.from = BindPort(Address[t]), Accepts(q.id, RequestId(Address[t]))
    PROVE  Explained(Name("mDNS", Address[q.by]), t)
<1>1. q \in Requests
  BY DEF NameInv, TypeInv, TypeOK
<1>2. q.by \in Tasks
  BY <1>1 DEF Requests
<1>3. Address[t] \in Addresses /\ Address[q.by] \in Addresses
  BY <1>2, IosNameAssumption
<1>4. /\ BindPort(Address[q.by]) = BindPort(Address[t])
      /\ Accepts(RequestId(Address[q.by]), RequestId(Address[t]))
  BY DEF NameInv
<1>5. Confusable(Address[q.by], Address[t])
  BY <1>3, <1>4, AcceptedConfusable
<1> QED  BY <1>5 DEF Explained, Name

(* A step leaves a call's promise and name as they are, keeps the promise with
   what is explained, or takes the name from the promise or from elsewhere. *)
LEMMA NameStep == NameInv /\ [Next]_vars => NameInv'
<1> SUFFICES ASSUME NameInv, [Next]_vars PROVE NameInv'
  OBVIOUS
<1>1. TypeInv /\ TypeInv'
  BY TypeStep DEF NameInv
<1>2. ASSUME NEW t \in Tasks, CallStep(t) PROVE NameInv'
  <2>1. CASE \/ GivesUp(t) \/ GoesOn(t) \/ Bind(t) \/ Join(t) \/ Schedule(t)
             \/ Throws(t) \/ Await(t) \/ CancelTimeout(t)
    <3>1. UNCHANGED <<promise, asked, hostname>>
      BY <2>1 DEF GivesUp, GoesOn, Bind, Join, Schedule, Throws, Await,
                  CancelTimeout
    <3> QED  BY <1>1, <3>1 DEF NameInv, Explained
  <2>2. CASE Write(t)
    <3>1. UNCHANGED <<promise, hostname>> /\ asked' = asked \cup {Request(t)}
      BY <2>2 DEF Write
    <3>2. /\ Request(t).by = t /\ Request(t).id = RequestId(Address[t])
          /\ Request(t).from = BindPort(Address[t])
      BY DEF Request
    <3> QED  BY <1>1, <3>1, <3>2 DEF NameInv, Explained
  <2>3. CASE Close(t)
    <3>1. /\ UNCHANGED <<promise, asked>>
          /\ hostname' = [hostname EXCEPT ![t] = promise[t]]
      BY <2>3 DEF Close
    <3>2. \A u \in Tasks : hostname'[u] = IF u = t THEN promise[t] ELSE hostname[u]
      BY <1>1, <3>1 DEF TypeInv, TypeOK
    <3> QED  BY <1>1, <3>1, <3>2 DEF NameInv, Explained
  <2>4. CASE AskNetBIOS(t) \/ AskDns(t)
    <3>1. PICK n : /\ UNCHANGED <<promise, asked>> /\ Explained(n, t)
                   /\ hostname' = hostname \/ hostname' = [hostname EXCEPT ![t] = n]
      BY <2>4, Unnamed DEF AskNetBIOS, AskDns
    <3>2. \A u \in Tasks : hostname'[u] = hostname[u] \/ (u = t /\ hostname'[u] = n)
      BY <1>1, <3>1 DEF TypeInv, TypeOK
    <3> QED  BY <1>1, <3>1, <3>2 DEF NameInv, Explained
  <2> QED  BY <1>2, <2>1, <2>2, <2>3, <2>4 DEF CallStep
<1>3. ASSUME NEW t \in Tasks, NEW n, Explained(n, t), Keep(t, n),
             UNCHANGED <<asked, hostname>>
      PROVE  NameInv'
  <2>1. \A u \in Tasks : promise'[u] = promise[u] \/ (u = t /\ promise'[u] = n)
    BY <1>1, <1>3 DEF Keep, TypeInv, TypeOK
  <2> QED  BY <1>1, <1>3, <2>1 DEF NameInv, Explained
<1>4. ASSUME NEW t \in Tasks, TimesOut(t) PROVE NameInv'
  <2>1. Explained(NoName, t)
    BY Unnamed DEF NoName
  <2> QED  BY <1>3, <1>4, <2>1 DEF TimesOut
<1>5. ASSUME NEW t \in Tasks, ChannelRead(t) PROVE NameInv'
  <2>1. PICK q \in asked : /\ q.from = BindPort(Address[t])
                           /\ Accepts(q.id, RequestId(Address[t]))
                           /\ Keep(t, Name("mDNS", Address[q.by]))
    BY <1>5 DEF ChannelRead
  <2>2. Explained(Name("mDNS", Address[q.by]), t)
    BY <2>1, ReadExplained
  <2> QED  BY <1>3, <1>5, <2>1, <2>2 DEF ChannelRead
<1>6. CASE UNCHANGED vars
  BY <1>1, <1>6 DEF vars, NameInv, Explained
<1> QED  BY <1>2, <1>4, <1>5, <1>6 DEF Next, AllReturned

(* However replies are lost, repeated, delayed and reordered, a host is given
   the mDNS name of another only when the two share the last octet and their
   third octets are equal, or that octet and the one after it. *)
THEOREM OnlyConfusableNames == Spec => []WrongNameExplained
<1>1. Init => NameInv
  <2>1. Init => TypeInv
    BY DEF Init, TypeInv, PromiseKept, TypeOK, Pcs, Timers, Names, NoName, Name, Vias
  <2> QED  BY <2>1 DEF Init, NameInv, Explained, NoName, Pending, Name
<1>2. NameInv => WrongNameExplained
  BY DEF NameInv, WrongNameExplained, Explained
<1> QED  BY <1>1, <1>2, NameStep, PTL DEF Spec

-----------------------------------------------------------------------------
(* What is left behind *)

Asked(t) == \E q \in asked : q.by = t

(* A call has asked only from its write on; the timeout is over before the
   channel is closed, and both are done with when the call goes on. *)
CleanUp ==
    \A t \in Tasks :
        /\ Asked(t) => pc[t] \in {"await", "cancel", "close", "netbios", "dns", "done"}
        /\ pc[t] = "close" => timer[t] # "armed"
        /\ Asked(t) /\ pc[t] \in {"netbios", "dns", "done"} =>
               ~channel[t] /\ timer[t] # "armed"

CleanInv == TypeInv /\ CleanUp

LEMMA CleanStep == CleanInv /\ [Next]_vars => CleanInv'
<1> SUFFICES ASSUME CleanInv, [Next]_vars PROVE CleanUp'
  BY TypeStep DEF CleanInv
<1> USE DEF CleanInv, TypeInv, TypeOK
<1>1. ASSUME NEW t \in Tasks, CallStep(t) PROVE CleanUp'
  <2>1. CASE GivesUp(t) \/ GoesOn(t) \/ Join(t) \/ Throws(t) \/ Await(t)
    <3>1. UNCHANGED <<channel, timer, asked>>
      BY <2>1 DEF GivesUp, GoesOn, Join, Throws, Await
    <3>2. \E from, to \in Pcs : /\ Goto(t, from, to)
                                /\ <<from, to>> \in {<<"mdns", "done">>, <<"netbios", "done">>,
                                       <<"dns", "done">>, <<"mdns", "bind">>,
                                       <<"join", "schedule">>, <<"bind", "netbios">>,
                                       <<"join", "netbios">>, <<"write", "netbios">>,
                                       <<"await", "cancel">>}
      BY <2>1 DEF GivesUp, GoesOn, Join, Throws, Await, Pcs
    <3> QED  BY <3>1, <3>2 DEF CleanUp, Asked, Goto
  <2>2. CASE Bind(t)
    BY <2>2 DEF Bind, Goto, CleanUp, Asked
  <2>3. CASE Schedule(t) \/ CancelTimeout(t)
    BY <2>3 DEF Schedule, CancelTimeout, Goto, CleanUp, Asked
  <2>4. CASE Write(t)
    <3>1. \A u \in Tasks : Asked(u)' => Asked(u) \/ u = t
      BY <2>4 DEF Write, Asked, Request
    <3> QED  BY <2>4, <3>1 DEF Write, Goto, CleanUp
  <2>5. CASE Close(t)
    BY <2>5 DEF Close, Closed, Goto, CleanUp, Asked
  <2>6. CASE AskNetBIOS(t) \/ AskDns(t)
    BY <2>6 DEF AskNetBIOS, AskDns, Goto, CleanUp, Asked
  <2> QED  BY <1>1, <2>1, <2>2, <2>3, <2>4, <2>5, <2>6 DEF CallStep
<1>2. ASSUME NEW t \in Tasks, TimesOut(t) PROVE CleanUp'
  BY <1>2 DEF TimesOut, CleanUp, Asked
<1>3. ASSUME NEW t \in Tasks, ChannelRead(t) PROVE CleanUp'
  BY <1>3 DEF ChannelRead, CleanUp, Asked
<1>4. CASE UNCHANGED vars
  BY <1>4 DEF vars, CleanUp, Asked
<1> QED  BY <1>1, <1>2, <1>3, <1>4 DEF Next, AllReturned

(* A call that has sent its request closes its channel and stops its timeout,
   whoever keeps its promise and whatever comes later. *)
THEOREM NothingLeftBehind == Spec => []LeftoversExplained
<1>1. Init => CleanInv
  <2>1. Init => TypeInv
    BY DEF Init, TypeInv, PromiseKept, TypeOK, Pcs, Timers, Names, NoName, Name, Vias
  <2> QED  BY <2>1 DEF Init, CleanInv, CleanUp, Asked
<1>2. CleanInv => LeftoversExplained
  BY DEF CleanInv, CleanUp, Asked, LeftoversExplained
<1> QED  BY <1>1, <1>2, CleanStep, PTL DEF Spec
=============================================================================
