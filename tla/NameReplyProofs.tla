--------------------------- MODULE NameReplyProofs ---------------------------
(***************************************************************************)
(* Types, and whose mDNS name a host may be given, for any number of       *)
(* calls, any addresses and any ports.                                     *)
(***************************************************************************)
EXTENDS NameReply, TLAPS

-----------------------------------------------------------------------------
(* The identifiers *)

LEMMA HighOctet ==
    ASSUME NEW k \in -128..127, NEW s \in -128..127
    PROVE  ((k * 255 + s) % 65536) \div 256 =
               (k - (IF s < k THEN 1 ELSE 0)) % 256
  BY SMT

LEMMA LowOctet ==
    ASSUME NEW k \in -128..127, NEW s \in -128..127
    PROVE  ((k * 255 + s) % 65536) % 256 = (s - k) % 256
  BY SMT

LEMMA SignedRange ==
    ASSUME NEW o \in Octets PROVE Signed(o) \in -128..127
  BY DEF Octets, Signed

(* An address has at least four octets. *)
LEMMA FirstOctets ==
    ASSUME NEW t \in Tasks
    PROVE  /\ Address[t] \in Seq(Octets)
           /\ \A i \in 1..4 : Address[t][i] \in Octets
  BY NameAssumption

(* An IPv4 address is what reverseName asks for. *)
LEMMA QuestionIsAddress ==
    ASSUME NEW t \in Tasks, Len(Address[t]) = 4
    PROVE  Question(Address[t]) = Address[t]
  BY FirstOctets DEF Question

LEMMA IdOctets ==
    ASSUME NEW t \in Tasks
    PROVE  /\ High(RequestId(Address[t])) = Side(Address[t]) % 256
           /\ Low(RequestId(Address[t])) = Diff(Address[t]) % 256
<1>1. Address[t][3] \in Octets /\ Address[t][4] \in Octets
  BY FirstOctets
<1>2. Signed(Address[t][3]) \in -128..127 /\ Signed(Address[t][4]) \in -128..127
  BY <1>1, SignedRange
<1>3. PICK k \in -128..127, s \in -128..127 :
          k = Signed(Address[t][3]) /\ s = Signed(Address[t][4])
  BY <1>2
<1>4. /\ RequestId(Address[t]) = (k * 255 + s) % 65536
      /\ Side(Address[t]) = k - (IF s < k THEN 1 ELSE 0)
      /\ Diff(Address[t]) = s - k
  BY <1>3 DEF RequestId, Side, Diff
<1>5. High(RequestId(Address[t])) = ((k * 255 + s) % 65536) \div 256
  BY <1>4 DEF High
<1>6. Low(RequestId(Address[t])) = ((k * 255 + s) % 65536) % 256
  BY <1>4 DEF Low
<1> QED  BY <1>4, <1>5, <1>6, HighOctet, LowOctet

(* A reply to another call's mDNS request is accepted only if the two hosts are
   confusable. *)
LEMMA AcceptedConfusable ==
    ASSUME NEW t \in Tasks, NEW u \in Tasks,
           Accepts(RequestId(Address[u]), RequestId(Address[t]))
    PROVE  Confusable(Address[t], Address[u])
<1>1. \/ High(RequestId(Address[u])) = High(RequestId(Address[t]))
      \/ Low(RequestId(Address[u])) = Low(RequestId(Address[t]))
  BY DEF Accepts
<1>2. \/ Side(Address[t]) % 256 = Side(Address[u]) % 256
      \/ Diff(Address[t]) % 256 = Diff(Address[u]) % 256
  BY <1>1, IdOctets
<1> QED  BY <1>2 DEF Confusable

-----------------------------------------------------------------------------
(* Types *)

LEMMA RequestTyped ==
    ASSUME NEW t \in Tasks, port[t] \in Ports
    PROVE  MdnsRequest(t) \in Requests /\ NetBIOSRequest(t) \in Requests
<1>1. Address[t][3] \in Octets /\ Address[t][4] \in Octets
  BY FirstOctets
<1>2. Signed(Address[t][3]) \in Int /\ Signed(Address[t][4]) \in Int
  BY <1>1 DEF Signed, Octets
<1>3. RequestId(Address[t]) \in Ids
  BY <1>2 DEF RequestId, Ids
<1>4. NetBIOSId \in Ids
  BY DEF NetBIOSId, Ids
<1>5. Address[t] \in Subjects /\ Question(Address[t]) \in Subjects
  BY DEF Subjects, Addresses
<1> QED  BY <1>3, <1>4, <1>5 DEF MdnsRequest, NetBIOSRequest, Requests

LEMMA NameTyped ==
    ASSUME NEW a \in Subjects, NEW via \in {"dns", "mDNS", "NetBIOS"}
    PROVE  Name(via, a) \in Names
  BY DEF Name, Names

(* A call that sends or receives has a socket. *)
HasSocket ==
    \A t \in Tasks :
        pc[t] \in {"ask", "receive", "nbask", "nbreceive"} => port[t] \in Ports

TypeInv == TypeOK /\ HasSocket

LEMMA TypeStep == TypeInv /\ [Next]_vars => TypeInv'
<1> SUFFICES ASSUME TypeInv, [Next]_vars PROVE TypeInv'
  OBVIOUS
<1> USE DEF TypeInv, HasSocket
<1>1. ASSUME NEW t \in Tasks, CallStep(t) PROVE TypeInv'
  <2>1. CASE Lookup(t)
    <3>1. Name("dns", Address[t]) \in Names
      BY NameTyped DEF Subjects, Addresses
    <3> QED  BY <2>1, <3>1 DEF Lookup, Goto, TypeOK, Pcs
  <2>2. CASE OpenMdns(t) \/ JoinFails(t) \/ OpenNetBIOS(t)
    <3>1. PICK p \in Ports : port' = [port EXCEPT ![t] = p]
      BY <2>2 DEF OpenMdns, JoinFails, OpenNetBIOS, Take, Free
    <3> QED
      BY <2>2, <3>1 DEF OpenMdns, JoinFails, OpenNetBIOS, Goto, TypeOK, Pcs
  <2>3. CASE OpenFails(t)
    BY <2>3 DEF OpenFails, Goto, TypeOK, Pcs
  <2>4. CASE AskMdns(t) \/ AskNetBIOS(t)
    <3>1. port[t] \in Ports
      BY <2>4 DEF AskMdns, AskNetBIOS, Goto
    <3> QED  BY <2>4, <3>1, RequestTyped DEF AskMdns, AskNetBIOS, Goto, TypeOK, Pcs
  <2>5. CASE Throws(t)
    <3>1. /\ port' = [port EXCEPT ![t] = NoPort] /\ UNCHANGED <<asked, hostname>>
          /\ \E to \in {"netbios", "done"} : pc' = [pc EXCEPT ![t] = to]
      BY <2>5 DEF Throws, AfterMdns, AfterNetBIOS, Goto, ClosedOnError, Closed
    <3> QED  BY <3>1 DEF TypeOK, Pcs
  <2> QED  BY <1>1, <2>1, <2>2, <2>3, <2>4, <2>5 DEF CallStep
<1>2. ASSUME NEW t \in Tasks, Reply(t) PROVE TypeInv'
  <2>1. PICK q \in asked :
            \/ MdnsNothing(t, q) \/ MdnsName(t, q) \/ MdnsUndecodable(t, q)
            \/ NetBIOSNothing(t, q) \/ NetBIOSName(t, q)
    BY <1>2 DEF Reply
  <2>2. q \in Requests
    BY DEF TypeOK
  <2>3. Name("mDNS", q.about) \in Names /\ Name("NetBIOS", q.about) \in Names
    BY <2>2, NameTyped DEF Requests
  <2>4. /\ port' = port \/ port' = [port EXCEPT ![t] = NoPort]
        /\ UNCHANGED asked
        /\ \E to \in {"netbios", "done"} : pc' = [pc EXCEPT ![t] = to]
        /\ \/ UNCHANGED hostname
           \/ hostname' = [hostname EXCEPT ![t] = Name("mDNS", q.about)]
           \/ hostname' = [hostname EXCEPT ![t] = Name("NetBIOS", q.about)]
    BY <2>1 DEF MdnsNothing, MdnsName, MdnsUndecodable, NetBIOSNothing,
                NetBIOSName, Goto, Closed
  <2> QED  BY <2>3, <2>4 DEF TypeOK, Pcs
<1>3. CASE UNCHANGED vars
  BY <1>3 DEF vars, TypeOK
<1> QED  BY <1>1, <1>2, <1>3 DEF Next, AllReturned

LEMMA TypeInit == Init => TypeInv
  BY DEF Init, TypeInv, HasSocket, TypeOK, Pcs, Names, NoName

(* The variables keep their types. *)
THEOREM TypeCorrect == Spec => []TypeOK
<1>1. TypeInv => TypeOK
  BY DEF TypeInv
<1> QED  BY <1>1, TypeInit, TypeStep, PTL DEF Spec

-----------------------------------------------------------------------------
(* Whose name *)

(* A request is that of its call. *)
RequestsTrue ==
    \A q \in asked :
        /\ q.kind = "mDNS" => /\ q.id = RequestId(Address[q.by])
                              /\ q.about = Question(Address[q.by])
        /\ q.kind = "NetBIOS" => q.id = NetBIOSId /\ q.about = Address[q.by]

(* A call that waits for mDNS has asked from the port it listens on. *)
HasAsked ==
    \A t \in Tasks : pc[t] = "receive" =>
        \E mine \in asked : /\ mine.by = t /\ mine.kind = "mDNS"
                            /\ mine.from = port[t]

NameInv == TypeInv /\ RequestsTrue /\ HasAsked /\ WrongMdnsNameExplained

(* What WrongMdnsNameExplained says of one host's name, given the requests. *)
Explained(t, n, requests) ==
    n.via = "mDNS" /\ n.of # Address[t] =>
        \/ Len(Address[t]) # 4 /\ n.of = Question(Address[t])
        \/ \E q \in requests :
               /\ q.about = n.of
               /\ q.by # t
               /\ \E mine \in requests :
                      mine.by = t /\ mine.kind = "mDNS" /\ mine.from = q.from
               /\ q.kind = "mDNS" => Confusable(Address[t], Address[q.by])
               /\ q.kind = "NetBIOS" => Accepts(NetBIOSId, RequestId(Address[t]))

LEMMA AllExplained ==
    WrongMdnsNameExplained <=> \A t \in Tasks : Explained(t, hostname[t], asked)
  BY DEF WrongMdnsNameExplained, Explained, SamePort

(* More requests explain no less. *)
LEMMA ExplainedMore ==
    ASSUME NEW t \in Tasks, NEW n, NEW R, NEW S, R \subseteq S, Explained(t, n, R)
    PROVE  Explained(t, n, S)
  BY Zenon DEF Explained

(* The name that an accepted reply gives is explained by its request. *)
LEMMA AcceptedExplained ==
    ASSUME NameInv, NEW t \in Tasks, NEW q \in asked, MdnsName(t, q)
    PROVE  Explained(t, Name("mDNS", q.about), asked)
<1>1. /\ pc[t] = "receive" /\ q.from = port[t]
      /\ Accepts(q.id, RequestId(Address[t]))
  BY DEF MdnsName, Arrives, Goto
<1>2. q \in Requests
  BY DEF NameInv, TypeInv, TypeOK
<1>3. q.by \in Tasks /\ q.kind \in {"mDNS", "NetBIOS"}
  BY <1>2 DEF Requests
<1>4. CASE q.by = t /\ q.kind = "mDNS"
  <2>1. q.about = Question(Address[t])
    BY <1>4 DEF NameInv, RequestsTrue
  <2>2. Len(Address[t]) = 4 => q.about = Address[t]
    BY <2>1, QuestionIsAddress
  <2> QED  BY <2>1, <2>2 DEF Explained, Name
<1>5. CASE q.by = t /\ q.kind = "NetBIOS"
  <2>1. q.about = Address[t]
    BY <1>5 DEF NameInv, RequestsTrue
  <2> QED  BY <2>1 DEF Explained, Name
<1>6. CASE q.by # t
  <2>1. \E mine \in asked : mine.by = t /\ mine.kind = "mDNS" /\ mine.from = q.from
    BY <1>1 DEF NameInv, HasAsked
  <2>2. q.kind = "mDNS" => Confusable(Address[t], Address[q.by])
    <3> SUFFICES ASSUME q.kind = "mDNS" PROVE Confusable(Address[t], Address[q.by])
      OBVIOUS
    <3>1. Accepts(RequestId(Address[q.by]), RequestId(Address[t]))
      BY <1>1 DEF NameInv, RequestsTrue
    <3> QED  BY <1>3, <3>1, AcceptedConfusable
  <2>3. q.kind = "NetBIOS" => Accepts(NetBIOSId, RequestId(Address[t]))
    BY <1>1 DEF NameInv, RequestsTrue
  <2> QED  BY <1>6, <2>1, <2>2, <2>3 DEF Explained, Name
<1> QED  BY <1>3, <1>4, <1>5, <1>6

LEMMA NameStep == NameInv /\ [Next]_vars => NameInv'
<1> SUFFICES ASSUME NameInv, [Next]_vars PROVE NameInv'
  OBVIOUS
<1>1. TypeInv /\ TypeInv' /\ RequestsTrue /\ HasAsked
  BY TypeStep DEF NameInv
<1>2. \A t \in Tasks : Explained(t, hostname[t], asked)
  BY AllExplained DEF NameInv
<1>3. ASSUME UNCHANGED <<asked, hostname>>, HasAsked' PROVE NameInv'
  <2>1. WrongMdnsNameExplained'
    BY <1>3 DEF NameInv, WrongMdnsNameExplained, SamePort
  <2> QED  BY <1>1, <1>3, <2>1 DEF NameInv, RequestsTrue
<1>4. ASSUME NEW t \in Tasks, NEW n, UNCHANGED asked, HasAsked',
             hostname' = [hostname EXCEPT ![t] = n], Explained(t, n, asked)
      PROVE  NameInv'
  <2>1. \A u \in Tasks : hostname'[u] = IF u = t THEN n ELSE hostname[u]
    BY <1>1, <1>4 DEF TypeInv, TypeOK
  <2>2. \A u \in Tasks : Explained(u, hostname'[u], asked')
    BY <1>2, <1>4, <2>1
  <2>3. WrongMdnsNameExplained'
    BY <2>2 DEF WrongMdnsNameExplained, Explained, SamePort
  <2> QED  BY <1>1, <1>4, <2>3 DEF NameInv, RequestsTrue
<1>5. ASSUME NEW t \in Tasks, NEW r, asked' = asked \cup {r}, UNCHANGED hostname,
             r = MdnsRequest(t) \/ r = NetBIOSRequest(t), HasAsked'
      PROVE  NameInv'
  <2>1. \A u \in Tasks : Explained(u, hostname'[u], asked')
    BY <1>2, <1>5, ExplainedMore
  <2>2. WrongMdnsNameExplained'
    BY <2>1 DEF WrongMdnsNameExplained, Explained, SamePort
  <2>3. RequestsTrue'
    BY <1>1, <1>5 DEF RequestsTrue, MdnsRequest, NetBIOSRequest
  <2> QED  BY <1>1, <1>5, <2>2, <2>3 DEF NameInv
<1>6. ASSUME NEW t \in Tasks, CallStep(t) PROVE NameInv'
  <2> USE <1>1
  <2>1. CASE Lookup(t)
    <3>1. Explained(t, Name("dns", Address[t]), asked)
      BY DEF Explained, Name
    <3>2. HasAsked'
      BY <2>1 DEF Lookup, Goto, HasAsked, TypeInv, TypeOK
    <3> QED  BY <1>4, <2>1, <3>1, <3>2 DEF Lookup
  <2>2. CASE OpenMdns(t) \/ JoinFails(t) \/ OpenNetBIOS(t) \/ OpenFails(t)
    <3>1. /\ \E to \in {"ask", "done", "nbask"} : pc' = [pc EXCEPT ![t] = to]
          /\ port' = port \/ \E p \in Ports : port' = [port EXCEPT ![t] = p]
          /\ UNCHANGED <<asked, hostname>>
      BY <2>2 DEF OpenMdns, JoinFails, OpenNetBIOS, OpenFails, Take, Free, Goto
    <3>2. HasAsked'
      BY <3>1 DEF HasAsked, TypeInv, TypeOK
    <3> QED  BY <1>3, <3>1, <3>2
  <2>3. CASE AskMdns(t)
    <3>1. /\ MdnsRequest(t).by = t /\ MdnsRequest(t).kind = "mDNS"
          /\ MdnsRequest(t).from = port[t]
      BY DEF MdnsRequest
    <3>2. HasAsked'
      BY <2>3, <3>1 DEF AskMdns, Goto, HasAsked, TypeInv, TypeOK
    <3> QED  BY <1>5, <2>3, <3>2 DEF AskMdns
  <2>4. CASE AskNetBIOS(t)
    <3>1. HasAsked'
      BY <2>4 DEF AskNetBIOS, Goto, HasAsked, TypeInv, TypeOK
    <3> QED  BY <1>5, <2>4, <3>1 DEF AskNetBIOS
  <2>5. CASE Throws(t)
    <3>1. /\ port' = [port EXCEPT ![t] = NoPort] /\ UNCHANGED <<asked, hostname>>
          /\ \E to \in {"netbios", "done"} : pc' = [pc EXCEPT ![t] = to]
      BY <2>5 DEF Throws, AfterMdns, AfterNetBIOS, Goto, ClosedOnError, Closed
    <3>2. HasAsked'
      BY <3>1 DEF HasAsked, TypeInv, TypeOK
    <3> QED  BY <1>3, <3>1, <3>2
  <2> QED  BY <1>6, <2>1, <2>2, <2>3, <2>4, <2>5 DEF CallStep
<1>7. ASSUME NEW t \in Tasks, Reply(t) PROVE NameInv'
  <2>1. PICK q \in asked :
            \/ MdnsNothing(t, q) \/ MdnsName(t, q) \/ MdnsUndecodable(t, q)
            \/ NetBIOSNothing(t, q) \/ NetBIOSName(t, q)
    BY <1>7 DEF Reply
  <2>2. /\ port' = port \/ port' = [port EXCEPT ![t] = NoPort]
        /\ UNCHANGED asked
        /\ \E to \in {"netbios", "done"} : pc' = [pc EXCEPT ![t] = to]
    BY <2>1 DEF MdnsNothing, MdnsName, MdnsUndecodable, NetBIOSNothing,
                NetBIOSName, Goto, Closed
  <2>3. HasAsked'
    BY <1>1, <2>2 DEF HasAsked, TypeInv, TypeOK
  <2>4. CASE MdnsNothing(t, q) \/ MdnsUndecodable(t, q) \/ NetBIOSNothing(t, q)
    BY <1>3, <2>3, <2>4 DEF MdnsNothing, MdnsUndecodable, NetBIOSNothing
  <2>5. CASE MdnsName(t, q)
    <3>1. Explained(t, Name("mDNS", q.about), asked)
      BY <2>5, AcceptedExplained
    <3> QED  BY <1>4, <2>2, <2>3, <2>5, <3>1 DEF MdnsName
  <2>6. CASE NetBIOSName(t, q)
    <3>1. Explained(t, Name("NetBIOS", q.about), asked)
      BY DEF Explained, Name
    <3> QED  BY <1>4, <2>2, <2>3, <2>6, <3>1 DEF NetBIOSName
  <2> QED  BY <2>1, <2>4, <2>5, <2>6
<1>8. CASE UNCHANGED vars
  <2>1. HasAsked'
    BY <1>1, <1>8 DEF vars, HasAsked
  <2> QED  BY <1>3, <1>8, <2>1 DEF vars
<1> QED  BY <1>6, <1>7, <1>8 DEF Next, AllReturned

(* However replies are lost, repeated, delayed and reordered, and however ports
   are taken again, a host is given the mDNS name of another address only if it
   is no IPv4 host, or if it took over the port of a call it is confusable with. *)
THEOREM OnlyConfusableNames == Spec => []WrongMdnsNameExplained
<1>1. Init => NameInv
  BY TypeInit DEF Init, NameInv, RequestsTrue, HasAsked,
                  WrongMdnsNameExplained, NoName
<1>2. NameInv => WrongMdnsNameExplained
  BY DEF NameInv
<1> QED  BY <1>1, <1>2, NameStep, PTL DEF Spec

-----------------------------------------------------------------------------
(* Open sockets *)

OnlyMdns(t) == \A q \in asked : q.by = t => q.kind = "mDNS"

(* A call has no socket between its two resolvers; until NetBIOS has answered its
   host has the name of the look-up, and until mDNS is done it has asked nothing
   else. *)
SocketInv ==
    /\ TypeInv
    /\ \A t \in Tasks :
        /\ pc[t] \in {"lookup", "mdns", "netbios"} => port[t] = NoPort
        /\ pc[t] \in Pcs \ {"lookup", "done"} => hostname[t] = Name("dns", Address[t])
        /\ pc[t] \in {"lookup", "mdns", "ask", "receive"} => OnlyMdns(t)
        /\ pc[t] = "done" /\ port[t] # NoPort =>
               hostname[t] = Name("dns", Address[t]) /\ OnlyMdns(t)

LEMMA SocketStep == SocketInv /\ [Next]_vars => SocketInv'
<1> SUFFICES ASSUME SocketInv, [Next]_vars PROVE SocketInv'
  OBVIOUS
<1>1. TypeInv /\ TypeInv' /\ TypeOK
  BY TypeStep DEF SocketInv, TypeInv
<1>2. ASSUME NEW t \in Tasks, UNCHANGED asked,
             \A u \in Tasks \ {t} : /\ pc'[u] = pc[u] /\ port'[u] = port[u]
                                    /\ hostname'[u] = hostname[u],
             pc'[t] \in {"lookup", "mdns", "netbios"} => port'[t] = NoPort,
             pc'[t] \in Pcs \ {"lookup", "done"} =>
                 hostname'[t] = Name("dns", Address[t]),
             pc'[t] \in {"lookup", "mdns", "ask", "receive"} => OnlyMdns(t),
             pc'[t] = "done" /\ port'[t] # NoPort =>
                 hostname'[t] = Name("dns", Address[t]) /\ OnlyMdns(t)
      PROVE  SocketInv'
  <2>1. \A u \in Tasks : OnlyMdns(u)' <=> OnlyMdns(u)
    BY <1>2 DEF OnlyMdns
  <2> QED  BY <1>1, <1>2, <2>1 DEF SocketInv
<1>3. ASSUME NEW t \in Tasks, CallStep(t) PROVE SocketInv'
  <2> USE <1>1 DEF Goto, TypeOK
  <2>1. CASE Lookup(t)
    BY <1>2, <2>1 DEF Lookup, SocketInv
  <2>2. CASE OpenMdns(t) \/ JoinFails(t)
    <3>1. PICK p \in Ports : port' = [port EXCEPT ![t] = p]
      BY <2>2 DEF OpenMdns, JoinFails, Take, Free
    <3> QED  BY <1>2, <2>2, <3>1 DEF OpenMdns, JoinFails, SocketInv, Pcs
  <2>3. CASE OpenNetBIOS(t)
    <3>1. PICK p \in Ports : port' = [port EXCEPT ![t] = p]
      BY <2>3 DEF OpenNetBIOS, Take, Free
    <3> QED  BY <1>2, <2>3, <3>1 DEF OpenNetBIOS, SocketInv, Pcs
  <2>4. CASE OpenFails(t)
    BY <1>2, <2>4 DEF OpenFails, SocketInv
  <2>5. CASE AskMdns(t)
    <3>1. MdnsRequest(t).kind = "mDNS"
      BY DEF MdnsRequest
    <3>2. \A u \in Tasks : OnlyMdns(u) => OnlyMdns(u)'
      BY <2>5, <3>1 DEF AskMdns, OnlyMdns
    <3> QED  BY <2>5, <3>2 DEF AskMdns, SocketInv, Pcs
  <2>6. CASE AskNetBIOS(t)
    <3>1. NetBIOSRequest(t).by = t
      BY DEF NetBIOSRequest
    <3>2. \A u \in Tasks \ {t} : OnlyMdns(u) => OnlyMdns(u)'
      BY <2>6, <3>1 DEF AskNetBIOS, OnlyMdns
    <3> QED  BY <2>6, <3>2 DEF AskNetBIOS, SocketInv, Pcs
  <2>7. CASE Throws(t)
    <3>1. /\ port' = [port EXCEPT ![t] = NoPort] /\ UNCHANGED <<asked, hostname>>
          /\ \/ pc[t] \in {"ask", "receive"} /\ pc' = [pc EXCEPT ![t] = "netbios"]
             \/ pc[t] \in {"nbask", "nbreceive"} /\ pc' = [pc EXCEPT ![t] = "done"]
      BY <2>7 DEF Throws, AfterMdns, AfterNetBIOS, ClosedOnError, Closed
    <3> QED  BY <1>2, <3>1 DEF SocketInv, Pcs
  <2> QED
    BY <1>3, <2>1, <2>2, <2>3, <2>4, <2>5, <2>6, <2>7 DEF CallStep
<1>4. ASSUME NEW t \in Tasks, Reply(t) PROVE SocketInv'
  <2> USE <1>1 DEF Goto, TypeOK
  <2>1. PICK q \in asked :
            \/ MdnsNothing(t, q) \/ MdnsName(t, q) \/ MdnsUndecodable(t, q)
            \/ NetBIOSNothing(t, q) \/ NetBIOSName(t, q)
    BY <1>4 DEF Reply
  <2>2. CASE MdnsUndecodable(t, q)
    BY <1>2, <2>2 DEF MdnsUndecodable, SocketInv, Pcs
  <2>3. CASE MdnsNothing(t, q)
    BY <1>2, <2>3 DEF MdnsNothing, Closed, SocketInv, Pcs
  <2>4. CASE MdnsName(t, q) \/ NetBIOSNothing(t, q) \/ NetBIOSName(t, q)
    <3>1. /\ port' = [port EXCEPT ![t] = NoPort] /\ UNCHANGED asked
          /\ pc' = [pc EXCEPT ![t] = "done"]
          /\ \/ UNCHANGED hostname
             \/ hostname' = [hostname EXCEPT ![t] = Name("mDNS", q.about)]
             \/ hostname' = [hostname EXCEPT ![t] = Name("NetBIOS", q.about)]
      BY <2>4 DEF MdnsName, NetBIOSNothing, NetBIOSName, Closed
    <3> QED  BY <1>2, <3>1
  <2> QED  BY <2>1, <2>2, <2>3, <2>4
<1>5. CASE UNCHANGED vars
  BY <1>1, <1>5 DEF vars, SocketInv, OnlyMdns
<1> QED  BY <1>3, <1>4, <1>5 DEF Next, AllReturned

(* Only what resolveHostName of mDNS does not catch leaves a socket open, and then
   NetBIOS is never asked: for any number of calls. *)
THEOREM SocketsAreClosed == Spec => []OpenSocketExplained
<1>1. Init => SocketInv
  BY TypeInit DEF Init, SocketInv, OnlyMdns
<1>2. SocketInv => OpenSocketExplained
  BY DEF SocketInv, OnlyMdns, OpenSocketExplained
<1> QED  BY <1>1, <1>2, SocketStep, PTL DEF Spec

-----------------------------------------------------------------------------
(* Whose NetBIOS name *)

(* A call that waits for NetBIOS has asked from the port it listens on. *)
HasAskedNetBIOS ==
    \A t \in Tasks : pc[t] = "nbreceive" =>
        \E mine \in asked : /\ mine.by = t /\ mine.kind = "NetBIOS"
                            /\ mine.from = port[t]

(* What WrongNetBIOSNameExplained says of one host's name. *)
NetBIOSExplained(t, n, requests) ==
    n.via = "NetBIOS" /\ n.of # Address[t] =>
        \E q \in requests :
            /\ q.kind = "NetBIOS" /\ q.about = n.of /\ q.by # t
            /\ \E mine \in requests :
                   mine.by = t /\ mine.kind = "NetBIOS" /\ mine.from = q.from

NetBIOSInv ==
    /\ TypeInv /\ RequestsTrue /\ HasAskedNetBIOS
    /\ \A t \in Tasks : NetBIOSExplained(t, hostname[t], asked)

LEMMA NetBIOSExplainedMore ==
    ASSUME NEW t \in Tasks, NEW n, NEW R, NEW S, R \subseteq S,
           NetBIOSExplained(t, n, R)
    PROVE  NetBIOSExplained(t, n, S)
  BY Zenon DEF NetBIOSExplained

(* A NetBIOS reply is to the call's own request, or to one from its port. *)
LEMMA NetBIOSNameExplained ==
    ASSUME NetBIOSInv, NEW t \in Tasks, NEW q \in asked, NetBIOSName(t, q)
    PROVE  NetBIOSExplained(t, Name("NetBIOS", q.about), asked)
<1>1. pc[t] = "nbreceive" /\ q.from = port[t] /\ q.kind = "NetBIOS"
  BY DEF NetBIOSName, Arrives, Goto, HasNbstatType
<1>2. CASE q.by = t
  <2>1. q.about = Address[t]
    BY <1>1, <1>2 DEF NetBIOSInv, RequestsTrue
  <2> QED  BY <2>1 DEF NetBIOSExplained, Name
<1>3. CASE q.by # t
  <2>1. \E mine \in asked : mine.by = t /\ mine.kind = "NetBIOS" /\ mine.from = q.from
    BY <1>1 DEF NetBIOSInv, HasAskedNetBIOS
  <2> QED  BY <1>1, <1>3, <2>1 DEF NetBIOSExplained, Name
<1> QED  BY <1>2, <1>3

(* A step adds a request or changes one host's name, and never both. *)
LEMMA NetBIOSStep == NetBIOSInv /\ [Next]_vars => NetBIOSInv'
<1> SUFFICES ASSUME NetBIOSInv, [Next]_vars PROVE NetBIOSInv'
  OBVIOUS
<1>1. TypeInv /\ TypeInv' /\ TypeOK /\ RequestsTrue /\ HasAskedNetBIOS
  BY TypeStep DEF NetBIOSInv, TypeInv
<1>2. ASSUME NEW t \in Tasks, NEW n, UNCHANGED asked, HasAskedNetBIOS',
             hostname' = hostname \/ hostname' = [hostname EXCEPT ![t] = n],
             NetBIOSExplained(t, n, asked)
      PROVE  NetBIOSInv'
  <2>1. \A u \in Tasks : hostname'[u] = hostname[u] \/ (u = t /\ hostname'[u] = n)
    BY <1>1, <1>2 DEF TypeOK
  <2>2. \A u \in Tasks : NetBIOSExplained(u, hostname'[u], asked')
    BY <1>2, <2>1 DEF NetBIOSInv
  <2> QED  BY <1>1, <1>2, <2>2 DEF NetBIOSInv, NetBIOSExplained, RequestsTrue
<1>3. ASSUME NEW t \in Tasks, NEW via, NEW a, via # "NetBIOS"
      PROVE  NetBIOSExplained(t, Name(via, a), asked)
  BY <1>3 DEF NetBIOSExplained, Name
<1>4. ASSUME NEW t \in Tasks, NEW r, asked' = asked \cup {r}, UNCHANGED hostname,
             r = MdnsRequest(t) \/ r = NetBIOSRequest(t), HasAskedNetBIOS'
      PROVE  NetBIOSInv'
  <2>1. \A u \in Tasks : NetBIOSExplained(u, hostname'[u], asked')
    BY <1>4, NetBIOSExplainedMore DEF NetBIOSInv
  <2>2. RequestsTrue'
    BY <1>1, <1>4 DEF RequestsTrue, MdnsRequest, NetBIOSRequest
  <2> QED  BY <1>1, <1>4, <2>1, <2>2 DEF NetBIOSInv, NetBIOSExplained
<1>5. ASSUME NEW t \in Tasks, AskMdns(t) \/ AskNetBIOS(t) PROVE NetBIOSInv'
  <2> USE <1>1 DEF Goto, TypeOK, HasAskedNetBIOS
  <2>1. CASE AskMdns(t)
    <3>1. HasAskedNetBIOS'
      BY <2>1 DEF AskMdns
    <3> QED  BY <1>4, <2>1, <3>1 DEF AskMdns
  <2>2. CASE AskNetBIOS(t)
    <3>1. /\ NetBIOSRequest(t).by = t /\ NetBIOSRequest(t).kind = "NetBIOS"
          /\ NetBIOSRequest(t).from = port[t]
      BY DEF NetBIOSRequest
    <3>2. HasAskedNetBIOS'
      BY <2>2, <3>1 DEF AskNetBIOS
    <3> QED  BY <1>4, <2>2, <3>2 DEF AskNetBIOS
  <2> QED  BY <1>5, <2>1, <2>2
<1>6. ASSUME NEW t \in Tasks, CallStep(t), ~AskMdns(t), ~AskNetBIOS(t)
      PROVE  NetBIOSInv'
  <2>1. /\ UNCHANGED asked
        /\ \E to \in Pcs \ {"nbreceive"} : pc' = [pc EXCEPT ![t] = to]
        /\ \/ port' = port
           \/ \E p \in Ports \cup {NoPort} : port' = [port EXCEPT ![t] = p]
        /\ \/ hostname' = hostname
           \/ hostname' = [hostname EXCEPT ![t] = Name("dns", Address[t])]
    BY <1>6 DEF CallStep, Lookup, OpenMdns, JoinFails, OpenNetBIOS, OpenFails, Throws,
                Take, Free, AfterMdns, AfterNetBIOS, ClosedOnError, Closed, Goto, Pcs
  <2>2. HasAskedNetBIOS'
    BY <1>1, <2>1 DEF HasAskedNetBIOS, TypeOK
  <2> QED  BY <1>2, <1>3, <2>1, <2>2
<1>7. ASSUME NEW t \in Tasks, Reply(t) PROVE NetBIOSInv'
  <2>1. PICK q \in asked :
            \/ MdnsNothing(t, q) \/ MdnsName(t, q) \/ MdnsUndecodable(t, q)
            \/ NetBIOSNothing(t, q) \/ NetBIOSName(t, q)
    BY <1>7 DEF Reply
  <2>2. /\ UNCHANGED asked
        /\ \E to \in {"netbios", "done"} : pc' = [pc EXCEPT ![t] = to]
        /\ port' = port \/ port' = [port EXCEPT ![t] = NoPort]
    BY <2>1 DEF MdnsNothing, MdnsName, MdnsUndecodable, NetBIOSNothing,
                NetBIOSName, Goto, Closed
  <2>3. HasAskedNetBIOS'
    BY <1>1, <2>2 DEF HasAskedNetBIOS, TypeOK
  <2>4. CASE NetBIOSName(t, q)
    <3>1. NetBIOSExplained(t, Name("NetBIOS", q.about), asked)
      BY <2>4, NetBIOSNameExplained
    <3> QED  BY <1>2, <2>2, <2>3, <2>4, <3>1 DEF NetBIOSName
  <2>5. CASE ~NetBIOSName(t, q)
    <3>1. \/ hostname' = hostname
          \/ hostname' = [hostname EXCEPT ![t] = Name("mDNS", q.about)]
      BY <2>1, <2>5 DEF MdnsNothing, MdnsName, MdnsUndecodable, NetBIOSNothing
    <3> QED  BY <1>2, <1>3, <2>2, <2>3, <3>1
  <2> QED  BY <2>4, <2>5
<1>8. CASE UNCHANGED vars
  BY <1>1, <1>8 DEF vars, NetBIOSInv, NetBIOSExplained, RequestsTrue, HasAskedNetBIOS
<1> QED  BY <1>5, <1>6, <1>7, <1>8 DEF Next, AllReturned

(* Nothing in a NetBIOS reply is compared with the host, and yet only a call that
   got the port of another one is given that one's name. *)
THEOREM OnlyPortSharersNames == Spec => []WrongNetBIOSNameExplained
<1>1. Init => NetBIOSInv
  BY TypeInit DEF Init, NetBIOSInv, RequestsTrue, HasAskedNetBIOS,
                  NetBIOSExplained, NoName
<1>2. NetBIOSInv => WrongNetBIOSNameExplained
  BY DEF NetBIOSInv, NetBIOSExplained, WrongNetBIOSNameExplained, SamePort
<1> QED  BY <1>1, <1>2, NetBIOSStep, PTL DEF Spec
=============================================================================
