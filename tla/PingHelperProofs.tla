-------------------------- MODULE PingHelperProofs --------------------------
(***************************************************************************)
(* The continuation of a ping and the verdict on its host, for any number  *)
(* of echo replies, of children in ip2mac and of messages on their routing *)
(* sockets.                                                                *)
(***************************************************************************)
EXTENDS PingHelper, TLAPS

-----------------------------------------------------------------------------
(* The continuation *)

PingTypeOK ==
    /\ resolver \in {"running", "failed", "done"}
    /\ mainQueue \in {"none", "queued", "done"}
    /\ socket \in {"none", "open", "closed"}
    /\ sender \in {"none", "send", "arm", "schedule", "done"}
    /\ timer \in {"none", "armed", "cancelled"}
    /\ reader \in {"idle", "complete", "stop"}
    /\ timeout \in {"none", "waiting", "completing", "stopping", "done"}
    /\ resumed \in Nat

(* The blocks run one after another: what has not begun has left no trace. *)
InOrder ==
    /\ mainQueue # "none" => resolver = "done"
    /\ sender # "none" <=> mainQueue = "done"
    /\ socket # "none" => mainQueue = "done"
    /\ reader # "idle" => socket # "none"
    /\ timeout # "none" => sender = "done"
    /\ sender \in {"none", "send", "arm"} => timer = "none"

(* Who may still resume the continuation: the resolver and createSocket stand for
   both of those that come after them. *)
ReaderMay  == reader = "complete" \/ (reader = "idle" /\ socket = "open")
TimeoutMay == sender \in {"send", "arm", "schedule"} \/ timeout \in {"waiting", "completing"}
AtMostTwo ==
    /\ resolver = "running" \/ mainQueue = "queued" => resumed = 0
    /\ resumed <= 2
    /\ ReaderMay \/ TimeoutMay => resumed <= 1
    /\ ReaderMay /\ TimeoutMay => resumed = 0

(* A timeout that is cancelled in time never runs; one that has run to its end
   has closed the socket. *)
Cancelled ==
    /\ timer = "cancelled" => /\ timeout \notin {"completing", "stopping"}
                              /\ reader # "idle" \/ socket = "closed"
    /\ timeout = "done" /\ timer # "cancelled" => socket # "open"

(* As long as nothing has gone wrong, who has resumed it was the only one. *)
NoHazard ==
    hazard = {} =>
        /\ mainQueue = "done" => socket # "none"
        /\ reader # "idle" => timer = "cancelled"
        /\ resumed > 0 =>
             /\ resumed = 1
             /\ \/ resolver = "failed"
                \/ timer = "cancelled" /\ reader # "complete"
                \/ /\ timeout \in {"stopping", "done"} /\ timer # "cancelled"
                   /\ reader = "idle"

PingInv == PingTypeOK /\ InOrder /\ AtMostTwo /\ Cancelled /\ NoHazard

LEMMA PingInit == Init => PingInv
  BY DEF Init, PingInv, PingTypeOK, InOrder, ReaderMay, TimeoutMay, AtMostTwo,
         Cancelled, NoHazard

LEMMA PingNext ==
    ASSUME PingInv, [ResolverStep \/ MainStep \/ SenderStep \/ TimeoutStep \/ Reply]_vars
    PROVE  PingInv'
<1> USE DEF PingInv, PingTypeOK, InOrder, ReaderMay, TimeoutMay, AtMostTwo,
            Cancelled, NoHazard, answer
<1>1. CASE ResolveFails
  BY <1>1 DEF ResolveFails, Complete
<1>2. CASE Resolve
  BY <1>2 DEF Resolve
<1>3. CASE CreateSocket
  BY <1>3 DEF CreateSocket
<1>4. CASE CreateSocketFails
  <2>1. "no socket" \in hazard'
    BY <1>4 DEF CreateSocketFails
  <2>2. hazard' # {}
    BY <2>1
  <2>3. /\ mainQueue = "queued" /\ mainQueue' = "done" /\ sender' = "send"
        /\ resumed' = resumed + 1
        /\ UNCHANGED <<resolver, socket, timer, reader, timeout>>
    BY <1>4 DEF CreateSocketFails, Complete
  <2> QED  BY <2>2, <2>3
<1>5. CASE ReadReply
  BY <1>5 DEF ReadReply, CancelTimeout
<1>6. CASE ReaderCompletes
  BY <1>6 DEF ReaderCompletes, Complete
<1>7. CASE ReaderStops
  BY <1>7 DEF ReaderStops
<1>8. CASE Send
  BY <1>8 DEF Send
<1>9. CASE Arm
  BY <1>9 DEF Arm
<1>10. CASE Schedule
  BY <1>10 DEF Schedule, Scheduled
<1>11. CASE TimeoutStarts
  BY <1>11 DEF TimeoutStarts
<1>12. CASE TimeoutCompletes
  BY <1>12 DEF TimeoutCompletes, Complete
<1>13. CASE TimeoutStops
  BY <1>13 DEF TimeoutStops
<1>14. CASE Reply
  BY <1>14 DEF Reply
<1>15. CASE UNCHANGED vars
  BY <1>15 DEF vars
<1> QED
  BY <1>1, <1>2, <1>3, <1>4, <1>5, <1>6, <1>7, <1>8, <1>9, <1>10, <1>11,
     <1>12, <1>13, <1>14, <1>15
  DEF ResolverStep, MainStep, SenderStep, TimeoutStep

-----------------------------------------------------------------------------
(* The routing sockets *)

Messages == {MacFinder!Message(o) : o \in MacFinder!Octets}

(* ip2mac looks where the kernel puts the octets: its copies of the structures
   are as long as the kernel's. *)
LEMMA ShownIsSent ==
    ASSUME NEW o \in MacFinder!Octets
    PROVE  MacFinder!Message(o) \in Messages /\ MacFinder!Shown(MacFinder!Message(o)) = o
<1>1. MacFinder!MacIndex = 92 + 16 + 8
  BY DEF MacFinder!MacIndex, MacFinder!RtMsghdr, MacFinder!RtMetrics, MacFinder!SockaddrInarp
<1> QED  BY <1>1 DEF Messages, MacFinder!Message, MacFinder!Shown


Answered(c) ==
    /\ lookup[c] = "read" /\ c \notin misled =>
         sockets[c] # <<>> /\ MacFinder!Shown(Head(sockets[c])) = own[c]
    /\ lookup[c] = "done" /\ c \notin misled =>
         (found[c] <=> own[c] = MacFinder!Mac)

FinderTypeOK ==
    /\ lookup \in [Children -> {"pinging", "write", "read", "done"}]
    /\ sockets \in [Children -> Seq(Messages)]
    /\ arp \in [Children -> MacFinder!Octets]
    /\ own \in [Children -> MacFinder!Octets]
    /\ found \in [Children -> BOOLEAN]

FinderInv == FinderTypeOK /\ \A c \in Children : Answered(c)

LEMMA FinderInit == MacFinder!Init => FinderInv
  BY DEF MacFinder!Init, FinderInv, FinderTypeOK, Answered, MacFinder!Octets, MacFinder!Zeros

(* A message behind others does not change what is read first. *)
LEMMA AppendedLast ==
    ASSUME NEW S, NEW s \in Seq(S), NEW m \in S
    PROVE  /\ Append(s, m) \in Seq(S) /\ Append(s, m) # <<>>
           /\ s # <<>> => Head(Append(s, m)) = Head(s)
           /\ s = <<>> => Head(Append(s, m)) = m
  OBVIOUS

LEMMA BroadcastKeeps ==
    ASSUME FinderInv, NEW m \in Messages, MacFinder!Broadcast(m)
    PROVE  /\ sockets' \in [Children -> Seq(Messages)]
           /\ \A c \in Children :
                /\ sockets[c] # <<>> => /\ sockets'[c] # <<>>
                                        /\ Head(sockets'[c]) = Head(sockets[c])
                /\ sockets[c] = <<>> /\ c \in MacFinder!Open =>
                     sockets'[c] # <<>> /\ Head(sockets'[c]) = m
<1>1. sockets \in [Children -> Seq(Messages)]
  BY DEF FinderInv, FinderTypeOK
<1>2. sockets' \in [Children -> Seq(Messages)]
  BY <1>1, AppendedLast DEF MacFinder!Broadcast
<1>3. ASSUME NEW c \in Children
      PROVE  /\ sockets[c] # <<>> => /\ sockets'[c] # <<>>
                                     /\ Head(sockets'[c]) = Head(sockets[c])
             /\ sockets[c] = <<>> /\ c \in MacFinder!Open =>
                  sockets'[c] # <<>> /\ Head(sockets'[c]) = m
  <2>1. sockets'[c] = IF c \in MacFinder!Open THEN Append(sockets[c], m) ELSE sockets[c]
    BY DEF MacFinder!Broadcast
  <2>2. sockets[c] \in Seq(Messages)
    BY <1>1
  <2> QED  BY <2>1, <2>2, AppendedLast
<1> QED  BY <1>2, <1>3

LEMMA FinderNext ==
    ASSUME FinderInv, [MacFinder!Next]_mvars
    PROVE  FinderInv'
<1> USE DEF FinderInv, FinderTypeOK, Answered, MacFinder!Goto
<1>1. ASSUME NEW c \in Children, MacFinder!Socket(c) \/ MacFinder!SocketFails(c)
      PROVE  FinderInv'
  <2>1. FinderTypeOK'
    BY <1>1 DEF MacFinder!Socket, MacFinder!SocketFails
  <2>2. ASSUME NEW d \in Children PROVE Answered(d)'
    <3>1. CASE d = c
      BY <1>1, <3>1 DEF MacFinder!Socket, MacFinder!SocketFails
    <3>2. CASE d # c
      <4>1. lookup'[d] = lookup[d] /\ (d \in misled => d \in misled')
        BY <1>1, <3>2 DEF MacFinder!Socket, MacFinder!SocketFails
      <4>2. UNCHANGED <<sockets, own, found>>
        BY <1>1 DEF MacFinder!Socket, MacFinder!SocketFails
      <4> QED  BY <4>1, <4>2
    <3> QED  BY <3>1, <3>2
  <2> QED  BY <2>1, <2>2
<1>2. ASSUME NEW c \in Children, MacFinder!Write(c)
      PROVE  FinderInv'
  <2>1. arp[c] \in MacFinder!Octets /\ c \in MacFinder!Open
    BY <1>2 DEF MacFinder!Write, MacFinder!Open
  <2> DEFINE m == MacFinder!Message(arp[c])
  <2>2. MacFinder!Broadcast(m)
    BY <1>2 DEF MacFinder!Write
  <2>3. m \in Messages /\ MacFinder!Shown(m) = arp[c]
    BY <2>1, ShownIsSent
  <2> HIDE DEF m
  <2>4. FinderTypeOK'
    BY <1>2, <2>1, <2>2, <2>3, BroadcastKeeps DEF MacFinder!Write
  <2>5. \A d \in Children : Answered(d)'
    BY <1>2, <2>1, <2>2, <2>3, BroadcastKeeps DEF MacFinder!Write
  <2> QED  BY <2>4, <2>5
<1>3. ASSUME NEW c \in Children, MacFinder!WriteFails(c)
      PROVE  FinderInv'
  BY <1>3 DEF MacFinder!WriteFails
<1>4. ASSUME NEW c \in Children, MacFinder!ReadAnswer(c)
      PROVE  FinderInv'
  <2>1. MacFinder!Shown(Head(sockets[c])) \in MacFinder!Octets
    <3>1. Head(sockets[c]) \in Messages
      BY <1>4 DEF MacFinder!ReadAnswer
    <3> QED  BY <3>1, ShownIsSent DEF Messages
  <2>2. FinderTypeOK'
    BY <1>4 DEF MacFinder!ReadAnswer
  <2>3. ASSUME NEW d \in Children PROVE Answered(d)'
    <3>1. CASE d = c
      <4>1. lookup'[c] = "done" /\ found'[c] = (MacFinder!Shown(Head(sockets[c])) \notin MacFinder!NoAddress)
        BY <1>4 DEF MacFinder!ReadAnswer
      <4>2. MacFinder!Shown(Head(sockets[c])) \notin MacFinder!NoAddress
               <=> MacFinder!Shown(Head(sockets[c])) = MacFinder!Mac
        BY <2>1 DEF MacFinder!NoAddress, MacFinder!Octets, MacFinder!Mac,
           MacFinder!Zeros, MacFinder!NoLan
      <4>3. UNCHANGED <<own, misled>>
        BY <1>4 DEF MacFinder!ReadAnswer
      <4>4. lookup[c] = "read"
        BY <1>4 DEF MacFinder!ReadAnswer
      <4> QED  BY <3>1, <4>1, <4>2, <4>3, <4>4
    <3>2. CASE d # c
      BY <1>4, <3>2 DEF MacFinder!ReadAnswer
    <3> QED  BY <3>1, <3>2
  <2> QED  BY <2>2, <2>3
<1>5. ASSUME NEW c \in Children, MacFinder!ArpChanges(c)
      PROVE  FinderInv'
  BY <1>5 DEF MacFinder!ArpChanges
<1>6. CASE MacFinder!News
  BY <1>6, ShownIsSent, BroadcastKeeps DEF MacFinder!News
<1>7. CASE UNCHANGED mvars
  BY <1>7 DEF mvars
<1> QED
  BY <1>1, <1>2, <1>3, <1>4, <1>5, <1>6, <1>7 DEF MacFinder!Next, MacFinder!LookupStep

-----------------------------------------------------------------------------
(* A step of the ping or of the environment is a step of each of the two. *)
LEMMA Steps ==
    ASSUME [PNext]_<<vars, mvars>>
    PROVE  /\ [ResolverStep \/ MainStep \/ SenderStep \/ TimeoutStep \/ Reply]_vars
           /\ [MacFinder!Next]_mvars
  BY MeAssumption DEF PNext, PingStep, MyLookup, Environment, PTerminating, MacFinder!Next

LEMMA Inductive == PSpec => [](PingInv /\ FinderInv)
<1>1. PInit => PingInv /\ FinderInv
  BY PingInit, FinderInit DEF PInit
<1>2. PingInv /\ FinderInv /\ [PNext]_<<vars, mvars>> => (PingInv /\ FinderInv)'
  BY Steps, PingNext, FinderNext
<1> QED  BY <1>1, <1>2, PTL DEF PSpec

(* The continuation is resumed at most twice, and a second time only if no socket
   could be made, or the reply came before the timeout was armed or while it ran:
   for any number of replies. *)
THEOREM SecondResumes == PSpec => []SecondResumeExplained
<1>1. PingInv => SecondResumeExplained
  BY DEF PingInv, PingTypeOK, AtMostTwo, NoHazard, SecondResumeExplained
<1> QED  BY <1>1, Inductive, PTL

(* A host is reported by PingHelper.start exactly if it has answered or the
   kernel knew its link-layer address when it was asked, unless the child was
   misled on its routing socket: for any children, replies and messages. *)
THEOREM VerdictIsRight == PSpec => []VerdictExplained
<1>1. FinderInv => VerdictExplained
  BY MeAssumption DEF FinderInv, FinderTypeOK, Answered, VerdictExplained,
     MacFinder!WrongMacExplained, Returned, Present
<1> QED  BY <1>1, Inductive, PTL
=============================================================================
