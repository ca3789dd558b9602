---------------------------- MODULE IosScanProofs ----------------------------
(***************************************************************************)
(* Theorems about IosScan, for every number of listens, hosts and children. *)
(***************************************************************************)
EXTENDS IosScan, SequenceTheorems, TLAPS

(* A call that needs a session or a scanner has one, and a child that pings has
   an index of the subnet. *)
CallHasSession ==
    /\ op \in {"relisten", "restop", "reclear", "listen", "assign"} => session \in Sessions
    /\ op \in {"restop", "reclear", "stop", "clear"} => scanner \in Sessions
PingInRange ==
    \A s \in Sessions : \A w \in Workers :
        wpc[s][w] \in {"ping", "resolve"} => windex[s][w] \in HostIndex
TypeInv == TypeOK /\ CallHasSession /\ PingInRange

LEMMA TypeInit == Init => TypeInv
<1> SUFFICES ASSUME Init PROVE TypeInv
  OBVIOUS
<1> USE IosAssumption
<1>1. /\ wpc \in [Sessions -> [Workers -> WPcs]]
      /\ windex \in [Sessions -> [Workers -> Nat]]
      /\ PingInRange
  BY DEF Init, PingInRange, Workers, WPcs
<1>2. /\ posted \in [Sessions -> Seq(Events)]
      /\ probed \in [Sessions -> SUBSET HostIndex]
      /\ answered \in [Sessions -> SUBSET HostIndex]
      /\ phase \in [Sessions -> Phases]
  BY DEF Init, Phases
<1>3. /\ taskRef \in [Sessions -> BOOLEAN]
      /\ cancelled \in [Sessions -> BOOLEAN]
      /\ outran \in [Sessions -> BOOLEAN]
  BY Zenon DEF Init
<1>4. /\ session \in 0..MaxSessions /\ scanner \in 0..MaxSessions
  BY DEF Init, NoScan
<1>5. /\ listening \in BOOLEAN /\ undefined \in BOOLEAN /\ op \in Ops
      /\ CallHasSession
  BY DEF Init, Ops, CallHasSession
<1> QED  BY <1>1, <1>2, <1>3, <1>4, <1>5 DEF TypeInv, TypeOK

LEMMA PostTyped ==
    ASSUME posted \in [Sessions -> Seq(Events)],
           NEW s \in Sessions, NEW e \in Events, Post(s, e)
    PROVE  /\ posted' \in [Sessions -> Seq(Events)]
           /\ \A t \in Sessions : t # s => posted'[t] = posted[t]
           /\ posted'[s] = Append(posted[s], e)
  BY DEF Post

LEMMA TypeStep == TypeInv /\ [Next]_vars => TypeInv'
<1> SUFFICES ASSUME TypeInv, [Next]_vars PROVE TypeInv'
  OBVIOUS
<1> USE IosAssumption DEF TypeInv, handlerVars, childVars
<1>t. TypeOK /\ CallHasSession /\ PingInRange /\ undefined' \in BOOLEAN
  BY DEF TypeOK, Next, SecondResume, Terminating, vars
<1>e. BodyNull \in Events /\ StopNull \in Events /\ HostIndex \subseteq Events
  BY DEF Events
<1>1. CASE Listen
  BY <1>t, <1>1 DEF TypeOK, Listen, CallHasSession, PingInRange, Sessions, Ops
<1>2. CASE Cancel
  BY <1>t, <1>2 DEF TypeOK, Cancel, CallHasSession, PingInRange, Ops
<1>3. CASE OnCancel
  <2>1. scanner # NoScan => scanner \in Sessions
    BY <1>t DEF TypeOK, NoScan, Sessions
  <2>2. /\ op' \in {"restop", "listen", "stop", "idle"}
        /\ op' \in {"restop", "listen"} => op = "relisten"
        /\ op' \in {"restop", "stop"} => scanner # NoScan
        /\ UNCHANGED <<session, listening, scanner, taskRef, cancelled, phase,
                       wpc, windex, probed, answered, posted, outran>>
    BY <1>3 DEF OnCancel
  <2> QED
    BY <1>t, <2>1, <2>2 DEF TypeOK, CallHasSession, PingInRange, Ops
<1>4. CASE StopCancel
  <2>1. scanner \in Sessions
    BY <1>t, <1>4 DEF CallHasSession, StopCancel
  <2>2. cancelled' \in [Sessions -> BOOLEAN]
    BY <1>t, <1>4, <2>1, Zenon DEF TypeOK, StopCancel
  <2> QED
    BY <1>t, <1>4, <2>1, <2>2 DEF TypeOK, StopCancel, CallHasSession, PingInRange, Ops
<1>5. CASE StopClear
  <2>1. scanner \in Sessions
    BY <1>t, <1>5 DEF CallHasSession, StopClear
  <2>2. posted' \in [Sessions -> Seq(Events)] /\ taskRef' \in [Sessions -> BOOLEAN]
    BY <1>t, <1>e, <1>5, <2>1, PostTyped DEF TypeOK, StopClear
  <2> QED
    BY <1>t, <1>5, <2>1, <2>2 DEF TypeOK, StopClear, CallHasSession, PingInRange, Ops
<1>6. CASE OnListenWifi
  BY <1>t, <1>6 DEF TypeOK, OnListenWifi, CallHasSession, PingInRange, Ops, Phases,
     WPcs, Sessions
<1>7. CASE Assign
  BY <1>t, <1>7 DEF TypeOK, Assign, CallHasSession, PingInRange, Ops
<1>8. CASE OnListenNoWifi
  <2>1. posted' \in [Sessions -> Seq(Events)]
    BY <1>t, <1>e, <1>8, PostTyped DEF TypeOK, OnListenNoWifi, CallHasSession
  <2> QED
    BY <1>t, <1>8, <2>1 DEF TypeOK, OnListenNoWifi, CallHasSession, PingInRange, Ops,
       Phases
<1>9. ASSUME NEW s \in Sessions, NEW w \in Workers, CheckCancelled(s, w)
      PROVE  TypeInv'
  BY <1>t, <1>9 DEF TypeOK, CheckCancelled, KeepsPinging, CallHasSession, PingInRange,
     WPcs, HostIndex
<1>10. ASSUME NEW s \in Sessions, NEW w \in Workers, PingFails(s, w)
       PROVE  TypeInv'
  <2>1. windex[s][w] \in HostIndex /\ windex[s][w] + ScanThreads \in Nat
    BY <1>t, <1>10 DEF TypeOK, PingFails, PingInRange, HostIndex
  <2>2. /\ windex' \in [Sessions -> [Workers -> Nat]]
        /\ probed' \in [Sessions -> SUBSET HostIndex]
        /\ wpc' \in [Sessions -> [Workers -> WPcs]]
    BY <1>t, <1>10, <2>1 DEF TypeOK, PingFails, Advance, StepBy, WPcs
  <2> QED
    BY <1>t, <1>10, <2>1, <2>2 DEF TypeOK, PingFails, Advance, CallHasSession, PingInRange
<1>11. ASSUME NEW s \in Sessions, NEW w \in Workers, PingAnswers(s, w)
       PROVE  TypeInv'
  <2>1. windex[s][w] \in HostIndex
    BY <1>t, <1>11 DEF PingAnswers, PingInRange
  <2>2. answered' \in [Sessions -> SUBSET HostIndex]
    <3>1. CASE UNCHANGED answered
      BY <1>t, <3>1 DEF TypeOK
    <3>2. CASE answered' = [answered EXCEPT ![s] = @ \cup {windex[s][w]}]
      BY <1>t, <2>1, <3>2 DEF TypeOK
    <3> QED  BY <1>11, <3>1, <3>2 DEF PingAnswers
  <2>3. \E pc \in {"done", "resolve"} : wpc' = [wpc EXCEPT ![s][w] = pc]
    BY <1>11 DEF PingAnswers
  <2>4. /\ wpc[s][w] = "ping"
        /\ UNCHANGED <<handlerVars, taskRef, cancelled, phase, windex, posted, outran>>
    BY <1>11 DEF PingAnswers
  <2>5. probed' \in [Sessions -> SUBSET HostIndex]
    BY <1>t, <1>11, <2>1 DEF TypeOK, PingAnswers
  <2>6. wpc' \in [Sessions -> [Workers -> WPcs]] /\ PingInRange'
    BY <1>t, <2>1, <2>3, <2>4 DEF TypeOK, PingInRange, WPcs
  <2> QED
    BY <1>t, <2>2, <2>4, <2>5, <2>6 DEF TypeOK, CallHasSession
<1>12. ASSUME NEW s \in Sessions, NEW w \in Workers, PostHost(s, w)
       PROVE  TypeInv'
  <2>1. windex[s][w] \in HostIndex /\ windex[s][w] + ScanThreads \in Nat
    BY <1>t, <1>12 DEF TypeOK, PostHost, PingInRange, HostIndex
  <2>2. posted' \in [Sessions -> Seq(Events)]
    BY <1>t, <1>e, <1>12, <2>1, PostTyped DEF TypeOK, PostHost
  <2> QED
    BY <1>t, <1>12, <2>1, <2>2 DEF TypeOK, PostHost, Advance, StepBy, CallHasSession,
       PingInRange, WPcs
<1>13. ASSUME NEW s \in Sessions, JoinGroup(s) PROVE TypeInv'
  BY <1>t, <1>13 DEF TypeOK, JoinGroup, CallHasSession, PingInRange, Phases
<1>14. ASSUME NEW s \in Sessions, TestRef(s) PROVE TypeInv'
  <2>1. (op = "assign" /\ session = s) \in BOOLEAN
    OBVIOUS
  <2>2. outran' \in [Sessions -> BOOLEAN]
    BY <1>t, <1>14, <2>1, Zenon DEF TypeOK, TestRef
  <2> QED
    BY <1>t, <1>14, <2>2 DEF TypeOK, TestRef, CallHasSession, PingInRange, Phases
<1>15. ASSUME NEW s \in Sessions, PostNull(s) PROVE TypeInv'
  <2>1. posted' \in [Sessions -> Seq(Events)]
    BY <1>t, <1>e, <1>15, PostTyped DEF TypeOK, PostNull
  <2> QED
    BY <1>t, <1>15, <2>1 DEF TypeOK, PostNull, CallHasSession, PingInRange, Phases
<1>16. CASE UNCHANGED scanVars
  BY <1>t, <1>16 DEF TypeOK, CallHasSession, PingInRange, scanVars
<1>17. ASSUME NEW s \in Sessions, NEW w \in Workers, PingBlocks(s, w)
       PROVE  TypeInv'
  BY <1>t, <1>17 DEF TypeOK, PingBlocks, CallHasSession, PingInRange, WPcs
<1> QED
  BY <1>1, <1>2, <1>3, <1>4, <1>5, <1>6, <1>7, <1>8, <1>9, <1>10, <1>11, <1>12,
     <1>13, <1>14, <1>15, <1>16, <1>17
  DEF Next, HandlerStep, BodyStep, ChildStep, SecondResume, Terminating, vars

(* Every variable of the iOS scan keeps its type in every execution: no child
   pings, and no scan posts, an index outside the subnet. *)
THEOREM TypeCorrect == Spec => []TypeOK
<1>1. TypeInv => TypeOK
  BY DEF TypeInv
<1> QED  BY <1>1, TypeInit, TypeStep, PTL DEF Spec

-----------------------------------------------------------------------------
(* OneLiveScan: a live scan is the one that the handler's field names, and it
   holds its task or is about to; so a call that stops finds it, and there is
   none when onListen makes the next. *)
LiveInv ==
    /\ \A s \in Sessions : Live(s) =>
          s = scanner /\ (taskRef[s] \/ op = "assign")
    /\ op = "assign" => scanner = session
    /\ op \in {"reclear", "clear", "listen"} => \A s \in Sessions : ~Live(s)
    /\ op = "idle" /\ ~listening => \A s \in Sessions : ~Live(s)
    /\ op \in {"relisten", "restop", "reclear", "listen", "assign"} => listening

LEMMA LiveInit == Init => LiveInv
  BY DEF Init, LiveInv, Live

(* The Task and its children make no scan live, and leave a live one its field. *)
LEMMA TaskStepLive ==
    ASSUME TypeInv, NEW s \in Sessions,
           BodyStep(s) \/ \E w \in Workers : ChildStep(s, w)
    PROVE  /\ UNCHANGED <<handlerVars, cancelled>>
           /\ \A t \in Sessions : Live(t)' => Live(t) /\ taskRef'[t] = taskRef[t]
<1>t. phase \in [Sessions -> Phases] /\ taskRef \in [Sessions -> BOOLEAN]
  BY DEF TypeInv, TypeOK
<1>1. ASSUME NEW w \in Workers, ChildStep(s, w)
      PROVE  UNCHANGED <<handlerVars, cancelled, phase, taskRef>>
  BY <1>1 DEF ChildStep, CheckCancelled, PingBlocks, PingFails, PingAnswers, PostHost
<1>2. CASE JoinGroup(s) \/ TestRef(s)
  BY <1>t, <1>2 DEF JoinGroup, TestRef, Live
<1>3. CASE PostNull(s)
  BY <1>t, <1>3 DEF PostNull, Live
<1> QED  BY <1>1, <1>2, <1>3 DEF BodyStep, Live

LEMMA LiveStep == TypeInv /\ LiveInv /\ [Next]_vars => LiveInv'
<1> SUFFICES ASSUME TypeInv, LiveInv, [Next]_vars PROVE LiveInv'
  OBVIOUS
<1> USE DEF handlerVars, childVars
<1>t. /\ phase \in [Sessions -> Phases]
      /\ cancelled \in [Sessions -> BOOLEAN]
      /\ taskRef \in [Sessions -> BOOLEAN]
      /\ scanner \in 0..MaxSessions
      /\ CallHasSession
  BY DEF TypeInv, TypeOK
<1>1. CASE Listen \/ Cancel \/ UNCHANGED scanVars
  <2>1. UNCHANGED <<scanner, taskRef, cancelled, phase>>
    BY <1>1 DEF Listen, Cancel, scanVars
  <2>2. \A s \in Sessions : Live(s)' <=> Live(s)
    BY <2>1 DEF Live
  <2> QED  BY <1>1, <2>1, <2>2 DEF Listen, Cancel, scanVars, LiveInv
<1>2. CASE OnCancel
  <2>1. UNCHANGED <<session, listening, scanner, taskRef, cancelled, phase>>
    BY <1>2 DEF OnCancel
  <2>2. /\ op # "assign" /\ op' \in {"restop", "listen", "stop", "idle"}
        /\ op' \in {"restop", "listen"} => op = "relisten"
        /\ op' \in {"listen", "idle"} => scanner = NoScan \/ ~taskRef[scanner]
    BY <1>2 DEF OnCancel
  <2>3. op' \in {"listen", "idle"} => \A s \in Sessions : ~Live(s)
    BY <2>2 DEF LiveInv, NoScan, Sessions
  <2> QED  BY <2>1, <2>2, <2>3 DEF LiveInv, Live
<1>3. CASE StopCancel
  <2>1. UNCHANGED <<session, listening, scanner, taskRef, phase>> /\ scanner \in Sessions
    BY <1>t, <1>3 DEF StopCancel, CallHasSession
  <2>2. /\ op # "assign" /\ op' \in {"reclear", "clear"}
        /\ op' = "reclear" => op = "restop"
        /\ cancelled' = [cancelled EXCEPT ![scanner] = @ \/ taskRef[scanner]]
    BY <1>3 DEF StopCancel
  <2>3. /\ \A s \in Sessions : cancelled[s] => cancelled'[s]
        /\ taskRef[scanner] => cancelled'[scanner]
    BY <1>t, <2>1, <2>2, Zenon
  <2>4. \A s \in Sessions : ~Live(s)'
    BY <2>1, <2>2, <2>3 DEF LiveInv, Live
  <2> QED  BY <2>1, <2>2, <2>4 DEF LiveInv
<1>4. CASE StopClear
  <2>1. /\ \A s \in Sessions : ~Live(s)
        /\ UNCHANGED <<listening, scanner, cancelled, phase>>
        /\ op' \in {"listen", "idle"} /\ (op' = "listen" => op = "reclear")
    BY <1>4 DEF StopClear, LiveInv
  <2> QED  BY <2>1 DEF LiveInv, Live
<1>5. CASE OnListenWifi
  <2>1. \A s \in Sessions : Live(s)' => s = session
    BY <1>t, <1>5 DEF OnListenWifi, LiveInv, Live
  <2>2. /\ op = "listen" /\ op' = "assign" /\ scanner' = session
        /\ UNCHANGED <<session, listening>>
    BY <1>5 DEF OnListenWifi
  <2> QED  BY <2>1, <2>2 DEF LiveInv
<1>6. CASE Assign
  <2>1. /\ op = "assign" /\ op' = "idle" /\ session \in Sessions
        /\ taskRef' = [taskRef EXCEPT ![session] = TRUE]
        /\ UNCHANGED <<session, listening, scanner, cancelled, phase>>
    BY <1>t, <1>6 DEF Assign, CallHasSession
  <2> QED  BY <1>t, <2>1 DEF LiveInv, Live
<1>7. CASE OnListenNoWifi
  <2>1. \A s \in Sessions : ~Live(s)'
    BY <1>t, <1>7 DEF OnListenNoWifi, LiveInv, Live
  <2> QED  BY <1>7, <2>1 DEF OnListenNoWifi, LiveInv
<1>8. ASSUME NEW s \in Sessions, BodyStep(s) \/ \E w \in Workers : ChildStep(s, w)
      PROVE  LiveInv'
  <2>1. /\ UNCHANGED <<session, listening, op, scanner, cancelled>>
        /\ \A t \in Sessions : Live(t)' => Live(t) /\ taskRef'[t] = taskRef[t]
    BY <1>8, TaskStepLive
  <2> QED  BY <2>1 DEF LiveInv
<1> QED
  BY <1>1, <1>2, <1>3, <1>4, <1>5, <1>6, <1>7, <1>8
  DEF Next, HandlerStep, SecondResume, Terminating, vars

(* At most one scan is probing and not cancelled, although the handler's queue
   and the Task write scanningTask without a lock. *)
THEOREM AtMostOneLiveScan == Spec => []OneLiveScan
<1>1. Init => TypeInv /\ LiveInv
  BY TypeInit, LiveInit
<1>2. TypeInv /\ LiveInv /\ [Next]_vars => (TypeInv /\ LiveInv)'
  BY TypeStep, LiveStep
<1>3. LiveInv => OneLiveScan
  BY DEF LiveInv, OneLiveScan
<1> QED  BY <1>1, <1>2, <1>3, PTL DEF Spec

-----------------------------------------------------------------------------
(* No new work after a stop. *)
LEMMA BusyStep ==
    ASSUME TypeInv, [Next]_vars, NEW s \in Sessions, cancelled[s]
    PROVE  Busy(s)' \subseteq Busy(s)
<1>t. wpc \in [Sessions -> [Workers -> WPcs]]
  BY DEF TypeInv, TypeOK
<1> USE DEF handlerVars, childVars
<1>1. CASE UNCHANGED wpc
  BY <1>1 DEF Busy
<1>2. CASE OnListenWifi
  BY <1>t, <1>2 DEF OnListenWifi, Busy
<1>3. ASSUME NEW r \in Sessions, NEW w \in Workers, ChildStep(r, w)
      PROVE  Busy(s)' \subseteq Busy(s)
  <2>1. \E pc \in WPcs :
           /\ wpc' = [wpc EXCEPT ![r][w] = pc]
           /\ r = s /\ pc \in {"ping", "resolve"} => wpc[r][w] \in {"ping", "resolve"}
    BY <1>3 DEF ChildStep, CheckCancelled, KeepsPinging, PingBlocks, PingFails,
       PingAnswers, PostHost, WPcs
  <2> QED  BY <1>t, <2>1 DEF Busy
<1> QED
  BY <1>1, <1>2, <1>3
  DEF Next, HandlerStep, BodyStep, SecondResume, Terminating, Listen, Cancel, OnCancel,
      StopCancel, StopClear, Assign, OnListenNoWifi, JoinGroup, TestRef, PostNull, vars,
      scanVars

(* A child looks at isCancelled before every ping and every resolution. *)
THEOREM StopBeginsNothing == Spec => NoNewWorkAfterStop
<1>1. TypeInv /\ [Next]_vars =>
        [\A s \in Sessions : cancelled[s] => Busy(s)' \subseteq Busy(s)]_vars
  BY BusyStep
<1> QED
  BY <1>1, TypeInit, TypeStep, PTL DEF Spec, NoNewWorkAfterStop

-----------------------------------------------------------------------------
(* The stride of the children (stride(from: i, to: numberOfHosts, by:
   concurrentThreads)): an index steps by how many they are, so that together they
   meet every host and no two the same one. *)

LEMMA Division ==
    ASSUME NEW T \in Nat, T > 0, NEW i \in Nat
    PROVE  /\ i % T \in 0..(T - 1) /\ i % T <= i
           /\ i \div T \in Int /\ i = (i % T) + T * (i \div T)
<1>1. i % T \in 0..(T - 1) /\ i \div T \in Int
  OBVIOUS
<1>2. i % T <= i
  OBVIOUS
<1>3. i = (i % T) + T * (i \div T)
  OBVIOUS
<1> QED  BY <1>1, <1>2, <1>3

LEMMA RemainderIs ==
    ASSUME NEW T \in Nat, T > 0, NEW i \in Nat, NEW q \in Int,
           NEW r \in 0..(T - 1), i = T * q + r
    PROVE  i % T = r
  OBVIOUS

LEMMA SmallMultiple ==
    ASSUME NEW T \in Nat, NEW d \in Int, -T < T * d, T * d < T
    PROVE  d = 0
<1>1. CASE d >= 1
  <2>1. T * d >= T
    BY <1>1
  <2> QED  BY <2>1
<1>2. CASE d <= -1
  <2>1. T * d <= -T
    BY <1>2
  <2> QED  BY <2>1
<1> QED  BY <1>1, <1>2

LEMMA SmallRemainder ==
    ASSUME NEW T \in Nat, T > 0, NEW i \in 0..(T - 1)
    PROVE  i % T = i
  OBVIOUS

LEMMA OneMore ==
    ASSUME NEW T \in Nat, NEW q \in Int, NEW r \in Int, NEW i \in Nat, i = r + T * q
    PROVE  i + T = T * (q + 1) + r
  OBVIOUS

LEMMA StepKeepsRemainder ==
    ASSUME NEW T \in Nat, T > 0, NEW i \in Nat
    PROVE  (i + T) % T = i % T
<1> DEFINE q == i \div T
           r == i % T
<1>1. i = r + T * q /\ q \in Int /\ r \in 0..(T - 1)
  BY Division
<1> HIDE DEF q, r
<1>2. i + T = T * (q + 1) + r
  BY <1>1, OneMore
<1>3. (i + T) % T = r
  BY <1>1, <1>2, RemainderIs
<1> QED  BY <1>3 DEF r

(* Between two indices of a loop there is none of its remainder. *)
LEMMA NoneSkipped ==
    ASSUME NEW T \in Nat, T > 0, NEW i \in Nat, NEW x \in Nat,
           i % T = x % T, x <= i, i < x + T
    PROVE  i = x
<1> DEFINE p == i \div T
           q == x \div T
<1>1. /\ i = (i % T) + T * p /\ x = (x % T) + T * q /\ p \in Int /\ q \in Int
      /\ i % T \in Nat
  BY Division
<1> HIDE DEF p, q
<1>2. T * (p - q) = T * p - T * q
  BY <1>1
<1>3. p - q \in Int /\ T * p \in Int /\ T * q \in Int /\ T * (p - q) = i - x
  BY <1>1, <1>2
<1>4. p - q = 0
  BY <1>3, SmallMultiple
<1> QED  BY <1>3, <1>4

-----------------------------------------------------------------------------
(* NullEvents, its first half: the children meet every host of the subnet.  A
   child's index keeps its remainder, and it has pinged what is below. *)
StrideInv ==
    \A s \in Sessions : \A w \in Workers : windex[s][w] % ScanThreads = w
CoverInv ==
    \A s \in Sessions : \A i \in HostIndex :
        windex[s][i % ScanThreads] > i => i \in probed[s]

(* A child that is done, of a scan that is not cancelled, is past the last host;
   the children run while the Task's body waits for them; a host that answered
   is posted or its child is about to. *)
DoneInv ==
    \A s \in Sessions : \A w \in Workers :
        wpc[s][w] = "done" /\ ~cancelled[s] => windex[s][w] >= NumHosts
StageInv ==
    \A s \in Sessions :
        /\ phase[s] # "probing" => \A w \in Workers : wpc[s][w] \in {"idle", "done"}
        /\ phase[s] \in {"closing", "posting", "ended"} =>
              \A w \in Workers : wpc[s][w] = "done"
AnsweredInv ==
    \A s \in Sessions : \A i \in answered[s] :
        \/ WasPosted(s, i)
        \/ wpc[s][i % ScanThreads] = "resolve" /\ windex[s][i % ScanThreads] = i
CoveredInv == StrideInv /\ CoverInv /\ DoneInv /\ StageInv /\ AnsweredInv

LEMMA HostHasChild ==
    ASSUME NEW i \in HostIndex
    PROVE  i \in Nat /\ ScanThreads > 0 /\ i % ScanThreads \in Workers
           /\ i % ScanThreads <= i
<1>1. i \in Nat /\ ScanThreads \in Nat /\ ScanThreads > 0
  BY IosAssumption DEF HostIndex
<1> QED  BY <1>1, Division DEF Workers

LEMMA ChildIsThread == ASSUME NEW w \in Workers PROVE ScanThreads \in Nat /\ ScanThreads > 0
  BY IosAssumption DEF Workers

LEMMA CoveredInit == Init => CoveredInv
<1> SUFFICES ASSUME Init PROVE CoveredInv
  OBVIOUS
<1>1. StrideInv
  BY ChildIsThread, SmallRemainder DEF Init, StrideInv, Workers
<1>2. CoverInv
  BY HostHasChild DEF Init, CoverInv, Workers
<1>3. DoneInv /\ StageInv /\ AnsweredInv
  BY DEF Init, DoneInv, StageInv, AnsweredInv
<1> QED  BY <1>1, <1>2, <1>3 DEF CoveredInv

LEMMA AdvanceCovers ==
    ASSUME TypeInv, StrideInv, CoverInv, NEW s \in Sessions, NEW w \in Workers,
           Advance(s, w)
    PROVE  StrideInv' /\ CoverInv'
<1>1. ScanThreads \in Nat /\ ScanThreads > 0
  BY ChildIsThread
<1>2. /\ windex \in [Sessions -> [Workers -> Nat]]
      /\ probed \in [Sessions -> SUBSET HostIndex]
  BY DEF TypeInv, TypeOK
<1>3. PICK x \in Nat : x = windex[s][w]
  BY <1>2
<1>4. /\ windex' = [windex EXCEPT ![s][w] = x + ScanThreads]
      /\ probed' = [probed EXCEPT ![s] = @ \cup {x}]
  BY <1>3 DEF Advance, StepBy
<1>5. x % ScanThreads = w /\ (x + ScanThreads) % ScanThreads = w
  BY <1>1, <1>3, StepKeepsRemainder DEF StrideInv
<1>6. StrideInv'
  BY <1>2, <1>4, <1>5 DEF StrideInv
<1>7. ASSUME NEW r \in Sessions, NEW i \in HostIndex,
             windex'[r][i % ScanThreads] > i
      PROVE  i \in probed'[r]
  <2>1. i \in Nat /\ i % ScanThreads \in Workers
    BY HostHasChild
  <2>2. CASE windex[r][i % ScanThreads] > i
    BY <1>2, <1>4, <2>2 DEF CoverInv
  <2>3. CASE ~(windex[r][i % ScanThreads] > i)
    <3>1. r = s /\ i % ScanThreads = w
      BY <1>2, <1>4, <1>7, <2>1, <2>3
    <3>2. x <= i /\ i < x + ScanThreads
      BY <1>1, <1>2, <1>3, <1>4, <1>7, <2>1, <2>3, <3>1
    <3>3. i = x
      BY <1>1, <1>5, <2>1, <3>1, <3>2, NoneSkipped
    <3> QED  BY <1>2, <1>4, <3>1, <3>3
  <2> QED  BY <2>2, <2>3
<1>8. CoverInv'
  BY <1>7 DEF CoverInv
<1> QED  BY <1>6, <1>8

LEMMA PostedStay ==
    ASSUME TypeInv, NEW s \in Sessions, NEW e \in Events, Post(s, e)
    PROVE  /\ WasPosted(s, e)'
           /\ \A r \in Sessions : \A f : WasPosted(r, f) => WasPosted(r, f)'
<1>1. /\ posted \in [Sessions -> Seq(Events)]
      /\ posted'[s] = Append(posted[s], e)
      /\ \A t \in Sessions : t # s => posted'[t] = posted[t]
  BY PostTyped DEF TypeInv, TypeOK
<1>2. /\ DOMAIN posted'[s] = DOMAIN posted[s] \cup {Len(posted[s]) + 1}
      /\ posted'[s][Len(posted[s]) + 1] = e
      /\ \A k \in DOMAIN posted[s] : posted'[s][k] = posted[s][k]
  BY <1>1
<1> QED  BY <1>1, <1>2 DEF WasPosted

(* What is not a child's step and not a new scan. *)
LEMMA OthersKeepCovered ==
    ASSUME CoveredInv, StageInv', UNCHANGED childVars,
           \A s \in Sessions : cancelled[s] => cancelled'[s],
           \A s \in Sessions : \A f : WasPosted(s, f) => WasPosted(s, f)'
    PROVE  CoveredInv'
<1> USE DEF childVars
<1>1. StrideInv' /\ CoverInv'
  BY DEF CoveredInv, StrideInv, CoverInv
<1>2. DoneInv' /\ AnsweredInv'
  BY DEF CoveredInv, DoneInv, AnsweredInv
<1> QED  BY <1>1, <1>2 DEF CoveredInv

(* What a child's step changes. *)
Probed(s, w) == [probed EXCEPT ![s] = @ \cup {windex[s][w]}]

LEMMA ChildEffect ==
    ASSUME TypeInv, NEW s \in Sessions, NEW w \in Workers, ChildStep(s, w)
    PROVE  /\ UNCHANGED <<handlerVars, taskRef, cancelled, phase, outran>>
           /\ wpc[s][w] \in {"check", "ping", "resolve"}
           /\ \E pc \in WPcs : wpc' = [wpc EXCEPT ![s][w] = pc]
           /\ wpc'[s][w] = "done" /\ ~cancelled[s] => windex'[s][w] >= NumHosts
           /\ \/ Advance(s, w)
              \/ windex' = windex /\ probed' \in {probed, Probed(s, w)}
           /\ \/ UNCHANGED posted
              \/ wpc[s][w] = "resolve" /\ Post(s, windex[s][w])
<1>t. /\ wpc \in [Sessions -> [Workers -> WPcs]]
      /\ windex \in [Sessions -> [Workers -> Nat]]
      /\ NumHosts \in Int
  BY IosAssumption DEF TypeInv, TypeOK
<1>1. CASE CheckCancelled(s, w)
  <2>1. /\ wpc[s][w] = "check" /\ UNCHANGED <<windex, probed, posted>>
        /\ UNCHANGED <<handlerVars, taskRef, cancelled, phase, outran>>
    BY <1>1 DEF CheckCancelled
  <2>2. CASE KeepsPinging(s, w)
    <3>1. wpc' = [wpc EXCEPT ![s][w] = "ping"]
      BY <1>1, <2>2 DEF CheckCancelled
    <3> QED  BY <1>t, <2>1, <3>1 DEF WPcs
  <2>3. CASE ~KeepsPinging(s, w)
    <3>1. wpc' = [wpc EXCEPT ![s][w] = "done"]
      BY <1>1, <2>3 DEF CheckCancelled
    <3>2. ~cancelled[s] => windex[s][w] >= NumHosts
      BY <1>t, <2>3 DEF KeepsPinging
    <3> QED  BY <1>t, <2>1, <3>1, <3>2 DEF WPcs
  <2> QED  BY <2>2, <2>3
<1>2. CASE PingFails(s, w)
  BY <1>t, <1>2 DEF PingFails, WPcs
<1>3. CASE PingAnswers(s, w)
  BY <1>t, <1>3 DEF PingAnswers, WPcs, Probed
<1>4. CASE PostHost(s, w)
  BY <1>t, <1>4 DEF PostHost, WPcs
<1>5. CASE PingBlocks(s, w)
  BY <1>t, <1>5 DEF PingBlocks, WPcs
<1> QED  BY <1>1, <1>2, <1>3, <1>4, <1>5 DEF ChildStep

LEMMA ChildKeepsAnswered ==
    ASSUME TypeInv, StrideInv, AnsweredInv, NEW s \in Sessions, NEW w \in Workers,
           ChildStep(s, w)
    PROVE  AnsweredInv'
<1>t. /\ wpc \in [Sessions -> [Workers -> WPcs]]
      /\ windex \in [Sessions -> [Workers -> Nat]]
      /\ answered \in [Sessions -> SUBSET HostIndex]
  BY DEF TypeInv, TypeOK
<1>1. CASE CheckCancelled(s, w)
  <2>1. /\ UNCHANGED <<answered, posted, windex>> /\ wpc[s][w] = "check"
        /\ \E pc \in {"ping", "done"} : wpc' = [wpc EXCEPT ![s][w] = pc]
    BY <1>1 DEF CheckCancelled
  <2> QED  BY <1>t, <2>1 DEF AnsweredInv, WasPosted
<1>2. CASE PingFails(s, w)
  <2>1. /\ UNCHANGED <<answered, posted>> /\ wpc[s][w] = "ping"
        /\ \E pc \in {"check", "done"} : wpc' = [wpc EXCEPT ![s][w] = pc]
        /\ \E x : windex' = [windex EXCEPT ![s][w] = x]
    BY <1>2 DEF PingFails, Advance
  <2> QED  BY <1>t, <2>1 DEF AnsweredInv, WasPosted
<1>3. CASE PingAnswers(s, w)
  <2>1. /\ UNCHANGED <<posted, windex>> /\ wpc[s][w] = "ping"
        /\ windex[s][w] % ScanThreads = w
    BY <1>3 DEF PingAnswers, StrideInv
  <2>2. CASE cancelled[s]
    <3>1. UNCHANGED answered /\ wpc' = [wpc EXCEPT ![s][w] = "done"]
      BY <1>3, <2>2 DEF PingAnswers
    <3> QED  BY <1>t, <2>1, <3>1 DEF AnsweredInv, WasPosted
  <2>3. CASE ~cancelled[s]
    <3>1. /\ answered' = [answered EXCEPT ![s] = @ \cup {windex[s][w]}]
          /\ wpc' = [wpc EXCEPT ![s][w] = "resolve"]
      BY <1>3, <2>3 DEF PingAnswers
    <3> QED  BY <1>t, <2>1, <3>1 DEF AnsweredInv, WasPosted
  <2> QED  BY <2>2, <2>3
<1>4. CASE PostHost(s, w)
  <2>1. /\ UNCHANGED answered /\ wpc' = [wpc EXCEPT ![s][w] = "check"]
        /\ \E x : windex' = [windex EXCEPT ![s][w] = x]
        /\ Post(s, windex[s][w])
        /\ windex[s][w] \in Events
    BY <1>4 DEF PostHost, Advance, TypeInv, PingInRange, Events
  <2>2. PICK e \in Events : e = windex[s][w] /\ Post(s, e)
    BY <2>1
  <2>3. /\ WasPosted(s, e)'
        /\ \A r \in Sessions : \A f : WasPosted(r, f) => WasPosted(r, f)'
    BY <2>2, PostedStay
  <2> QED  BY <1>t, <2>1, <2>2, <2>3 DEF AnsweredInv
<1>5. CASE PingBlocks(s, w)
  <2>1. /\ UNCHANGED <<answered, posted, windex>> /\ wpc[s][w] = "ping"
        /\ wpc' = [wpc EXCEPT ![s][w] = "stuck"]
    BY <1>5 DEF PingBlocks
  <2> QED  BY <1>t, <2>1 DEF AnsweredInv, WasPosted
<1> QED  BY <1>1, <1>2, <1>3, <1>4, <1>5 DEF ChildStep

LEMMA ChildKeepsCovered ==
    ASSUME TypeInv, CoveredInv, NEW s \in Sessions, NEW w \in Workers, ChildStep(s, w)
    PROVE  CoveredInv'
<1>t. /\ wpc \in [Sessions -> [Workers -> WPcs]]
      /\ windex \in [Sessions -> [Workers -> Nat]]
      /\ ScanThreads \in Nat /\ NumHosts \in Int
  BY IosAssumption DEF TypeInv, TypeOK
<1>1. /\ UNCHANGED <<cancelled, phase>>
      /\ wpc[s][w] \in {"check", "ping", "resolve"}
      /\ wpc'[s][w] = "done" /\ ~cancelled[s] => windex'[s][w] >= NumHosts
  BY ChildEffect
<1>2. PICK pc \in WPcs : wpc' = [wpc EXCEPT ![s][w] = pc]
  BY ChildEffect
<1>3. Advance(s, w) \/ (windex' = windex /\ probed' \in {probed, Probed(s, w)})
  BY ChildEffect
<1>4. StrideInv' /\ CoverInv'
  <2>1. CASE windex' = windex /\ probed' \in {probed, Probed(s, w)}
    <3>1. \A r \in Sessions : probed[r] \subseteq probed'[r]
      BY <2>1 DEF Probed, TypeInv, TypeOK
    <3> QED  BY <2>1, <3>1 DEF CoveredInv, StrideInv, CoverInv
  <2> QED  BY <1>3, <2>1, AdvanceCovers DEF CoveredInv
<1>5. DoneInv'
  <2>1. \A r \in Sessions : \A v \in Workers :
           r # s \/ v # w => windex'[r][v] = windex[r][v] /\ wpc'[r][v] = wpc[r][v]
    BY <1>t, <1>2, <1>3 DEF Advance
  <2> QED  BY <1>1, <2>1 DEF CoveredInv, DoneInv
<1>6. StageInv'
  <2>1. phase[s] = "probing"
    BY <1>1 DEF CoveredInv, StageInv
  <2> QED  BY <1>t, <1>1, <1>2, <2>1 DEF CoveredInv, StageInv
<1> QED
  BY <1>4, <1>5, <1>6, ChildKeepsAnswered DEF CoveredInv

-----------------------------------------------------------------------------
(* NullEvents, its second half.  A session whose onListen has not made a scan
   has no state; what is posted is in the order that NullEvents asks for; the
   body posts as its last act; and a scan that has been stopped is not stopped
   again. *)
Fresh(s) ==
    s > session \/ (s = session /\ op \in {"relisten", "restop", "reclear", "listen"})
FreshInv ==
    \A s \in Sessions : Fresh(s) =>
        phase[s] = "idle" /\ posted[s] = <<>> /\ scanner # s
OverInv ==
    \A s \in Sessions : WasPosted(s, BodyNull) => phase[s] \in {"nowifi", "ended"}
Stoppable(s) ==
    \/ taskRef[s]
    \/ op = "assign" /\ session = s
    \/ op \in {"restop", "reclear", "stop", "clear"} /\ scanner = s
StopInv == \A s \in Sessions : WasPosted(s, StopNull) => ~Stoppable(s)
Ordered(q) ==
    \A j, k \in DOMAIN q :
        j < k => /\ q[j] = q[k] => q[j] \in HostIndex
                 /\ q[j] = BodyNull => q[k] = StopNull
OrderInv == \A s \in Sessions : Ordered(posted[s])
PostInv == FreshInv /\ OverInv /\ StopInv /\ OrderInv

LEMMA PostInit == Init => PostInv
<1> SUFFICES ASSUME Init PROVE PostInv
  OBVIOUS
<1>1. \A s \in Sessions : posted[s] = <<>> /\ phase[s] = "idle" /\ scanner # s
  BY DEF Init, Sessions, NoScan
<1>2. \A s \in Sessions : \A e : ~WasPosted(s, e)
  BY <1>1 DEF WasPosted
<1>3. \A s \in Sessions : Ordered(posted[s])
  BY <1>1 DEF Ordered
<1> QED  BY <1>1, <1>2, <1>3 DEF PostInv, FreshInv, OverInv, StopInv, OrderInv

(* A post keeps the order: a host before the body's null event, the body's once,
   a stop's once. *)
LEMMA PostKeepsOrder ==
    ASSUME TypeInv, OrderInv, NEW s \in Sessions, NEW e \in Events, Post(s, e),
           WasPosted(s, BodyNull) => e = StopNull,
           e = StopNull => ~WasPosted(s, StopNull)
    PROVE  /\ OrderInv'
           /\ \A r \in Sessions : \A f :
                 WasPosted(r, f)' => WasPosted(r, f) \/ (r = s /\ f = e)
           /\ \A r \in Sessions : r # s => posted'[r] = posted[r]
<1>1. /\ posted \in [Sessions -> Seq(Events)]
      /\ posted'[s] = Append(posted[s], e)
      /\ \A t \in Sessions : t # s => posted'[t] = posted[t]
  BY PostTyped DEF TypeInv, TypeOK
<1> DEFINE last == Len(posted[s]) + 1
<1>2. /\ DOMAIN posted'[s] = DOMAIN posted[s] \cup {last}
      /\ posted'[s][last] = e
      /\ \A k \in DOMAIN posted[s] :
            posted'[s][k] = posted[s][k] /\ k < last /\ k \in Nat
      /\ last \in Nat
      /\ \A k \in DOMAIN posted[s] : posted[s][k] \in Events
  BY <1>1
<1>3. \A r \in Sessions : \A f :
         WasPosted(r, f)' => WasPosted(r, f) \/ (r = s /\ f = e)
  BY <1>1, <1>2 DEF WasPosted
<1>4. ASSUME NEW j \in DOMAIN posted'[s], NEW k \in DOMAIN posted'[s], j < k
      PROVE  /\ posted'[s][j] = posted'[s][k] => posted'[s][j] \in HostIndex
             /\ posted'[s][j] = BodyNull => posted'[s][k] = StopNull
  <2>1. j \in DOMAIN posted[s]
    BY <1>2, <1>4
  <2>2. CASE k \in DOMAIN posted[s]
    BY <1>2, <1>4, <2>1, <2>2 DEF OrderInv, Ordered
  <2>3. CASE k = last
    <3>1. posted'[s][j] = posted[s][j] /\ posted'[s][k] = e
      BY <1>2, <2>1, <2>3
    <3>2. WasPosted(s, posted[s][j])
      BY <2>1 DEF WasPosted
    <3>3. posted[s][j] = BodyNull => e = StopNull /\ e # BodyNull
      BY <3>2, IosAssumption
    <3>4. posted[s][j] = e => e # StopNull /\ e # BodyNull
      BY <3>2, <3>3
    <3> QED  BY <3>1, <3>3, <3>4 DEF Events
  <2> QED  BY <1>2, <2>2, <2>3
<1>5. Ordered(posted'[s])
  BY <1>4 DEF Ordered
<1>6. \A r \in Sessions : r # s => Ordered(posted'[r])
  BY <1>1 DEF OrderInv
<1>7. OrderInv'
  BY <1>5, <1>6 DEF OrderInv
<1> QED  BY <1>1, <1>3, <1>7

LEMMA QuietKeepsPosted ==
    ASSUME OrderInv, UNCHANGED posted
    PROVE  OrderInv' /\ \A s \in Sessions : \A f : WasPosted(s, f)' <=> WasPosted(s, f)
  BY DEF OrderInv, WasPosted

(* The calls of the handler. *)
LEMMA HandlerKeepsPosts ==
    ASSUME TypeInv, CoveredInv, PostInv,
           Listen \/ Cancel \/ HandlerStep \/ UNCHANGED scanVars
    PROVE  CoveredInv' /\ PostInv'
<1> USE IosAssumption DEF handlerVars, childVars
<1>t. /\ session \in 0..MaxSessions /\ scanner \in 0..MaxSessions
      /\ taskRef \in [Sessions -> BOOLEAN]
      /\ cancelled \in [Sessions -> BOOLEAN]
      /\ phase \in [Sessions -> Phases]
      /\ wpc \in [Sessions -> [Workers -> WPcs]]
      /\ CallHasSession
      /\ BodyNull \in Events /\ StopNull \in Events
  BY DEF TypeInv, TypeOK, Events
<1>i. CoveredInv /\ StageInv /\ FreshInv /\ OverInv /\ StopInv /\ OrderInv
  BY DEF CoveredInv, PostInv
<1>1. CASE Listen
  <2>1. /\ op = "idle" /\ session' = session + 1 /\ op' \in {"listen", "relisten"}
        /\ UNCHANGED <<scanner, taskRef, cancelled, phase, childVars, posted>>
    BY <1>1 DEF Listen
  <2>2. OrderInv' /\ \A s \in Sessions : \A f : WasPosted(s, f)' <=> WasPosted(s, f)
    BY <1>i, <2>1, QuietKeepsPosted
  <2>3. \A s \in Sessions : Fresh(s)' => s > session
    BY <1>t, <2>1 DEF Fresh, Sessions
  <2>4. FreshInv' /\ OverInv' /\ StopInv'
    BY <1>i, <2>1, <2>2, <2>3 DEF FreshInv, Fresh, OverInv, StopInv, Stoppable
  <2>5. StageInv'
    BY <1>i, <2>1 DEF StageInv
  <2> QED  BY <1>i, <2>1, <2>2, <2>4, <2>5, OthersKeepCovered DEF PostInv
<1>2. CASE Cancel \/ OnCancel \/ UNCHANGED scanVars
  <2>1. UNCHANGED <<session, scanner, taskRef, cancelled, phase, childVars, posted>>
    BY <1>2 DEF Cancel, OnCancel, scanVars
  <2>2. OrderInv' /\ \A s \in Sessions : \A f : WasPosted(s, f)' <=> WasPosted(s, f)
    BY <1>i, <2>1, QuietKeepsPosted
  <2>3. \A s \in Sessions : Fresh(s)' => Fresh(s)
    BY <1>2, <2>1 DEF Cancel, OnCancel, scanVars, Fresh
  <2>4. \A s \in Sessions : Stoppable(s)' => Stoppable(s)
    BY <1>2, <2>1 DEF Cancel, OnCancel, scanVars, Stoppable
  <2>5. FreshInv' /\ OverInv' /\ StopInv' /\ StageInv'
    BY <1>i, <2>1, <2>2, <2>3, <2>4 DEF FreshInv, OverInv, StopInv, StageInv
  <2> QED  BY <1>i, <2>1, <2>2, <2>5, OthersKeepCovered DEF PostInv
<1>3. CASE StopCancel
  <2>1. /\ scanner \in Sessions
        /\ UNCHANGED <<session, scanner, taskRef, phase, childVars, posted>>
        /\ cancelled' = [cancelled EXCEPT ![scanner] = @ \/ taskRef[scanner]]
    BY <1>t, <1>3 DEF StopCancel, CallHasSession
  <2>2. OrderInv' /\ \A s \in Sessions : \A f : WasPosted(s, f)' <=> WasPosted(s, f)
    BY <1>i, <2>1, QuietKeepsPosted
  <2>3. \A s \in Sessions : cancelled[s] => cancelled'[s]
    BY <1>t, <2>1, Zenon
  <2>4. \A s \in Sessions : (Fresh(s)' => Fresh(s)) /\ (Stoppable(s)' => Stoppable(s))
    BY <1>3, <2>1 DEF StopCancel, Fresh, Stoppable
  <2>5. FreshInv' /\ OverInv' /\ StopInv' /\ StageInv'
    BY <1>i, <2>1, <2>2, <2>4 DEF FreshInv, OverInv, StopInv, StageInv
  <2> QED  BY <1>i, <2>1, <2>2, <2>3, <2>5, OthersKeepCovered DEF PostInv
<1>4. CASE StopClear
  <2>1. /\ scanner \in Sessions /\ Post(scanner, StopNull)
        /\ taskRef' = [taskRef EXCEPT ![scanner] = FALSE]
        /\ op \in {"reclear", "clear"} /\ op' \in {"listen", "idle"}
        /\ op' = "listen" => op = "reclear"
        /\ UNCHANGED <<session, scanner, cancelled, phase, childVars>>
    BY <1>t, <1>4 DEF StopClear, CallHasSession
  <2>2. Stoppable(scanner) /\ ~Fresh(scanner)
    BY <1>i, <2>1 DEF Stoppable, FreshInv
  <2>3. /\ OrderInv'
        /\ \A r \in Sessions : \A f :
              WasPosted(r, f)' => WasPosted(r, f) \/ (r = scanner /\ f = StopNull)
        /\ \A r \in Sessions : r # scanner => posted'[r] = posted[r]
    BY <1>t, <1>i, <2>1, <2>2, PostKeepsOrder DEF StopInv
  <2>4. \A s \in Sessions : \A f : WasPosted(s, f) => WasPosted(s, f)'
    BY <1>t, <2>1, PostedStay
  <2>5. \A s \in Sessions : Fresh(s)' => Fresh(s)
    BY <2>1 DEF Fresh
  <2>6. /\ \A s \in Sessions : Stoppable(s)' => Stoppable(s)
        /\ ~Stoppable(scanner)'
    BY <1>t, <2>1 DEF Stoppable
  <2>7. FreshInv'
    BY <1>i, <2>1, <2>2, <2>3, <2>5 DEF FreshInv
  <2>8. OverInv' /\ StopInv' /\ StageInv'
    BY <1>i, <2>1, <2>3, <2>6 DEF OverInv, StopInv, StageInv
  <2> QED  BY <1>i, <2>1, <2>3, <2>4, <2>7, <2>8, OthersKeepCovered DEF PostInv
<1>5. CASE OnListenWifi
  <2>1. /\ session \in Sessions /\ Fresh(session)
        /\ op' = "assign" /\ scanner' = session
        /\ phase' = [phase EXCEPT ![session] = "probing"]
        /\ wpc' = [wpc EXCEPT ![session] = [w \in Workers |-> "check"]]
        /\ UNCHANGED <<session, taskRef, cancelled, windex, probed, answered, posted>>
    BY <1>t, <1>5 DEF OnListenWifi, CallHasSession, Fresh
  <2>2. OrderInv' /\ \A s \in Sessions : \A f : WasPosted(s, f)' <=> WasPosted(s, f)
    BY <1>i, <2>1, QuietKeepsPosted
  <2>3. /\ phase[session] = "idle" /\ \A e : ~WasPosted(session, e)
        /\ \A w \in Workers : wpc[session][w] \in {"idle", "done"}
    BY <1>i, <2>1 DEF FreshInv, WasPosted, StageInv
  <2>4. \A s \in Sessions : Fresh(s)' => Fresh(s) /\ s # session
    BY <1>t, <2>1 DEF Fresh, Sessions
  <2>5. \A s \in Sessions : Stoppable(s)' => Stoppable(s) \/ s = session
    BY <2>1 DEF Stoppable
  <2>6. FreshInv' /\ OverInv' /\ StopInv'
    BY <1>t, <1>i, <2>1, <2>2, <2>3, <2>4, <2>5 DEF FreshInv, OverInv, StopInv
  <2>7. StrideInv' /\ CoverInv'
    BY <2>1 DEF CoveredInv, StrideInv, CoverInv
  <2>8. DoneInv' /\ StageInv'
    BY <1>t, <2>1 DEF CoveredInv, DoneInv, StageInv
  <2>9. AnsweredInv'
    <3>1. \A s \in Sessions : \A i \in answered[s] : i % ScanThreads \in Workers
      BY HostHasChild DEF TypeInv, TypeOK
    <3> QED  BY <1>t, <1>i, <2>1, <2>2, <2>3, <3>1 DEF CoveredInv, AnsweredInv
  <2> QED  BY <2>2, <2>6, <2>7, <2>8, <2>9 DEF PostInv, CoveredInv
<1>6. CASE Assign
  <2>1. /\ op = "assign" /\ op' = "idle"
        /\ taskRef' = [taskRef EXCEPT ![session] = TRUE]
        /\ UNCHANGED <<session, scanner, cancelled, phase, childVars, posted>>
    BY <1>6 DEF Assign
  <2>2. OrderInv' /\ \A s \in Sessions : \A f : WasPosted(s, f)' <=> WasPosted(s, f)
    BY <1>i, <2>1, QuietKeepsPosted
  <2>3. \A s \in Sessions : (Fresh(s)' => Fresh(s)) /\ (Stoppable(s)' => Stoppable(s))
    BY <1>t, <2>1 DEF Fresh, Stoppable
  <2>4. FreshInv' /\ OverInv' /\ StopInv' /\ StageInv'
    BY <1>i, <2>1, <2>2, <2>3 DEF FreshInv, OverInv, StopInv, StageInv
  <2> QED  BY <1>i, <2>1, <2>2, <2>4, OthersKeepCovered DEF PostInv
<1>7. CASE OnListenNoWifi
  <2>1. /\ session \in Sessions /\ Fresh(session) /\ Post(session, BodyNull)
        /\ op' = "idle"
        /\ phase' = [phase EXCEPT ![session] = "nowifi"]
        /\ UNCHANGED <<session, scanner, taskRef, cancelled, childVars>>
    BY <1>t, <1>7 DEF OnListenNoWifi, CallHasSession, Fresh
  <2>2. phase[session] = "idle" /\ \A e : ~WasPosted(session, e)
    BY <1>i, <2>1 DEF FreshInv, WasPosted
  <2>3. /\ OrderInv'
        /\ \A r \in Sessions : \A f :
              WasPosted(r, f)' => WasPosted(r, f) \/ (r = session /\ f = BodyNull)
        /\ \A r \in Sessions : r # session => posted'[r] = posted[r]
    BY <1>t, <1>i, <2>1, <2>2, PostKeepsOrder
  <2>4. \A s \in Sessions : \A f : WasPosted(s, f) => WasPosted(s, f)'
    BY <1>t, <2>1, PostedStay
  <2>5. \A s \in Sessions : Fresh(s)' => Fresh(s) /\ s # session
    BY <1>t, <2>1 DEF Fresh, Sessions
  <2>6. \A s \in Sessions : Stoppable(s)' => Stoppable(s)
    BY <2>1 DEF Stoppable
  <2>7. FreshInv'
    BY <1>t, <1>i, <2>1, <2>3, <2>5 DEF FreshInv
  <2>8. OverInv' /\ StopInv' /\ StageInv'
    BY <1>t, <1>i, <2>1, <2>2, <2>3, <2>6 DEF OverInv, StopInv, StageInv
  <2> QED  BY <1>i, <2>1, <2>3, <2>4, <2>7, <2>8, OthersKeepCovered DEF PostInv
<1> QED
  BY <1>1, <1>2, <1>3, <1>4, <1>5, <1>6, <1>7 DEF HandlerStep

(* The children and the body of the Task. *)
LEMMA ChildKeepsPosts ==
    ASSUME TypeInv, CoveredInv, PostInv, NEW s \in Sessions, NEW w \in Workers,
           ChildStep(s, w)
    PROVE  PostInv'
<1> USE IosAssumption DEF handlerVars
<1>i. StageInv /\ FreshInv /\ OverInv /\ StopInv /\ OrderInv
  BY DEF CoveredInv, PostInv
<1>1. /\ UNCHANGED <<handlerVars, taskRef, phase>>
      /\ wpc[s][w] \in {"check", "ping", "resolve"}
  BY ChildEffect
<1>2. phase[s] = "probing" /\ ~Fresh(s)
  BY <1>i, <1>1 DEF StageInv, FreshInv
<1>3. \A r \in Sessions : (Fresh(r)' <=> Fresh(r)) /\ (Stoppable(r)' <=> Stoppable(r))
  BY <1>1 DEF Fresh, Stoppable
<1>4. CASE UNCHANGED posted
  <2>1. OrderInv' /\ \A r \in Sessions : \A f : WasPosted(r, f)' <=> WasPosted(r, f)
    BY <1>i, <1>4, QuietKeepsPosted
  <2> QED
    BY <1>i, <1>1, <1>3, <1>4, <2>1 DEF PostInv, FreshInv, OverInv, StopInv
<1>5. CASE wpc[s][w] = "resolve" /\ Post(s, windex[s][w])
  <2>1. PICK e \in HostIndex : e = windex[s][w]
    BY <1>5 DEF TypeInv, PingInRange
  <2>2. e \in Events /\ Post(s, e) /\ e # BodyNull /\ e # StopNull
    BY <1>5, <2>1 DEF Events
  <2>3. ~WasPosted(s, BodyNull)
    BY <1>i, <1>2 DEF OverInv
  <2>4. /\ OrderInv'
        /\ \A r \in Sessions : \A f :
              WasPosted(r, f)' => WasPosted(r, f) \/ (r = s /\ f = e)
        /\ \A r \in Sessions : r # s => posted'[r] = posted[r]
    BY <1>i, <2>2, <2>3, PostKeepsOrder
  <2>5. FreshInv'
    BY <1>i, <1>1, <1>2, <1>3, <2>4 DEF FreshInv
  <2>6. OverInv' /\ StopInv'
    BY <1>i, <1>1, <1>3, <2>2, <2>4 DEF OverInv, StopInv
  <2> QED  BY <2>4, <2>5, <2>6 DEF PostInv
<1> QED  BY <1>4, <1>5, ChildEffect

LEMMA BodyKeepsPosts ==
    ASSUME TypeInv, CoveredInv, PostInv, NEW s \in Sessions, BodyStep(s)
    PROVE  CoveredInv' /\ PostInv'
<1> USE IosAssumption DEF handlerVars
<1>t. /\ phase \in [Sessions -> Phases] /\ taskRef \in [Sessions -> BOOLEAN]
      /\ BodyNull \in Events
  BY DEF TypeInv, TypeOK, Events
<1>i. StageInv /\ FreshInv /\ OverInv /\ StopInv /\ OrderInv
  BY DEF CoveredInv, PostInv
<1>1. /\ UNCHANGED <<handlerVars, cancelled, childVars>>
      /\ phase[s] \in {"probing", "closing", "posting"}
      /\ \E p \in {"closing", "posting", "ended"} : phase' = [phase EXCEPT ![s] = p]
      /\ phase[s] = "probing" => GroupDone(s)
  BY <1>t DEF BodyStep, JoinGroup, TestRef, PostNull
<1>2. StageInv'
  BY <1>t, <1>i, <1>1 DEF StageInv, GroupDone, childVars
<1>3. ~Fresh(s) /\ \A r \in Sessions : Fresh(r)' => Fresh(r)
  BY <1>i, <1>1 DEF FreshInv, Fresh
<1>4. ~WasPosted(s, BodyNull)
  BY <1>i, <1>1 DEF OverInv
<1>5. CASE JoinGroup(s) \/ TestRef(s)
  <2>1. UNCHANGED <<posted, taskRef>>
    BY <1>5 DEF JoinGroup, TestRef
  <2>2. OrderInv' /\ \A r \in Sessions : \A f : WasPosted(r, f)' <=> WasPosted(r, f)
    BY <1>i, <2>1, QuietKeepsPosted
  <2>3. FreshInv'
    BY <1>t, <1>i, <1>1, <1>3, <2>1 DEF FreshInv
  <2>4. OverInv'
    BY <1>t, <1>i, <1>1, <1>4, <2>2 DEF OverInv
  <2>5. StopInv'
    BY <1>i, <1>1, <2>1, <2>2 DEF StopInv, Stoppable
  <2> QED
    BY <1>1, <1>2, <2>2, <2>3, <2>4, <2>5, OthersKeepCovered DEF PostInv
<1>6. CASE PostNull(s)
  <2>1. /\ Post(s, BodyNull) /\ phase' = [phase EXCEPT ![s] = "ended"]
        /\ taskRef' = [taskRef EXCEPT ![s] = FALSE]
    BY <1>6 DEF PostNull
  <2>2. /\ OrderInv'
        /\ \A r \in Sessions : \A f :
              WasPosted(r, f)' => WasPosted(r, f) \/ (r = s /\ f = BodyNull)
        /\ \A r \in Sessions : r # s => posted'[r] = posted[r]
    BY <1>t, <1>i, <1>4, <2>1, PostKeepsOrder
  <2>3. \A r \in Sessions : \A f : WasPosted(r, f) => WasPosted(r, f)'
    BY <1>t, <2>1, PostedStay
  <2>4. FreshInv'
    BY <1>t, <1>i, <1>1, <1>3, <2>1, <2>2 DEF FreshInv
  <2>5. OverInv'
    BY <1>t, <1>i, <2>1, <2>2 DEF OverInv
  <2>6. StopInv'
    BY <1>t, <1>i, <1>1, <2>1, <2>2 DEF StopInv, Stoppable
  <2> QED
    BY <1>1, <1>2, <2>2, <2>3, <2>4, <2>5, <2>6, OthersKeepCovered DEF PostInv
<1> QED  BY <1>5, <1>6 DEF BodyStep

LEMMA NullStep ==
    TypeInv /\ CoveredInv /\ PostInv /\ [Next]_vars => CoveredInv' /\ PostInv'
<1> SUFFICES ASSUME TypeInv, CoveredInv, PostInv, [Next]_vars
             PROVE  CoveredInv' /\ PostInv'
  OBVIOUS
<1>1. CASE Listen \/ Cancel \/ HandlerStep \/ UNCHANGED scanVars
  BY <1>1, HandlerKeepsPosts
<1>2. ASSUME NEW s \in Sessions, NEW w \in Workers, ChildStep(s, w)
      PROVE  CoveredInv' /\ PostInv'
  BY <1>2, ChildKeepsCovered, ChildKeepsPosts
<1>3. ASSUME NEW s \in Sessions, BodyStep(s)
      PROVE  CoveredInv' /\ PostInv'
  BY <1>3, BodyKeepsPosts
<1> QED  BY <1>1, <1>2, <1>3 DEF Next, SecondResume, Terminating, vars

LEMMA CoveredIsComplete ==
    ASSUME TypeInv, CoveredInv, PostInv
    PROVE  NullEvents
<1> SUFFICES ASSUME NEW s \in Sessions
             PROVE  /\ WasPosted(s, BodyNull) /\ phase[s] # "nowifi" /\ ~cancelled[s] =>
                         /\ probed[s] = HostIndex
                         /\ \A i \in answered[s] : WasPosted(s, i)
                    /\ Ordered(posted[s])
  BY DEF NullEvents, Ordered
<1>1. ASSUME WasPosted(s, BodyNull), phase[s] # "nowifi", ~cancelled[s]
      PROVE  /\ probed[s] = HostIndex
             /\ \A i \in answered[s] : WasPosted(s, i)
  <2>1. \A w \in Workers : wpc[s][w] = "done" /\ windex[s][w] >= NumHosts
    BY <1>1 DEF PostInv, OverInv, CoveredInv, StageInv, DoneInv
  <2>2. ASSUME NEW i \in HostIndex PROVE i \in probed[s]
    <3>1. i \in Nat /\ i % ScanThreads \in Workers
      BY HostHasChild
    <3>2. windex[s][i % ScanThreads] \in Nat /\ windex[s][i % ScanThreads] >= NumHosts
      BY <2>1, <3>1 DEF TypeInv, TypeOK
    <3>3. windex[s][i % ScanThreads] > i
      BY <3>2, IosAssumption DEF HostIndex
    <3> QED  BY <3>3 DEF CoveredInv, CoverInv
  <2>3. ASSUME NEW i \in answered[s] PROVE WasPosted(s, i)
    <3>1. i % ScanThreads \in Workers
      BY HostHasChild DEF TypeInv, TypeOK
    <3> QED  BY <2>1, <3>1 DEF CoveredInv, AnsweredInv
  <2> QED  BY <2>2, <2>3 DEF TypeInv, TypeOK
<1>2. Ordered(posted[s])
  BY DEF PostInv, OrderInv
<1> QED  BY <1>1, <1>2

(* The null event of the body says that the subnet is done, and no host of the
   scan comes after it: for any number of hosts and children. *)
THEOREM NullMeansComplete == Spec => []NullEvents
<1>1. Init => TypeInv /\ CoveredInv /\ PostInv
  BY TypeInit, CoveredInit, PostInit
<1>2. TypeInv /\ CoveredInv /\ PostInv /\ [Next]_vars => (TypeInv /\ CoveredInv /\ PostInv)'
  BY TypeStep, NullStep
<1>3. TypeInv /\ CoveredInv /\ PostInv => NullEvents
  BY CoveredIsComplete
<1> QED  BY <1>1, <1>2, <1>3, PTL DEF Spec
=============================================================================
