-------------------------- MODULE AndroidScanProofs --------------------------
(***************************************************************************)
(* Theorems about AndroidScan, for every number of sessions, hosts, scan   *)
(* threads and neighbours.                                                 *)
(***************************************************************************)
EXTENDS AndroidScan, SequenceTheorems, TLAPS

(* TypeOK is not inductive alone: a handler that is about to run onListen has a
   session to run it for, and a probing coroutine past its loop head has an
   index of the subnet. *)
ListenHasSession == op \in {"relisten", "listen"} => session \in Sessions
ProbeInRange ==
    \A s \in Sessions : \A w \in Workers :
        wpc[s][w] \in {"probe", "resolve", "post"} => windex[s][w] \in HostIndex
TypeInv == TypeOK /\ ListenHasSession /\ ProbeInRange

LEMMA TypeInit == Init => TypeInv
<1> SUFFICES ASSUME Init PROVE TypeInv
  OBVIOUS
<1>1. /\ wpc \in [Sessions -> [Workers -> WPcs]]
      /\ windex \in [Sessions -> [Workers -> Nat]]
      /\ ProbeInRange
  BY ScanAssumption DEF Init, ProbeInRange, Workers, WPcs
<1>2. /\ task \in [Sessions -> [Neighbours -> Tasks]]
      /\ sent \in [Sessions -> Seq(Events)]
      /\ probed \in [Sessions -> SUBSET HostIndex]
      /\ answered \in [Sessions -> SUBSET HostIndex]
      /\ phase \in [Sessions -> Phases]
      /\ looper \in Seq([scan : Sessions, event : Events])
  BY DEF Init, Tasks, Phases
<1>3. ListenHasSession
  BY DEF Init, ListenHasSession
<1>4. /\ jobRef \in [Sessions -> BOOLEAN]
      /\ cancelled \in [Sessions -> BOOLEAN]
      /\ timedOut \in [Sessions -> BOOLEAN]
  BY Zenon DEF Init
<1>5. /\ session \in 0..MaxSessions
      /\ activeSink \in 0..MaxSessions
      /\ scanner \in 0..MaxSessions
  BY ScanAssumption DEF Init, NoScan
<1>6. /\ attached \in BOOLEAN
      /\ op \in Ops
      /\ arp \in SUBSET Neighbours
      /\ clobbered \in SUBSET Sessions
      /\ crashed \in BOOLEAN
  BY ScanAssumption DEF Init, Ops
<1> QED
  BY <1>1, <1>2, <1>3, <1>4, <1>5, <1>6 DEF TypeInv, TypeOK

(* A message that a session posts keeps the looper well-typed. *)
LEMMA PostTyped ==
    ASSUME looper \in Seq([scan : Sessions, event : Events]),
           NEW s \in Sessions, NEW e \in Events, Post(s, e)
    PROVE  looper' \in Seq([scan : Sessions, event : Events])
BY DEF Post

LEMMA TypeStep == TypeInv /\ [Next]_vars => TypeInv'
<1> SUFFICES ASSUME TypeInv, [Next]_vars PROVE TypeInv'
  OBVIOUS
<1> USE ScanAssumption DEF TypeInv
<1>t. TypeOK /\ ListenHasSession /\ ProbeInRange
  OBVIOUS
<1>1. CASE Listen
  BY <1>t, <1>1 DEF TypeOK, Listen, ListenHasSession, ProbeInRange, Sessions,
     Ops, NoScan, jobVars, probeVars, neighVars
<1>2. CASE Cancel
  BY <1>t, <1>2 DEF TypeOK, Cancel, ListenHasSession, ProbeInRange, Ops, NoScan,
     jobVars, probeVars, neighVars
<1>3. CASE Detach
  BY <1>t, <1>3 DEF TypeOK, Detach, ListenHasSession, ProbeInRange, jobVars,
     probeVars, neighVars
<1>4. CASE LooperRun
  <2> DEFINE m == Head(looper)
  <2>1. /\ m \in [scan : Sessions, event : Events]
        /\ looper' \in Seq([scan : Sessions, event : Events])
    BY <1>t, <1>4, HeadTailProperties DEF TypeOK, LooperRun
  <2>2. sent' \in [Sessions -> Seq(Events)]
    BY <1>t, <1>4, <2>1 DEF TypeOK, LooperRun
  <2> QED
    BY <1>t, <1>4, <2>1, <2>2 DEF TypeOK, LooperRun, ListenHasSession, ProbeInRange,
       chanVars, jobVars, probeVars, neighVars
<1>5. CASE OnCancel
  <2>1. /\ looper' \in Seq([scan : Sessions, event : Events])
        /\ cancelled' \in [Sessions -> BOOLEAN]
        /\ jobRef' \in [Sessions -> BOOLEAN]
    <3>1. CASE scanner = NoScan
      BY <1>t, <1>5, <3>1 DEF TypeOK, OnCancel
    <3>2. CASE scanner # NoScan
      <4>1. scanner \in Sessions /\ Done \in Events
        BY <1>t, <3>2 DEF TypeOK, NoScan, Sessions, Events
      <4>2. StopScanning(scanner)
        BY <1>5, <3>2 DEF OnCancel
      <4>3. looper' \in Seq([scan : Sessions, event : Events])
        BY <1>t, <4>1, <4>2, PostTyped DEF TypeOK, StopScanning
      <4>4. jobRef' \in [Sessions -> BOOLEAN]
        BY <1>t, <4>1, <4>2 DEF TypeOK, StopScanning
      <4>5. cancelled' \in [Sessions -> BOOLEAN]
        BY <1>t, <4>1, <4>2, Zenon DEF TypeOK, StopScanning
      <4> QED BY <4>3, <4>4, <4>5
    <3> QED BY <3>1, <3>2
  <2> QED
    BY <1>t, <1>5, <2>1 DEF TypeOK, OnCancel, ListenHasSession, ProbeInRange,
       Ops, probeVars, neighVars
<1>6. CASE OnListenWifi
  BY <1>t, <1>6 DEF TypeOK, OnListenWifi, ListenHasSession, ProbeInRange, Ops,
     Phases, WPcs, Sessions, neighVars
<1>7. CASE OnListenNoWifi
  <2>1. session \in Sessions /\ Done \in Events
    BY <1>t, <1>7 DEF ListenHasSession, OnListenNoWifi, Events
  <2>2. looper' \in Seq([scan : Sessions, event : Events])
    BY <1>t, <1>7, <2>1, PostTyped DEF TypeOK, OnListenNoWifi
  <2> QED
    BY <1>t, <1>7, <2>1, <2>2 DEF TypeOK, OnListenNoWifi, ListenHasSession,
       ProbeInRange, Ops, Phases, jobVars, probeVars, neighVars
<1>8. ASSUME NEW s \in Sessions, NEW w \in Workers, CheckActive(s, w)
      PROVE  TypeInv'
  BY <1>t, <1>8 DEF TypeOK, CheckActive, KeepsProbing, ListenHasSession,
     ProbeInRange, WPcs, HostIndex, chanVars, jobVars, neighVars
<1>9. ASSUME NEW s \in Sessions, NEW w \in Workers, Connect(s, w)
      PROVE  TypeInv'
  <2>1. windex[s][w] \in HostIndex /\ windex[s][w] + ScanThreads \in Nat
    BY <1>t, <1>9 DEF TypeOK, Connect, ProbeInRange, HostIndex
  <2>2. /\ arp' \in SUBSET Neighbours
        /\ answered' \in [Sessions -> SUBSET HostIndex]
    <3>1. <<windex[s][w], Wlan>> \in Neighbours
      BY <2>1, ScanAssumption
    <3>2. CASE UNCHANGED <<arp, answered>>
      BY <1>t, <3>2 DEF TypeOK
    <3>3. CASE /\ arp' = arp \cup {<<windex[s][w], Wlan>>}
               /\ answered' = [answered EXCEPT ![s] = @ \cup {windex[s][w]}]
      <4>1. arp' \in SUBSET Neighbours
        BY <1>t, <3>1, <3>3 DEF TypeOK
      <4>2. answered' \in [Sessions -> SUBSET HostIndex]
        BY <1>t, <2>1, <3>3 DEF TypeOK
      <4> QED BY <4>1, <4>2
    <3> QED
      BY <1>9, <3>2, <3>3 DEF Connect
  <2>3. /\ windex' \in [Sessions -> [Workers -> Nat]]
        /\ probed' \in [Sessions -> SUBSET HostIndex]
        /\ wpc' \in [Sessions -> [Workers -> WPcs]]
    BY <1>t, <1>9, <2>1 DEF TypeOK, Connect, ProbeEnds, WPcs
  <2> QED
    BY <1>t, <1>9, <2>2, <2>3 DEF TypeOK, Connect, ProbeEnds, ListenHasSession,
       ProbeInRange, chanVars, jobVars
<1>10. ASSUME NEW s \in Sessions, NEW w \in Workers, Reachable(s, w)
       PROVE  TypeInv'
  BY <1>t, <1>10 DEF TypeOK, Reachable, ListenHasSession, ProbeInRange, WPcs,
     chanVars, jobVars, neighVars
<1>11. ASSUME NEW s \in Sessions, NEW w \in Workers, Unreachable(s, w)
       PROVE  TypeInv'
  <2>1. windex[s][w] \in HostIndex /\ windex[s][w] + ScanThreads \in Nat
    BY <1>t, <1>11 DEF TypeOK, Unreachable, ProbeInRange, HostIndex
  <2> QED
    BY <1>t, <1>11, <2>1 DEF TypeOK, Unreachable, ProbeEnds, ListenHasSession,
       ProbeInRange, WPcs, chanVars, jobVars, neighVars
<1>12. ASSUME NEW s \in Sessions, NEW w \in Workers, ProbeThrows(s, w)
       PROVE  TypeInv'
  BY <1>t, <1>12 DEF TypeOK, ProbeThrows, ListenHasSession, ProbeInRange,
     chanVars, jobVars, probeVars, neighVars
<1>13. ASSUME NEW s \in Sessions, NEW w \in Workers, ProcessHost(s, w)
       PROVE  TypeInv'
  BY <1>t, <1>13 DEF TypeOK, ProcessHost, ListenHasSession, ProbeInRange, WPcs,
     chanVars, jobVars, neighVars
<1>14. ASSUME NEW s \in Sessions, NEW w \in Workers, PostHost(s, w)
       PROVE  TypeInv'
  <2>1. /\ windex[s][w] \in HostIndex
        /\ windex[s][w] + ScanThreads \in Nat
        /\ windex[s][w] \in Events
    BY <1>t, <1>14 DEF TypeOK, PostHost, ProbeInRange, HostIndex, Events
  <2>2. looper' \in Seq([scan : Sessions, event : Events])
    BY <1>t, <1>14, <2>1, PostTyped DEF TypeOK, PostHost
  <2> QED
    BY <1>t, <1>14, <2>1, <2>2 DEF TypeOK, PostHost, ProbeEnds,
       ListenHasSession, ProbeInRange, WPcs, chanVars, jobVars, neighVars
<1>15. ASSUME NEW s \in Sessions, Timeout(s)
       PROVE  TypeInv'
  BY <1>t, <1>15 DEF TypeOK, Timeout, ListenHasSession, ProbeInRange, chanVars,
     probeVars, neighVars
<1>16. ASSUME NEW s \in Sessions, JoinAll(s)
       PROVE  TypeInv'
  BY <1>t, <1>16 DEF TypeOK, JoinAll, AfterProbes, ListenHasSession,
     ProbeInRange, Phases, chanVars, jobVars, probeVars
<1>17. ASSUME NEW s \in Sessions, NeighReturn(s)
       PROVE  TypeInv'
  BY <1>t, <1>17 DEF TypeOK, NeighReturn, ListenHasSession, ProbeInRange,
     Phases, Tasks, chanVars, jobVars, probeVars
<1>18. ASSUME NEW s \in Sessions, NeighExit(s)
       PROVE  TypeInv'
  BY <1>t, <1>18 DEF TypeOK, NeighExit, ListenHasSession, ProbeInRange,
     chanVars, jobVars, probeVars, neighVars
<1>19. ASSUME NEW s \in Sessions, NEW n \in Neighbours, StartTask(s, n)
       PROVE  TypeInv'
  BY <1>t, <1>19 DEF TypeOK, StartTask, OnStart, ListenHasSession, ProbeInRange,
     Tasks, chanVars, jobVars, probeVars
<1>20. ASSUME NEW s \in Sessions, NEW n \in Neighbours, PostTask(s, n)
       PROVE  TypeInv'
  <2>1. looper' \in Seq([scan : Sessions, event : Events])
    BY <1>t, <1>20, PostTyped DEF TypeOK, PostTask, Events
  <2> QED
    BY <1>t, <1>20, <2>1 DEF TypeOK, PostTask, ListenHasSession, ProbeInRange,
       Tasks, chanVars, jobVars, probeVars
<1>21. ASSUME NEW s \in Sessions, AwaitAll(s)
       PROVE  TypeInv'
  BY <1>t, <1>21 DEF TypeOK, AwaitAll, ListenHasSession, ProbeInRange, Phases,
     chanVars, jobVars, probeVars, neighVars
<1>22. ASSUME NEW s \in Sessions, Finish(s)
       PROVE  TypeInv'
  BY <1>t, <1>22 DEF TypeOK, Finish, ListenHasSession, ProbeInRange, Phases,
     chanVars, jobVars, probeVars, neighVars
<1>23. ASSUME NEW s \in Sessions, PostDone(s)
       PROVE  TypeInv'
  <2>1. looper' \in Seq([scan : Sessions, event : Events])
    BY <1>t, <1>23, PostTyped DEF TypeOK, PostDone, Events
  <2> QED
    BY <1>t, <1>23, <2>1 DEF TypeOK, PostDone, ListenHasSession, ProbeInRange,
       Phases, chanVars, jobVars, probeVars, neighVars
<1>24. CASE UNCHANGED vars
  BY <1>t, <1>24 DEF TypeOK, ListenHasSession, ProbeInRange, vars, chanVars,
     jobVars, probeVars, neighVars
<1> QED
  BY <1>1, <1>2, <1>3, <1>4, <1>5, <1>6, <1>7, <1>8, <1>9, <1>10, <1>11, <1>12,
     <1>13, <1>14, <1>15, <1>16, <1>17, <1>18, <1>19, <1>20, <1>21, <1>22,
     <1>23, <1>24
  DEF Next, Running, Terminating, HandlerStep, ScanStep, WorkerStep,
      JobStep, TaskStep

(* Every variable of the Android scan keeps its type in every execution, with
   the loop indices of the probing coroutines inside the subnet. *)
THEOREM TypeCorrect == Spec => []TypeOK
<1>1. TypeInv => TypeOK
  BY DEF TypeInv
<1> QED
  BY <1>1, TypeInit, TypeStep, PTL DEF Spec

-----------------------------------------------------------------------------
(* OneLiveScan needs to know more: a live scan is the one the handler's field
   names, with its job still held, so that onCancel reaches it; and none is live
   when onListen is about to make another. *)
LiveInv ==
    /\ \A s \in Sessions : Live(s) => s = scanner /\ jobRef[s]
    /\ op = "listen" => \A s \in Sessions : ~Live(s)
    /\ op = "idle" /\ activeSink = NoScan => \A s \in Sessions : ~Live(s)
    /\ op \in {"relisten", "listen"} => activeSink # NoScan

LEMMA LiveInit == Init => LiveInv
BY DEF Init, LiveInv, Live

(* The coroutines of a scan never touch the handler, and make no scan live. *)
LEMMA ScanStepLive ==
    ASSUME TypeInv, NEW s \in Sessions, ScanStep(s)
    PROVE  /\ UNCHANGED <<chanVars, jobRef, cancelled>>
           /\ \A t \in Sessions : Live(t)' => Live(t)
<1>t. phase \in [Sessions -> Phases]
  BY DEF TypeInv, TypeOK
<1>1. ASSUME NEW w \in Workers, WorkerStep(s, w) \/ ProbeThrows(s, w)
      PROVE  UNCHANGED <<chanVars, jobRef, cancelled, phase>>
  BY <1>1 DEF WorkerStep, CheckActive, Connect, Reachable, Unreachable,
     ProbeThrows, ProcessHost, PostHost, jobVars
<1>2. CASE Timeout(s) \/ NeighExit(s)
  BY <1>2 DEF Timeout, NeighExit, jobVars, Live
<1>3. ASSUME NEW n \in Neighbours, TaskStep(s, n)
      PROVE  UNCHANGED <<chanVars, jobRef, cancelled, phase>>
  BY <1>3 DEF TaskStep, StartTask, PostTask, jobVars
<1>4. CASE JobStep(s)
  <2>1. UNCHANGED <<chanVars, jobRef, cancelled>>
    BY <1>4 DEF JobStep, JoinAll, NeighReturn, AwaitAll, Finish, PostDone,
       jobVars
  <2>2. /\ phase[s] \notin {"idle", "nowifi", "ended"}
        /\ \E p \in Phases : phase' = [phase EXCEPT ![s] = p]
    BY <1>4 DEF JobStep, JoinAll, AfterProbes, NeighReturn, AwaitAll, Finish,
       PostDone, Phases
  <2> QED
    BY <1>t, <2>1, <2>2 DEF Live
<1> QED
  BY <1>1, <1>2, <1>3, <1>4 DEF ScanStep, Live

LEMMA LiveStep == TypeInv /\ LiveInv /\ [Next]_vars => LiveInv'
<1> SUFFICES ASSUME TypeInv, LiveInv, [Next]_vars PROVE LiveInv'
  OBVIOUS
<1>t. /\ phase \in [Sessions -> Phases]
      /\ cancelled \in [Sessions -> BOOLEAN]
      /\ jobRef \in [Sessions -> BOOLEAN]
      /\ scanner \in 0..MaxSessions
      /\ session \in 0..MaxSessions
  BY DEF TypeInv, TypeOK
<1>1. CASE Listen
  <2>1. activeSink' # NoScan
    BY <1>t, <1>1 DEF Listen, NoScan
  <2>2. UNCHANGED <<phase, cancelled, jobRef, scanner>> /\ op' # "idle"
    BY <1>1 DEF Listen, jobVars
  <2>3. op' = "listen" => \A s \in Sessions : ~Live(s)
    BY <1>1 DEF Listen, LiveInv
  <2> QED
    BY <2>1, <2>2, <2>3 DEF LiveInv, Live
<1>2. CASE Cancel
  BY <1>2 DEF Cancel, LiveInv, Live, jobVars
<1>3. CASE Detach \/ LooperRun \/ UNCHANGED vars
  BY <1>3 DEF Detach, LooperRun, vars, chanVars, jobVars, LiveInv, Live
<1>4. CASE OnCancel
  <2>1. \A s \in Sessions : ~Live(s)'
    <3>1. CASE scanner = NoScan
      BY <1>t, <1>4, <3>1 DEF OnCancel, LiveInv, Live, NoScan, Sessions
    <3>2. CASE scanner # NoScan
      <4>1. scanner \in Sessions /\ StopScanning(scanner) /\ phase' = phase
        BY <1>t, <1>4, <3>2 DEF OnCancel, NoScan, Sessions
      <4>2. cancelled' = [cancelled EXCEPT ![scanner] = @ \/ jobRef[scanner]]
        BY <4>1 DEF StopScanning
      <4>3. \A s \in Sessions : cancelled[s] => cancelled'[s]
        BY <1>t, <4>2, Zenon
      <4>4. jobRef[scanner] => cancelled'[scanner]
        BY <1>t, <4>1, <4>2, Zenon
      <4> QED
        BY <4>1, <4>3, <4>4 DEF LiveInv, Live
    <3> QED BY <3>1, <3>2
  <2> QED
    BY <1>4, <2>1 DEF OnCancel, LiveInv
<1>5. CASE OnListenWifi
  <2>1. \A s \in Sessions : Live(s)' => s = session /\ jobRef'[s]
    BY <1>t, <1>5 DEF OnListenWifi, LiveInv, Live
  <2> QED
    BY <1>5, <2>1 DEF OnListenWifi, LiveInv
<1>6. CASE OnListenNoWifi
  <2>1. \A s \in Sessions : ~Live(s)'
    BY <1>t, <1>6 DEF OnListenNoWifi, LiveInv, Live, jobVars
  <2> QED
    BY <1>6, <2>1 DEF OnListenNoWifi, LiveInv
<1>7. ASSUME NEW s \in Sessions, ScanStep(s)
      PROVE  LiveInv'
  BY <1>7, ScanStepLive DEF LiveInv, chanVars
<1> QED
  BY <1>1, <1>2, <1>3, <1>4, <1>5, <1>6, <1>7
  DEF Next, Running, Terminating, HandlerStep

(* However Dart listens and cancels, and however the scans' coroutines are
   scheduled, at most one scan is running that has not been told to stop. *)
THEOREM AtMostOneLiveScan == Spec => []OneLiveScan
<1>1. Init => TypeInv /\ LiveInv
  BY TypeInit, LiveInit
<1>2. TypeInv /\ LiveInv /\ [Next]_vars => (TypeInv /\ LiveInv)'
  BY TypeStep, LiveStep
<1>3. LiveInv => OneLiveScan
  BY DEF LiveInv, OneLiveScan
<1> QED
  BY <1>1, <1>2, <1>3, PTL DEF Spec
-----------------------------------------------------------------------------
(* AndroidScan implements ScanStream: no event follows the null event to a
   listener that is still there. *)

(* A session that does not run yet: Dart has not listened, or onListen has not
   been called. *)
Fresh(s) == s > session \/ (s = session /\ op \in {"relisten", "listen"})

FreshInv ==
    \A s \in Sessions : Fresh(s) =>
        /\ phase[s] = "idle" /\ ~cancelled[s] /\ ~jobRef[s]
        /\ scanner # s
        /\ sent[s] = <<>>
        /\ \A k \in DOMAIN looper : looper[k].scan # s

(* The active sink is the last one made, and its scan has not been stopped. *)
ActiveInv ==
    /\ op = "cancel" => activeSink = NoScan
    /\ op \in {"relisten", "listen"} => activeSink # NoScan
    /\ activeSink # NoScan => activeSink = session
    /\ \A s \in Sessions : activeSink = s => ~cancelled[s]

(* Structured concurrency: children run only inside their scope. *)
StageInv ==
    \A s \in Sessions :
        /\ phase[s] # "probing" => \A w \in Workers : wpc[s][w] \in {"idle", "done"}
        /\ phase[s] # "resolving" => \A n \in Neighbours : task[s][n] \in {"none", "done"}

DonePosted(s, k) == looper[k].scan = s /\ looper[k].event = Done
Over(s) == phase[s] \in {"nowifi", "ended"}

(* To the active listener the null event is the last one posted, and it is
   posted when nothing of the scan runs any more. *)
DoneInv ==
    \A s \in Sessions : activeSink = s =>
        /\ \A k \in DOMAIN looper : DonePosted(s, k) =>
              /\ Over(s) /\ ~DoneSent(s)
              /\ \A j \in DOMAIN looper : j > k => looper[j].scan # s
        /\ DoneSent(s) =>
              /\ Over(s)
              /\ \A k \in DOMAIN looper : looper[k].scan # s

StreamInv == FreshInv /\ ActiveInv /\ StageInv /\ DoneInv

LEMMA StreamInit == Init => StreamInv
BY ScanAssumption DEF Init, StreamInv, FreshInv, Fresh, ActiveInv, StageInv,
   DoneInv, DonePosted, DoneSent, NoScan, Sessions

-----------------------------------------------------------------------------
(* What a scan's own step may do to the rest: post a host, or post the null
   event as its last act; and only a scan that is not over takes a step. *)
LEMMA ScanStepStage ==
    ASSUME TypeInv, StageInv, NEW s \in Sessions, ScanStep(s)
    PROVE  StageInv'
<1>t. /\ phase \in [Sessions -> Phases]
      /\ wpc \in [Sessions -> [Workers -> WPcs]]
      /\ task \in [Sessions -> [Neighbours -> Tasks]]
  BY DEF TypeInv, TypeOK
<1>1. ASSUME NEW w \in Workers, WorkerStep(s, w) \/ ProbeThrows(s, w)
      PROVE  StageInv'
  <2>1. phase[s] = "probing"
    BY <1>1 DEF StageInv, WorkerStep, CheckActive, Connect, Reachable,
       Unreachable, ProbeThrows, ProcessHost, PostHost
  <2>2. /\ UNCHANGED <<phase, task>>
        /\ \E pc \in WPcs : wpc' = [wpc EXCEPT ![s][w] = pc]
    <3>1. ASSUME ProbeThrows(s, w)
          PROVE  UNCHANGED <<phase, task>> /\ wpc' = [wpc EXCEPT ![s][w] = "probe"]
      BY <1>t, <3>1 DEF ProbeThrows, probeVars, neighVars
    <3>2. ASSUME WorkerStep(s, w)
          PROVE  /\ UNCHANGED <<phase, task>>
                 /\ \E pc \in WPcs : wpc' = [wpc EXCEPT ![s][w] = pc]
      BY <3>2 DEF WorkerStep, CheckActive, Connect, Reachable, Unreachable,
         ProcessHost, PostHost, neighVars, WPcs
    <3> QED
      BY <1>1, <3>1, <3>2 DEF WPcs
  <2> QED
    BY <1>t, <2>1, <2>2 DEF StageInv
<1>2. CASE Timeout(s) \/ NeighExit(s)
  BY <1>2 DEF Timeout, NeighExit, probeVars, neighVars, StageInv
<1>3. ASSUME NEW n \in Neighbours, TaskStep(s, n)
      PROVE  StageInv'
  <2>1. phase[s] = "resolving"
    BY <1>3 DEF StageInv, TaskStep, StartTask, PostTask
  <2>2. /\ UNCHANGED <<phase, wpc>>
        /\ \E v \in Tasks : task' = [task EXCEPT ![s][n] = v]
    BY <1>3 DEF TaskStep, StartTask, OnStart, PostTask, probeVars, Tasks
  <2> QED
    BY <1>t, <2>1, <2>2 DEF StageInv
<1>4. CASE JoinAll(s)
  BY <1>t, <1>4 DEF JoinAll, ProbesDone, AfterProbes, StageInv, probeVars
<1>5. CASE NeighReturn(s)
  BY <1>t, <1>5 DEF NeighReturn, StageInv, probeVars
<1>6. CASE AwaitAll(s)
  BY <1>t, <1>6 DEF AwaitAll, TasksDone, StageInv, probeVars, neighVars
<1>7. CASE Finish(s) \/ PostDone(s)
  BY <1>t, <1>7 DEF Finish, PostDone, StageInv, probeVars, neighVars
<1> QED
  BY <1>1, <1>2, <1>3, <1>4, <1>5, <1>6, <1>7 DEF ScanStep, JobStep

LEMMA ScanStepEffect ==
    ASSUME TypeInv, StageInv, NEW s \in Sessions, ScanStep(s)
    PROVE  /\ UNCHANGED <<chanVars, jobRef, cancelled, sent>>
           /\ phase[s] # "idle" /\ phase'[s] # "idle" /\ ~Over(s)
           /\ \A t \in Sessions : t # s => phase'[t] = phase[t]
           /\ \/ UNCHANGED looper
              \/ \E e \in Events : Post(s, e) /\ (e = Done => Over(s)')
<1>t. phase \in [Sessions -> Phases]
  BY DEF TypeInv, TypeOK
<1>1. ASSUME NEW w \in Workers, WorkerStep(s, w) \/ ProbeThrows(s, w)
      PROVE  /\ UNCHANGED <<chanVars, jobRef, cancelled, sent, phase>>
             /\ phase[s] = "probing"
             /\ \/ UNCHANGED looper
                \/ \E e \in Addresses : Post(s, e)
  <2>1. phase[s] = "probing"
    BY <1>1 DEF StageInv, WorkerStep, CheckActive, Connect, Reachable,
       Unreachable, ProbeThrows, ProcessHost, PostHost
  <2>2. CASE PostHost(s, w)
    <3>1. windex[s][w] \in Addresses
      BY <2>2, ScanAssumption DEF TypeInv, ProbeInRange, PostHost
    <3> QED
      BY <2>1, <2>2, <3>1 DEF PostHost, jobVars
  <2>3. CASE ~PostHost(s, w)
    BY <1>1, <2>1, <2>3 DEF WorkerStep, CheckActive, Connect, Reachable,
       Unreachable, ProbeThrows, ProcessHost, jobVars
  <2> QED BY <2>2, <2>3
<1>2. CASE Timeout(s) \/ NeighExit(s)
  BY <1>2 DEF Timeout, NeighExit, jobVars, Over
<1>3. ASSUME NEW n \in Neighbours, TaskStep(s, n)
      PROVE  /\ UNCHANGED <<chanVars, jobRef, cancelled, sent, phase>>
             /\ phase[s] = "resolving"
             /\ \/ UNCHANGED looper
                \/ \E e \in Addresses : Post(s, e)
  <2>1. phase[s] = "resolving"
    BY <1>3 DEF StageInv, TaskStep, StartTask, PostTask
  <2>2. n[1] \in Addresses
    BY ScanAssumption
  <2> QED
    BY <1>3, <2>1, <2>2 DEF TaskStep, StartTask, PostTask, jobVars
<1>4. CASE JoinAll(s) \/ NeighReturn(s) \/ AwaitAll(s) \/ Finish(s)
  BY <1>t, <1>4 DEF JoinAll, AfterProbes, NeighReturn, AwaitAll, Finish, Over,
     jobVars
<1>5. CASE PostDone(s)
  BY <1>t, <1>5 DEF PostDone, Over, jobVars, Events
<1> QED
  BY <1>1, <1>2, <1>3, <1>4, <1>5, ScanAssumption
  DEF ScanStep, JobStep, Over, Events

-----------------------------------------------------------------------------
(* The looper as a queue. *)
LEMMA PostAppends ==
    ASSUME TypeInv, NEW s \in Sessions, NEW e \in Events, Post(s, e)
    PROVE  /\ DOMAIN looper' = DOMAIN looper \cup {Len(looper) + 1}
           /\ \A k \in DOMAIN looper : k < Len(looper) + 1 /\ looper'[k] = looper[k]
           /\ looper'[Len(looper) + 1] = [scan |-> s, event |-> e]
BY DEF TypeInv, TypeOK, Post

LEMMA PostAddsNoOther ==
    ASSUME TypeInv, NEW s \in Sessions, NEW e \in Events, Post(s, e),
           NEW t \in Sessions, t # s,
           \A k \in DOMAIN looper : looper[k].scan # t
    PROVE  \A k \in DOMAIN looper' : looper'[k].scan # t
<1>1. /\ DOMAIN looper' = DOMAIN looper \cup {Len(looper) + 1}
      /\ \A k \in DOMAIN looper : k < Len(looper) + 1 /\ looper'[k] = looper[k]
      /\ looper'[Len(looper) + 1] = [scan |-> s, event |-> e]
  BY PostAppends, Zenon
<1> TAKE k \in DOMAIN looper'
<1>2. k \in DOMAIN looper \/ k = Len(looper) + 1
  BY <1>1
<1> QED BY <1>1, <1>2

LEMMA RunPops ==
    ASSUME TypeInv, LooperRun
    PROVE  /\ 1 \in DOMAIN looper /\ Head(looper) = looper[1]
           /\ looper[1] \in [scan : Sessions, event : Events]
           /\ DOMAIN looper' \subseteq Nat \ {0}
           /\ \A k \in DOMAIN looper' : k + 1 \in DOMAIN looper
                                       /\ looper'[k] = looper[k + 1]
<1> DEFINE Msg == [scan : Sessions, event : Events]
<1>1. looper \in Seq(Msg) /\ looper # <<>> /\ looper' = Tail(looper)
  BY DEF TypeInv, TypeOK, LooperRun
<1> HIDE DEF Msg
<1>2. /\ looper' \in Seq(Msg)
      /\ Len(looper') = Len(looper) - 1
      /\ \A i \in 1..Len(looper') : looper'[i] = looper[i + 1]
  BY <1>1, HeadTailProperties
<1>3. /\ 1 \in DOMAIN looper /\ Head(looper) = looper[1]
      /\ looper[1] \in Msg
  BY <1>1
<1>4. Len(looper) \in Nat /\ DOMAIN looper = 1..Len(looper)
      /\ DOMAIN looper' = 1..Len(looper')
  BY <1>1, <1>2
<1> QED
  BY <1>2, <1>3, <1>4 DEF Msg

(* A post of a scan that is not over, the null event only by one that ends with
   it, keeps DoneInv. *)
LEMMA PostKeepsDoneInv ==
    ASSUME TypeInv, DoneInv, UNCHANGED <<activeSink, sent>>,
           NEW s \in Sessions, NEW e \in Events, Post(s, e),
           activeSink = s => ~Over(s) /\ (e = Done => Over(s)'),
           \A t \in Sessions : Over(t) => Over(t)'
    PROVE  DoneInv'
<1> DEFINE last == Len(looper) + 1
<1>1. /\ DOMAIN looper' = DOMAIN looper \cup {last}
      /\ \A k \in DOMAIN looper : k < last /\ looper'[k] = looper[k]
      /\ looper'[last] = [scan |-> s, event |-> e]
  BY PostAppends
<1>2. last \in Nat /\ DOMAIN looper \subseteq Nat
  BY DEF TypeInv, TypeOK
<1> SUFFICES ASSUME NEW a \in Sessions, activeSink' = a
             PROVE  /\ \A k \in DOMAIN looper' : DonePosted(a, k)' =>
                          /\ Over(a)' /\ ~DoneSent(a)'
                          /\ \A j \in DOMAIN looper' : j > k => looper'[j].scan # a
                    /\ DoneSent(a)' =>
                          /\ Over(a)'
                          /\ \A k \in DOMAIN looper' : looper'[k].scan # a
  BY DEF DoneInv
<1>3. DoneSent(a)' <=> DoneSent(a)
  BY DEF DoneSent
<1>4. CASE a = s
  <2>1. ~DoneSent(a) /\ \A k \in DOMAIN looper : ~DonePosted(a, k)
    BY <1>4 DEF DoneInv
  <2> QED
    BY <1>1, <1>2, <1>3, <1>4, <2>1 DEF DonePosted
<1>5. CASE a # s
  BY <1>1, <1>2, <1>3, <1>5 DEF DoneInv, DonePosted
<1> QED BY <1>4, <1>5

LEMMA QuietKeepsDoneInv ==
    ASSUME DoneInv, UNCHANGED <<activeSink, sent, looper>>,
           \A t \in Sessions : Over(t) => Over(t)'
    PROVE  DoneInv'
BY DEF DoneInv, DonePosted, DoneSent

(* A delivery keeps DoneInv: to the active listener the null event is the last
   message there is. *)
LEMMA RunKeepsDoneInv ==
    ASSUME TypeInv, DoneInv, LooperRun
    PROVE  DoneInv'
<1>1. /\ 1 \in DOMAIN looper /\ Head(looper) = looper[1]
      /\ looper[1] \in [scan : Sessions, event : Events]
      /\ DOMAIN looper' \subseteq Nat \ {0}
      /\ \A k \in DOMAIN looper' : k + 1 \in DOMAIN looper
                                  /\ looper'[k] = looper[k + 1]
  BY RunPops
<1>2. UNCHANGED <<activeSink, phase>>
  BY DEF LooperRun, chanVars
<1>t. sent \in [Sessions -> Seq(Events)]
  BY DEF TypeInv, TypeOK
<1> SUFFICES ASSUME NEW a \in Sessions, activeSink' = a
             PROVE  /\ \A k \in DOMAIN looper' : DonePosted(a, k)' =>
                          /\ Over(a)' /\ ~DoneSent(a)'
                          /\ \A j \in DOMAIN looper' : j > k => looper'[j].scan # a
                    /\ DoneSent(a)' =>
                          /\ Over(a)'
                          /\ \A k \in DOMAIN looper' : looper'[k].scan # a
  BY DEF DoneInv
<1>3. Over(a)' <=> Over(a)
  BY <1>2 DEF Over
<1>4. CASE sent'[a] = sent[a]
  <2>1. DoneSent(a)' <=> DoneSent(a)
    BY <1>4 DEF DoneSent
  <2> QED
    BY <1>1, <1>2, <1>3, <2>1 DEF DoneInv, DonePosted
<1>5. CASE sent'[a] # sent[a]
  <2>1. looper[1].scan = a /\ sent'[a] = Append(sent[a], looper[1].event)
    BY <1>t, <1>1, <1>5 DEF LooperRun
  <2>2. ~DoneSent(a)
    BY <1>1, <1>2, <2>1 DEF DoneInv
  <2>3. DoneSent(a)' => looper[1].event = Done
    BY <1>t, <1>1, <2>1, <2>2 DEF DoneSent
  <2>4. looper[1].event = Done =>
           Over(a) /\ \A k \in DOMAIN looper' : looper'[k].scan # a
    BY <1>1, <1>2, <2>1 DEF DoneInv, DonePosted
  <2>5. \A k \in DOMAIN looper' : DonePosted(a, k)' =>
           /\ Over(a) /\ ~DoneSent(a)'
           /\ \A j \in DOMAIN looper' : j > k => looper'[j].scan # a
    BY <1>1, <1>2, <2>3, <2>4 DEF DoneInv, DonePosted
  <2> QED
    BY <1>3, <2>3, <2>4, <2>5
<1> QED BY <1>4, <1>5

-----------------------------------------------------------------------------
LEMMA StreamStep == TypeInv /\ StreamInv /\ [Next]_vars => StreamInv'
<1> SUFFICES ASSUME TypeInv, FreshInv, ActiveInv, StageInv, DoneInv, [Next]_vars
             PROVE  FreshInv' /\ ActiveInv' /\ StageInv' /\ DoneInv'
  BY DEF StreamInv
<1>t. /\ session \in 0..MaxSessions
      /\ scanner \in 0..MaxSessions
      /\ cancelled \in [Sessions -> BOOLEAN]
      /\ jobRef \in [Sessions -> BOOLEAN]
      /\ phase \in [Sessions -> Phases]
      /\ sent \in [Sessions -> Seq(Events)]
      /\ looper \in Seq([scan : Sessions, event : Events])
      /\ MaxSessions \in Nat
      /\ Done \in Events
  BY ScanAssumption DEF TypeInv, TypeOK, Events
<1>1. CASE Listen
  <2>1. UNCHANGED <<scanner, looper, phase, cancelled, jobRef, sent, wpc, task>>
    BY <1>1 DEF Listen, jobVars, probeVars, neighVars
  <2>2. /\ op = "idle" /\ session' = session + 1 /\ activeSink' = session + 1
        /\ op' \in {"listen", "relisten"}
    BY <1>1 DEF Listen
  <2>3. \A s \in Sessions : Fresh(s)' => s > session
    BY <1>t, <2>2 DEF Fresh, Sessions
  <2>4. FreshInv'
    BY <2>1, <2>3 DEF FreshInv, Fresh
  <2>5. ActiveInv'
    BY <1>t, <2>1, <2>2 DEF ActiveInv, FreshInv, Fresh, NoScan, Sessions
  <2>6. StageInv'
    BY <2>1 DEF StageInv
  <2>7. DoneInv'
    BY <1>t, <2>1, <2>2 DEF DoneInv, FreshInv, Fresh, DonePosted, DoneSent, Sessions
  <2> QED BY <2>4, <2>5, <2>6, <2>7
<1>2. CASE Cancel
  <2>1. UNCHANGED <<session, scanner, looper, phase, cancelled, jobRef, sent,
                    wpc, task>>
    BY <1>2 DEF Cancel, jobVars, probeVars, neighVars
  <2> QED
    BY <1>2, <2>1 DEF Cancel, FreshInv, Fresh, ActiveInv, StageInv, DoneInv,
       NoScan, Sessions
<1>3. CASE Detach \/ UNCHANGED vars
  <2>1. UNCHANGED <<session, activeSink, op, scanner, looper, phase, cancelled,
                    jobRef, sent, wpc, task>>
    BY <1>3 DEF Detach, vars, chanVars, jobVars, probeVars, neighVars
  <2> QED
    BY <2>1, QuietKeepsDoneInv DEF FreshInv, Fresh, ActiveInv, StageInv, Over
<1>4. CASE LooperRun
  <2>1. UNCHANGED <<session, activeSink, op, scanner, phase, cancelled, jobRef,
                    wpc, task>>
    BY <1>4 DEF LooperRun, chanVars, jobVars, probeVars, neighVars
  <2>2. /\ looper[1] \in [scan : Sessions, event : Events]
        /\ 1 \in DOMAIN looper /\ Head(looper) = looper[1]
        /\ \A k \in DOMAIN looper' : k + 1 \in DOMAIN looper
                                    /\ looper'[k] = looper[k + 1]
    BY <1>4, RunPops
  <2>3. ASSUME NEW s \in Sessions, Fresh(s)
        PROVE  sent'[s] = sent[s] /\ \A k \in DOMAIN looper' : looper'[k].scan # s
    <3>1. \A k \in DOMAIN looper : looper[k].scan # s
      BY <2>3 DEF FreshInv
    <3> QED
      BY <1>t, <1>4, <2>2, <3>1 DEF LooperRun
  <2>4. FreshInv'
    BY <2>1, <2>3 DEF FreshInv, Fresh
  <2> QED
    BY <1>4, <2>1, <2>4, RunKeepsDoneInv DEF ActiveInv, StageInv
<1>5. CASE OnCancel
  <2>1. UNCHANGED <<session, activeSink, scanner, phase, sent, wpc, task>>
    BY <1>5 DEF OnCancel, probeVars, neighVars
  <2>2. \/ op = "relisten" /\ op' = "listen"
        \/ op = "cancel" /\ op' = "idle"
    BY <1>5 DEF OnCancel
  <2>3. \A s \in Sessions : Fresh(s)' <=> Fresh(s)
    BY <2>1, <2>2 DEF Fresh
  <2>4. StageInv'
    BY <2>1 DEF StageInv
  <2>5. CASE scanner = NoScan
    <3>1. UNCHANGED <<cancelled, jobRef, looper>>
      BY <1>5, <2>5 DEF OnCancel
    <3> QED
      BY <2>1, <2>2, <2>3, <2>4, <3>1, QuietKeepsDoneInv
      DEF FreshInv, ActiveInv, Over
  <2>6. CASE scanner # NoScan
    <3>1. /\ scanner \in Sessions /\ Post(scanner, Done)
          /\ cancelled' = [cancelled EXCEPT ![scanner] = @ \/ jobRef[scanner]]
          /\ jobRef' = [jobRef EXCEPT ![scanner] = FALSE]
      BY <1>t, <1>5, <2>6 DEF OnCancel, StopScanning, NoScan, Sessions
    <3>2. \A s \in Sessions : s # scanner =>
             cancelled'[s] = cancelled[s] /\ jobRef'[s] = jobRef[s]
      BY <1>t, <3>1, Zenon
    <3>3. ~Fresh(scanner) /\ activeSink # scanner
      BY <2>2, <2>6, <3>1 DEF FreshInv, ActiveInv, Fresh
    <3>4. DoneInv'
      BY <1>t, <2>1, <3>1, <3>3, PostKeepsDoneInv DEF Over
    <3>5. FreshInv'
      BY <1>t, <2>1, <2>3, <3>1, <3>2, <3>3, PostAddsNoOther DEF FreshInv
    <3>6. ActiveInv'
      BY <2>1, <2>2, <3>2, <3>3 DEF ActiveInv
    <3> QED BY <2>4, <3>4, <3>5, <3>6
  <2> QED BY <2>5, <2>6
<1>6. CASE OnListenWifi
  <2>1. UNCHANGED <<session, activeSink, looper, cancelled, sent, task>>
    BY <1>6 DEF OnListenWifi, neighVars
  <2>2. /\ op = "listen" /\ op' = "idle" /\ scanner' = session
        /\ session \in Sessions /\ Fresh(session)
    BY <1>6 DEF OnListenWifi, TypeInv, ListenHasSession, Fresh
  <2>3. /\ jobRef' = [jobRef EXCEPT ![session] = TRUE]
        /\ phase' = [phase EXCEPT ![session] = "probing"]
        /\ wpc' = [wpc EXCEPT ![session] = [w \in Workers |-> "check"]]
    BY <1>6 DEF OnListenWifi
  <2>4. \A s \in Sessions : Fresh(s)' => Fresh(s) /\ s # session
    BY <1>t, <2>1, <2>2 DEF Fresh, Sessions
  <2>5. FreshInv'
    BY <1>t, <2>1, <2>2, <2>3, <2>4 DEF FreshInv
  <2>6. ActiveInv'
    BY <2>1, <2>2 DEF ActiveInv
  <2>7. StageInv'
    BY <1>t, <2>1, <2>2, <2>3 DEF StageInv, FreshInv, TypeInv, TypeOK
  <2>8. phase[session] = "idle"
    BY <2>2 DEF FreshInv
  <2>9. DoneInv'
    BY <1>t, <2>1, <2>3, <2>8, QuietKeepsDoneInv DEF Over
  <2> QED BY <2>5, <2>6, <2>7, <2>9
<1>7. CASE OnListenNoWifi
  <2>1. UNCHANGED <<session, activeSink, scanner, jobRef, cancelled, sent, wpc,
                    task>>
    BY <1>7 DEF OnListenNoWifi, jobVars, probeVars, neighVars
  <2>2. /\ op = "listen" /\ op' = "idle" /\ Post(session, Done)
        /\ session \in Sessions /\ Fresh(session)
        /\ phase' = [phase EXCEPT ![session] = "nowifi"]
    BY <1>7 DEF OnListenNoWifi, TypeInv, ListenHasSession, Fresh
  <2>3. \A s \in Sessions : Fresh(s)' => Fresh(s) /\ s # session
    BY <1>t, <2>1, <2>2 DEF Fresh, Sessions
  <2>4. phase[session] = "idle"
    BY <2>2 DEF FreshInv
  <2>5. FreshInv'
    BY <1>t, <2>1, <2>2, <2>3, PostAddsNoOther DEF FreshInv
  <2>6. ActiveInv'
    BY <2>1, <2>2 DEF ActiveInv
  <2>7. StageInv'
    BY <1>t, <2>1, <2>2, <2>4 DEF StageInv
  <2>8. DoneInv'
    BY <1>t, <2>1, <2>2, <2>4, PostKeepsDoneInv DEF Over
  <2> QED BY <2>5, <2>6, <2>7, <2>8
<1>8. ASSUME NEW s \in Sessions, ScanStep(s)
      PROVE  FreshInv' /\ ActiveInv' /\ StageInv' /\ DoneInv'
  <2>1. /\ UNCHANGED <<session, activeSink, op, scanner, jobRef, cancelled, sent>>
        /\ phase[s] # "idle" /\ phase'[s] # "idle" /\ ~Over(s)
        /\ \A t \in Sessions : t # s => phase'[t] = phase[t]
        /\ \/ UNCHANGED looper
           \/ \E e \in Events : Post(s, e) /\ (e = Done => Over(s)')
    BY <1>8, ScanStepEffect DEF chanVars
  <2>2. ~Fresh(s) /\ \A t \in Sessions : Fresh(t)' <=> Fresh(t)
    BY <2>1 DEF FreshInv, Fresh
  <2>3. ActiveInv'
    BY <2>1 DEF ActiveInv
  <2>4. StageInv'
    BY <1>8, ScanStepStage
  <2>5. \A t \in Sessions : Over(t) => Over(t)'
    BY <2>1 DEF Over
  <2>6. CASE UNCHANGED looper
    <3>1. FreshInv'
      BY <2>1, <2>2, <2>6 DEF FreshInv
    <3> QED
      BY <2>1, <2>3, <2>4, <2>5, <2>6, <3>1, QuietKeepsDoneInv
  <2>7. ASSUME NEW e \in Events, Post(s, e), e = Done => Over(s)'
        PROVE  FreshInv' /\ DoneInv'
    <3>1. DoneInv'
      BY <2>1, <2>5, <2>7, PostKeepsDoneInv
    <3>2. FreshInv'
      BY <2>1, <2>2, <2>7, PostAddsNoOther DEF FreshInv
    <3> QED BY <3>1, <3>2
  <2> QED
    BY <2>1, <2>3, <2>4, <2>6, <2>7
<1> QED
  BY <1>1, <1>2, <1>3, <1>4, <1>5, <1>6, <1>7, <1>8
  DEF Next, Running, Terminating, HandlerStep

-----------------------------------------------------------------------------
(* The refinement: deliveries are reports and finishes of an open stream, the
   calls of Dart and the detach open and close streams, all else stutters. *)
LEMMA StreamInitMaps == Init => Stream!StreamInit
BY DEF Init, Stream!StreamInit, streamOf, Sessions

LEMMA DeliveryMaps ==
    ASSUME TypeInv, DoneInv, ActiveInv, LooperRun
    PROVE  [Stream!StreamNext]_Stream!svars
<1>t. /\ sent \in [Sessions -> Seq(Events)]
      /\ session \in 0..MaxSessions
  BY DEF TypeInv, TypeOK
<1>1. /\ 1 \in DOMAIN looper /\ Head(looper) = looper[1]
      /\ looper[1] \in [scan : Sessions, event : Events]
  BY RunPops
<1>2. UNCHANGED <<session, activeSink, attached>>
  BY DEF LooperRun, chanVars
<1>3. PICK a \in Sessions, e \in Events : looper[1].scan = a /\ looper[1].event = e
  BY <1>1
<1>4. CASE ~(attached /\ activeSink = a)
  <2>1. sent' = sent
    BY <1>1, <1>3, <1>4 DEF LooperRun
  <2> QED
    BY <1>2, <2>1 DEF Stream!svars, streamOf, DoneSent
<1>5. CASE attached /\ activeSink = a
  <2>1. sent' = [sent EXCEPT ![a] = Append(@, e)]
    BY <1>1, <1>3, <1>5 DEF LooperRun
  <2>2. ~DoneSent(a)
    BY <1>1, <1>3, <1>5 DEF DoneInv
  <2>3. streamOf[a] = "open"
    BY <1>t, <1>3, <1>5, <2>2 DEF streamOf, ActiveInv, NoScan, Sessions
  <2>4. \A s \in Sessions : s # a => (DoneSent(s)' <=> DoneSent(s))
    BY <1>t, <1>3, <2>1 DEF DoneSent
  <2>5. DoneSent(a)' <=> e = Done
    <3>1. sent[a] \in Seq(Events) /\ sent'[a] = Append(sent[a], e)
      BY <1>t, <2>1
    <3>2. /\ DOMAIN sent'[a] = DOMAIN sent[a] \cup {Len(sent[a]) + 1}
          /\ sent'[a][Len(sent[a]) + 1] = e
          /\ \A k \in DOMAIN sent[a] : sent'[a][k] = sent[a][k]
      BY <3>1
    <3> QED
      BY <2>2, <3>2 DEF DoneSent
  <2>6. CASE e = Done
    <3>1. streamOf' = [streamOf EXCEPT ![a] = "done"]
      <4>1. \A s \in Sessions : streamOf'[s] = IF s = a THEN "done" ELSE streamOf[s]
        BY <1>t, <1>2, <1>5, <2>3, <2>4, <2>5, <2>6 DEF streamOf
      <4> QED
        BY <4>1 DEF streamOf
    <3> QED
      BY <1>3, <2>1, <2>3, <2>6, <3>1 DEF Stream!StreamNext, Stream!Finish
  <2>7. CASE e # Done
    <3>1. \A s \in Sessions : DoneSent(s)' <=> DoneSent(s)
      BY <2>2, <2>4, <2>5, <2>7
    <3>2. streamOf' = streamOf
      BY <1>2, <3>1 DEF streamOf
    <3>3. e \in Addresses
      BY <1>3, <2>7 DEF Events
    <3> QED
      BY <1>3, <2>1, <2>3, <3>2, <3>3 DEF Stream!StreamNext, Stream!Report
  <2> QED BY <2>6, <2>7
<1> QED BY <1>4, <1>5

LEMMA StreamStepMaps ==
    TypeInv /\ StreamInv /\ [Next]_vars => [Stream!StreamNext]_Stream!svars
<1> SUFFICES ASSUME TypeInv, FreshInv, ActiveInv, StageInv, DoneInv, [Next]_vars
             PROVE  [Stream!StreamNext]_Stream!svars
  BY DEF StreamInv
<1>t. /\ session \in 0..MaxSessions /\ activeSink \in 0..MaxSessions
      /\ MaxSessions \in Nat
  BY ScanAssumption DEF TypeInv, TypeOK
<1>1. CASE Listen
  <2>1. /\ sent' = sent /\ attached' = attached /\ attached
        /\ session' = session + 1 /\ activeSink' = session + 1
        /\ session < MaxSessions
    BY <1>1 DEF Listen
  <2>2. PICK new \in Sessions : new = session + 1
    BY <1>t, <2>1 DEF Sessions
  <2>3. \A s \in Sessions : streamOf[s] = "unopened" <=> s > session
    BY DEF streamOf
  <2>4. sent[new] = <<>>
    BY <1>t, <2>2 DEF FreshInv, Fresh
  <2>5. ~DoneSent(new)'
    BY <2>1, <2>4 DEF DoneSent
  <2>6. streamOf' = [s \in Sessions |->
                       IF s = new THEN "open"
                       ELSE IF streamOf[s] = "unopened" THEN "unopened"
                       ELSE "closed"]
    <3>1. \A s \in Sessions :
             streamOf'[s] = IF s = new THEN "open"
                            ELSE IF streamOf[s] = "unopened" THEN "unopened"
                            ELSE "closed"
      BY <1>t, <2>1, <2>2, <2>3, <2>5 DEF streamOf, Sessions
    <3> QED
      BY <3>1 DEF streamOf
  <2>7. streamOf[new] = "unopened"
    BY <1>t, <2>2, <2>3
  <2> QED
    BY <2>1, <2>2, <2>6, <2>7 DEF Stream!StreamNext, Stream!Open
<1>2. CASE Cancel \/ Detach
  <2>1. /\ UNCHANGED <<session, sent>>
        /\ attached
        /\ activeSink' = NoScan \/ ~attached'
    BY <1>2 DEF Cancel, Detach
  <2>2. \A s \in Sessions : DoneSent(s)' <=> DoneSent(s)
    BY <2>1 DEF DoneSent
  <2>3. CASE activeSink = NoScan
    <3>1. streamOf' = streamOf
      BY <1>2, <2>1, <2>2, <2>3 DEF Cancel, Detach, streamOf, NoScan, Sessions
    <3> QED
      BY <2>1, <3>1 DEF Stream!svars
  <2>4. CASE activeSink # NoScan
    <3>1. PICK a \in Sessions : a = activeSink /\ a = session
      BY <1>t, <2>4 DEF NoScan, Sessions, ActiveInv
    <3>2. streamOf[a] \in {"open", "done"}
      BY <1>t, <2>1, <3>1 DEF streamOf
    <3>3. streamOf' = [streamOf EXCEPT ![a] = "closed"]
      <4>1. \A s \in Sessions :
               streamOf'[s] = IF s = a THEN "closed" ELSE streamOf[s]
        BY <1>t, <2>1, <2>2, <3>1 DEF streamOf, NoScan, Sessions
      <4> QED
        BY <4>1 DEF streamOf
    <3> QED
      BY <2>1, <3>1, <3>2, <3>3 DEF Stream!StreamNext, Stream!Close
  <2> QED BY <2>3, <2>4
<1>3. CASE LooperRun
  BY <1>3, DeliveryMaps
<1>4. ASSUME UNCHANGED <<session, activeSink, attached, sent>>
      PROVE  [Stream!StreamNext]_Stream!svars
  BY <1>4 DEF Stream!svars, streamOf, DoneSent
<1>5. CASE HandlerStep \/ UNCHANGED vars
  <2>1. UNCHANGED <<session, activeSink, attached, sent>>
    BY <1>5 DEF HandlerStep, OnCancel, OnListenWifi, OnListenNoWifi, vars, chanVars
  <2> QED BY <1>4, <2>1
<1>6. ASSUME NEW s \in Sessions, ScanStep(s)
      PROVE  [Stream!StreamNext]_Stream!svars
  <2>1. UNCHANGED <<session, activeSink, attached, sent>>
    BY <1>6, ScanStepEffect DEF chanVars
  <2> QED BY <1>4, <2>1
<1> QED
  BY <1>1, <1>2, <1>3, <1>5, <1>6 DEF Next, Running, Terminating

(* Whatever Dart does and however the scans are scheduled, each listener sees a
   well-formed stream: the null event once and last, nothing to a listener that
   was cancelled or replaced. *)
THEOREM AndroidImplementsStream == Spec => ImplementsScanStream
<1>1. Init => TypeInv /\ StreamInv
  BY TypeInit, StreamInit
<1>2. TypeInv /\ StreamInv /\ [Next]_vars => (TypeInv /\ StreamInv)'
  BY TypeStep, StreamStep
<1>3. Init => Stream!StreamInit
  BY StreamInitMaps
<1>4. TypeInv /\ StreamInv /\ [Next]_vars => [Stream!StreamNext]_Stream!svars
  BY StreamStepMaps
<1> QED
  BY <1>1, <1>2, <1>3, <1>4, PTL DEF Spec, ImplementsScanStream, Stream!StreamSpec

-----------------------------------------------------------------------------
(* A scan that was told to stop begins no probe and no resolution. *)
LEMMA NoNewWorkStep ==
    ASSUME TypeInv, [Next]_vars, NEW s \in Sessions, cancelled[s]
    PROVE  Probing(s)' \subseteq Probing(s) /\ Resolving(s)' \subseteq Resolving(s)
<1>t. /\ wpc \in [Sessions -> [Workers -> WPcs]]
      /\ task \in [Sessions -> [Neighbours -> Tasks]]
  BY DEF TypeInv, TypeOK
<1>1. CASE UNCHANGED <<wpc, task>>
  BY <1>1 DEF Probing, Resolving
<1>2. CASE OnListenWifi
  BY <1>t, <1>2 DEF OnListenWifi, neighVars, Probing, Resolving
<1>3. ASSUME NEW r \in Sessions, NEW w \in Workers, WorkerStep(r, w)
      PROVE  Probing(s)' \subseteq Probing(s) /\ Resolving(s)' \subseteq Resolving(s)
  <2>1. task' = task
    BY <1>3 DEF WorkerStep, CheckActive, Connect, Reachable, Unreachable,
       ProcessHost, PostHost, neighVars
  <2>2. \E pc \in WPcs :
           /\ wpc' = [wpc EXCEPT ![r][w] = pc]
           /\ r = s /\ pc \in {"probe", "resolve", "post"} =>
                 wpc[r][w] \in {"probe", "resolve", "post"}
    BY <1>3 DEF WorkerStep, CheckActive, KeepsProbing, Active, Connect,
       Reachable, Unreachable, ProcessHost, PostHost, WPcs
  <2> QED
    BY <1>t, <2>1, <2>2 DEF Probing, Resolving
<1>4. ASSUME NEW r \in Sessions, NEW n \in Neighbours, TaskStep(r, n)
      PROVE  Probing(s)' \subseteq Probing(s) /\ Resolving(s)' \subseteq Resolving(s)
  BY <1>t, <1>4 DEF TaskStep, StartTask, OnStart, PostTask, probeVars, Probing,
     Resolving
<1>5. ASSUME NEW r \in Sessions, NeighReturn(r)
      PROVE  Probing(s)' \subseteq Probing(s) /\ Resolving(s)' \subseteq Resolving(s)
  BY <1>t, <1>5 DEF NeighReturn, probeVars, Probing, Resolving
<1> QED
  BY <1>1, <1>2, <1>3, <1>4, <1>5
  DEF Next, Running, Terminating, HandlerStep, ScanStep, JobStep, Listen, Cancel,
      Detach, LooperRun, OnCancel, OnListenNoWifi, ProbeThrows, Timeout, JoinAll,
      AwaitAll, Finish, PostDone, NeighExit, vars, probeVars, neighVars

(* The action property of the runs, for every instance: cancellation is checked
   before every new host and every new child. *)
THEOREM StopBeginsNothing == Spec => NoNewWorkAfterStop
<1>1. TypeInv /\ [Next]_vars =>
        [\A s \in Sessions : cancelled[s] =>
            /\ Probing(s)' \subseteq Probing(s)
            /\ Resolving(s)' \subseteq Resolving(s)]_vars
  BY NoNewWorkStep
<1> QED
  BY <1>1, TypeInit, TypeStep, PTL DEF Spec, NoNewWorkAfterStop

-----------------------------------------------------------------------------
(* The stride of the probing coroutines (threadIndex until numberOfHosts step
   scanThreads): an index steps by how many they are, so that together they meet
   every host and no two the same one. *)

LEMMA Division ==
    ASSUME NEW T \in Nat, T > 0, NEW i \in Nat
    PROVE  /\ i % T \in 0..(T - 1) /\ i % T <= i
           /\ i \div T \in Int /\ i = (i % T) + T * (i \div T)
<1>1. i % T \in 0..(T - 1) /\ i \div T \in Int
  OBVIOUS
<1>2. i % T <= i
  OBVIOUS
<1>3. i = (i % T) + T * (i \div T)
  OBVIOUS
<1> QED  BY <1>1, <1>2, <1>3

LEMMA RemainderIs ==
    ASSUME NEW T \in Nat, T > 0, NEW i \in Nat, NEW q \in Int,
           NEW r \in 0..(T - 1), i = T * q + r
    PROVE  i % T = r
  OBVIOUS

LEMMA SmallMultiple ==
    ASSUME NEW T \in Nat, NEW d \in Int, -T < T * d, T * d < T
    PROVE  d = 0
<1>1. CASE d >= 1
  <2>1. T * d >= T
    BY <1>1
  <2> QED  BY <2>1
<1>2. CASE d <= -1
  <2>1. T * d <= -T
    BY <1>2
  <2> QED  BY <2>1
<1> QED  BY <1>1, <1>2

LEMMA SmallRemainder ==
    ASSUME NEW T \in Nat, T > 0, NEW i \in 0..(T - 1)
    PROVE  i % T = i
  OBVIOUS

LEMMA OneMore ==
    ASSUME NEW T \in Nat, NEW q \in Int, NEW r \in Int, NEW i \in Nat, i = r + T * q
    PROVE  i + T = T * (q + 1) + r
  OBVIOUS

LEMMA StepKeepsRemainder ==
    ASSUME NEW T \in Nat, T > 0, NEW i \in Nat
    PROVE  (i + T) % T = i % T
<1> DEFINE q == i \div T
           r == i % T
<1>1. i = r + T * q /\ q \in Int /\ r \in 0..(T - 1)
  BY Division
<1> HIDE DEF q, r
<1>2. i + T = T * (q + 1) + r
  BY <1>1, OneMore
<1>3. (i + T) % T = r
  BY <1>1, <1>2, RemainderIs
<1> QED  BY <1>3 DEF r

(* Between two indices of a loop there is none of its remainder. *)
LEMMA NoneSkipped ==
    ASSUME NEW T \in Nat, T > 0, NEW i \in Nat, NEW x \in Nat,
           i % T = x % T, x <= i, i < x + T
    PROVE  i = x
<1> DEFINE p == i \div T
           q == x \div T
<1>1. /\ i = (i % T) + T * p /\ x = (x % T) + T * q /\ p \in Int /\ q \in Int
      /\ i % T \in Nat
  BY Division
<1> HIDE DEF p, q
<1>2. T * (p - q) = T * p - T * q
  BY <1>1
<1>3. p - q \in Int /\ T * p \in Int /\ T * q \in Int /\ T * (p - q) = i - x
  BY <1>1, <1>2
<1>4. p - q = 0
  BY <1>3, SmallMultiple
<1> QED  BY <1>3, <1>4

-----------------------------------------------------------------------------
(* DoneMeansComplete, its first half: the coroutines meet every host of the
   subnet.  A coroutine's index keeps its remainder, and it has probed what is
   below; one that is done, of a scan that is active, is past the last host; and
   the scan goes on only when all are done. *)
StrideInv ==
    \A s \in Sessions : \A w \in Workers : windex[s][w] % ScanThreads = w
CoverInv ==
    \A s \in Sessions : \A i \in HostIndex :
        windex[s][i % ScanThreads] > i => i \in probed[s]
PastInv ==
    \A s \in Sessions : \A w \in Workers :
        wpc[s][w] = "done" /\ Active(s) => windex[s][w] >= NumHosts
JoinedInv ==
    \A s \in Sessions : phase[s] \in {"neigh", "resolving", "finish", "posting", "ended"} =>
        \A w \in Workers : wpc[s][w] = "done"
CoveredInv == StrideInv /\ CoverInv /\ PastInv /\ JoinedInv

LEMMA HostHasWorker ==
    ASSUME NEW i \in HostIndex
    PROVE  i \in Nat /\ ScanThreads > 0 /\ i % ScanThreads \in Workers
           /\ i % ScanThreads <= i
<1>1. i \in Nat /\ ScanThreads \in Nat /\ ScanThreads > 0
  BY ScanAssumption DEF HostIndex
<1> QED  BY <1>1, Division DEF Workers

LEMMA WorkerIsThread == ASSUME NEW w \in Workers PROVE ScanThreads \in Nat /\ ScanThreads > 0
  BY ScanAssumption DEF Workers

LEMMA CoveredInit == Init => CoveredInv
<1> SUFFICES ASSUME Init PROVE CoveredInv
  OBVIOUS
<1>1. StrideInv
  BY WorkerIsThread, SmallRemainder DEF Init, StrideInv, Workers
<1>2. CoverInv
  BY HostHasWorker DEF Init, CoverInv, Workers
<1>3. PastInv /\ JoinedInv
  BY DEF Init, PastInv, JoinedInv
<1> QED  BY <1>1, <1>2, <1>3 DEF CoveredInv

LEMMA ProbeCovers ==
    ASSUME TypeInv, StrideInv, CoverInv, NEW s \in Sessions, NEW w \in Workers,
           ProbeEnds(s, w, windex[s][w])
    PROVE  StrideInv' /\ CoverInv'
<1>1. ScanThreads \in Nat /\ ScanThreads > 0
  BY WorkerIsThread
<1>2. /\ windex \in [Sessions -> [Workers -> Nat]]
      /\ probed \in [Sessions -> SUBSET HostIndex]
  BY DEF TypeInv, TypeOK
<1>3. PICK x \in Nat : x = windex[s][w]
  BY <1>2
<1>4. /\ windex' = [windex EXCEPT ![s][w] = x + ScanThreads]
      /\ probed' = [probed EXCEPT ![s] = @ \cup {x}]
  BY <1>3 DEF ProbeEnds
<1>5. x % ScanThreads = w /\ (x + ScanThreads) % ScanThreads = w
  BY <1>1, <1>3, StepKeepsRemainder DEF StrideInv
<1>6. StrideInv'
  BY <1>2, <1>4, <1>5 DEF StrideInv
<1>7. ASSUME NEW r \in Sessions, NEW i \in HostIndex,
             windex'[r][i % ScanThreads] > i
      PROVE  i \in probed'[r]
  <2>1. i \in Nat /\ i % ScanThreads \in Workers
    BY HostHasWorker
  <2>2. CASE windex[r][i % ScanThreads] > i
    BY <1>2, <1>4, <2>2 DEF CoverInv
  <2>3. CASE ~(windex[r][i % ScanThreads] > i)
    <3>1. r = s /\ i % ScanThreads = w
      BY <1>2, <1>4, <1>7, <2>1, <2>3
    <3>2. x <= i /\ i < x + ScanThreads
      BY <1>1, <1>2, <1>3, <1>4, <1>7, <2>1, <2>3, <3>1
    <3>3. i = x
      BY <1>1, <1>5, <2>1, <3>1, <3>2, NoneSkipped
    <3> QED  BY <1>2, <1>4, <3>1, <3>3
  <2> QED  BY <2>2, <2>3
<1>8. CoverInv'
  BY <1>7 DEF CoverInv
<1> QED  BY <1>6, <1>8

(* What a coroutine's step changes. *)
LEMMA WorkerEffect ==
    ASSUME TypeInv, NEW s \in Sessions, NEW w \in Workers, WorkerStep(s, w)
    PROVE  /\ UNCHANGED <<jobVars, phase, task>>
           /\ wpc[s][w] \in {"check", "probe", "resolve", "post"}
           /\ \E pc \in WPcs : wpc' = [wpc EXCEPT ![s][w] = pc]
           /\ wpc'[s][w] = "done" /\ Active(s) => windex'[s][w] >= NumHosts
           /\ ProbeEnds(s, w, windex[s][w]) \/ UNCHANGED <<windex, probed>>
<1>t. /\ wpc \in [Sessions -> [Workers -> WPcs]]
      /\ windex \in [Sessions -> [Workers -> Nat]]
      /\ NumHosts \in Int
  BY ScanAssumption DEF TypeInv, TypeOK
<1>1. CASE CheckActive(s, w)
  <2>1. /\ wpc[s][w] = "check"
        /\ UNCHANGED <<windex, probed, jobVars, phase, task>>
    BY <1>1 DEF CheckActive, neighVars
  <2>2. CASE KeepsProbing(s, w)
    <3>1. wpc' = [wpc EXCEPT ![s][w] = "probe"]
      BY <1>1, <2>2 DEF CheckActive
    <3> QED  BY <1>t, <2>1, <3>1 DEF WPcs
  <2>3. CASE ~KeepsProbing(s, w)
    <3>1. wpc' = [wpc EXCEPT ![s][w] = "done"]
      BY <1>1, <2>3 DEF CheckActive
    <3>2. Active(s) => windex[s][w] >= NumHosts
      BY <1>t, <2>3 DEF KeepsProbing
    <3> QED  BY <1>t, <2>1, <3>1, <3>2 DEF WPcs
  <2> QED  BY <2>2, <2>3
<1>2. CASE Connect(s, w) \/ Unreachable(s, w) \/ PostHost(s, w)
  <2>1. /\ wpc[s][w] \in {"probe", "post"}
        /\ wpc' = [wpc EXCEPT ![s][w] = "check"]
        /\ ProbeEnds(s, w, windex[s][w])
        /\ UNCHANGED <<jobVars, phase, task>>
    BY <1>2 DEF Connect, Unreachable, PostHost, neighVars
  <2> QED  BY <1>t, <2>1 DEF WPcs
<1>3. CASE Reachable(s, w)
  <2>1. /\ wpc[s][w] = "probe"
        /\ wpc' = [wpc EXCEPT ![s][w] = "resolve"]
        /\ UNCHANGED <<windex, probed, jobVars, phase, task>>
    BY <1>3 DEF Reachable, neighVars
  <2> QED  BY <1>t, <2>1 DEF WPcs
<1>4. CASE ProcessHost(s, w)
  <2>1. /\ wpc[s][w] = "resolve"
        /\ UNCHANGED <<windex, probed, jobVars, phase, task>>
    BY <1>4 DEF ProcessHost, neighVars
  <2>2. \/ ~Active(s) /\ wpc' = [wpc EXCEPT ![s][w] = "done"]
        \/ wpc' = [wpc EXCEPT ![s][w] = "post"]
    BY <1>4 DEF ProcessHost
  <2> QED  BY <1>t, <2>1, <2>2 DEF WPcs
<1> QED  BY <1>1, <1>2, <1>3, <1>4 DEF WorkerStep

LEMMA WorkerKeepsCovered ==
    ASSUME TypeInv, StageInv, CoveredInv, NEW s \in Sessions, NEW w \in Workers,
           WorkerStep(s, w)
    PROVE  CoveredInv'
<1>t. /\ wpc \in [Sessions -> [Workers -> WPcs]]
      /\ windex \in [Sessions -> [Workers -> Nat]]
  BY DEF TypeInv, TypeOK
<1>1. /\ UNCHANGED <<cancelled, timedOut, phase>>
      /\ wpc[s][w] \in {"check", "probe", "resolve", "post"}
      /\ wpc'[s][w] = "done" /\ Active(s) => windex'[s][w] >= NumHosts
  BY WorkerEffect DEF jobVars
<1>2. PICK pc \in WPcs : wpc' = [wpc EXCEPT ![s][w] = pc]
  BY WorkerEffect
<1>3. ProbeEnds(s, w, windex[s][w]) \/ UNCHANGED <<windex, probed>>
  BY WorkerEffect
<1>4. StrideInv' /\ CoverInv'
  <2>1. CASE UNCHANGED <<windex, probed>>
    BY <2>1 DEF CoveredInv, StrideInv, CoverInv
  <2> QED  BY <1>3, <2>1, ProbeCovers DEF CoveredInv
<1>5. PastInv'
  <2>1. \A r \in Sessions : \A v \in Workers :
           r # s \/ v # w => windex'[r][v] = windex[r][v] /\ wpc'[r][v] = wpc[r][v]
    BY <1>t, <1>2, <1>3 DEF ProbeEnds
  <2>2. \A r \in Sessions : Active(r)' <=> Active(r)
    BY <1>1 DEF Active
  <2> QED  BY <1>1, <2>1, <2>2 DEF CoveredInv, PastInv
<1>6. JoinedInv'
  <2>1. phase[s] = "probing"
    BY <1>1 DEF StageInv
  <2> QED  BY <1>t, <1>1, <1>2, <2>1 DEF CoveredInv, JoinedInv
<1> QED  BY <1>4, <1>5, <1>6 DEF CoveredInv

(* What is not a coroutine's step and not a new scan. *)
LEMMA OthersKeepCovered ==
    ASSUME CoveredInv, JoinedInv', UNCHANGED <<wpc, windex, probed>>,
           \A s \in Sessions : Active(s)' => Active(s)
    PROVE  CoveredInv'
<1>1. StrideInv' /\ CoverInv'
  BY DEF CoveredInv, StrideInv, CoverInv
<1>2. PastInv'
  BY DEF CoveredInv, PastInv
<1> QED  BY <1>1, <1>2 DEF CoveredInv

LEMMA CoveredStep ==
    TypeInv /\ StreamInv /\ CoveredInv /\ [Next]_vars => CoveredInv'
<1> SUFFICES ASSUME TypeInv, StageInv, FreshInv, CoveredInv, [Next]_vars
             PROVE  CoveredInv'
  BY DEF StreamInv
<1>t. /\ phase \in [Sessions -> Phases]
      /\ wpc \in [Sessions -> [Workers -> WPcs]]
      /\ windex \in [Sessions -> [Workers -> Nat]]
      /\ cancelled \in [Sessions -> BOOLEAN]
      /\ timedOut \in [Sessions -> BOOLEAN]
      /\ scanner \in 0..MaxSessions
  BY DEF TypeInv, TypeOK
<1>1. CASE Listen \/ Cancel \/ Detach \/ LooperRun \/ UNCHANGED vars
  <2>1. UNCHANGED <<wpc, windex, probed, phase, cancelled, timedOut>>
    BY <1>1 DEF Listen, Cancel, Detach, LooperRun, vars, jobVars, probeVars
  <2> QED  BY <2>1, OthersKeepCovered DEF CoveredInv, JoinedInv, Active
<1>2. CASE OnCancel
  <2>1. UNCHANGED <<wpc, windex, probed, phase, timedOut>>
    BY <1>2 DEF OnCancel, probeVars
  <2>2. \A s \in Sessions : cancelled[s] => cancelled'[s]
    <3>1. CASE scanner = NoScan
      BY <1>2, <3>1 DEF OnCancel
    <3>2. CASE scanner # NoScan
      <4>1. cancelled' = [cancelled EXCEPT ![scanner] = @ \/ jobRef[scanner]]
        BY <1>2, <3>2 DEF OnCancel, StopScanning
      <4> QED  BY <1>t, <4>1, Zenon
    <3> QED  BY <3>1, <3>2
  <2> QED  BY <2>1, <2>2, OthersKeepCovered DEF CoveredInv, JoinedInv, Active
<1>3. CASE OnListenWifi
  <2>1. /\ UNCHANGED <<windex, probed, cancelled, timedOut>>
        /\ phase' = [phase EXCEPT ![session] = "probing"]
        /\ wpc' = [wpc EXCEPT ![session] = [w \in Workers |-> "check"]]
    BY <1>3 DEF OnListenWifi
  <2>2. StrideInv' /\ CoverInv'
    BY <2>1 DEF CoveredInv, StrideInv, CoverInv
  <2>3. PastInv' /\ JoinedInv'
    BY <1>t, <2>1 DEF CoveredInv, PastInv, JoinedInv, Active
  <2> QED  BY <2>2, <2>3 DEF CoveredInv
<1>4. CASE OnListenNoWifi
  <2>1. /\ UNCHANGED <<wpc, windex, probed, cancelled, timedOut>>
        /\ phase' = [phase EXCEPT ![session] = "nowifi"]
    BY <1>4 DEF OnListenNoWifi, jobVars, probeVars
  <2>2. JoinedInv'
    BY <1>t, <2>1 DEF CoveredInv, JoinedInv
  <2> QED  BY <2>1, <2>2, OthersKeepCovered DEF Active
<1>5. ASSUME NEW s \in Sessions, ScanStep(s) PROVE CoveredInv'
  <2>1. ASSUME NEW w \in Workers, WorkerStep(s, w) PROVE CoveredInv'
    BY <2>1, WorkerKeepsCovered
  <2>2. CASE NeighExit(s) \/ (\E w \in Workers : ProbeThrows(s, w))
             \/ (\E n \in Neighbours : TaskStep(s, n))
    <3>1. UNCHANGED <<wpc, windex, probed, phase, cancelled, timedOut>>
      BY <2>2 DEF NeighExit, ProbeThrows, TaskStep, StartTask, PostTask, jobVars,
         probeVars
    <3> QED  BY <3>1, OthersKeepCovered DEF CoveredInv, JoinedInv, Active
  <2>3. CASE Timeout(s)
    <3>1. /\ UNCHANGED <<wpc, windex, probed, phase, cancelled>>
          /\ timedOut' = [timedOut EXCEPT ![s] = TRUE]
      BY <2>3 DEF Timeout, probeVars
    <3>2. \A r \in Sessions : Active(r)' => Active(r)
      BY <1>t, <3>1 DEF Active
    <3> QED  BY <3>1, <3>2, OthersKeepCovered DEF CoveredInv, JoinedInv
  <2>4. CASE JobStep(s)
    <3>1. UNCHANGED <<wpc, windex, probed, cancelled, timedOut>>
      BY <2>4 DEF JobStep, JoinAll, NeighReturn, AwaitAll, Finish, PostDone, jobVars,
         probeVars
    <3>2. /\ \E p \in Phases : phase' = [phase EXCEPT ![s] = p]
          /\ \/ ProbesDone(s)
             \/ phase[s] \in {"neigh", "resolving", "finish", "posting"}
      BY <2>4 DEF JobStep, JoinAll, AfterProbes, NeighReturn, AwaitAll, Finish,
         PostDone, Phases
    <3>3. JoinedInv'
      BY <1>t, <3>1, <3>2 DEF CoveredInv, JoinedInv, ProbesDone
    <3> QED  BY <3>1, <3>3, OthersKeepCovered DEF Active
  <2> QED  BY <1>5, <2>1, <2>2, <2>3, <2>4 DEF ScanStep
<1> QED
  BY <1>1, <1>2, <1>3, <1>4, <1>5 DEF Next, Running, Terminating, HandlerStep

-----------------------------------------------------------------------------
(* Its second half: what a listener that is still there is to be told has been
   sent, or is on the looper, or is still in a coroutine's or a child's hands. *)
Queued(s, e) == \E k \in DOMAIN looper : looper[k].scan = s /\ looper[k].event = e
Told(s, e)   == WasSent(s, e) \/ Queued(s, e)

BlankInv ==
    \A s \in Sessions : Fresh(s) =>
        answered[s] = {} /\ \A n \in Neighbours : task[s][n] = "none"
HostsTold(s) ==
    \A i \in answered[s] :
        \/ Told(s, i)
        \/ /\ wpc[s][i % ScanThreads] \in {"resolve", "post"}
           /\ windex[s][i % ScanThreads] = i
EntriesTold(s) ==
    \A n \in Neighbours : task[s][n] = "done" => Told(s, n[1])
ToldInv ==
    \A s \in Sessions : activeSink = s /\ attached =>
        /\ Tiramisu /\ ~timedOut[s] => HostsTold(s)
        /\ EntriesTold(s)

LEMMA ToldInit == Init => BlankInv /\ ToldInv
<1> SUFFICES ASSUME Init PROVE BlankInv /\ ToldInv
  OBVIOUS
<1>1. BlankInv
  BY DEF Init, BlankInv
<1>2. \A s \in Sessions : activeSink # s
  BY DEF Init, NoScan, Sessions
<1> QED  BY <1>1, <1>2 DEF ToldInv

(* A post tells, and nothing that was told is forgotten. *)
LEMMA PostTells ==
    ASSUME TypeInv, NEW s \in Sessions, NEW e \in Events, Post(s, e), UNCHANGED sent
    PROVE  /\ Told(s, e)'
           /\ \A r \in Sessions : \A f : Told(r, f) => Told(r, f)'
<1>1. /\ DOMAIN looper' = DOMAIN looper \cup {Len(looper) + 1}
      /\ \A k \in DOMAIN looper : looper'[k] = looper[k]
      /\ looper'[Len(looper) + 1] = [scan |-> s, event |-> e]
  BY PostAppends
<1> QED  BY <1>1 DEF Told, Queued, WasSent

(* A delivery to the active listener sends what was queued. *)
LEMMA RunTells ==
    ASSUME TypeInv, LooperRun, NEW s \in Sessions, activeSink = s, attached,
           NEW f, Told(s, f)
    PROVE  Told(s, f)'
<1>t. sent \in [Sessions -> Seq(Events)]
  BY DEF TypeInv, TypeOK
<1> DEFINE Msg == [scan : Sessions, event : Events]
<1>1. looper \in Seq(Msg) /\ looper # <<>> /\ looper' = Tail(looper)
  BY DEF TypeInv, TypeOK, LooperRun
<1> HIDE DEF Msg
<1>2. /\ looper' \in Seq(Msg) /\ Len(looper') = Len(looper) - 1
      /\ \A i \in 1..Len(looper') : looper'[i] = looper[i + 1]
  BY <1>1, HeadTailProperties
<1>3. Len(looper) \in Nat /\ DOMAIN looper = 1..Len(looper)
      /\ DOMAIN looper' = 1..Len(looper')
  BY <1>1, <1>2
<1>4. Head(looper) = looper[1] /\ looper[1] \in Msg
  BY <1>1
<1>5. CASE WasSent(s, f)
  <2>1. \E k \in DOMAIN sent'[s] : sent'[s][k] = f
    BY <1>t, <1>4, <1>5 DEF LooperRun, WasSent, Msg
  <2> QED  BY <2>1 DEF Told, WasSent
<1>6. ASSUME NEW k \in DOMAIN looper, looper[k].scan = s, looper[k].event = f
      PROVE  Told(s, f)'
  <2>1. CASE k = 1
    <3>1. /\ sent'[s] = Append(sent[s], f) /\ f \in Events /\ sent[s] \in Seq(Events)
      BY <1>t, <1>4, <1>6, <2>1 DEF LooperRun, Msg
    <3>2. Len(sent[s]) + 1 \in DOMAIN sent'[s] /\ sent'[s][Len(sent[s]) + 1] = f
      BY <3>1
    <3> QED  BY <3>2 DEF Told, WasSent
  <2>2. CASE k # 1
    <3>1. k - 1 \in DOMAIN looper' /\ looper'[k - 1] = looper[k]
      BY <1>2, <1>3, <2>2
    <3> QED  BY <1>6, <3>1 DEF Told, Queued
  <2> QED  BY <2>1, <2>2
<1> QED  BY <1>5, <1>6 DEF Told, Queued

(* A coroutine on the reachability path. *)
LEMMA WorkerKeepsHostsTold ==
    ASSUME TypeInv, StrideInv, Tiramisu, NEW s \in Sessions, NEW w \in Workers,
           WorkerStep(s, w), NEW r \in Sessions, HostsTold(r), Active(r)
    PROVE  HostsTold(r)'
<1>t. /\ wpc \in [Sessions -> [Workers -> WPcs]]
      /\ windex \in [Sessions -> [Workers -> Nat]]
      /\ answered \in [Sessions -> SUBSET HostIndex]
  BY DEF TypeInv, TypeOK
<1>1. CASE CheckActive(s, w)
  <2>1. /\ UNCHANGED <<answered, looper, sent, windex>> /\ wpc[s][w] = "check"
        /\ \E pc \in {"probe", "done"} : wpc' = [wpc EXCEPT ![s][w] = pc]
    BY <1>1 DEF CheckActive
  <2> QED  BY <1>t, <2>1 DEF HostsTold, Told, WasSent, Queued
<1>2. CASE Unreachable(s, w)
  <2>1. /\ UNCHANGED <<answered, looper, sent>> /\ wpc[s][w] = "probe"
        /\ wpc' = [wpc EXCEPT ![s][w] = "check"]
        /\ \E x : windex' = [windex EXCEPT ![s][w] = x]
    BY <1>2 DEF Unreachable, ProbeEnds
  <2> QED  BY <1>t, <2>1 DEF HostsTold, Told, WasSent, Queued
<1>3. CASE Reachable(s, w)
  <2>1. /\ UNCHANGED <<looper, sent, windex>> /\ wpc[s][w] = "probe"
        /\ windex[s][w] % ScanThreads = w
        /\ answered' = [answered EXCEPT ![s] = @ \cup {windex[s][w]}]
        /\ wpc' = [wpc EXCEPT ![s][w] = "resolve"]
    BY <1>3 DEF Reachable, StrideInv
  <2> QED  BY <1>t, <2>1 DEF HostsTold, Told, WasSent, Queued
<1>4. CASE ProcessHost(s, w)
  <2>1. /\ UNCHANGED <<answered, looper, sent, windex>> /\ wpc[s][w] = "resolve"
        /\ \E pc \in {"post", "done"} :
              wpc' = [wpc EXCEPT ![s][w] = pc] /\ (Active(s) => pc = "post")
    BY <1>4 DEF ProcessHost
  <2> QED  BY <1>t, <2>1 DEF HostsTold, Told, WasSent, Queued
<1>5. CASE PostHost(s, w)
  <2>1. /\ UNCHANGED <<answered, sent>>
        /\ wpc' = [wpc EXCEPT ![s][w] = "check"]
        /\ \E x : windex' = [windex EXCEPT ![s][w] = x]
        /\ Post(s, windex[s][w])
        /\ windex[s][w] \in Events
    BY <1>5, ScanAssumption DEF PostHost, ProbeEnds, TypeInv, ProbeInRange, Events
  <2>2. PICK e \in Events : e = windex[s][w] /\ Post(s, e)
    BY <2>1
  <2>3. Told(s, e)' /\ \A q \in Sessions : \A f : Told(q, f) => Told(q, f)'
    BY <2>1, <2>2, PostTells
  <2> QED  BY <1>t, <2>1, <2>2, <2>3 DEF HostsTold
<1> QED
  BY <1>1, <1>2, <1>3, <1>4, <1>5 DEF WorkerStep, Connect

(* What leaves coroutines, children and their hosts alone. *)
LEMMA OthersKeepTold ==
    ASSUME ToldInv, UNCHANGED <<wpc, windex, answered, task>>,
           \A s \in Sessions : timedOut[s] => timedOut'[s],
           \A s \in Sessions : activeSink' = s /\ attached' => activeSink = s /\ attached,
           \A s \in Sessions : activeSink' = s /\ attached' =>
              \A f : Told(s, f) => Told(s, f)'
    PROVE  ToldInv'
  BY DEF ToldInv, HostsTold, EntriesTold

LEMMA ScanStepTold ==
    ASSUME TypeInv, StreamInv, StrideInv, ToldInv, NEW s \in Sessions, ScanStep(s)
    PROVE  ToldInv'
<1>t. /\ timedOut \in [Sessions -> BOOLEAN]
      /\ task \in [Sessions -> [Neighbours -> Tasks]]
  BY DEF TypeInv, TypeOK
<1>c. UNCHANGED <<session, activeSink, attached, op, cancelled, sent>>
  BY ScanStepEffect DEF chanVars, StreamInv
<1>l. \A r \in Sessions : \A f : Told(r, f) => Told(r, f)'
  <2>1. CASE UNCHANGED looper
    BY <1>c, <2>1 DEF Told, WasSent, Queued
  <2>2. ASSUME NEW e \in Events, Post(s, e)
        PROVE  \A r \in Sessions : \A f : Told(r, f) => Told(r, f)'
    BY <1>c, <2>2, PostTells
  <2> QED  BY <2>1, <2>2, ScanStepEffect DEF StreamInv
<1>a. \A r \in Sessions : activeSink = r => ~cancelled[r]
  BY DEF StreamInv, ActiveInv
<1>1. ASSUME NEW w \in Workers, WorkerStep(s, w) PROVE ToldInv'
  <2>1. UNCHANGED <<task, timedOut>>
    BY <1>1, WorkerEffect DEF jobVars
  <2>2. \A r \in Sessions : EntriesTold(r) => EntriesTold(r)'
    BY <1>l, <2>1 DEF EntriesTold
  <2>3. ASSUME NEW r \in Sessions, Tiramisu, activeSink = r, ~timedOut[r], HostsTold(r)
        PROVE  HostsTold(r)'
    BY <1>1, <1>a, <2>3, WorkerKeepsHostsTold DEF Active
  <2> QED  BY <1>c, <2>1, <2>2, <2>3 DEF ToldInv
<1>2. CASE NeighExit(s) \/ (\E w \in Workers : ProbeThrows(s, w)) \/ Timeout(s)
  <2>1. UNCHANGED <<wpc, windex, answered, task>>
    BY <1>2 DEF NeighExit, ProbeThrows, Timeout, probeVars, neighVars
  <2>2. \A r \in Sessions : timedOut[r] => timedOut'[r]
    BY <1>t, <1>2 DEF NeighExit, ProbeThrows, Timeout, jobVars
  <2> QED  BY <1>c, <1>l, <2>1, <2>2, OthersKeepTold
<1>3. CASE JoinAll(s) \/ AwaitAll(s) \/ Finish(s) \/ PostDone(s)
  <2>1. UNCHANGED <<wpc, windex, answered, task, timedOut>>
    BY <1>3 DEF JoinAll, AwaitAll, Finish, PostDone, jobVars, probeVars, neighVars
  <2> QED  BY <1>c, <1>l, <2>1, OthersKeepTold
<1>4. ASSUME UNCHANGED <<wpc, windex, answered, timedOut>>,
             \A r \in Sessions : activeSink = r =>
                 \A n \in Neighbours :
                     task'[r][n] = "done" => task[r][n] = "done" \/ Told(r, n[1])'
      PROVE  ToldInv'
  <2>1. ASSUME NEW r \in Sessions, activeSink = r, EntriesTold(r)
        PROVE  EntriesTold(r)'
    BY <1>l, <1>4, <2>1 DEF EntriesTold
  <2>2. \A r \in Sessions : HostsTold(r) => HostsTold(r)'
    BY <1>l, <1>4 DEF HostsTold
  <2> QED  BY <1>c, <1>4, <2>1, <2>2 DEF ToldInv
<1>5. CASE NeighReturn(s)
  <2>1. /\ UNCHANGED <<wpc, windex, answered, timedOut>>
        /\ \A r \in Sessions : \A n \in Neighbours :
              task'[r][n] = "done" => task[r][n] = "done"
    BY <1>t, <1>5 DEF NeighReturn, jobVars, probeVars
  <2> QED  BY <1>4, <2>1
<1>6. ASSUME NEW n \in Neighbours, StartTask(s, n) PROVE ToldInv'
  <2>1. /\ UNCHANGED <<wpc, windex, answered, timedOut>>
        /\ task' = [task EXCEPT ![s][n] = OnStart(s)]
    BY <1>6 DEF StartTask, jobVars, probeVars
  <2>2. activeSink = s => OnStart(s) = "resolving"
    BY <1>a DEF OnStart
  <2>3. \A r \in Sessions : activeSink = r =>
           \A m \in Neighbours : task'[r][m] = "done" => task[r][m] = "done"
    BY <1>t, <2>1, <2>2
  <2> QED  BY <1>4, <2>1, <2>3
<1>7. ASSUME NEW n \in Neighbours, PostTask(s, n) PROVE ToldInv'
  <2>1. /\ UNCHANGED <<wpc, windex, answered, timedOut>>
        /\ task' = [task EXCEPT ![s][n] = "done"]
        /\ Post(s, n[1]) /\ n[1] \in Events
    BY <1>7, ScanAssumption DEF PostTask, jobVars, probeVars, Events
  <2>2. Told(s, n[1])'
    BY <1>c, <2>1, PostTells
  <2>3. \A r \in Sessions : \A m \in Neighbours :
           task'[r][m] = "done" => task[r][m] = "done" \/ Told(r, m[1])'
    BY <1>t, <2>1, <2>2
  <2> QED  BY <1>4, <2>1, <2>3
<1> QED
  BY <1>1, <1>2, <1>3, <1>5, <1>6, <1>7 DEF ScanStep, JobStep, TaskStep

(* A scan's step leaves the others alone. *)
LEMMA ScanStepOwn ==
    ASSUME TypeInv, NEW s \in Sessions, ScanStep(s), NEW r \in Sessions, r # s
    PROVE  /\ answered'[r] = answered[r] /\ probed'[r] = probed[r]
           /\ timedOut'[r] = timedOut[r] /\ task'[r] = task[r]
<1>t. /\ timedOut \in [Sessions -> BOOLEAN]
      /\ task \in [Sessions -> [Neighbours -> Tasks]]
      /\ answered \in [Sessions -> SUBSET HostIndex]
      /\ probed \in [Sessions -> SUBSET HostIndex]
  BY DEF TypeInv, TypeOK
<1>1. ASSUME NEW w \in Workers, WorkerStep(s, w) \/ ProbeThrows(s, w)
      PROVE  /\ answered'[r] = answered[r] /\ probed'[r] = probed[r]
             /\ timedOut'[r] = timedOut[r] /\ task'[r] = task[r]
  BY <1>t, <1>1 DEF WorkerStep, CheckActive, Connect, Reachable, Unreachable,
     ProbeThrows, ProcessHost, PostHost, ProbeEnds, jobVars, probeVars, neighVars
<1>2. CASE Timeout(s) \/ NeighExit(s) \/ JoinAll(s) \/ AwaitAll(s) \/ Finish(s)
           \/ PostDone(s)
  BY <1>t, <1>2 DEF Timeout, NeighExit, JoinAll, AwaitAll, Finish, PostDone, jobVars,
     probeVars, neighVars
<1>3. CASE NeighReturn(s) \/ \E n \in Neighbours : TaskStep(s, n)
  BY <1>t, <1>3 DEF NeighReturn, TaskStep, StartTask, PostTask, jobVars, probeVars
<1> QED  BY <1>1, <1>2, <1>3 DEF ScanStep, JobStep

LEMMA BlankStep ==
    ASSUME TypeInv, StreamInv, BlankInv, [Next]_vars
    PROVE  BlankInv'
<1>t. session \in 0..MaxSessions /\ MaxSessions \in Nat
  BY ScanAssumption DEF TypeInv, TypeOK
<1>1. CASE Listen \/ Cancel \/ Detach \/ LooperRun \/ OnCancel \/ OnListenWifi
           \/ OnListenNoWifi \/ UNCHANGED vars
  <2>1. UNCHANGED <<answered, task>>
    BY <1>1 DEF Listen, Cancel, Detach, LooperRun, OnCancel, OnListenWifi,
       OnListenNoWifi, vars, probeVars, neighVars
  <2>2. \A s \in Sessions : Fresh(s)' => Fresh(s)
    BY <1>t, <1>1 DEF Listen, Cancel, Detach, LooperRun, OnCancel, OnListenWifi,
       OnListenNoWifi, vars, chanVars, Fresh, Sessions
  <2> QED  BY <2>1, <2>2 DEF BlankInv
<1>2. ASSUME NEW s \in Sessions, ScanStep(s) PROVE BlankInv'
  <2>1. UNCHANGED <<session, op>> /\ phase[s] # "idle"
    BY <1>2, ScanStepEffect DEF StreamInv, chanVars
  <2>2. ~Fresh(s) /\ \A r \in Sessions : Fresh(r)' <=> Fresh(r)
    BY <2>1 DEF StreamInv, FreshInv, Fresh
  <2> QED  BY <1>2, <2>2, ScanStepOwn DEF BlankInv
<1> QED  BY <1>1, <1>2 DEF Next, Running, Terminating, HandlerStep

LEMMA ToldStep ==
    ASSUME TypeInv, StreamInv, StrideInv, BlankInv, ToldInv, [Next]_vars
    PROVE  ToldInv'
<1>t. /\ session \in 0..MaxSessions /\ scanner \in 0..MaxSessions
      /\ wpc \in [Sessions -> [Workers -> WPcs]]
      /\ answered \in [Sessions -> SUBSET HostIndex]
      /\ Done \in Events
  BY DEF TypeInv, TypeOK, Events
<1>1. CASE Listen
  <2>1. /\ activeSink' = session + 1
        /\ UNCHANGED <<answered, task>>
    BY <1>1 DEF Listen, probeVars, neighVars
  <2>2. \A s \in Sessions : activeSink' = s =>
           answered'[s] = {} /\ \A n \in Neighbours : task'[s][n] = "none"
    BY <1>t, <2>1 DEF BlankInv, Fresh
  <2> QED  BY <2>2 DEF ToldInv, HostsTold, EntriesTold
<1>2. CASE Cancel \/ Detach
  <2>1. activeSink' = NoScan \/ ~attached'
    BY <1>2 DEF Cancel, Detach
  <2> QED  BY <2>1 DEF ToldInv, NoScan, Sessions
<1>3. CASE LooperRun
  <2>1. UNCHANGED <<wpc, windex, answered, task, timedOut, activeSink, attached>>
    BY <1>3 DEF LooperRun, chanVars, jobVars, probeVars, neighVars
  <2>2. \A s \in Sessions : activeSink' = s /\ attached' =>
           \A f : Told(s, f) => Told(s, f)'
    BY <1>3, <2>1, RunTells
  <2> QED  BY <2>1, <2>2, OthersKeepTold
<1>4. CASE OnCancel \/ OnListenNoWifi \/ UNCHANGED vars
  <2>1. UNCHANGED <<wpc, windex, answered, task, timedOut, activeSink, attached, sent>>
    BY <1>4 DEF OnCancel, OnListenNoWifi, vars, chanVars, jobVars, probeVars, neighVars
  <2>2. \/ UNCHANGED looper
        \/ \E s \in Sessions : Post(s, Done)
    BY <1>t, <1>4 DEF OnCancel, StopScanning, OnListenNoWifi, vars, NoScan, Sessions,
       TypeInv, ListenHasSession
  <2>3. \A s \in Sessions : \A f : Told(s, f) => Told(s, f)'
    <3>1. CASE UNCHANGED looper
      BY <2>1, <3>1 DEF Told, WasSent, Queued
    <3> QED  BY <1>t, <2>1, <2>2, <3>1, PostTells
  <2> QED  BY <2>1, <2>3, OthersKeepTold
<1>5. CASE OnListenWifi
  <2>1. /\ UNCHANGED <<session, windex, answered, task, timedOut, activeSink,
                       attached, sent, looper>>
        /\ wpc' = [wpc EXCEPT ![session] = [w \in Workers |-> "check"]]
        /\ session \in Sessions /\ Fresh(session)
    BY <1>5 DEF OnListenWifi, TypeInv, ListenHasSession, Fresh, neighVars
  <2>2. \A s \in Sessions : \A f : Told(s, f)' <=> Told(s, f)
    BY <2>1 DEF Told, WasSent, Queued
  <2>3. answered[session] = {}
    BY <2>1 DEF BlankInv
  <2>4. \A s \in Sessions : HostsTold(s) => HostsTold(s)'
    BY <1>t, <2>1, <2>2, <2>3 DEF HostsTold
  <2>5. \A s \in Sessions : EntriesTold(s) => EntriesTold(s)'
    BY <2>1, <2>2 DEF EntriesTold
  <2> QED  BY <2>1, <2>4, <2>5 DEF ToldInv
<1>6. ASSUME NEW s \in Sessions, ScanStep(s) PROVE ToldInv'
  BY <1>6, ScanStepTold
<1> QED
  BY <1>1, <1>2, <1>3, <1>4, <1>5, <1>6 DEF Next, Running, Terminating, HandlerStep

-----------------------------------------------------------------------------
(* DoneMeansComplete: when the null event is delivered everything is told and
   nothing is queued behind it; after that the scan changes nothing. *)
Complete(s) ==
    /\ phase[s] = "ended"
    /\ ~timedOut[s] => probed[s] = HostIndex
    /\ Tiramisu /\ ~timedOut[s] => \A i \in answered[s] : WasSent(s, i)
    /\ \A n \in Neighbours : task[s][n] # "none" => WasSent(s, n[1])

LEMMA SentStay ==
    ASSUME TypeInv, LooperRun
    PROVE  \A s \in Sessions : \A f : WasSent(s, f) => WasSent(s, f)'
<1>t. sent \in [Sessions -> Seq(Events)]
  BY DEF TypeInv, TypeOK
<1>1. looper[1] \in [scan : Sessions, event : Events] /\ Head(looper) = looper[1]
  BY RunPops
<1>2. CASE sent' = sent
  BY <1>2 DEF WasSent
<1>3. CASE sent' # sent
  <2>1. PICK a \in Sessions, e \in Events : sent' = [sent EXCEPT ![a] = Append(@, e)]
    BY <1>1, <1>3 DEF LooperRun
  <2>2. /\ sent'[a] = Append(sent[a], e) /\ sent[a] \in Seq(Events)
        /\ \A s \in Sessions : s # a => sent'[s] = sent[s]
    BY <1>t, <2>1
  <2>3. /\ DOMAIN sent'[a] = DOMAIN sent[a] \cup {Len(sent[a]) + 1}
        /\ \A k \in DOMAIN sent[a] : sent'[a][k] = sent[a][k]
    BY <2>2
  <2> QED  BY <2>2, <2>3 DEF WasSent
<1> QED  BY <1>2, <1>3

LEMMA DeliveredIsComplete ==
    ASSUME TypeInv, StreamInv, CoveredInv, ToldInv, LooperRun,
           NEW s \in Sessions, DoneSent(s)', ~DoneSent(s), phase[s] # "nowifi"
    PROVE  Complete(s)'
<1>t. /\ sent \in [Sessions -> Seq(Events)]
      /\ probed \in [Sessions -> SUBSET HostIndex]
      /\ answered \in [Sessions -> SUBSET HostIndex]
      /\ windex \in [Sessions -> [Workers -> Nat]]
      /\ task \in [Sessions -> [Neighbours -> Tasks]]
      /\ NumHosts \in Int /\ Done \notin Addresses /\ HostIndex \subseteq Addresses
      /\ \A n \in Neighbours : n[1] \in Addresses
  BY ScanAssumption DEF TypeInv, TypeOK
<1>u. UNCHANGED <<phase, timedOut, probed, answered, task, activeSink>>
  BY DEF LooperRun, chanVars, jobVars, probeVars, neighVars
<1>h. /\ 1 \in DOMAIN looper /\ Head(looper) = looper[1]
      /\ looper[1] \in [scan : Sessions, event : Events]
      /\ DOMAIN looper \subseteq Nat
  BY RunPops DEF TypeInv, TypeOK
<1>1. /\ looper[1].scan = s /\ activeSink = s /\ attached
      /\ sent'[s] = Append(sent[s], looper[1].event)
  <2>1. sent'[s] # sent[s]
    BY DEF DoneSent
  <2> QED  BY <1>t, <1>h, <2>1 DEF LooperRun
<1>2. looper[1].event = Done
  BY <1>t, <1>h, <1>1 DEF DoneSent
<1>3. Over(s) /\ \A j \in DOMAIN looper : j # 1 => looper[j].scan # s
  <2>1. /\ Over(s)
        /\ \A j \in DOMAIN looper : j > 1 => looper[j].scan # s
    BY <1>h, <1>1, <1>2 DEF StreamInv, DoneInv, DonePosted
  <2>2. \A j \in DOMAIN looper : j # 1 => j > 1
    BY DEF TypeInv, TypeOK
  <2> QED  BY <2>1, <2>2
<1>4. phase[s] = "ended" /\ ~cancelled[s]
  BY <1>1, <1>3 DEF Over, StreamInv, ActiveInv
<1>5. \A w \in Workers : wpc[s][w] = "done"
  BY <1>4 DEF CoveredInv, JoinedInv
<1>6. \A f \in Addresses : Told(s, f) => WasSent(s, f)'
  <2> SUFFICES ASSUME NEW f \in Addresses, Told(s, f) PROVE WasSent(s, f)'
    OBVIOUS
  <2>1. ~Queued(s, f)
    BY <1>t, <1>2, <1>3 DEF Queued
  <2>2. WasSent(s, f)
    BY <2>1 DEF Told
  <2> QED  BY <2>2, SentStay
<1>7. ASSUME ~timedOut[s] PROVE probed[s] = HostIndex
  <2>1. \A w \in Workers : windex[s][w] >= NumHosts
    BY <1>4, <1>5, <1>7 DEF CoveredInv, PastInv, Active
  <2>2. ASSUME NEW i \in HostIndex PROVE i \in probed[s]
    <3>1. i \in Nat /\ i % ScanThreads \in Workers
      BY HostHasWorker
    <3>2. windex[s][i % ScanThreads] > i
      BY <1>t, <2>1, <3>1 DEF HostIndex
    <3> QED  BY <3>2 DEF CoveredInv, CoverInv
  <2> QED  BY <1>t, <2>2
<1>8. ASSUME Tiramisu, ~timedOut[s], NEW i \in answered[s] PROVE WasSent(s, i)'
  <2>1. i \in HostIndex /\ i % ScanThreads \in Workers
    BY <1>t, HostHasWorker
  <2>2. Told(s, i)
    BY <1>1, <1>5, <1>8, <2>1 DEF ToldInv, HostsTold
  <2> QED  BY <1>t, <1>6, <2>1, <2>2
<1>9. ASSUME NEW n \in Neighbours, task[s][n] # "none" PROVE WasSent(s, n[1])'
  <2>1. task[s][n] = "done"
    BY <1>4, <1>9 DEF StreamInv, StageInv
  <2>2. Told(s, n[1])
    BY <1>1, <2>1 DEF ToldInv, EntriesTold
  <2> QED  BY <1>t, <1>6, <2>2
<1> QED  BY <1>u, <1>4, <1>7, <1>8, <1>9 DEF Complete

LEMMA CompleteStays ==
    ASSUME TypeInv, StreamInv, [Next]_vars, NEW s \in Sessions, Complete(s), ~Fresh(s)
    PROVE  Complete(s)'
<1>t. /\ sent \in [Sessions -> Seq(Events)]
      /\ phase \in [Sessions -> Phases]
  BY DEF TypeInv, TypeOK
<1>1. ASSUME phase'[s] = phase[s], timedOut'[s] = timedOut[s], probed'[s] = probed[s],
             answered'[s] = answered[s], task'[s] = task[s],
             \A f : WasSent(s, f) => WasSent(s, f)'
      PROVE  Complete(s)'
  BY <1>1 DEF Complete
<1>2. CASE Listen \/ Cancel \/ Detach \/ OnCancel \/ OnListenWifi \/ OnListenNoWifi
           \/ UNCHANGED vars
  <2>1. UNCHANGED <<timedOut, probed, answered, task, sent>>
    BY <1>2 DEF Listen, Cancel, Detach, OnCancel, OnListenWifi, OnListenNoWifi, vars,
       jobVars, probeVars, neighVars
  <2>2. phase'[s] = phase[s]
    BY <1>t, <1>2 DEF Listen, Cancel, Detach, OnCancel, OnListenWifi, OnListenNoWifi,
       vars, Fresh
  <2> QED  BY <1>1, <2>1, <2>2 DEF WasSent
<1>3. CASE LooperRun
  <2>1. UNCHANGED <<phase, timedOut, probed, answered, task>>
    BY <1>3 DEF LooperRun, jobVars, probeVars, neighVars
  <2> QED  BY <1>1, <1>3, <2>1, SentStay
<1>4. ASSUME NEW r \in Sessions, ScanStep(r) PROVE Complete(s)'
  <2>1. UNCHANGED sent /\ ~Over(r) /\ \A q \in Sessions : q # r => phase'[q] = phase[q]
    BY <1>4, ScanStepEffect DEF StreamInv
  <2>2. r # s
    BY <2>1 DEF Complete, Over
  <2> QED  BY <1>1, <1>4, <2>1, <2>2, ScanStepOwn DEF WasSent
<1> QED  BY <1>2, <1>3, <1>4 DEF Next, Running, Terminating, HandlerStep

LEMMA DoneMeansCompleteStep ==
    ASSUME TypeInv, StreamInv, CoveredInv, ToldInv, DoneMeansComplete, [Next]_vars
    PROVE  DoneMeansComplete'
<1> SUFFICES ASSUME NEW s \in Sessions, DoneSent(s)', phase'[s] # "nowifi"
             PROVE  Complete(s)'
  BY DEF DoneMeansComplete, Complete
<1>t. phase \in [Sessions -> Phases]
  BY DEF TypeInv, TypeOK
<1>1. CASE DoneSent(s)
  <2>1. ~Fresh(s)
    BY <1>1 DEF StreamInv, FreshInv, DoneSent
  <2>2. phase[s] # "nowifi"
    <3>1. ASSUME NEW r \in Sessions, ScanStep(r), phase[s] = "nowifi"
          PROVE  phase'[s] = "nowifi"
      BY <3>1, ScanStepEffect DEF StreamInv, Over
    <3>2. ASSUME HandlerStep, phase[s] = "nowifi" PROVE phase'[s] = "nowifi"
      BY <1>t, <2>1, <3>2 DEF HandlerStep, OnCancel, OnListenWifi, OnListenNoWifi, Fresh
    <3>3. ASSUME Listen \/ Cancel \/ Detach \/ LooperRun \/ UNCHANGED vars
          PROVE  phase' = phase
      BY <3>3 DEF Listen, Cancel, Detach, LooperRun, vars
    <3> QED  BY <3>1, <3>2, <3>3 DEF Next, Running, Terminating
  <2>3. Complete(s)
    BY <1>1, <2>2 DEF DoneMeansComplete, Complete
  <2> QED  BY <2>1, <2>3, CompleteStays
<1>2. CASE ~DoneSent(s)
  <2>1. LooperRun
    <3>1. sent' # sent
      BY <1>2 DEF DoneSent
    <3>2. \A r \in Sessions : ScanStep(r) => UNCHANGED sent
      BY ScanStepEffect DEF StreamInv
    <3> QED
      BY <3>1, <3>2 DEF Next, Running, Terminating, HandlerStep, Listen, Cancel, Detach,
         OnCancel, OnListenWifi, OnListenNoWifi, vars
  <2>2. phase[s] # "nowifi"
    BY <2>1 DEF LooperRun
  <2> QED  BY <1>2, <2>1, <2>2, DeliveredIsComplete
<1> QED  BY <1>1, <1>2

(* Dart is told that a scan is over only when it has been told everything: for any
   number of hosts, coroutines and entries, however Dart listens meanwhile. *)
THEOREM DoneIsComplete == Spec => []DoneMeansComplete
<1> DEFINE IInv == /\ TypeInv /\ StreamInv /\ CoveredInv /\ BlankInv /\ ToldInv
                   /\ DoneMeansComplete
<1>1. Init => DoneMeansComplete
  BY DEF Init, DoneMeansComplete, DoneSent
<1>2. Init => IInv
  BY <1>1, TypeInit, StreamInit, CoveredInit, ToldInit
<1>3. IInv /\ [Next]_vars => IInv'
  BY TypeStep, StreamStep, CoveredStep, BlankStep, ToldStep, DoneMeansCompleteStep
  DEF CoveredInv
<1> QED  BY <1>2, <1>3, PTL DEF Spec

-----------------------------------------------------------------------------
(* NoDuplicateHost: on the reachability path no entry is read, a host that was
   told is below the index of its coroutine, and no host is queued twice, or
   queued and sent. *)
PathInv == \A s \in Sessions : phase[s] \notin {"neigh", "resolving"}
BelowInv ==
    \A s \in Sessions : \A i \in Addresses : Told(s, i) =>
        i \in HostIndex /\ windex[s][i % ScanThreads] > i
QueuedOnce ==
    \A j, k \in DOMAIN looper :
        /\ looper[j].scan = looper[k].scan /\ looper[j].event = looper[k].event
        /\ looper[j].event # Done
        => j = k
NotSentYet ==
    \A s \in Sessions : \A e \in Addresses : Queued(s, e) => ~WasSent(s, e)
SentOnce ==
    \A s \in Sessions : \A j, k \in DOMAIN sent[s] : sent[s][j] = sent[s][k] => j = k
OnceInv == PathInv /\ BelowInv /\ QueuedOnce /\ NotSentYet /\ SentOnce

LEMMA OnceInit == Init => OnceInv
  BY DEF Init, OnceInv, PathInv, BelowInv, Told, WasSent, Queued, QueuedOnce,
     NotSentYet, SentOnce

(* A post of the null event, or of a host that was not told before. *)
LEMMA PostKeepsOnce ==
    ASSUME TypeInv, QueuedOnce, NotSentYet, SentOnce, UNCHANGED sent,
           NEW s \in Sessions, NEW e \in Events, Post(s, e), e # Done => ~Told(s, e)
    PROVE  /\ QueuedOnce' /\ NotSentYet' /\ SentOnce'
           /\ \A r \in Sessions : \A f :
                 Told(r, f)' => Told(r, f) \/ (r = s /\ f = e)
<1> DEFINE last == Len(looper) + 1
<1>1. /\ DOMAIN looper' = DOMAIN looper \cup {last}
      /\ \A k \in DOMAIN looper : k < last /\ looper'[k] = looper[k]
      /\ looper'[last] = [scan |-> s, event |-> e]
  BY PostAppends
<1> HIDE DEF last
<1>2. QueuedOnce'
  <2> SUFFICES ASSUME NEW j \in DOMAIN looper', NEW k \in DOMAIN looper',
                      looper'[j].scan = looper'[k].scan,
                      looper'[j].event = looper'[k].event, looper'[j].event # Done
               PROVE  j = k
    BY DEF QueuedOnce
  <2>1. CASE j \in DOMAIN looper /\ k \in DOMAIN looper
    BY <1>1, <2>1 DEF QueuedOnce
  <2>2. CASE j = last /\ k \in DOMAIN looper
    BY <1>1, <2>2 DEF Told, Queued
  <2>3. CASE j \in DOMAIN looper /\ k = last
    BY <1>1, <2>3 DEF Told, Queued
  <2> QED  BY <1>1, <2>1, <2>2, <2>3
<1>3. NotSentYet'
  <2> SUFFICES ASSUME NEW r \in Sessions, NEW f \in Addresses, Queued(r, f)'
               PROVE  ~WasSent(r, f)'
    BY DEF NotSentYet
  <2>1. WasSent(r, f)' <=> WasSent(r, f)
    BY DEF WasSent
  <2>2. Queued(r, f) \/ (r = s /\ f = e)
    BY <1>1 DEF Queued
  <2> QED  BY <2>1, <2>2, ScanAssumption DEF NotSentYet, Told
<1>4. SentOnce'
  BY DEF SentOnce
<1>5. ASSUME NEW r \in Sessions, NEW f, Told(r, f)'
      PROVE  Told(r, f) \/ (r = s /\ f = e)
  BY <1>1, <1>5 DEF Told, Queued, WasSent
<1> QED  BY <1>2, <1>3, <1>4, <1>5

LEMMA RunKeepsOnce ==
    ASSUME TypeInv, DoneInv, QueuedOnce, NotSentYet, SentOnce, LooperRun
    PROVE  /\ QueuedOnce' /\ NotSentYet' /\ SentOnce'
           /\ \A r \in Sessions : \A f : Told(r, f)' => Told(r, f)
<1>t. /\ sent \in [Sessions -> Seq(Events)]
      /\ looper \in Seq([scan : Sessions, event : Events])
  BY DEF TypeInv, TypeOK
<1>1. /\ 1 \in DOMAIN looper /\ Head(looper) = looper[1]
      /\ looper[1] \in [scan : Sessions, event : Events]
      /\ DOMAIN looper' \subseteq Nat \ {0}
      /\ \A k \in DOMAIN looper' : k + 1 \in DOMAIN looper
                                  /\ looper'[k] = looper[k + 1]
  BY RunPops
<1>2. PICK a \in Sessions, e \in Events :
         looper[1].scan = a /\ looper[1].event = e /\ looper[1] = [scan |-> a, event |-> e]
  BY <1>1
<1>3. /\ \A r \in Sessions : r # a => sent'[r] = sent[r]
      /\ \/ sent'[a] = sent[a]
         \/ sent'[a] = Append(sent[a], e) /\ activeSink = a
  BY <1>t, <1>1, <1>2 DEF LooperRun
<1>4. /\ DOMAIN sent'[a] \subseteq DOMAIN sent[a] \cup {Len(sent[a]) + 1}
      /\ \A k \in DOMAIN sent[a] : sent'[a][k] = sent[a][k]
      /\ Len(sent[a]) + 1 \in DOMAIN sent'[a] =>
            sent'[a][Len(sent[a]) + 1] = e /\ activeSink = a
      /\ Len(sent[a]) + 1 \notin DOMAIN sent[a]
  <2>1. sent[a] \in Seq(Events)
    BY <1>t
  <2> QED  BY <1>3, <2>1
<1>5. \A r \in Sessions : \A f :
         WasSent(r, f)' => WasSent(r, f) \/ (r = a /\ f = e)
  BY <1>3, <1>4 DEF WasSent
<1>6. QueuedOnce'
  <2> SUFFICES ASSUME NEW j \in DOMAIN looper', NEW k \in DOMAIN looper',
                      looper'[j].scan = looper'[k].scan,
                      looper'[j].event = looper'[k].event, looper'[j].event # Done
               PROVE  j = k
    BY DEF QueuedOnce
  <2>1. j + 1 = k + 1
    BY <1>1 DEF QueuedOnce
  <2> QED  BY <1>1, <2>1
<1>7. NotSentYet'
  <2> SUFFICES ASSUME NEW r \in Sessions, NEW f \in Addresses, Queued(r, f)'
               PROVE  ~WasSent(r, f)'
    BY DEF NotSentYet
  <2>1. PICK j \in DOMAIN looper : j # 1 /\ looper[j].scan = r /\ looper[j].event = f
    BY <1>1 DEF Queued
  <2>2. f # Done
    BY ScanAssumption
  <2>3. ~WasSent(r, f)
    BY <2>1 DEF NotSentYet, Queued
  <2>4. ~(r = a /\ f = e)
    BY <1>1, <1>2, <2>1, <2>2 DEF QueuedOnce
  <2> QED  BY <1>5, <2>3, <2>4
<1>8. SentOnce'
  <2>1. Len(sent[a]) + 1 \in DOMAIN sent'[a] => ~WasSent(a, e)
    <3>1. e # Done => ~WasSent(a, e)
      BY <1>1, <1>2 DEF NotSentYet, Queued, Events
    <3>2. activeSink = a /\ e = Done => ~DoneSent(a)
      BY <1>1, <1>2 DEF DoneInv, DonePosted
    <3> QED  BY <1>4, <3>1, <3>2 DEF WasSent, DoneSent
  <2>2. ASSUME NEW j \in DOMAIN sent'[a], NEW k \in DOMAIN sent'[a],
               sent'[a][j] = sent'[a][k]
        PROVE  j = k
    BY <1>4, <2>1, <2>2 DEF SentOnce, WasSent
  <2> QED  BY <1>3, <2>2 DEF SentOnce
<1>9. ASSUME NEW r \in Sessions, NEW f, Told(r, f)' PROVE Told(r, f)
  <2>1. CASE WasSent(r, f)'
    <3>1. WasSent(r, f) \/ (r = a /\ f = e)
      BY <1>5, <2>1
    <3> QED  BY <1>1, <1>2, <3>1 DEF Told, Queued
  <2>2. CASE Queued(r, f)'
    BY <1>1, <2>2 DEF Told, Queued
  <2> QED  BY <1>9, <2>1, <2>2 DEF Told
<1> QED  BY <1>6, <1>7, <1>8, <1>9

LEMMA OnceStep ==
    ASSUME Tiramisu, TypeInv, StreamInv, StrideInv, OnceInv, [Next]_vars
    PROVE  OnceInv'
<1>t. /\ phase \in [Sessions -> Phases]
      /\ windex \in [Sessions -> [Workers -> Nat]]
      /\ scanner \in 0..MaxSessions
      /\ Done \in Events /\ Done \notin Addresses /\ HostIndex \subseteq Addresses
      /\ ScanThreads \in Nat
  BY ScanAssumption DEF TypeInv, TypeOK, Events
<1>i. /\ PathInv /\ BelowInv /\ QueuedOnce /\ NotSentYet /\ SentOnce
      /\ FreshInv /\ StageInv /\ DoneInv
  BY DEF OnceInv, StreamInv
(* What posts the null event or nothing, and moves no index. *)
<1>1. ASSUME UNCHANGED <<windex, sent>>, PathInv',
             UNCHANGED looper \/ \E s \in Sessions : Post(s, Done)
      PROVE  OnceInv'
  <2>1. CASE UNCHANGED looper
    BY <1>i, <1>1, <2>1 DEF OnceInv, BelowInv, QueuedOnce, NotSentYet, SentOnce, Told,
       Queued, WasSent
  <2>2. ASSUME NEW s \in Sessions, Post(s, Done) PROVE OnceInv'
    <3>1. /\ QueuedOnce' /\ NotSentYet' /\ SentOnce'
          /\ \A r \in Sessions : \A f :
                Told(r, f)' => Told(r, f) \/ (r = s /\ f = Done)
      BY <1>t, <1>i, <1>1, <2>2, PostKeepsOnce
    <3>2. BelowInv'
      BY <1>t, <1>i, <1>1, <3>1 DEF BelowInv
    <3> QED  BY <1>1, <3>1, <3>2 DEF OnceInv
  <2> QED  BY <1>1, <2>1, <2>2
<1>2. CASE Listen \/ Cancel \/ Detach \/ HandlerStep \/ UNCHANGED vars
  <2>1. UNCHANGED <<windex, sent>>
    BY <1>2 DEF Listen, Cancel, Detach, HandlerStep, OnCancel, OnListenWifi,
       OnListenNoWifi, vars, probeVars
  <2>2. PathInv'
    BY <1>t, <1>i, <1>2 DEF Listen, Cancel, Detach, HandlerStep, OnCancel, OnListenWifi,
       OnListenNoWifi, vars, PathInv
  <2>3. UNCHANGED looper \/ \E s \in Sessions : Post(s, Done)
    BY <1>t, <1>2 DEF Listen, Cancel, Detach, HandlerStep, OnCancel, StopScanning,
       OnListenWifi, OnListenNoWifi, vars, NoScan, Sessions, TypeInv, ListenHasSession
  <2> QED  BY <1>1, <2>1, <2>2, <2>3
<1>3. CASE LooperRun
  <2>1. UNCHANGED <<windex, phase>>
    BY <1>3 DEF LooperRun, probeVars
  <2>2. /\ QueuedOnce' /\ NotSentYet' /\ SentOnce'
        /\ \A r \in Sessions : \A f : Told(r, f)' => Told(r, f)
    BY <1>i, <1>3, RunKeepsOnce
  <2>3. BelowInv' /\ PathInv'
    BY <1>i, <2>1, <2>2 DEF BelowInv, PathInv
  <2> QED  BY <2>2, <2>3 DEF OnceInv
<1>4. ASSUME NEW s \in Sessions, ScanStep(s) PROVE OnceInv'
  <2>1. UNCHANGED sent
    BY <1>i, <1>4, ScanStepEffect
  <2>2. ASSUME NEW w \in Workers, WorkerStep(s, w) PROVE OnceInv'
    <3>1. UNCHANGED phase /\ PathInv'
      BY <1>i, <2>2, WorkerEffect DEF PathInv
    <3>2. ASSUME NEW r \in Sessions, NEW i \in HostIndex, windex[r][i % ScanThreads] > i
          PROVE  windex'[r][i % ScanThreads] > i
      <4>1. PICK v \in Workers : v = i % ScanThreads
        BY HostHasWorker
      <4>2. PICK x \in Nat : x = windex[r][v]
        BY <1>t
      <4>3. windex'[r][v] = x \/ windex'[r][v] = x + ScanThreads
        <5>1. ProbeEnds(s, w, windex[s][w]) \/ UNCHANGED windex
          BY <2>2, WorkerEffect
        <5> QED  BY <1>t, <4>2, <5>1 DEF ProbeEnds
      <4>4. x > i /\ i \in Nat
        BY <3>2, <4>1, <4>2, HostHasWorker
      <4> QED  BY <1>t, <4>1, <4>3, <4>4
    <3>3. \A i \in HostIndex : i \in Nat /\ i % ScanThreads \in Workers
      BY HostHasWorker
    <3>4. CASE ~PostHost(s, w)
      <4>1. UNCHANGED looper
        BY <2>2, <3>4 DEF WorkerStep, CheckActive, Connect, Reachable, Unreachable,
           ProcessHost
      <4>2. QueuedOnce' /\ NotSentYet' /\ SentOnce'
        BY <1>i, <2>1, <4>1 DEF QueuedOnce, NotSentYet, SentOnce, Queued, WasSent
      <4>3. BelowInv'
        <5>1. \A r \in Sessions : \A i : Told(r, i)' => Told(r, i)
          BY <2>1, <4>1 DEF Told, Queued, WasSent
        <5> QED  BY <1>i, <3>2, <5>1 DEF BelowInv
      <4> QED  BY <3>1, <4>2, <4>3 DEF OnceInv
    <3>5. CASE PostHost(s, w)
      <4>1. /\ Post(s, windex[s][w]) /\ windex[s][w] \in HostIndex
            /\ windex' = [windex EXCEPT ![s][w] = windex[s][w] + ScanThreads]
            /\ windex[s][w] % ScanThreads = w
        BY <3>5 DEF PostHost, ProbeEnds, TypeInv, ProbeInRange, StrideInv
      <4>2. PICK e \in HostIndex : e = windex[s][w]
        BY <4>1
      <4>3. /\ Post(s, e) /\ e \in Addresses /\ e \in Events /\ e \in Nat
            /\ windex[s][e % ScanThreads] = e /\ e % ScanThreads = w
        BY <1>t, <3>3, <4>1, <4>2 DEF Events
      <4>4. ~Told(s, e)
        BY <1>i, <4>3 DEF BelowInv
      <4>5. /\ QueuedOnce' /\ NotSentYet' /\ SentOnce'
            /\ \A r \in Sessions : \A f : Told(r, f)' => Told(r, f) \/ (r = s /\ f = e)
        BY <1>i, <2>1, <4>3, <4>4, PostKeepsOnce
      <4>6. windex'[s][e % ScanThreads] > e
        <5>1. windex'[s][w] = e + ScanThreads /\ ScanThreads > 0
          BY <1>t, <4>1, <4>2, WorkerIsThread
        <5> QED  BY <1>t, <4>3, <5>1
      <4>7. BelowInv'
        BY <1>i, <3>2, <4>2, <4>5, <4>6 DEF BelowInv
      <4> QED  BY <3>1, <4>5, <4>7 DEF OnceInv
    <3> QED  BY <3>4, <3>5
  <2>3. CASE Timeout(s) \/ NeighExit(s) \/ (\E w \in Workers : ProbeThrows(s, w))
             \/ JobStep(s)
    <3>1. UNCHANGED windex
      BY <2>3 DEF Timeout, NeighExit, ProbeThrows, JobStep, JoinAll, NeighReturn,
         AwaitAll, Finish, PostDone, probeVars
    <3>2. PathInv'
      BY <1>t, <1>i, <2>3 DEF Timeout, NeighExit, ProbeThrows, JobStep, JoinAll,
         AfterProbes, NeighReturn, AwaitAll, Finish, PostDone, PathInv
    <3>3. UNCHANGED looper \/ Post(s, Done)
      BY <2>3 DEF Timeout, NeighExit, ProbeThrows, JobStep, JoinAll, NeighReturn,
         AwaitAll, Finish, PostDone
    <3> QED  BY <1>1, <2>1, <3>1, <3>2, <3>3
  <2>4. ASSUME NEW n \in Neighbours, TaskStep(s, n) PROVE OnceInv'
    <3>1. task[s][n] \in {"none", "done"}
      BY <1>i DEF PathInv, StageInv
    <3> QED  BY <2>4, <3>1 DEF TaskStep, StartTask, PostTask
  <2> QED  BY <1>4, <2>2, <2>3, <2>4 DEF ScanStep
<1> QED  BY <1>2, <1>3, <1>4 DEF Next, Running, Terminating

(* On the reachability path no host is reported twice in one scan, whatever the
   size of the subnet and the number of coroutines. *)
THEOREM HostsAreReportedOnce == Spec => []NoDuplicateHost
<1> DEFINE IInv == /\ TypeInv /\ StreamInv /\ CoveredInv
                   /\ Tiramisu => OnceInv
<1>1. Init => IInv
  BY TypeInit, StreamInit, CoveredInit, OnceInit
<1>2. IInv /\ [Next]_vars => IInv'
  BY TypeStep, StreamStep, CoveredStep, OnceStep DEF CoveredInv
<1>3. IInv => NoDuplicateHost
  BY DEF OnceInv, SentOnce, NoDuplicateHost
<1> QED  BY <1>1, <1>2, <1>3, PTL DEF Spec
=============================================================================
