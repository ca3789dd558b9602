------------------------------- MODULE IosScan -------------------------------
(***************************************************************************)
(* The iOS scan: LanDeviceHandler on the event channel's serial background *)
(* queue, and for each LanDeviceScanner the Task of startScanning with its *)
(* task group of pinging children.  The field scanningTask is written by   *)
(* the handler's queue and by the Task's own body without a lock, so each  *)
(* read and each write of it is a step.  Posts go to the main queue, which *)
(* is first in, first out, and a FlutterEventSink sends whatever it is     *)
(* given: the order of the posts is the order of the events on the channel.*)
(* A ping may resume its continuation twice (module PingHelper), which is  *)
(* undefined behaviour, or wait in ip2mac for a message that never comes   *)
(* (module MacFinder), with a thread of Swift's cooperative pool.          *)
(***************************************************************************)
EXTENDS Integers, FiniteSets, Sequences

CONSTANTS
    MaxSessions,     \* bound: how often Dart listens
    NumHosts,        \* numberOfHosts
    ScanThreads,     \* concurrentThreads, the children of the task group
    PoolSize,        \* the threads that run Swift's Tasks
    BodyNull,        \* the null event the Task's body posts
    StopNull         \* the null event stopScanning posts

Sessions  == 1..MaxSessions
Workers   == 0..(ScanThreads - 1)
HostIndex == 0..(NumHosts - 1)
NoScan    == 0

ASSUME IosAssumption ==
    /\ MaxSessions \in Nat
    /\ NumHosts \in Int
    /\ ScanThreads \in Nat
    /\ ScanThreads = 0 => NumHosts <= 0
    /\ PoolSize \in Nat \ {0}
    /\ BodyNull # StopNull
    /\ BodyNull \notin HostIndex /\ StopNull \notin HostIndex

VARIABLES
    session,     \* the number of listen calls so far
    listening,   \* FlutterEventChannel holds a current sink
    op,          \* where the background queue is in the call it executes
    scanner,     \* LanDeviceHandler.lanDeviceScanner, by its session
    taskRef,     \* scanningTask is not nil
    cancelled,   \* the Task has been cancelled
    phase,       \* where the Task's body is
    wpc, windex, \* where each child is, and its loop index
    posted,      \* posted[s]: what scan s has put on the main queue
    probed,      \* history: the indices whose ping has ended
    answered,    \* history: those of them that answered
    outran,      \* history: the body read scanningTask before it was set
    undefined    \* a continuation has been resumed twice

handlerVars == <<session, listening, op, scanner>>
childVars   == <<wpc, windex, probed, answered>>
scanVars == <<handlerVars, taskRef, cancelled, phase, childVars, posted, outran>>
vars == <<scanVars, undefined>>

Ops    == {"idle", "relisten", "restop", "reclear", "listen", "assign",
           "cancel", "stop", "clear"}
Phases == {"idle", "nowifi", "probing", "closing", "posting", "ended"}
WPcs   == {"idle", "check", "ping", "stuck", "resolve", "done"}
Events == HostIndex \cup {BodyNull, StopNull}

Init ==
    /\ session = 0
    /\ listening = FALSE
    /\ op = "idle"
    /\ scanner = NoScan
    /\ taskRef = [s \in Sessions |-> FALSE]
    /\ cancelled = [s \in Sessions |-> FALSE]
    /\ phase = [s \in Sessions |-> "idle"]
    /\ wpc = [s \in Sessions |-> [w \in Workers |-> "idle"]]
    /\ windex = [s \in Sessions |-> [w \in Workers |-> w]]
    /\ posted = [s \in Sessions |-> <<>>]
    /\ probed = [s \in Sessions |-> {}]
    /\ answered = [s \in Sessions |-> {}]
    /\ outran = [s \in Sessions |-> FALSE]
    /\ undefined = FALSE

Post(s, e) == posted' = [posted EXCEPT ![s] = Append(@, e)]

-----------------------------------------------------------------------------
(* FlutterEventChannel (external): a listen while a sink is current calls
   onCancel before onListen. *)
Listen ==
    /\ op = "idle" /\ session < MaxSessions
    /\ session' = session + 1
    /\ listening' = TRUE
    /\ op' = IF listening THEN "relisten" ELSE "listen"
    /\ UNCHANGED <<scanner, taskRef, cancelled, phase, childVars, posted, outran>>

Cancel ==
    /\ op = "idle" /\ listening
    /\ listening' = FALSE
    /\ op' = "cancel"
    /\ UNCHANGED <<session, scanner, taskRef, cancelled, phase, childVars,
                   posted, outran>>

(* onCancel and stopScanning's test of scanningTask *)
OnCancel ==
    /\ op \in {"relisten", "cancel"}
    /\ op' = LET stops == scanner # NoScan /\ taskRef[scanner]
             IN IF op = "relisten" THEN IF stops THEN "restop" ELSE "listen"
                                   ELSE IF stops THEN "stop" ELSE "idle"
    /\ UNCHANGED <<session, listening, scanner, taskRef, cancelled, phase,
                   childVars, posted, outran>>

(* scanningTask?.cancel(): nothing if the body has cleared it meanwhile *)
StopCancel ==
    /\ op \in {"restop", "stop"}
    /\ op' = IF op = "restop" THEN "reclear" ELSE "clear"
    /\ cancelled' = [cancelled EXCEPT ![scanner] = @ \/ taskRef[scanner]]
    /\ UNCHANGED <<session, listening, scanner, taskRef, phase, childVars,
                   posted, outran>>

(* scanningTask = nil, and the null event *)
StopClear ==
    /\ op \in {"reclear", "clear"}
    /\ op' = IF op = "reclear" THEN "listen" ELSE "idle"
    /\ taskRef' = [taskRef EXCEPT ![scanner] = FALSE]
    /\ Post(scanner, StopNull)
    /\ UNCHANGED <<session, listening, scanner, cancelled, phase, childVars,
                   outran>>

(* Mutant of OnListenWifi: the new scanner is not kept in the field. *)
OnListenWifiUnkept ==
    /\ op = "listen"
    /\ op' = "assign"
    /\ phase' = [phase EXCEPT ![session] = "probing"]
    /\ wpc' = [wpc EXCEPT ![session] = [w \in Workers |-> "check"]]
    /\ UNCHANGED <<session, listening, scanner, taskRef, cancelled, windex,
                   probed, answered, posted, outran>>

(* onListen with an address and a prefix: a new scanner, whose Task starts to
   run before the field refers to it. *)
OnListenWifi ==
    /\ op = "listen"
    /\ op' = "assign"
    /\ scanner' = session
    /\ phase' = [phase EXCEPT ![session] = "probing"]
    /\ wpc' = [wpc EXCEPT ![session] = [w \in Workers |-> "check"]]
    /\ UNCHANGED <<session, listening, taskRef, cancelled, windex, probed,
                   answered, posted, outran>>

Assign ==
    /\ op = "assign"
    /\ op' = "idle"
    /\ taskRef' = [taskRef EXCEPT ![session] = TRUE]
    /\ UNCHANGED <<session, listening, scanner, cancelled, phase, childVars,
                   posted, outran>>

OnListenNoWifi ==
    /\ op = "listen"
    /\ op' = "idle"
    /\ phase' = [phase EXCEPT ![session] = "nowifi"]
    /\ Post(session, BodyNull)
    /\ UNCHANGED <<session, listening, scanner, taskRef, cancelled, childVars,
                   outran>>

-----------------------------------------------------------------------------
(* The children of the task group *)

(* Mutant of StepBy: the loop does not step. *)
StepByNothing(i) == i
StepBy(i) == i + ScanThreads

Advance(s, w) ==
    /\ windex' = [windex EXCEPT ![s][w] = StepBy(@)]
    /\ probed' = [probed EXCEPT ![s] = @ \cup {windex[s][w]}]

(* Mutants of KeepsPinging: no isCancelled test; "through" instead of "to". *)
KeepsPingingAlways(s, w) == windex[s][w] < NumHosts
KeepsPingingThrough(s, w) == windex[s][w] <= NumHosts /\ ~cancelled[s]
KeepsPinging(s, w) == windex[s][w] < NumHosts /\ ~cancelled[s]

CheckCancelled(s, w) ==
    /\ wpc[s][w] = "check"
    /\ wpc' = [wpc EXCEPT ![s][w] = IF KeepsPinging(s, w) THEN "ping" ELSE "done"]
    /\ UNCHANGED <<handlerVars, taskRef, cancelled, phase, windex, probed,
                   answered, posted, outran>>

(* The ping has failed, and the write of ip2mac too: its read, which has no
   timeout, waits for a message about something else, and none will come.  (One
   that does come ends the ping like an answer of the kernel.) *)
PingBlocks(s, w) ==
    /\ wpc[s][w] = "ping"
    /\ wpc' = [wpc EXCEPT ![s][w] = "stuck"]
    /\ UNCHANGED <<handlerVars, taskRef, cancelled, phase, windex, probed,
                   answered, posted, outran>>

(* PingHelper.start returns; the child looks at isCancelled once more, and
   resolves the name of a host that answered. *)
PingFails(s, w) ==
    /\ wpc[s][w] = "ping"
    /\ wpc' = [wpc EXCEPT ![s][w] = IF cancelled[s] THEN "done" ELSE "check"]
    /\ Advance(s, w)
    /\ UNCHANGED <<handlerVars, taskRef, cancelled, phase, answered, posted,
                   outran>>

PingAnswers(s, w) ==
    /\ wpc[s][w] = "ping"
    /\ probed' = [probed EXCEPT ![s] = @ \cup {windex[s][w]}]
    /\ IF cancelled[s]
       THEN wpc' = [wpc EXCEPT ![s][w] = "done"] /\ UNCHANGED answered
       ELSE /\ wpc' = [wpc EXCEPT ![s][w] = "resolve"]
            /\ answered' = [answered EXCEPT ![s] = @ \cup {windex[s][w]}]
    /\ UNCHANGED <<handlerVars, taskRef, cancelled, phase, windex, posted, outran>>

(* resolveHostname returns, and the host is posted, cancelled or not. *)
PostHost(s, w) ==
    /\ wpc[s][w] = "resolve"
    /\ wpc' = [wpc EXCEPT ![s][w] = "check"]
    /\ Advance(s, w)
    /\ Post(s, windex[s][w])
    /\ UNCHANGED <<handlerVars, taskRef, cancelled, phase, answered, outran>>

(* A child that waits in ip2mac keeps its thread; the others need one to go on. *)
Stuck == {c \in Sessions \X Workers : wpc[c[1]][c[2]] = "stuck"}
HasThread == Cardinality(Stuck) < PoolSize

ChildStep(s, w) ==
    /\ HasThread
    /\ \/ CheckCancelled(s, w) \/ PingBlocks(s, w) \/ PingFails(s, w)
       \/ PingAnswers(s, w) \/ PostHost(s, w)

-----------------------------------------------------------------------------
(* The body of the Task *)

(* Mutant of GroupDone: the group is not awaited. *)
GroupUnawaited(s) == TRUE
GroupDone(s) == \A w \in Workers : wpc[s][w] = "done"

JoinGroup(s) ==
    /\ phase[s] = "probing"
    /\ GroupDone(s)
    /\ phase' = [phase EXCEPT ![s] = "closing"]
    /\ UNCHANGED <<handlerVars, taskRef, cancelled, childVars, posted, outran>>

(* if (scanningTask != nil) *)
TestRef(s) ==
    /\ phase[s] = "closing"
    /\ phase' = [phase EXCEPT ![s] = IF taskRef[s] THEN "posting" ELSE "ended"]
    /\ outran' = [outran EXCEPT ![s] = op = "assign" /\ session = s]
    /\ UNCHANGED <<handlerVars, taskRef, cancelled, childVars, posted>>

(* Mutant of PostNull: the body clears the field and says nothing. *)
PostNullSilent(s) ==
    /\ phase[s] = "posting"
    /\ phase' = [phase EXCEPT ![s] = "ended"]
    /\ taskRef' = [taskRef EXCEPT ![s] = FALSE]
    /\ UNCHANGED <<handlerVars, cancelled, childVars, posted, outran>>

PostNull(s) ==
    /\ phase[s] = "posting"
    /\ phase' = [phase EXCEPT ![s] = "ended"]
    /\ taskRef' = [taskRef EXCEPT ![s] = FALSE]
    /\ Post(s, BodyNull)
    /\ UNCHANGED <<handlerVars, cancelled, childVars, outran>>

BodyStep(s) == HasThread /\ (JoinGroup(s) \/ TestRef(s) \/ PostNull(s))

HandlerStep ==
    \/ OnCancel \/ StopCancel \/ StopClear
    \/ OnListenWifi \/ Assign \/ OnListenNoWifi

(* A ping that has been resumed is resumed again, in ip2mac or later.  The
   continuation is an unsafe one, so nothing is known of the process from then on,
   and the model ends; a second resume that does no harm is no step at all. *)
SecondResume ==
    /\ \E s \in Sessions :
          probed[s] # {} \/ \E w \in Workers : wpc[s][w] \in {"ping", "stuck"}
    /\ undefined' = TRUE
    /\ UNCHANGED scanVars

(* What keeps a scan from going on: a child of its own, or as many of any scans as
   the pool has threads, wait in ip2mac for ever. *)
HeldUp(s) == (\E w \in Workers : wpc[s][w] = "stuck") \/ ~HasThread

AtRest ==
    /\ op = "idle"
    /\ \A s \in Sessions : phase[s] \in {"idle", "nowifi", "ended"} \/ HeldUp(s)

Terminating == (AtRest \/ undefined) /\ UNCHANGED vars

Next ==
    \/ /\ ~undefined
       /\ \/ Listen \/ Cancel
          \/ HandlerStep
          \/ \E s \in Sessions : BodyStep(s) \/ \E w \in Workers : ChildStep(s, w)
       /\ UNCHANGED undefined
    \/ ~undefined /\ SecondResume
    \/ Terminating

Spec == Init /\ [][Next]_vars

(* The background queue gets to run, and so does every Task while the pool has a
   thread for it; a ping and a resolution end by their own timeouts, but for the
   read of ip2mac.  Nothing obliges Dart to listen or cancel. *)
Fairness ==
    /\ WF_vars(~undefined /\ HandlerStep /\ UNCHANGED undefined)
    /\ \A s \in Sessions :
          /\ WF_vars(~undefined /\ BodyStep(s) /\ UNCHANGED undefined)
          /\ \A w \in Workers :
                WF_vars(~undefined /\ ChildStep(s, w) /\ UNCHANGED undefined)

FairSpec == Spec /\ Fairness

-----------------------------------------------------------------------------
WasPosted(s, e) == \E k \in DOMAIN posted[s] : posted[s][k] = e
Live(s) == phase[s] = "probing" /\ ~cancelled[s]

(* The variables' types: a post is a host of the subnet or a null event. *)
TypeOK ==
    /\ session \in 0..MaxSessions
    /\ listening \in BOOLEAN
    /\ op \in Ops
    /\ scanner \in 0..MaxSessions
    /\ taskRef \in [Sessions -> BOOLEAN]
    /\ cancelled \in [Sessions -> BOOLEAN]
    /\ phase \in [Sessions -> Phases]
    /\ wpc \in [Sessions -> [Workers -> WPcs]]
    /\ windex \in [Sessions -> [Workers -> Nat]]
    /\ posted \in [Sessions -> Seq(Events)]
    /\ probed \in [Sessions -> SUBSET HostIndex]
    /\ answered \in [Sessions -> SUBSET HostIndex]
    /\ outran \in [Sessions -> BOOLEAN]
    /\ undefined \in BOOLEAN

(* Between two calls of Dart at most one scan is probing and not cancelled: a
   stop always finds the scan it is meant for, even though the body of the scan
   clears the same field. *)
OneLiveScan == \A s, t \in Sessions : Live(s) /\ Live(t) => s = t

(* The null event of the body says that the subnet is done: unless the scan was
   cancelled, every address was pinged and every one that answered posted.  The
   body and stopScanning both test the field before they post, but not
   atomically: one scan may post two null events, never more, and none of its
   hosts comes after the body's. *)
NullEvents ==
    \A s \in Sessions :
        /\ WasPosted(s, BodyNull) /\ phase[s] # "nowifi" /\ ~cancelled[s] =>
             /\ probed[s] = HostIndex
             /\ \A i \in answered[s] : WasPosted(s, i)
        /\ \A j, k \in DOMAIN posted[s] :
             j < k => /\ posted[s][j] = posted[s][k] => posted[s][j] \in HostIndex
                      /\ posted[s][j] = BodyNull => posted[s][k] = StopNull

Busy(s) == {w \in Workers : wpc[s][w] \in {"ping", "resolve"}}

(* A cancelled scan begins no further ping, and no resolution for a child that
   was idle. *)
NoNewWorkAfterStop ==
    [][\A s \in Sessions : cancelled[s] => Busy(s)' \subseteq Busy(s)]_vars

(* Every scan ends, unless it is held up so or a ping is resumed twice. *)
ScanTerminates ==
    \A s \in Sessions :
        phase[s] = "probing" ~> phase[s] = "ended" \/ undefined \/ HeldUp(s)

(* Every listen gets a null event from its own scan, with the same exceptions and
   when the body was done before startScanning had set the field. *)
NullDelivered ==
    \A s \in Sessions :
        session = s ~> \/ WasPosted(s, BodyNull) \/ WasPosted(s, StopNull)
                       \/ outran[s] \/ undefined \/ HeldUp(s)
=============================================================================
