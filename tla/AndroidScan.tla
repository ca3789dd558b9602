----------------------------- MODULE AndroidScan -----------------------------
(***************************************************************************)
(* The Android scan: LanDeviceHandler on the event channel's background    *)
(* task queue, the coroutines of each LanDeviceScanner on Dispatchers.IO,  *)
(* the main looper that runs the posted eventSink.success calls, and the   *)
(* embedding's EventChannel, which decides whether such a call reaches     *)
(* Dart.  A session is one listen call; its number names the event sink    *)
(* and, when the handler makes one, the scanner built on that sink.        *)
(***************************************************************************)
EXTENDS Integers, Sequences, FiniteSets

CONSTANTS
    MaxSessions,     \* bound: how often Dart listens
    NumHosts,        \* numberOfHosts; 0 and -1 for prefixes 31 and 32
    ScanThreads,     \* scanThreads, the number of probing coroutines
    Tiramisu,        \* SDK_INT >= TIRAMISU: reachability probes, no ARP table
    Addresses,       \* addresses that can be reported
    Neighbours,      \* entries the ARP table may hold: <<address, device>>
    StaleEntries,    \* those it holds before any scan
    NoArp,           \* entries the dump leaves out: they are in NUD_NOARP
    Wlan,            \* the device the scanned subnet is on
    PipeCapacity,    \* entries the pipe holds before a writer blocks
    Done             \* the null event

Sessions  == 1..MaxSessions
Workers   == 0..(ScanThreads - 1)
HostIndex == 0..(NumHosts - 1)
NoScan    == 0

ASSUME ScanAssumption ==
    /\ MaxSessions \in Nat
    /\ NumHosts \in Int
    /\ ScanThreads \in Nat
    /\ ScanThreads = 0 => NumHosts <= 0
    /\ Tiramisu \in BOOLEAN
    /\ HostIndex \subseteq Addresses
    /\ Done \notin Addresses
    /\ IsFiniteSet(Neighbours)
    /\ \A n \in Neighbours : n[1] \in Addresses
    /\ \A i \in HostIndex : <<i, Wlan>> \in Neighbours
    /\ StaleEntries \subseteq Neighbours /\ NoArp \subseteq Neighbours
    /\ PipeCapacity \in Nat

VARIABLES
    (* the channel and the handler *)
    session,     \* the number of listen calls so far
    activeSink,  \* the session whose sink EventChannel holds as active
    attached,    \* the plugin's engine still takes messages
    op,          \* the call the background task queue is executing
    scanner,     \* LanDeviceHandler.lanDeviceScanner, by its session
    looper,      \* the main looper's queue of eventSink.success calls
    (* one scan per session *)
    jobRef,      \* LanDeviceScanner.job is not null
    cancelled,   \* that job has been cancelled
    timedOut,    \* its withTimeout has expired
    phase,       \* where its outer coroutine is
    wpc, windex, \* where each probing coroutine is, and its loop index
    task,        \* the async child of each ARP entry
    (* the device *)
    arp,         \* the valid entries of the neighbour table
    clobbered,   \* scans whose nativeIPNeigh ran beside another one
    crashed,     \* the process has ended
    (* history *)
    sent,        \* sent[s]: the events of session s that reached Dart
    probed,      \* probed[s]: the host indices whose probe has ended
    answered     \* answered[s]: those of them that were reachable

chanVars  == <<session, activeSink, attached, op, scanner>>
jobVars   == <<jobRef, cancelled, timedOut>>
probeVars == <<wpc, windex, probed, answered>>
neighVars == <<task, arp, clobbered>>
vars == <<chanVars, looper, jobVars, phase, probeVars, neighVars, crashed, sent>>

Ops    == {"idle", "relisten", "listen", "cancel"}
Phases == {"idle", "nowifi", "probing", "neigh", "resolving", "finish",
           "posting", "ended"}
WPcs   == {"idle", "check", "probe", "resolve", "post", "done"}
Tasks  == {"none", "queued", "resolving", "done"}
Events == Addresses \cup {Done}

Init ==
    /\ session = 0
    /\ activeSink = NoScan
    /\ attached = TRUE
    /\ op = "idle"
    /\ scanner = NoScan
    /\ looper = <<>>
    /\ jobRef = [s \in Sessions |-> FALSE]
    /\ cancelled = [s \in Sessions |-> FALSE]
    /\ timedOut = [s \in Sessions |-> FALSE]
    /\ phase = [s \in Sessions |-> "idle"]
    /\ wpc = [s \in Sessions |-> [w \in Workers |-> "idle"]]
    /\ windex = [s \in Sessions |-> [w \in Workers |-> w]]
    /\ task = [s \in Sessions |-> [n \in Neighbours |-> "none"]]
    /\ arp = StaleEntries
    /\ clobbered = {}
    /\ crashed = FALSE
    /\ sent = [s \in Sessions |-> <<>>]
    /\ probed = [s \in Sessions |-> {}]
    /\ answered = [s \in Sessions |-> {}]

-----------------------------------------------------------------------------
(* The embedding's EventChannel (external) and the calls Dart makes. *)

Post(s, e) == looper' = Append(looper, [scan |-> s, event |-> e])

(* A listen makes a new active sink.  When one is already active the handler
   is told to cancel first, but with the new sink already in place. *)
Listen ==
    /\ attached /\ op = "idle" /\ session < MaxSessions
    /\ session' = session + 1
    /\ activeSink' = session + 1
    /\ op' = IF activeSink = NoScan THEN "listen" ELSE "relisten"
    /\ UNCHANGED <<attached, scanner, looper, jobVars, phase, probeVars,
                   neighVars, crashed, sent>>

Cancel ==
    /\ attached /\ op = "idle" /\ activeSink # NoScan
    /\ activeSink' = NoScan
    /\ op' = "cancel"
    /\ UNCHANGED <<session, attached, scanner, looper, jobVars, phase,
                   probeVars, neighVars, crashed, sent>>

(* LanScanPlugin.onDetachedFromEngine clears the stream handlers; it does not
   cancel the scan. *)
Detach ==
    /\ attached
    /\ attached' = FALSE
    /\ UNCHANGED <<session, activeSink, op, scanner, looper, jobVars, phase,
                   probeVars, neighVars, crashed, sent>>

(* The main looper runs the next posted EventSink.success: it reaches Dart
   only if its sink is still the active one. *)
LooperRun ==
    /\ looper # <<>>
    /\ looper' = Tail(looper)
    /\ LET m == Head(looper)
       IN sent' = IF attached /\ activeSink = m.scan
                  THEN [sent EXCEPT ![m.scan] = Append(@, m.event)]
                  ELSE sent
    /\ UNCHANGED <<chanVars, jobVars, phase, probeVars, neighVars, crashed>>

-----------------------------------------------------------------------------
(* LanDeviceHandler *)

(* Mutant of StopScanning: the field is cleared before job?.cancel(). *)
StopScanningSwapped(s) ==
    /\ jobRef' = [jobRef EXCEPT ![s] = FALSE]
    /\ UNCHANGED cancelled
    /\ Post(s, Done)

(* LanDeviceScanner.stopScanning *)
StopScanning(s) ==
    /\ cancelled' = [cancelled EXCEPT ![s] = @ \/ jobRef[s]]
    /\ jobRef' = [jobRef EXCEPT ![s] = FALSE]
    /\ Post(s, Done)

OnCancel ==
    /\ op \in {"relisten", "cancel"}
    /\ op' = IF op = "relisten" THEN "listen" ELSE "idle"
    /\ IF scanner = NoScan
       THEN UNCHANGED <<cancelled, jobRef, looper>>
       ELSE StopScanning(scanner)
    /\ UNCHANGED <<session, activeSink, attached, scanner, timedOut, phase,
                   probeVars, neighVars, crashed, sent>>

(* A new LanDeviceScanner on the new sink, and its startScanning: the job, and
   one probing coroutine per scan thread. *)
OnListenWifi ==
    /\ op = "listen"
    /\ op' = "idle"
    /\ scanner' = session
    /\ jobRef' = [jobRef EXCEPT ![session] = TRUE]
    /\ phase' = [phase EXCEPT ![session] = "probing"]
    /\ wpc' = [wpc EXCEPT ![session] = [w \in Workers |-> "check"]]
    /\ UNCHANGED <<session, activeSink, attached, looper, cancelled, timedOut,
                   windex, probed, answered, neighVars, crashed, sent>>

(* Not on Wi-Fi: only the null event.  The scanner of an earlier session stays
   in the field. *)
OnListenNoWifi ==
    /\ op = "listen"
    /\ op' = "idle"
    /\ phase' = [phase EXCEPT ![session] = "nowifi"]
    /\ Post(session, Done)
    /\ UNCHANGED <<session, activeSink, attached, scanner, jobVars, probeVars,
                   neighVars, crashed, sent>>

-----------------------------------------------------------------------------
(* The probing coroutines of startScanning *)

(* isActive, as a probing coroutine sees it *)
Active(s) == ~cancelled[s] /\ ~timedOut[s]

(* Mutants of ProbeEnds: the loop steps by one; the loop does not step. *)
ProbeEndsByOne(s, w, i) ==
    /\ windex' = [windex EXCEPT ![s][w] = i + 1]
    /\ probed' = [probed EXCEPT ![s] = @ \cup {i}]

ProbeEndsInPlace(s, w, i) ==
    /\ probed' = [probed EXCEPT ![s] = @ \cup {i}]
    /\ UNCHANGED windex

(* The end of an iteration: the loop steps by scanThreads. *)
ProbeEnds(s, w, i) ==
    /\ windex' = [windex EXCEPT ![s][w] = i + ScanThreads]
    /\ probed' = [probed EXCEPT ![s] = @ \cup {i}]

(* Mutant of KeepsProbing: ".." in the place of until, one host too many. *)
KeepsProbingInclusive(s, w) == windex[s][w] <= NumHosts /\ Active(s)

(* The loop head: past the last host, or no longer active, the coroutine
   returns. *)
KeepsProbing(s, w) == windex[s][w] < NumHosts /\ Active(s)

CheckActive(s, w) ==
    /\ wpc[s][w] = "check"
    /\ wpc' = [wpc EXCEPT ![s][w] =
                  IF KeepsProbing(s, w) THEN "probe" ELSE "done"]
    /\ UNCHANGED <<chanVars, looper, jobVars, phase, windex, probed, answered,
                   neighVars, crashed, sent>>

(* handleSocketConnection, before Tiramisu: whether the connect succeeds or
   fails, an attempt that reached the host leaves an ARP entry. *)
Connect(s, w) ==
    /\ wpc[s][w] = "probe" /\ ~Tiramisu
    /\ ProbeEnds(s, w, windex[s][w])
    /\ wpc' = [wpc EXCEPT ![s][w] = "check"]
    /\ \/ /\ arp' = arp \cup {<<windex[s][w], Wlan>>}
          /\ answered' = [answered EXCEPT ![s] = @ \cup {windex[s][w]}]
       \/ UNCHANGED <<arp, answered>>
    /\ UNCHANGED <<chanVars, looper, jobVars, phase, task, clobbered, crashed,
                   sent>>

(* handleReachability, from Tiramisu on: isReachable answers... *)
Reachable(s, w) ==
    /\ wpc[s][w] = "probe" /\ Tiramisu
    /\ wpc' = [wpc EXCEPT ![s][w] = "resolve"]
    /\ answered' = [answered EXCEPT ![s] = @ \cup {windex[s][w]}]
    /\ UNCHANGED <<chanVars, looper, jobVars, phase, windex, probed, neighVars,
                   crashed, sent>>

Unreachable(s, w) ==
    /\ wpc[s][w] = "probe" /\ Tiramisu
    /\ wpc' = [wpc EXCEPT ![s][w] = "check"]
    /\ ProbeEnds(s, w, windex[s][w])
    /\ UNCHANGED <<chanVars, looper, jobVars, phase, answered, neighVars,
                   crashed, sent>>

(* ... or throws an IOException, which nothing catches. *)
ProbeThrows(s, w) ==
    /\ wpc[s][w] = "probe" /\ Tiramisu
    /\ crashed' = TRUE
    /\ UNCHANGED <<chanVars, looper, jobVars, phase, probeVars, neighVars, sent>>

(* processHost returns and the coroutine looks at isActive once more. *)
ProcessHost(s, w) ==
    /\ wpc[s][w] = "resolve"
    /\ wpc' = [wpc EXCEPT ![s][w] = IF Active(s) THEN "post" ELSE "done"]
    /\ UNCHANGED <<chanVars, looper, jobVars, phase, windex, probed, answered,
                   neighVars, crashed, sent>>

PostHost(s, w) ==
    /\ wpc[s][w] = "post"
    /\ wpc' = [wpc EXCEPT ![s][w] = "check"]
    /\ ProbeEnds(s, w, windex[s][w])
    /\ Post(s, windex[s][w])
    /\ UNCHANGED <<chanVars, jobVars, phase, answered, neighVars, crashed, sent>>

-----------------------------------------------------------------------------
(* The outer coroutine of startScanning *)

(* withTimeout expires.  A job that is already cancelled keeps that cause. *)
Timeout(s) ==
    /\ phase[s] = "probing" /\ Active(s)
    /\ timedOut' = [timedOut EXCEPT ![s] = TRUE]
    /\ UNCHANGED <<chanVars, looper, jobRef, cancelled, phase, probeVars,
                   neighVars, crashed, sent>>

(* Mutant of ProbesDone: nothing is joined. *)
ProbesUnjoined(s) == TRUE

(* joinAll *)
ProbesDone(s) == \A w \in Workers : wpc[s][w] = "done"

(* Mutant of AfterProbes: the timeout's exception is not caught. *)
AfterProbesUncaught(s) ==
    IF cancelled[s] \/ timedOut[s] THEN "ended"
    ELSE IF Tiramisu THEN "finish" ELSE "neigh"

(* A cancelled job ends after joinAll; one whose timeout came first goes on,
   since the timeout exception is caught, and meets its cancellation later. *)
AfterProbes(s) ==
    IF cancelled[s] /\ ~timedOut[s] THEN "ended"
    ELSE IF Tiramisu THEN "finish" ELSE "neigh"

(* Before Tiramisu the next step enters nativeIPNeigh, whose netlink handle is
   one for the process. *)
JoinAll(s) ==
    /\ phase[s] = "probing"
    /\ ProbesDone(s)
    /\ phase' = [phase EXCEPT ![s] = AfterProbes(s)]
    /\ LET others == {t \in Sessions : phase[t] = "neigh"}
       IN clobbered' = IF AfterProbes(s) = "neigh" /\ others # {}
                       THEN clobbered \cup others \cup {s}
                       ELSE clobbered
    /\ UNCHANGED <<chanVars, looper, jobVars, probeVars, task, arp, crashed,
                   sent>>

(* nativeIPNeigh returns and the pipe is read: only then, so the dump must fit
   into the pipe.  A dump that shared the netlink handle and the filter with
   another one may have lost entries or let others through (NeighDump).  One
   async child is started per entry. *)
NeighReturn(s) ==
    /\ phase[s] = "neigh"
    /\ \E entries \in IF s \in clobbered THEN SUBSET (arp \cup NoArp) ELSE {arp} :
          /\ Cardinality(entries) <= PipeCapacity
          /\ task' = [task EXCEPT ![s] =
                         [n \in Neighbours |-> IF n \in entries THEN "queued"
                                                                ELSE "none"]]
    /\ phase' = [phase EXCEPT ![s] = "resolving"]
    /\ UNCHANGED <<chanVars, looper, jobVars, probeVars, arp, clobbered,
                   crashed, sent>>

(* A netlink call fails: the native code ends the process. *)
NeighExit(s) ==
    /\ phase[s] = "neigh"
    /\ crashed' = TRUE
    /\ UNCHANGED <<chanVars, looper, jobVars, phase, probeVars, neighVars, sent>>

(* Mutant of OnStart: no isActive test. *)
OnStartAlways(s) == "resolving"

(* An async child starts; if its job is cancelled by then its body does not
   run, or returns at once. *)
OnStart(s) == IF cancelled[s] THEN "done" ELSE "resolving"

StartTask(s, n) ==
    /\ task[s][n] = "queued"
    /\ task' = [task EXCEPT ![s][n] = OnStart(s)]
    /\ UNCHANGED <<chanVars, looper, jobVars, phase, probeVars, arp, clobbered,
                   crashed, sent>>

(* Its processHost returns and the host is posted, active or not. *)
PostTask(s, n) ==
    /\ task[s][n] = "resolving"
    /\ task' = [task EXCEPT ![s][n] = "done"]
    /\ Post(s, n[1])
    /\ UNCHANGED <<chanVars, jobVars, phase, probeVars, arp, clobbered, crashed,
                   sent>>

(* Mutant of TasksDone: the children are launched and not awaited. *)
TasksUnawaited(s) == TRUE

(* awaitAll *)
TasksDone(s) == \A n \in Neighbours : task[s][n] \in {"none", "done"}

(* handleArpTable returns once its children have; its coroutineScope throws
   when the job is cancelled. *)
AwaitAll(s) ==
    /\ phase[s] = "resolving"
    /\ TasksDone(s)
    /\ phase' = [phase EXCEPT ![s] = IF cancelled[s] THEN "ended" ELSE "finish"]
    /\ UNCHANGED <<chanVars, looper, jobVars, probeVars, neighVars, crashed,
                   sent>>

(* if (isActive), and then the post: a stop may come between the two. *)
Finish(s) ==
    /\ phase[s] = "finish"
    /\ phase' = [phase EXCEPT ![s] = IF cancelled[s] THEN "ended" ELSE "posting"]
    /\ UNCHANGED <<chanVars, looper, jobVars, probeVars, neighVars, crashed,
                   sent>>

PostDone(s) ==
    /\ phase[s] = "posting"
    /\ phase' = [phase EXCEPT ![s] = "ended"]
    /\ Post(s, Done)
    /\ UNCHANGED <<chanVars, jobVars, probeVars, neighVars, crashed, sent>>

-----------------------------------------------------------------------------
WorkerStep(s, w) ==
    \/ CheckActive(s, w)
    \/ Connect(s, w)
    \/ Reachable(s, w)
    \/ Unreachable(s, w)
    \/ ProcessHost(s, w)
    \/ PostHost(s, w)

JobStep(s) ==
    \/ JoinAll(s)
    \/ NeighReturn(s)
    \/ AwaitAll(s)
    \/ Finish(s)
    \/ PostDone(s)

TaskStep(s, n) == StartTask(s, n) \/ PostTask(s, n)

ScanStep(s) ==
    \/ \E w \in Workers : WorkerStep(s, w) \/ ProbeThrows(s, w)
    \/ Timeout(s)
    \/ JobStep(s)
    \/ NeighExit(s)
    \/ \E n \in Neighbours : TaskStep(s, n)

HandlerStep == OnCancel \/ OnListenWifi \/ OnListenNoWifi

(* A nativeIPNeigh that may never return: it shares the netlink handle, or
   has more to write than the pipe takes before anyone reads. *)
Stuck(s) == phase[s] = "neigh" /\ (s \in clobbered \/ Cardinality(arp) > PipeCapacity)

AtRest ==
    \/ crashed
    \/ /\ op = "idle" /\ looper = <<>>
       /\ \A s \in Sessions : phase[s] \in {"idle", "nowifi", "ended"} \/ Stuck(s)

Terminating == AtRest /\ UNCHANGED vars

Running ==
    \/ Listen \/ Cancel \/ Detach
    \/ LooperRun
    \/ HandlerStep
    \/ \E s \in Sessions : ScanStep(s)

Next == (~crashed /\ Running) \/ Terminating

Spec == Init /\ [][Next]_vars

(* Every runnable coroutine, the task queue and the main looper get to run, and
   every blocking call they make is bounded, except a stuck nativeIPNeigh.
   Nothing obliges Dart to listen or cancel, the timeout to expire or a call to
   fail. *)
Fairness ==
    /\ WF_vars(~crashed /\ LooperRun)
    /\ WF_vars(~crashed /\ HandlerStep)
    /\ \A s \in Sessions :
          /\ \A w \in Workers : WF_vars(~crashed /\ WorkerStep(s, w))
          /\ WF_vars(~crashed /\ ~Stuck(s) /\ JobStep(s))
          /\ \A n \in Neighbours : WF_vars(~crashed /\ TaskStep(s, n))

FairSpec == Spec /\ Fairness

-----------------------------------------------------------------------------
Live(s) == phase[s] \notin {"idle", "nowifi", "ended"} /\ ~cancelled[s]

DoneSent(s) == \E k \in DOMAIN sent[s] : sent[s][k] = Done
WasSent(s, e) == \E k \in DOMAIN sent[s] : sent[s][k] = e

(* The variables' types: sessions are numbered by the listen calls, and a
   queued or delivered event is an address or the null event. *)
TypeOK ==
    /\ session \in 0..MaxSessions
    /\ activeSink \in 0..MaxSessions
    /\ attached \in BOOLEAN
    /\ op \in Ops
    /\ scanner \in 0..MaxSessions
    /\ looper \in Seq([scan : Sessions, event : Events])
    /\ jobRef \in [Sessions -> BOOLEAN]
    /\ cancelled \in [Sessions -> BOOLEAN]
    /\ timedOut \in [Sessions -> BOOLEAN]
    /\ phase \in [Sessions -> Phases]
    /\ wpc \in [Sessions -> [Workers -> WPcs]]
    /\ windex \in [Sessions -> [Workers -> Nat]]
    /\ task \in [Sessions -> [Neighbours -> Tasks]]
    /\ arp \in SUBSET Neighbours
    /\ clobbered \in SUBSET Sessions
    /\ crashed \in BOOLEAN
    /\ sent \in [Sessions -> Seq(Events)]
    /\ probed \in [Sessions -> SUBSET HostIndex]
    /\ answered \in [Sessions -> SUBSET HostIndex]

(* Dart is told that a scan is over only when it is, and then it has been told
   everything: unless the five minutes ran out every address was probed and
   every reachable one reported; on the ARP path every entry read has been
   reported (startScanning's joinAll and handleArpTable's awaitAll come before
   the null event's post). *)
DoneMeansComplete ==
    \A s \in Sessions : (DoneSent(s) /\ phase[s] # "nowifi") =>
        /\ phase[s] = "ended"
        /\ ~timedOut[s] => probed[s] = HostIndex
        /\ Tiramisu /\ ~timedOut[s] => \A i \in answered[s] : WasSent(s, i)
        /\ \A n \in Neighbours : task[s][n] # "none" => WasSent(s, n[1])

(* At most one scan is running and not told to stop, even when Dart listens
   again without cancelling first: the handler's scanner field always names it,
   so that the next stop reaches it. *)
OneLiveScan ==
    \A s, t \in Sessions : Live(s) /\ Live(t) => s = t

(* The probing coroutines partition the subnet: on the reachability path no
   host is reported twice in one scan. *)
NoDuplicateHost ==
    Tiramisu => \A s \in Sessions : \A j, k \in DOMAIN sent[s] :
                    sent[s][j] = sent[s][k] => j = k

Probing(s)   == {w \in Workers : wpc[s][w] \in {"probe", "resolve", "post"}}
Resolving(s) == {n \in Neighbours : task[s][n] = "resolving"}

(* After stopScanning has cancelled a scan it takes on nothing new: what was
   being probed or resolved runs out, and no other address is begun. *)
NoNewWorkAfterStop ==
    [][\A s \in Sessions : cancelled[s] =>
          /\ Probing(s)' \subseteq Probing(s)
          /\ Resolving(s)' \subseteq Resolving(s)]_vars

(* Every scan that starts ends, told to or not, unless its nativeIPNeigh is
   stuck or the process ends. *)
ScanTerminates ==
    \A s \in Sessions :
        phase[s] = "probing" ~> (phase[s] = "ended" \/ Stuck(s) \/ crashed)

(* A listener that stays gets the null event, on Wi-Fi or not. *)
DoneDelivered ==
    \A s \in Sessions :
        activeSink = s ~> \/ DoneSent(s) \/ activeSink # s \/ ~attached
                          \/ Stuck(s) \/ crashed

-----------------------------------------------------------------------------
(* What Dart sees of a session, as the stream of ScanStream. *)
streamOf == [s \in Sessions |->
                IF s > session THEN "unopened"
                ELSE IF activeSink # s \/ ~attached THEN "closed"
                ELSE IF DoneSent(s) THEN "done"
                ELSE "open"]

Stream == INSTANCE ScanStream WITH
    Hosts <- Addresses, stream <- streamOf, events <- sent

(* The Android scan gives each listener a well-formed stream: hosts while it is
   open, the null event once, nothing after it, and nothing to a listener that
   was cancelled or replaced. *)
ImplementsScanStream == Stream!StreamSpec
=============================================================================
