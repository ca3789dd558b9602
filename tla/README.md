# Verification of lan_scan

lan_scan is a Flutter plugin that lists the devices of the local network. Its
Dart side listens on an event channel; its Android side (Kotlin, with a native
library in C) and its iOS side (Swift) probe the addresses of the Wi-Fi subnet
concurrently and report each host they find, and a null event when they are
done. This directory holds TLA+ models of the parts that are hard to get right,
the TLC runs that check them and the TLAPS proofs about them. Every definition
is translated from the source; `PROJECT.json` says from which lines.

## 1. The system

| part | state it keeps | operations | talks to |
|---|---|---|---|
| Dart API (`lib/`) | none | `startDeviceScanStream`, `wifiConnectionStatusChange` | the two event channels; a listen or a cancel is a message to the platform |
| Event channel (Flutter, external) | the active sink, the handler | listen, cancel, `success` | calls the handlers on a background task queue, one call at a time; drops (Android) or sends (iOS) what an old sink is given |
| `LanDeviceHandler` (both platforms) | the current scanner | `onListen`, `onCancel` | makes a scanner per listen, stops the one in its field |
| Android `LanDeviceScanner` | `job` | `startScanning`, `stopScanning`, the probing coroutines, the ARP tasks | `Dispatchers.IO`, the main looper, `nativeIPNeigh`, the resolvers |
| native dump (`ipneigh.c`, `libnetlink.c`) | `rth`, `filter`: one each per process | `nativeIPNeigh` | the kernel over netlink, the scanner over a pipe |
| Android `Wireless` | none | the readings of `onListen` | the Wi-Fi and connectivity services |
| Android resolvers, `Host` | a socket per resolution | `resolve`, `close` | mDNS and NetBIOS |
| iOS `LanDeviceScanner` | `scanningTask` | `startScanning`, `stopScanning`, the Task and its children | the main queue, `PingHelper`, the resolvers |
| iOS `ICMPPingTool`, `PingHelper` | socket, run loop source, timeout work item | `startPing`, reply, timeout; `ip2mac` when the ping failed | four dispatch queues and a continuation; `MacFinder` |
| iOS `MacFinder` | a routing socket per call | `ip2mac` | the kernel's ARP table; every routing socket gets every message |
| iOS resolvers | a channel, a timeout and a promise per call | `resolve` | mDNS, NetBIOS, the system's resolver |
| iOS `Wireless` | none | one reading of the interfaces | system calls |
| Wi-Fi status handlers (both) | the sink, the receiver or monitor | `onListen`, `onCancel`, a change of Wi-Fi | the second event channel; a broadcast or a path monitor |
| example page | list, two subscriptions | start, stop, dispose | the Dart API |

What makes it hard: the handler's calls, up to 128 workers, the outer coroutine
or Task, the main looper and the kernel all run at once and share a few unlocked
fields; a stop, a second listen or a timeout may come between any two steps; the
end of a scan is told by an event that several parties post; and the arithmetic
on addresses is right only inside bounds that nobody states. `PROJECT.json`
lists each hazard at its line, with the properties that cover it.

What makes each part correct:

* *channel*: a listener sees hosts, then one null event, then nothing; nothing
  after its cancel; nothing of another listener's scan;
* *scans*: one live scan at most; the null event means that everything was
  probed and reported; a stopped scan begins nothing new; every scan ends and
  every listener is told, unless a call that has no timeout keeps a thread;
* *address plan*: the workers visit exactly the hosts of the subnet, each once;
* *readings of Wi-Fi*: a scan visits the network the device is on;
* *ping*: its continuation is resumed, and not twice; a host is reported if it
  answered or the kernel knows it, and only then;
* *dump*: a dump returns the whole table, if its pipe can hold it, and gives back
  its descriptors; its lines are read as they were meant;
* *Wi-Fi status*: whoever listens is told the current state in the end, and no
  receiver or monitor runs for nobody;
* *names*: a resolution returns, leaves no socket behind, and gives a host its own
  name.

## 2. The modules

| module | models | how it corresponds to the code |
|---|---|---|
| `ScanStream` | what the channel promises a listener | abstract: the state of each session's stream and the events sent on it |
| `AndroidScan` | `LanDeviceHandler.kt`, `LanDeviceScanner.kt`, the sink, the main looper | see below |
| `IosScan` | `LanDeviceHandler.swift`, `LanDeviceScanner.swift` | the handler's call is split at each access to `scanningTask`, the Task's body likewise, and each child of the task group has a program counter, under a pool of threads |
| `AddressPlan` | the arithmetic of `startScanning` on both platforms | operators on words of `W` bits (powers of two and the bitwise and by recursive functions), two's complement for Kotlin's `Int`, saturation of `toInt`, the octets of `toByteArray` |
| `WifiAddress` | `Wireless.kt` and the head of `onListen` | extends `AddressPlan`; one action per reading, `WifiStateChanges` in between |
| `IcmpPing` | `ICMPPing.swift` | one action per block on a queue, and per statement where another queue can come between |
| `MacFinder` | `MacFinder.m` | one action per system call of `ip2mac`, a queue of messages per routing socket |
| `PingHelper` | `PingHelper.swift` | one child's `IcmpPing`, composed with the `MacFinder` of all children |
| `NeighDump` | `nativeIPNeigh`: `ipneigh.c`, `libnetlink.c` | one action per access to `rth` or `filter`; the kernel's descriptors and socket queues, and the pipes, which fill up |
| `NeighLine` | the filter of `do_show_or_flush`, `print_neigh`, `format_host`, `ll_map.c`, `parse_rtattr` and `parseAndExtractValidArpFromInputStream` | a line is the sequence of its words; one action per access to `filter` and to the static buffer of `format_host` |
| `NameReply` | `processHost`, `MDNSResolver.kt`, `NetBIOSResolver.kt`, `Host.kt` | a program counter and a socket per call; the requests ever sent stand for the replies that may still come |
| `IosName` | `resolveHostname`, `MDNSResolver.swift` | the call, its channel on an event loop, its timeout and its promise |
| `WifiStatus` | both `WiFiConnectionStatusHandler`s, `lan_scan_method_channel.dart` | Dart's streams, the messages either way, the handler's call, the receiver or the monitor's blocks; `platform` says which |
| `AndroidScanProofs` | | types, the one live scan, refinement of `ScanStream`, the effect of a stop, completeness and no repetition, proved |
| `IosScanProofs` | | types, the one live scan, the effect of a stop, the null events, proved |
| `PingHelperProofs` | | who resumes the ping, and the verdict on a host, proved |
| `NeighDumpProofs` | | what a dump that stays alone does, and when the native code ends the process, proved |
| `NeighLineProofs` | | which neighbours the scanner reads from a dump's lines, proved |
| `WifiProofs` | | what a scan visits, on words of any width; whose network that is; whose receiver or monitor of the Wi-Fi status runs, proved |
| `NameReplyProofs`, `IosNameProofs` | | types, whose name a host may be given, and what is left open, proved |
| `MC...` | | values for TLC |

**AndroidScan.** A session is one listen call; its number names its sink and its
scanner. `session`, `activeSink`, `op` are the channel's: `op` says which call
the background task queue is executing, and a listen with an active sink runs
`onCancel` before `onListen`, with the new sink already in place. `scanner` is
the handler's field. `jobRef`, `cancelled`, `timedOut` are the scanner's `job`
and the two ways in which it ends early; `phase` is the program counter of the
outer coroutine, `wpc` and `windex` those of the probing coroutines with their
loop index, and `task` the state of the async child of each ARP entry. `looper`
is the main looper's queue. An `isActive` test and the post that follows it are
two steps. `Tiramisu` chooses between the reachability path and the ARP path. On
the ARP path `arp` is what the kernel knows, and `NeighReturn` is the dump,
pipe and parser together: complete when it ran alone, any subset, or also entries
that the filter should keep out, when it shared the handle with another dump.
That this is what a dump does is checked in `NeighDump` and `NeighLine`. The
history variables `sent`, `probed`, `answered` only record.

**IosScan.** There is no active sink to hide a late event, so the properties are
about the order of the posts on the main queue. `outran` records that the Task's
body tested `scanningTask` before `startScanning` had assigned it. A ping is a call
of `PingHelper.start`, which may return (`PingFails`, `PingAnswers`) or not. In
`PingBlocks` it goes on to `ip2mac`, whose write fails and whose read
(`MacFinder.m:49`) then waits for a message that never comes: the child is `"stuck"`
from then on, its task group stays open, and it keeps one of the `PoolSize` threads
on which Swift runs the Tasks of every scan, so that with `PoolSize` such children
no child and no body runs any more (`HasThread`). In `SecondResume` the continuation
is resumed again after a first time, which may be long after the ping has ended. It
is an unsafe continuation, so the behaviour is undefined: `undefined` is set and the
model ends there.

**NeighDump.** A dump that reads `rth->fd` acts on whatever descriptor is there by
then; descriptors are the lowest free ones, so a stale close hits what took the
number. The seconds of `time(NULL)` are free, two opens in one second included.
A line that `print_neigh` lets pass goes to the pipe that the descriptor of `mypipe`
refers to by then, and `Write`, the flush behind it, waits while that pipe is full:
`PipeLines` says how many lines a dumper's pipe holds, and the scanner reads it only
once `nativeIPNeigh` is back (`LanDeviceScanner.kt:173-180`). A dump that waits so
is `Blocked`.

**NeighLine.** Two scans' threads print to pipes of their own over one `filter`
and one buffer. While both write the buffer it is `Torn`, and what is printed then
is any address or none. A neighbour's entry is any that the kernel may hold: its
state, a link-layer address exactly when the state is valid, one that is empty on
a device without any, proxies, routers, a family that leaves the buffer alone.
The scanner's part is three actions: it reads the pipe to the end, parses one line
after the other, and returns the hosts.

**PingHelper, MacFinder.** A message on a routing socket is reduced to the six
octets that stand for an address and to where the kernel puts them; `MacIndex` is
where `ip2mac` looks, counted by the structures that the repository has copied into
its own headers (`Network Headers/`). The kernel sends each message to all
open routing sockets, so a child may read another's answer: `misled` records to
whom that, or a failed call, happened.

**WifiStatus.** Each call of `wifiConnectionStatusChange` makes a stream on the
same channel, and a listen or a cancel of any of them sets or clears the one
handler of that channel. On Android the calls run on a background queue and the
receiver on the main thread; on iOS the calls run on the main thread and the
monitor's blocks on a global queue that is not serial, so `blocks` is a set.
`last` and `newest` record whether an update overtook another.

**NameReply, IosName.** The network is the set `asked` of the requests sent so
far: a reply to any of them may come, any number of times, at whatever socket is
bound to the port by then. That covers loss, repetition, delay and reordering
with no queue to bound. A reply is reduced to whose request it answers
and to what becomes of it: a name, nothing, or (on Android) an exception. On Android a port
is any free one, so it may be one that an earlier call has given up; on iOS it is
the last octet of the address, shared by all hosts that have it.

The modules fit together as follows. `ScanStream` is what `AndroidScan`
implements (`ImplementsScanStream`, by the mapping `streamOf`). `AndroidScan` and
`IosScan` take the number of hosts and of workers as constants, and
`AddressPlan` says what these are and which address each index stands for;
`WifiAddress` says from which readings. `NeighDump` and `NeighLine` justify the
one step `NeighReturn` and the state `Stuck` beside it. Of a ping in `IosScan`,
`PingHelper` says what its answer means and that its continuation is resumed,
perhaps twice (`AlwaysResumed`, `SecondResumeExplained`), and `MacFinder` that the
look-up that may follow returns unless its child is misled (`EveryLookupReturns`): a
ping as such need not return, and `PingBlocks` and `SecondResume` stand for the
two ways in which it does not return once. `NameReply` and `IosName` justify
the fairness of the one step in which either scan resolves a host's names.
`WifiStatus` is a channel of its own: it shares with the scans only Flutter's rules
for a listen and a cancel.

## 3. The runs

| run | instance | what it shows |
|---|---|---|
| `AndroidProbe` | 1 session, 3 hosts, 2 workers, Tiramisu | `TypeOK`, `DoneMeansComplete`, `NoDuplicateHost`; `ScanTerminates` under fairness |
| `AndroidArp` | 2 sessions, 1 host, 1 worker, ARP path, one entry in the pipe, one entry the filter keeps out | `OneLiveScan`, `DoneMeansComplete`, `NoNewWorkAfterStop`, `ImplementsScanStream`; `DoneDelivered` under fairness |
| `IosScan` | 2 sessions, 2 hosts, 2 children each, a pool of 2 threads | types, `OneLiveScan`, `NullEvents`, `NoNewWorkAfterStop`; `ScanTerminates`, `NullDelivered` under fairness |
| `AddressPlan` | words of 8 bits, every address and prefix length | `AndroidVisitsSubnet`, `IosVisitsSubnet`, `AndroidThrowsAtTheEdges` |
| `WifiAddress` | four networks, 3 changes of Wi-Fi | `SteadyScanVisitsNetwork` |
| `WifiTest` | the same | the code contradicts a comment: see section 5 |
| `IcmpPing` | 2 replies, 2 children, 1 event of the environment | `SecondResumeExplained`, `VerdictExplained`; `AlwaysResumed`, `EveryLookupReturns` under fairness |
| `NeighDump` | 2 dumps, 2 entries, 2 clock values, a pipe that holds every line and one that holds none | `SoloDumpComplete`, `ExitExplained`, `DescriptorsReturned`; `SoloDumpReturns` under fairness |
| `NeighLine` | 2 dumps, every table of an ordinary entry before or behind one of any kind | `ReportsWanted`, `MixedHostExplained` |
| `WifiStatus` | either platform, 3 streams, 1 change of Wi-Fi | `MonitorFollowsHandler`; `StatusSettles` under fairness |
| `NameReply` | 3 calls, 2 ports | types, `WrongMdnsNameExplained`, `WrongNetBIOSNameExplained`, `OpenSocketExplained`; `EveryCallReturns` under fairness |
| `IosName` | 3 calls on one port | types, `WrongNameExplained`, `LeftoversExplained`; `EveryResolutionReturns` under fairness |

*Why the bounds are enough.* Two sessions are what every race between a listen and
an earlier scan needs; a third would only repeat the second. Two workers and three
hosts make the strides differ in length and wrap once. One scan with several workers
and two scans with one worker are separate runs because a worker reads only its own
scan's `cancelled` and `timedOut`; what the two do not show together, the theorems
of section 4 show for every number of each. The ARP path needs one host for each
hazard of order, and a second entry for the filter and for a dump that does not fit.
Eight bits give every relation between a shift distance, the sign and an octet
boundary (two bits) that 32 bits do; section 4 proves the rest. Two dumps are what a
shared handle needs; two entries tell a lost one from a lost dump, and one of them
passes the filter, so that the one pipe has room for a line too many and the other
lacks one. A pool of two threads is used up by two stuck children, of one scan or of
two, and not by one. Three calls are a host, one whose reply it refuses and one
whose reply it takes; two ports for three calls make them take each other's, and
leave one without. For a routing socket one message too many is what misleads, and
it may come from the other child, from the ARP table or as news; for the ping a
reply and its copy are what the race with the timeout needs. Three streams are one
whose cancel comes late, the one it hits, and one that listens after it. All bounds
are constants in the `.cfg` files; the models themselves have none but
`MaxSessions`, `MaxChanges`, `MaxStateChanges`, `MaxReplies`, `MaxEvents` and
`MaxStreams`.

Deadlock is checked in every run. The models may rest only in states that
`AtRest` (or `Stopped`, `Ended`, `Terminating`, `PTerminating`) names: no coroutine, block or
thread has anything left to do, the process has ended, a dump or a child waits for ever
with whatever it holds up, or nothing is known since a second resume.

*Fairness.* Only of what the schedulers run anyway: each coroutine of
`Dispatchers.IO`, the task queue, the main looper or main queue, each Swift task,
each dispatch queue, each thread, and the messages between Dart and the platform.
Every blocking call they make ends by its own
timeout (`connect` and `isReachable` after a second, a ping after a second, the
resolvers after one), with two exceptions, which are states of the models with no
step and so without fairness, and which the liveness properties name.

* A child whose write on the routing socket failed waits in `ip2mac` until some
  message comes. In `PingHelper` it is misled, and `EveryLookupReturns` leaves it
  out. In `IosScan` it is `"stuck"`, and `HeldUp` is the escape in `ScanTerminates`
  and `NullDelivered`: a child of that very scan is stuck, or children hold all the
  pool's threads. Whether the Tasks are fairly scheduled is asked only while a
  thread is free. The other escape of the two is `undefined`.
* A native dump may never return, when it shares the netlink handle or when its
  output does not fit into the pipe that nobody reads yet. In `AndroidScan` such a
  dump is `Stuck`, the escape in `ScanTerminates` and `DoneDelivered`. In
  `NeighDump` it waits for a message that another dump took, which is the escape
  `overlapped`, or is `Blocked`, which `SoloDumpReturns` allows only to a dump whose
  ARP entries are more than its pipe holds.

Listening, cancelling, detaching, the scan's timeout, replies, changes of Wi-Fi and
failures are never obliged to happen. Fairness of `Dispatchers.IO` assumes that it
has a thread: many stuck scans could use all 64 up, which is not modelled.

## 4. The proofs

Of the Android scan, for any number of sessions, hosts, workers and neighbours, from
`ScanAssumption` alone (there are workers unless there are no hosts; `Done` is no
address; the host indices are addresses; the neighbour sets are what they say).

* `TypeCorrect`: `Spec => []TypeOK`. The step worth reading is `probed`'s: an
  index is added only behind the loop test, so the proof strengthens `TypeOK` to
  `TypeInv`, in which a worker past the test has an index below `NumHosts`.
* `AtMostOneLiveScan`: `Spec => []OneLiveScan`. `OneLiveScan` is not inductive: it
  needs `LiveInv`, which says that a live scan is the one the handler's field
  names, that its `job` field still refers to it, and that while a listen is being executed the
  scan before it is no longer live.
* `AndroidImplementsStream`: `Spec => ImplementsScanStream`. The inductive
  invariant `StreamInv` has four parts: sessions beyond `session` are fresh; the
  active sink is a session that has been listened to; the phases agree with the
  workers and the tasks; and, for the null event, how many of them for a
  session are on their way or delivered, and that no post of a host is pending or
  possible behind it as long as its sink is active. Each action then maps to
  `Open`, `Report`, `Finish`, `Close` or a stutter.
* `StopBeginsNothing`: `Spec => NoNewWorkAfterStop`, from the same invariant.
* `DoneIsComplete`: `Spec => []DoneMeansComplete`. Worker `w` has the hosts of
  remainder `w` modulo the number of workers: `CoveredInv` says that its index keeps
  that remainder (`StrideInv`), that it has probed what lies below it (`CoverInv`)
  and that one that is done is past the last host (`PastInv`). The lemma
  `NoneSkipped` closes the gap between one index and the next. `ToldInv` follows
  an answer from the worker to the looper's queue and to the listener; the null
  event, which `StreamInv` puts last, finds everything told.
* `HostsAreReportedOnce`: `Spec => []NoDuplicateHost`, by `OnceInv`: what has been
  told lies behind its worker's index, is queued once at most, and not both queued
  and sent.

TLC checked `TypeInv`, `LiveInv` and `StreamInv` on small instances before they
were proved.

Of the iOS scan, for any number of listens, hosts, children and threads of the pool,
from `IosAssumption`, children that wait in `ip2mac` for ever included, and up to a
second resume, after which the model takes no step:

* `TypeCorrect`, `AtMostOneLiveScan`, `StopBeginsNothing`, as on Android. By
  `LiveInv` a live scan is the one that the handler's field names, and it holds its
  task or is about to, so that a stop finds it and there is none when `onListen`
  makes the next.
* `NullMeansComplete`: `Spec => []NullEvents`. `CoveredInv` is the argument of the
  strides once more. `PostInv` orders the posts: a body that has posted its null
  event is over and its children with it (`OverInv`), and a scan whose stop has
  posted can no longer be stopped (`StopInv`), because only the handler's own calls
  can reach it and the next of them replaces it or finds the field nil.

Of the ping of one child among any number of children, from `MeAssumption`
and `ReplyAssumption`:

* `SecondResumes`: `PSpec => []SecondResumeExplained`. `AtMostTwo` counts who may
  still resume: one of the resolver, `createSocket` and the reader, and the timeout.
  `Cancelled` and `NoHazard` say that without one of the three hazards whoever came
  first has kept the other from it.
* `VerdictIsRight`: `PSpec => []VerdictExplained`. By `FinderInv` a child that waits
  to read, and is not misled, finds the kernel's answer to its own request at the
  head of its socket, whatever has been appended since.

Of the addresses, on words of any width that four octets divide, 32 bits
included, from `WordAssumption` and `LeaseAssumption`:

* Powers of two and the bitwise and are recursive functions of the number of bits.
  `Recursion` says once that a first value and a step on any set define a function on
  the naturals, and `TwoIsRecursive` and `AndIsRecursive` derive from it the equations
  that `Two` and `And` were given; a recursive definition is a CHOOSE, and
  these say that there is something to choose. What is then true for every number of
  bits follows by `Induction`, on the set of the numbers for which it holds.
* `AndHighBits`: the and with a mask whose bits from `h` on are set rounds
  down to a multiple of 2^h. With `AndroidNetmaskIs` and `IosNetmaskIs`, that the shifts of
  the two platforms give such a mask, the first address is the subnet's
  (`AndNetmask`), and by `NetworkFits` no address of a worker wraps around. `VisitsOnce`:
  the strides of the workers together are every index, and each is in one stride.
* `AndroidSubnet`: `PlanSpec => []AndroidVisitsSubnet`, and `IosSubnet`:
  `PlanSpec => []IosVisitsSubnet`, which needs `OctetsDetermine` (four octets stand for one
  address). The inductive invariant, `PlanInv`, is only that the address is a word
  and the prefix a length; the work is in the lemmas. `PlansAgree`: two devices of one
  subnet look at the same addresses. `PlansFitScans`: a plan without workers has no
  hosts, on either platform, so the plans meet what `ScanAssumption` and
  `IosAssumption` ask of the numbers of hosts and workers.
* `AndroidEdges`: `PlanSpec => []AndroidThrowsAtTheEdges`. By `EdgeIs` both ends of the
  range that three octets hold are multiples of the subnet's size, so that no
  subnet straddles one.
* `SteadyScan`: `WSpec => []SteadyScanVisitsNetwork`. `ReadIsCurrent` says, from the
  test on and as long as nothing has changed since, that Wi-Fi is connected, that the address
  read is its lease's, and where the prefix length came from: the truth, a
  dhcpInfo that is possible, or a look-up that failed.

Of the Wi-Fi status, in the same module, for any number of streams and changes, from
`StatusAssumption`:

* `MonitorFollows`: `Spec => []MonitorFollowsHandler`. `LastCallIsHandlers` says that
  the last call on its way, or the active sink when there is none, is what Dart's
  handler asks for; `MonitorFollowsSink`, that the background queue brings the
  receiver to what the active sink asks for.

Of the native dump, for any number of dumpers, any table, any clock and pipes of any
size, from `DumpAssumption` (the dumpers and the table are finite, an entry is
neither the end of a dump nor an error, the clock is past 0, and a pipe holds some
number of lines):

* The inductive invariant is `DumpInv`. `Room` counts: one descriptor in use for
  `/dev/null` and at most one more for each dump that has begun and for each that
  has opened its socket, so that a lowest free one exists; this holds whatever
  overlapping dumps close or forget. `Alone` says that two dumps inside are both
  recorded as overlapped. `Unopened(d)` says that what a dump has yet to open is
  nowhere, however far others have damaged `rth`, and `Solo(d)` what a dump that is
  still alone relies on at each of its steps: `rth.fd` is its own socket, the filter
  is as it set it, `rth.dump` the number it sent, and each entry is in its pipe,
  about to be written there, or still in the answer (`Pending`). `Strays` says that what
  another dump may yet write into the pipe of one that is alone is nothing: whoever
  waits to write there has overlapped. `Accounted` says, as long as nothing has
  overlapped, whose each open descriptor is.
* `SoloDumpIsComplete`: `Spec => []SoloDumpComplete`, from `Solo`.
* `ExitsAreExplained`: `Spec => []ExitExplained`. An exit tests `rth.fd` for a
  socket, and `Solo` has it there.
* `DescriptorsAreReturned`: `Spec => []DescriptorsReturned`, from `Accounted`.

Of the lines, for any number of dumps and any table, from `LineAssumption` (what is
worth a visit is an address; the two texts that are none are none) and
`TableAssumption`:

* The lemmas `ValidLine`, `PendingLine` and `StatelessLine` count the words of a
  line. A valid neighbour's has its link-layer address as the fifth word, its state as
  the last and at least six words; one that is incomplete ends in its state; one without
  a state has five at most, flags and all. `AcceptedIsWanted` concludes
  that the parser's three tests, of words whose meaning it does not know, agree with
  what the scanner is after for every entry that the filter lets through.
* The inductive invariant is `LineInv`. `BufferInv` says that a dump that is alone
  finds in the static buffer what it wrote there; `LeftInv`, that what it has still
  to print is the rest of the table; `Explained`, that every line and every
  host, of whatever dump, stems from an entry; `Traced`, that the hosts and the
  unread lines of a dump that is alone number the wanted entries seen so far without
  gap or repetition, in order.
* `ReportsAreWanted`: `Spec => []ReportsWanted`, from `Traced` when nothing is left
  to print or to parse.
* `MixedHostsAreExplained`: `Spec => []MixedHostExplained`, from `Explained`.

TLC checked `DumpInv` for two dumpers, and `LineInv` for two dumps of small
tables, before they were proved; `PlanInv`, `WifiTypeOK` and `ReadIsCurrent` on the instance
of `WifiAddress`.

For the names, from `NameAssumption` and `IosNameAssumption` (the addresses are
octets, four or sixteen of them):

* `TypeCorrect` of `NameReplyProofs` and `IosNameProofs`: the types, strengthened
  by `HasSocket` (a call that sends or receives has a port) and by `PromiseKept`
  (a call that closes its channel has an answer or a timeout). The part worth reading is
  that identifiers and ports stay in range, so that `UInt8(id >> 8)` never traps.
* `OnlyConfusableNames`, twice: `WrongMdnsNameExplained` and `WrongNameExplained`.
  The test on a reply compares two octets of `addr[2] * 255 + addr[3]`. The
  arithmetic lemmas `HighOctet` and `LowOctet` say what these are: the third
  octet, less one when the fourth is smaller, and the difference of the two. So
  on Android (signed octets) the test splits a subnet of 256 into two sides and
  tells apart only hosts of different sides; on iOS, where the port already
  separates last octets, it lets through just the pairs x.y.k.k and x.y.(k+1).k
  (and hosts that agree in both octets).
  The invariants `NameInv` add that every request is that of its call and that a
  waiting call has asked from its port; on iOS, that a promise is explained
  before the call takes it over.
* `OnlyPortSharersNames`: `WrongNetBIOSNameExplained`, by the same argument with
  `NetBIOSInv`, in which no identifier helps.
* `SocketsAreClosed` and `NothingLeftBehind`: `OpenSocketExplained` and
  `LeftoversExplained`. `SocketInv` says that a call has no socket between its two
  resolvers; `CleanUp`, that on iOS a call that has asked goes on only with its
  channel closed and its timeout over.

Only model-checked is liveness (`ScanTerminates`, `DoneDelivered`, `AlwaysResumed`,
`EveryLookupReturns`, `NullDelivered`, `SoloDumpReturns`, `StatusSettles`,
`EveryCallReturns`, `EveryResolutionReturns`), which is out of the prover's reach.
Every invariant and every action property of the runs is a theorem.

## 5. Where code and comment disagree

`WifiTest`: `Wireless.isConnectedWifi` is documented as "True if the device is
connected, false if it isn't" (`Wireless.kt:92`) but returns
`isConnectedOrConnecting`. A listen that comes while Wi-Fi is still connecting
passes the test, reads the address 0 and the prefix length 0, and starts a scan
of these; its first address is 1, which `toByteArray` gives as a single octet, so
that `getByAddress` throws in a coroutine and nothing catches it.

Other things the models make plain, none of which a line of the repository denies:
an iOS scan whose body outruns the assignment of `scanningTask` sends no null event,
and one that is stopped just then may send two (`NullEvents`, `NullDelivered`); a
ping's continuation is resumed twice when the reply comes before the timeout is
armed, when it comes while the timeout's block runs, and when no socket can be made
(`SecondResumeExplained`); overlapping dumps can end the process (`ExitExplained`)
and pair one neighbour's IP address with another's link-layer address
(`MixedHostExplained`); an iOS host may be missed or invented by another's answer on
the routing socket (`VerdictExplained`); an Android scan of a network in 0.0/9 or
255.128/9 throws (`AndroidThrowsAtTheEdges`); a late reply may name the wrong host
(`WrongMdnsNameExplained`, `WrongNameExplained`), and an IPv6 neighbour of the ARP
path asks for the name of its first four octets, which `reverseName`'s "only IPv4 is
supported here" owns up to; a reply that `decodeName` cannot read leaves its socket
open and NetBIOS unasked (`OpenSocketExplained`).

## 6. What is not modelled

* What a name reads: the labels, `Host`'s cutting of ".local", and the second to
  fourth of NetBIOS's names, which nobody uses. No caller gives `Host` the
  empty name that its setter cannot cut.
* On iOS: TONetBIOSNameService and `gethostbyaddr`, which give a name or none; and
  a reply that cannot be decoded.
* Of the Dart side everything but its streams: a host's JSON, the example page,
  whose listens and cancels are among those that `ScanStream` and `WifiStatus` allow.
* iOS `Wireless`: one reading of the interfaces, whose answer is an input of
  `AddressPlan`; the getters of Android's that nothing calls.
* The registration of the plugins, which keeps no state; detaching is modelled.
* What a process does after a continuation has been resumed a second time: it is
  undefined, and `IosScan` ends there. That a second resume need not do any harm
  is the behaviour without that step.
* Logging, the packet layouts and checksums; of iproute2 the flush, listen and
  send code that `nativeIPNeigh` does not reach, the printers for DECnet, IPX and
  MPLS, which Android compiles out of the dump, and the headers but for `struct
  rtnl_handle`; generated Dart code.
* An exception in a probing coroutine that ends the process is modelled where it
  comes from `isReachable` (`ProbeThrows`); the one from `getByAddress` is
  `AddressThrows` in `AddressPlan`, and it does not occur in `AndroidScan`, whose
  indices stand for addresses that can be encoded.

## 7. Plan

Done, in the order of importance: the Android scan and its stream; the iOS scan;
the address plan and the readings it starts from; the ping and the look-up in the
ARP table; the dump and its lines; the names; the Wi-Fi status; the proofs of
section 4. What is left, should the code come to need it:

1. The two scans' dumps as one composition of `AndroidScan` with `NeighDump`, in
   place of the step `NeighReturn` that stands for it.
2. The threads of `Dispatchers.IO` as a bounded pool that stuck dumps use up.
