------------------------------ MODULE WifiStatus ------------------------------
(***************************************************************************)
(* wifiConnectionStatusChange, from Dart to the platform and back.  Every  *)
(* call of it makes a stream, which listens and cancels on the one channel *)
(* of its name.  On Android a background queue takes the calls, registers  *)
(* a receiver and unregisters it, while the main thread runs the receiver; *)
(* on iOS the main thread takes them, starts a monitor and cancels it,     *)
(* while the monitor's blocks run on a global queue.                       *)
(***************************************************************************)
EXTENDS Naturals, Sequences

CONSTANTS
    MaxStreams,   \* bound: streams that Dart listens to
    MaxChanges    \* bound: changes of Wi-Fi

Streams == 1..MaxStreams
None    == 0

ASSUME StatusAssumption == MaxStreams \in Nat /\ MaxChanges \in Nat

VARIABLES
    platform,     \* "android" or "ios"
    wifi, changes,
    (* Dart *)
    stream,       \* what each stream is: "new", "listening", "cancelled"
    handler,      \* the stream that gets the channel's messages
    shown,        \* the last event of each stream, if any
    (* the channel *)
    calls,        \* on their way to the platform: a stream's listen, a cancel
    events,       \* on their way to Dart
    activeSink,   \* activeSink on Android, currentSink on iOS
    (* the handlers *)
    attached,     \* the channel still has its handler
    op,           \* Android: where the background queue is
    eventSink,
    monitor,      \* Android: the receiver is registered; iOS: there is a monitor
    due,          \* Android: a broadcast waits for the main thread
    main,         \* Android: what onReceive has read, while it runs
    made,         \* iOS: how many updates the monitors have made
    blocks,       \* those that have not been sent
    last, newest  \* history: the last that was sent, and the newest of those

dart    == <<stream, handler, shown>>
channel == <<calls, events, activeSink>>
android == <<op, due, main>>
ios     == <<made, blocks, last, newest>>
vars == <<platform, wifi, changes, dart, channel, attached, eventSink, monitor,
          android, ios>>

(* What a call asks for: a sink for a stream, or none. *)
Cancel == None
Idle   == "idle"

Init ==
    /\ platform \in {"android", "ios"}
    /\ wifi \in BOOLEAN /\ changes = 0
    /\ stream = [s \in Streams |-> "new"]
    /\ handler = None
    /\ shown = [s \in Streams |-> <<>>]
    /\ calls = <<>> /\ events = <<>>
    /\ activeSink = None
    /\ attached = TRUE
    /\ op = Idle
    /\ eventSink = None
    /\ monitor = FALSE
    /\ due = FALSE /\ main = <<>>
    /\ made = 0 /\ blocks = {}
    /\ last = 0 /\ newest = 0

-----------------------------------------------------------------------------
(* Dart: receiveBroadcastStream of the n-th call sets the channel's message
   handler when it is listened to and clears it when it is cancelled, whosever
   it is by then; the platform is told. *)
Listens(s) ==
    /\ attached /\ stream[s] = "new"
    /\ \A r \in Streams : r < s => stream[r] # "new"
    /\ stream' = [stream EXCEPT ![s] = "listening"]
    /\ handler' = s
    /\ calls' = Append(calls, s)
    /\ UNCHANGED <<platform, wifi, changes, shown, events, activeSink, attached,
                   eventSink, monitor, android, ios>>

Cancels(s) ==
    /\ attached /\ stream[s] = "listening"
    /\ stream' = [stream EXCEPT ![s] = "cancelled"]
    /\ handler' = None
    /\ calls' = Append(calls, Cancel)
    /\ UNCHANGED <<platform, wifi, changes, shown, events, activeSink, attached,
                   eventSink, monitor, android, ios>>

(* An event reaches the handler, and the stream if it is another value. *)
Deliver ==
    /\ attached /\ events # <<>>
    /\ events' = Tail(events)
    /\ shown' = IF handler = None THEN shown
                ELSE [shown EXCEPT ![handler] = <<Head(events)>>]
    /\ UNCHANGED <<platform, wifi, changes, stream, handler, calls, activeSink,
                   attached, eventSink, monitor, android, ios>>

(* onDetachedFromEngine: the engine goes and with it Dart; onCancel is not
   called, and a receiver that is registered stays so. *)
Detach ==
    /\ platform = "android" /\ attached
    /\ attached' = FALSE
    /\ calls' = <<>> /\ events' = <<>>
    /\ UNCHANGED <<platform, wifi, changes, dart, activeSink, eventSink, monitor,
                   android, ios>>

-----------------------------------------------------------------------------
(* Android: the channel's onListen replaces the active sink and cancels for the
   old one, ... *)
TakeListen ==
    /\ platform = "android" /\ op = Idle
    /\ calls # <<>> /\ Head(calls) # Cancel
    /\ calls' = Tail(calls)
    /\ activeSink' = Head(calls)
    /\ op' = IF activeSink # None THEN "replace" ELSE "listen"
    /\ UNCHANGED <<platform, wifi, changes, dart, events, attached, eventSink,
                   monitor, due, main, ios>>

(* ... its onCancel ignores a cancel without one. *)
TakeCancel ==
    /\ platform = "android" /\ op = Idle
    /\ calls # <<>> /\ Head(calls) = Cancel
    /\ calls' = Tail(calls)
    /\ activeSink' = None
    /\ op' = IF activeSink # None THEN "cancel" ELSE Idle
    /\ UNCHANGED <<platform, wifi, changes, dart, events, attached, eventSink,
                   monitor, due, main, ios>>

(* onCancel: unregisterReceiver, and the broadcasts that wait are forgotten.
   Mutant of Unregistered: the receiver stays. *)
StaysRegistered == monitor
Unregistered == FALSE

OnCancel ==
    /\ op \in {"replace", "cancel"}
    /\ op' = IF op = "replace" THEN "listen" ELSE Idle
    /\ monitor' = Unregistered
    /\ due' = FALSE
    /\ UNCHANGED <<platform, wifi, changes, dart, channel, attached, eventSink,
                   main, ios>>

(* onListen: eventSink = events.  Mutant: the first sink is kept. *)
FirstSink(s) == IF eventSink = None THEN s ELSE eventSink
SinkOf(s) == s

SetSink ==
    /\ op = "listen"
    /\ op' = "register"
    /\ eventSink' = SinkOf(activeSink)
    /\ UNCHANGED <<platform, wifi, changes, dart, channel, attached, monitor,
                   due, main, ios>>

(* registerReceiver: the broadcast of the last change is sticky. *)
RegisterReceiver ==
    /\ op = "register"
    /\ op' = Idle
    /\ monitor' = TRUE
    /\ due' = (due \/ ~monitor)
    /\ UNCHANGED <<platform, wifi, changes, dart, channel, attached, eventSink,
                   main, ios>>

(* onReceive on the main thread: isWifiConnected, ... *)
OnReceive ==
    /\ due /\ main = <<>>
    /\ due' = FALSE
    /\ main' = <<wifi>>
    /\ UNCHANGED <<platform, wifi, changes, dart, channel, attached, op,
                   eventSink, monitor, ios>>

(* ... and success, which drops what is not for the active sink. *)
Success ==
    /\ main # <<>>
    /\ main' = <<>>
    /\ events' = IF attached /\ eventSink = activeSink
                 THEN events \o main ELSE events
    /\ UNCHANGED <<platform, wifi, changes, dart, calls, activeSink, attached,
                   op, eventSink, monitor, due, ios>>

-----------------------------------------------------------------------------
(* iOS: an update of the path is a block on the global queue; they are numbered
   here in the order in which they are made. *)
Update(isWifi) ==
    /\ made' = made + 1
    /\ blocks' = blocks \cup {[number |-> made + 1, isWifi |-> isWifi, at |-> "queued"]}

(* The channel's listen, with onCancel(nil) for an old sink, and onListen: a new
   monitor, whose first update comes at once. *)
OnListenIos ==
    /\ platform = "ios"
    /\ calls # <<>> /\ Head(calls) # Cancel
    /\ calls' = Tail(calls)
    /\ activeSink' = Head(calls) /\ eventSink' = Head(calls)
    /\ monitor' = TRUE
    /\ Update(wifi)
    /\ UNCHANGED <<platform, wifi, changes, dart, events, attached, android,
                   last, newest>>

(* Its cancel, which is refused without a sink, and onCancel. *)
OnCancelIos ==
    /\ platform = "ios"
    /\ calls # <<>> /\ Head(calls) = Cancel
    /\ calls' = Tail(calls)
    /\ activeSink' = None /\ eventSink' = None
    /\ monitor' = FALSE
    /\ UNCHANGED <<platform, wifi, changes, dart, events, attached, android, ios>>

(* pathUpdateHandler: a block, of a monitor that may be cancelled by now, finds
   a sink, ... *)
RunBlock(b) ==
    /\ b.at = "queued"
    /\ blocks' = (blocks \ {b})
                 \cup (IF eventSink = None THEN {} ELSE {[b EXCEPT !.at = "send"]})
    /\ UNCHANGED <<platform, wifi, changes, dart, channel, attached, eventSink,
                   monitor, android, made, last, newest>>

(* ... and calls it; nothing is dropped for being an old sink's. *)
SendBlock(b) ==
    /\ b.at = "send"
    /\ blocks' = blocks \ {b}
    /\ events' = Append(events, b.isWifi)
    /\ last' = b.number
    /\ newest' = IF b.number > newest THEN b.number ELSE newest
    /\ UNCHANGED <<platform, wifi, changes, dart, calls, activeSink, attached,
                   eventSink, monitor, android, made>>

-----------------------------------------------------------------------------
(* Wi-Fi comes or goes: a broadcast to the receiver, an update of the monitor. *)
WifiChanges ==
    /\ changes < MaxChanges
    /\ changes' = changes + 1
    /\ wifi' = ~wifi
    /\ IF platform = "ios" /\ monitor THEN Update(~wifi) ELSE UNCHANGED <<made, blocks>>
    /\ due' = (due \/ (platform = "android" /\ monitor))
    /\ UNCHANGED <<platform, dart, channel, attached, op, eventSink, monitor,
                   main, last, newest>>

DartStep == \E s \in Streams : Listens(s) \/ Cancels(s)
CallStep == TakeListen \/ TakeCancel \/ OnCancel \/ SetSink \/ RegisterReceiver
            \/ OnListenIos \/ OnCancelIos
MainStep == OnReceive \/ Success
BlockStep == \E b \in blocks : RunBlock(b) \/ SendBlock(b)

(* Nothing is under way. *)
Handled == calls = <<>> /\ op = Idle
Terminating ==
    /\ Handled /\ events = <<>> /\ ~due /\ main = <<>> /\ blocks = {}
    /\ UNCHANGED vars

Next == DartStep \/ Deliver \/ Detach \/ CallStep \/ MainStep \/ BlockStep
        \/ WifiChanges \/ Terminating

(* The queues run and messages arrive; Dart and Wi-Fi need not do anything. *)
Spec ==
    /\ Init /\ [][Next]_vars
    /\ WF_vars(Deliver) /\ WF_vars(CallStep) /\ WF_vars(MainStep) /\ WF_vars(BlockStep)

-----------------------------------------------------------------------------
(* When the calls have been handled, a receiver is registered or a monitor runs
   exactly if what Dart did last was to listen: whatever streams overlap, none is
   left running for nobody, and the one that listened last has one.  Only an
   engine that is detached may leave its receiver behind. *)
MonitorFollowsHandler ==
    Handled /\ attached => (monitor <=> handler # None)

(* The stream that listened last, if none has been cancelled since, settles on
   the state of Wi-Fi, whatever an older receiver or monitor still had to say:
   unless, on iOS, the last update that was sent is not the newest. *)
StatusSettles ==
    <>[](attached /\ handler # None /\ last = newest => shown[handler] = <<wifi>>)
=============================================================================
