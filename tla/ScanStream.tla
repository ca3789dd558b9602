----------------------------- MODULE ScanStream -----------------------------
(***************************************************************************)
(* What the plugin promises the Dart side of the channel "lan_scan_event", *)
(* whatever the platform: a listen opens one event stream, hosts arrive on *)
(* it while it is open, one null event says that the scan is over, and     *)
(* nothing follows the null event or the stream's end.                     *)
(***************************************************************************)
EXTENDS Naturals, Sequences

CONSTANTS
    Sessions,   \* one per listen call
    Hosts,      \* the host events
    Done        \* the null event that ends a scan

VARIABLES
    stream,     \* stream[s] is the state of the stream of session s
    events      \* events[s] is what its Dart listener has been sent

svars == <<stream, events>>

StreamStates == {"unopened", "open", "done", "closed"}

StreamInit ==
    /\ stream = [s \in Sessions |-> "unopened"]
    /\ events = [s \in Sessions |-> <<>>]

(* A listen opens the stream of a new session; the platform's channel keeps
   one stream at a time, so that an earlier one is closed. *)
Open(s) ==
    /\ stream[s] = "unopened"
    /\ stream' = [t \in Sessions |->
                     IF t = s THEN "open"
                     ELSE IF stream[t] = "unopened" THEN "unopened"
                     ELSE "closed"]
    /\ UNCHANGED events

Report(s, h) ==
    /\ stream[s] = "open"
    /\ events' = [events EXCEPT ![s] = Append(@, h)]
    /\ UNCHANGED stream

Finish(s) ==
    /\ stream[s] = "open"
    /\ events' = [events EXCEPT ![s] = Append(@, Done)]
    /\ stream' = [stream EXCEPT ![s] = "done"]

Close(s) ==
    /\ stream[s] \in {"open", "done"}
    /\ stream' = [stream EXCEPT ![s] = "closed"]
    /\ UNCHANGED events

StreamNext ==
    \E s \in Sessions :
        \/ Open(s)
        \/ \E h \in Hosts : Report(s, h)
        \/ Finish(s)
        \/ Close(s)

StreamSpec == StreamInit /\ [][StreamNext]_svars
=============================================================================
