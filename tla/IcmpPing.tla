------------------------------ MODULE IcmpPing ------------------------------
(***************************************************************************)
(* One ping of the iOS scan: ICMPPingTool and the continuation that        *)
(* PingHelper.start waits on.  The name is resolved on a background queue, *)
(* the socket is made and read on the main run loop, the echo request is   *)
(* sent and the timeout armed on a global queue, and the timeout runs on   *)
(* another.  completion resumes the continuation, which a correct program  *)
(* resumes exactly once.                                                   *)
(***************************************************************************)
EXTENDS Naturals

CONSTANT MaxReplies   \* bound: echo replies with the tool's identifier

ASSUME ReplyAssumption == MaxReplies \in Nat

VARIABLES
    resolver,   \* resolveHost's block and its callback
    mainQueue,  \* the block that makes the socket
    socket,     \* the CFSocket
    sender,     \* where sendPing is
    timer,      \* timeoutWorkItem: what the field and the queue hold
    reader,     \* where handleSocketData is, on the main run loop
    timeout,    \* where the timeout's block is
    replies,    \* echo replies that have arrived and are not read
    arrived,    \* how many have arrived
    resumed,    \* how often the continuation has been resumed
    isSuccess,  \* what it was resumed with, the first time
    hazard      \* history: the ways in which a second resume came about

answer == <<resumed, isSuccess>>
vars == <<resolver, mainQueue, socket, sender, timer, reader, timeout, replies,
          arrived, answer, hazard>>

Init ==
    /\ resolver = "running"
    /\ mainQueue = "none"
    /\ socket = "none"
    /\ sender = "none"
    /\ timer = "none"
    /\ reader = "idle"
    /\ timeout = "none"
    /\ replies = 0 /\ arrived = 0
    /\ resumed = 0 /\ isSuccess = FALSE
    /\ hazard = {}

Complete(success) ==
    /\ resumed' = resumed + 1
    /\ isSuccess' = IF resumed = 0 THEN success ELSE isSuccess

(* resolveHost: CFHostStartInfoResolution fails or gives no address... *)
ResolveFails ==
    /\ resolver = "running"
    /\ resolver' = "failed"
    /\ Complete(FALSE)
    /\ UNCHANGED <<mainQueue, socket, sender, timer, reader, timeout, replies,
                   arrived, hazard>>

(* ... or the address is stored and the main queue makes the socket. *)
Resolve ==
    /\ resolver = "running"
    /\ resolver' = "done"
    /\ mainQueue' = "queued"
    /\ UNCHANGED <<socket, sender, timer, reader, timeout, replies, arrived,
                   answer, hazard>>

(* createSocket, and sendPing is dispatched *)
CreateSocket ==
    /\ mainQueue = "queued"
    /\ mainQueue' = "done"
    /\ socket' = "open"
    /\ sender' = "send"
    /\ UNCHANGED <<resolver, timer, reader, timeout, replies, arrived, answer,
                   hazard>>

(* CFSocketCreate fails: the continuation is resumed, and sendPing is dispatched
   all the same. *)
CreateSocketFails ==
    /\ mainQueue = "queued"
    /\ mainQueue' = "done"
    /\ Complete(FALSE)
    /\ sender' = "send"
    /\ hazard' = hazard \cup {"no socket"}
    /\ UNCHANGED <<resolver, socket, timer, reader, timeout, replies, arrived>>

(* CFSocketSendData; without a socket it may end the process, which is left
   out, or do nothing. *)
Send ==
    /\ sender = "send"
    /\ sender' = "arm"
    /\ UNCHANGED <<resolver, mainQueue, socket, timer, reader, timeout, replies,
                   arrived, answer, hazard>>

(* self.timeoutWorkItem = timeoutWorkItem *)
Arm ==
    /\ sender = "arm"
    /\ sender' = "schedule"
    /\ timer' = "armed"
    /\ UNCHANGED <<resolver, mainQueue, socket, reader, timeout, replies,
                   arrived, answer, hazard>>

(* Mutant of Scheduled: the timeout is never dispatched. *)
ScheduledNever == "none"
Scheduled == "waiting"

(* asyncAfter; a cancelled work item stays cancelled *)
Schedule ==
    /\ sender = "schedule"
    /\ sender' = "done"
    /\ timeout' = Scheduled
    /\ UNCHANGED <<resolver, mainQueue, socket, timer, reader, replies, arrived,
                   answer, hazard>>

(* The network: a reply to the request, possibly again, with the identifier. *)
Reply ==
    /\ sender \in {"arm", "schedule", "done"} /\ socket = "open"
    /\ arrived < MaxReplies
    /\ replies' = replies + 1
    /\ arrived' = arrived + 1
    /\ UNCHANGED <<resolver, mainQueue, socket, sender, timer, reader, timeout,
                   answer, hazard>>

(* timeoutWorkItem?.cancel(): it reaches a work item that has not started.
   Mutant: it is not called. *)
NothingCancelled == timer
CancelTimeout ==
    IF timer = "armed" /\ timeout \in {"none", "waiting"} THEN "cancelled" ELSE timer

(* The socket's callback on the main run loop, then handleSocketData's three
   steps. *)
ReadReply ==
    /\ reader = "idle" /\ replies > 0 /\ socket = "open"
    /\ replies' = replies - 1
    /\ reader' = "complete"
    /\ timer' = CancelTimeout
    /\ hazard' = hazard \cup
                   (IF timer = "none" THEN {"early reply"} ELSE {})
                 \cup (IF timeout \in {"completing", "stopping"}
                       THEN {"timeout running"} ELSE {})
    /\ UNCHANGED <<resolver, mainQueue, socket, sender, timeout, arrived, answer>>

ReaderCompletes ==
    /\ reader = "complete"
    /\ reader' = "stop"
    /\ Complete(TRUE)
    /\ UNCHANGED <<resolver, mainQueue, socket, sender, timer, timeout, replies,
                   arrived, hazard>>

(* stopPing: an invalidated socket calls back no more *)
ReaderStops ==
    /\ reader = "stop"
    /\ reader' = "idle"
    /\ socket' = "closed"
    /\ UNCHANGED <<resolver, mainQueue, sender, timer, timeout, replies, arrived,
                   answer, hazard>>

(* The second is over. *)
TimeoutStarts ==
    /\ timeout = "waiting"
    /\ timeout' = IF timer = "cancelled" THEN "done" ELSE "completing"
    /\ UNCHANGED <<resolver, mainQueue, socket, sender, timer, reader, replies,
                   arrived, answer, hazard>>

TimeoutCompletes ==
    /\ timeout = "completing"
    /\ timeout' = "stopping"
    /\ Complete(FALSE)
    /\ UNCHANGED <<resolver, mainQueue, socket, sender, timer, reader, replies,
                   arrived, hazard>>

TimeoutStops ==
    /\ timeout = "stopping"
    /\ timeout' = "done"
    /\ socket' = IF socket = "open" THEN "closed" ELSE socket
    /\ UNCHANGED <<resolver, mainQueue, sender, timer, reader, replies, arrived,
                   answer, hazard>>

ResolverStep == ResolveFails \/ Resolve
MainStep     == CreateSocket \/ CreateSocketFails \/ ReadReply \/ ReaderCompletes
                \/ ReaderStops
SenderStep   == Send \/ Arm \/ Schedule
TimeoutStep  == TimeoutStarts \/ TimeoutCompletes \/ TimeoutStops

(* Nothing is left to run. *)
AtRest ==
    /\ resolver # "running" /\ mainQueue # "queued"
    /\ sender \in {"none", "done"} /\ reader = "idle"
    /\ timeout \in {"none", "done"}

Terminating == AtRest /\ UNCHANGED vars

Next == ResolverStep \/ MainStep \/ SenderStep \/ TimeoutStep \/ Reply \/ Terminating

Spec == Init /\ [][Next]_vars

(* Every queue runs what it is given; no reply has to come. *)
FairSpec ==
    Spec /\ WF_vars(ResolverStep) /\ WF_vars(MainStep) /\ WF_vars(SenderStep)
         /\ WF_vars(TimeoutStep)

-----------------------------------------------------------------------------
(* The continuation is resumed more than once only in one of three ways: no
   socket could be made; the reply was read before the timeout was armed; the
   reply was read while the timeout's block ran.  It is never resumed more than
   twice, however the queues interleave: by one of the reader, the resolver and
   createSocket, and by the timeout. *)
SecondResumeExplained == resumed <= 2 /\ (resumed > 1 => hazard # {})

(* PingHelper.start returns: the continuation is resumed, reply or none. *)
AlwaysResumed == <>(resumed > 0)
=============================================================================
