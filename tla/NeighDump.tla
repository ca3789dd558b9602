------------------------------ MODULE NeighDump ------------------------------
(***************************************************************************)
(* nativeIPNeigh, the native dump of the neighbour table that the Android  *)
(* scan reads before Tiramisu: ipneigh.c over libnetlink.c.  The netlink   *)
(* handle rth and the filter are one for the process, and nothing locks    *)
(* them.  Each scan dumps at most once, in a thread of its own, into a     *)
(* pipe that nobody reads until the dump is back; an access to rth or      *)
(* filter that another thread can come between is a step.                  *)
(***************************************************************************)
EXTENDS Integers, FiniteSets, SequencesExt

CONSTANTS
    Dumpers,     \* the scans' threads that enter nativeIPNeigh
    Table,       \* the entries of the kernel's neighbour table
    NoArp,       \* those in the state NUD_NOARP
    Times,       \* what time(NULL) may return
    PipeLines    \* how many lines the pipe of each dumper holds

(* How a dump ends: the type of its last message, or of a refusal *)
Done  == "NLMSG_DONE"
Error == "NLMSG_ERROR"

ASSUME DumpAssumption ==
    /\ IsFiniteSet(Dumpers)
    /\ IsFiniteSet(Table) /\ NoArp \subseteq Table
    /\ Done \notin Table /\ Error \notin Table
    /\ Times \subseteq Nat \ {0}
    /\ PipeLines \in [Dumpers -> Nat]

VARIABLES
    (* rth and filter *)
    fd, seq, dump,
    mask,        \* filter.state: which neighbour states it lets through
    (* the kernel *)
    fdTable,     \* what each descriptor refers to
    queue,       \* the datagrams on each dumper's socket
    (* the dumping threads *)
    pc,
    mySeq,       \* nlmsg_seq of the request
    pipeFd,      \* the descriptor of mypipe
    reading,     \* the socket that recvmsg waits on
    closing,     \* the descriptor rtnl_close has read from rth
    line,        \* what write waits with: a line, and the dumper whose pipe it is for
    out,         \* the lines that have reached the dumper's pipe
    exited,      \* the native code has ended the process
    (* history *)
    failed,      \* a system call has failed for no fault of the program
    overlapped   \* the dumps that ran beside another one

handle == <<fd, seq, dump>>
kernel == <<fdTable, queue>>
local  == <<mySeq, pipeFd, reading, closing, line>>
vars == <<handle, mask, kernel, pc, local, out, exited, failed, overlapped>>

(* Enough descriptors for /dev/null, which is 0, and a pipe and a socket each *)
Fds == 0..(2 * Cardinality(Dumpers))
Socket(d) == [kind |-> "socket", of |-> d]
Pipe(d)   == [kind |-> "pipe", of |-> d]
DevNull   == [kind |-> "null"]
Free      == [kind |-> "free"]
LowestFree == CHOOSE f \in Fds : /\ fdTable[f] = Free
                                 /\ \A g \in Fds : fdTable[g] = Free => f <= g
IsSocket(f) == f \in Fds /\ fdTable[f].kind = "socket"

Msg(n, b) == [seq |-> n, body |-> b]

Init ==
    /\ fd = -1 /\ seq = 0 /\ dump = 0
    /\ mask = "none"
    /\ fdTable = [f \in Fds |-> IF f = 0 THEN DevNull ELSE Free]
    /\ queue = [d \in Dumpers |-> <<>>]
    /\ pc = [d \in Dumpers |-> "idle"]
    /\ mySeq = [d \in Dumpers |-> 0]
    /\ pipeFd = [d \in Dumpers |-> 0]
    /\ reading = [d \in Dumpers |-> d]
    /\ closing = [d \in Dumpers |-> 0]
    /\ line = [d \in Dumpers |-> [to |-> d, entry |-> Done]]
    /\ out = [d \in Dumpers |-> <<>>]
    /\ exited = FALSE
    /\ failed = FALSE
    /\ overlapped = {}

Goto(d, from, to) == pc[d] = from /\ pc' = [pc EXCEPT ![d] = to]
Inside == {d \in Dumpers : pc[d] \notin {"idle", "returned"}}

(* exit(1) *)
Exit ==
    /\ exited' = TRUE
    /\ UNCHANGED <<handle, mask, kernel, pc, local, out, failed, overlapped>>

-----------------------------------------------------------------------------
(* The pipe's write end, and fdopen *)
Begin(d) ==
    /\ Goto(d, "idle", "zero")
    /\ pipeFd' = [pipeFd EXCEPT ![d] = LowestFree]
    /\ fdTable' = [fdTable EXCEPT ![LowestFree] = Pipe(d)]
    /\ overlapped' = IF Inside = {} THEN overlapped
                     ELSE overlapped \cup Inside \cup {d}
    /\ UNCHANGED <<handle, mask, queue, mySeq, reading, closing, line, out, exited,
                   failed>>

(* rtnl_open: memset of rth, ... *)
Zero(d) ==
    /\ Goto(d, "zero", "socket")
    /\ fd' = 0 /\ seq' = 0 /\ dump' = 0
    /\ UNCHANGED <<mask, kernel, local, out, exited, failed, overlapped>>

(* ... socket(), ...  Mutant of OpenSocket: memset comes after it. *)
OpenSocketThenZero(d) ==
    /\ Goto(d, "socket", "prepare")
    /\ fd' = 0
    /\ fdTable' = [fdTable EXCEPT ![LowestFree] = Socket(d)]
    /\ UNCHANGED <<seq, dump, mask, queue, local, out, exited, failed, overlapped>>

OpenSocket(d) ==
    /\ Goto(d, "socket", "prepare")
    /\ fd' = LowestFree
    /\ fdTable' = [fdTable EXCEPT ![LowestFree] = Socket(d)]
    /\ UNCHANGED <<seq, dump, mask, queue, local, out, exited, failed, overlapped>>

(* ... setsockopt and getsockname, which want a socket in rth->fd, and the
   first sequence number. *)
Prepare(d) ==
    /\ IsSocket(fd)
    /\ Goto(d, "prepare", "clear")
    /\ seq' \in Times
    /\ UNCHANGED <<fd, dump, mask, kernel, local, out, exited, failed, overlapped>>

PrepareFails(d) == pc[d] = "prepare" /\ ~IsSocket(fd) /\ Exit

(* ipneigh_reset_filter clears the filter and lets everything through; then
   do_show_or_flush leaves NUD_NOARP out.  Mutant of LastMask: it does not. *)
LastMaskAll == "all"
LastMask == "arp"

SetFilter(d) ==
    /\ \/ Goto(d, "clear", "all") /\ mask' = "none"
       \/ Goto(d, "all", "arp") /\ mask' = "all"
       \/ Goto(d, "arp", "number") /\ mask' = LastMask
    /\ UNCHANGED <<handle, kernel, local, out, exited, failed, overlapped>>

(* rtnl_dump_request_n: n->nlmsg_seq = rth->dump = ++rth->seq, ... *)
Number(d) ==
    /\ Goto(d, "number", "send")
    /\ seq' = seq + 1 /\ dump' = seq + 1
    /\ mySeq' = [mySeq EXCEPT ![d] = seq + 1]
    /\ UNCHANGED <<fd, mask, kernel, pipeFd, reading, closing, line, out, exited,
                   failed, overlapped>>

(* ... and sendmsg.  The kernel answers on the socket that rth->fd is by now,
   with the entries of the table, in an order of its own, and NLMSG_DONE; while
   an earlier dump is being read there it may refuse another one. *)
Answers(n) ==
    {[i \in 1..Len(es) |-> Msg(n, es[i])] \o <<Msg(n, Done)>> :
        es \in SetToSeqs(Table)}

Send(d) ==
    /\ IsSocket(fd)
    /\ Goto(d, "send", "load")
    /\ LET s == fdTable[fd].of
       IN \/ \E answer \in Answers(mySeq[d]) :
                queue' = [queue EXCEPT ![s] = @ \o answer]
          \/ /\ queue[s] # <<>>
             /\ queue' = [queue EXCEPT ![s] = Append(@, Msg(mySeq[d], Error))]
    /\ UNCHANGED <<handle, mask, fdTable, local, out, exited, failed, overlapped>>

SendFails(d) == pc[d] = "send" /\ ~IsSocket(fd) /\ Exit

-----------------------------------------------------------------------------
(* rtnl_dump_filter_l: recvmsg on what rth->fd is at the time of the call; a
   thread that waits keeps the socket it waits on. *)
Load(d) ==
    /\ IsSocket(fd)
    /\ Goto(d, "load", "receive")
    /\ reading' = [reading EXCEPT ![d] = fdTable[fd].of]
    /\ UNCHANGED <<handle, mask, kernel, mySeq, pipeFd, closing, line, out, exited,
                   failed, overlapped>>

LoadFails(d) == pc[d] = "load" /\ ~IsSocket(fd) /\ Exit

Passes(e) == mask = "all" \/ (mask = "arp" /\ e \notin NoArp)

(* Mutant of AfterMsg: NLMSG_DONE does not end the loop. *)
AfterMsgLoop(m) == "load"
(* A message of another sequence number than rth->dump is skipped. *)
AfterMsg(m) == IF m.seq = dump /\ m.body = Done THEN "test" ELSE "load"

(* print_neigh lets an entry pass and writes its line to the descriptor of mypipe,
   whatever that is by now: *)
Receive(d) ==
    LET s == reading[d]
        m == Head(queue[s])
        target == fdTable[pipeFd[d]]
        prints == /\ m.seq = dump /\ m.body \in Table /\ Passes(m.body)
                  /\ target.kind = "pipe"
    IN /\ queue[s] # <<>>
       /\ ~(m.seq = dump /\ m.body = Error)
       /\ Goto(d, "receive", IF prints THEN "write" ELSE AfterMsg(m))
       /\ queue' = [queue EXCEPT ![s] = Tail(@)]
       /\ line' = IF prints THEN [line EXCEPT ![d] = [to |-> target.of, entry |-> m.body]]
                  ELSE line
       /\ UNCHANGED <<handle, mask, fdTable, mySeq, pipeFd, reading, closing, out,
                      exited, failed, overlapped>>

(* A pipe is read only when its dump is back. *)
Full(d) == pc[d] # "returned" /\ Len(out[d]) >= PipeLines[d]

(* the fflush at the end of each entry, which waits while the pipe is full.  A
   thread that waits keeps the pipe it waits on. *)
Write(d) ==
    LET p == line[d].to
    IN /\ ~Full(p)
       /\ Goto(d, "write", "load")
       /\ out' = [out EXCEPT ![p] = Append(@, line[d].entry)]
       /\ UNCHANGED <<handle, mask, kernel, local, exited, failed, overlapped>>

ReceiveError(d) ==
    LET m == Head(queue[reading[d]])
    IN /\ pc[d] = "receive" /\ queue[reading[d]] # <<>>
       /\ m.seq = dump /\ m.body = Error
       /\ Exit

(* fdopen, socket, sendmsg or recvmsg fails: perror and exit. *)
SystemFails(d) ==
    /\ pc[d] \in {"zero", "socket", "prepare", "send", "receive"}
    /\ exited' = TRUE /\ failed' = TRUE
    /\ UNCHANGED <<handle, mask, kernel, pc, local, out, overlapped>>

-----------------------------------------------------------------------------
(* rtnl_close.  Mutant of AfterTest: the descriptor is forgotten, not closed. *)
AfterTestForget == "forget"
AfterTest == IF fd >= 0 THEN "close" ELSE "fclose"

Test(d) ==
    /\ Goto(d, "test", AfterTest)
    /\ closing' = [closing EXCEPT ![d] = fd]
    /\ UNCHANGED <<handle, mask, kernel, mySeq, pipeFd, reading, line, out, exited,
                   failed, overlapped>>

Close(d) ==
    /\ Goto(d, "close", "forget")
    /\ fdTable' = [fdTable EXCEPT ![closing[d]] = Free]
    /\ UNCHANGED <<handle, mask, queue, local, out, exited, failed, overlapped>>

Forget(d) ==
    /\ Goto(d, "forget", "fclose")
    /\ fd' = -1
    /\ UNCHANGED <<seq, dump, mask, kernel, local, out, exited, failed, overlapped>>

(* fclose(mypipe), and the Kotlin side reads to the end of the pipe. *)
Fclose(d) ==
    /\ Goto(d, "fclose", "returned")
    /\ fdTable' = [fdTable EXCEPT ![pipeFd[d]] = Free]
    /\ UNCHANGED <<handle, mask, queue, local, out, exited, failed, overlapped>>

DumpStep(d) ==
    \/ Zero(d) \/ OpenSocket(d) \/ Prepare(d) \/ PrepareFails(d)
    \/ SetFilter(d) \/ Number(d) \/ Send(d) \/ SendFails(d)
    \/ Load(d) \/ LoadFails(d) \/ Receive(d) \/ Write(d) \/ ReceiveError(d)
    \/ Test(d) \/ Close(d) \/ Forget(d) \/ Fclose(d)

(* A recvmsg on which no datagram will come *)
Waiting(d) == pc[d] = "receive" /\ queue[reading[d]] = <<>>

(* A write into a pipe that nobody will read *)
Blocked(d) == pc[d] = "write" /\ Full(line[d].to)

Terminating ==
    /\ \/ exited
       \/ \A d \in Dumpers :
             pc[d] \in {"idle", "returned"} \/ Waiting(d) \/ Blocked(d)
    /\ UNCHANGED vars

Next ==
    \/ /\ ~exited
       /\ \E d \in Dumpers : Begin(d) \/ DumpStep(d) \/ SystemFails(d)
    \/ Terminating

Spec == Init /\ [][Next]_vars

(* The threads run; no scan has to begin a dump and no call has to fail. *)
FairSpec == Spec /\ \A d \in Dumpers : WF_vars(~exited /\ DumpStep(d))

-----------------------------------------------------------------------------
(* A dump that no other dump overlaps writes every entry of the table that has
   an ARP state, and no other: the sequence number of the request is the one
   its answers are compared with, whatever earlier dumps left in rth. *)
SoloDumpComplete ==
    \A d \in Dumpers : pc[d] = "returned" /\ d \notin overlapped =>
        ToSet(out[d]) = Table \ NoArp

(* The native code ends the process only when the system fails it or when two
   dumps overlap. *)
ExitExplained == exited => failed \/ overlapped # {}

(* When the dumps are back and none has overlapped another one, every pipe and
   socket is closed and descriptor 0 is what it was. *)
DescriptorsReturned ==
    (Inside = {} /\ overlapped = {}) =>
        \A f \in Fds : fdTable[f] = IF f = 0 THEN DevNull ELSE Free

(* A dump that stays alone returns, unless its ARP entries are more lines than its
   pipe holds: then it may fill the pipe and wait for ever. *)
SoloDumpReturns ==
    \A d \in Dumpers :
        pc[d] = "zero" ~>
            \/ pc[d] = "returned" \/ d \in overlapped \/ exited
            \/ Cardinality(Table \ NoArp) > PipeLines[d] /\ Blocked(d)
=============================================================================
