--------------------------- MODULE NeighDumpProofs ---------------------------
(***************************************************************************)
(* What a dump of the neighbour table that stays alone does, for any       *)
(* number of dumps, any table and whatever dumps that overlapped have left *)
(* in rth, in the filter and in the table of descriptors.                  *)
(***************************************************************************)
EXTENDS NeighDump, FiniteSetTheorems, TLAPS

-----------------------------------------------------------------------------
(* The inductive invariant *)

Slots == {DevNull, Free} \cup {Socket(d) : d \in Dumpers} \cup {Pipe(d) : d \in Dumpers}
Messages == [seq : Nat, body : Table \cup {Done, Error}]
Places ==
    {"idle", "zero", "socket", "prepare", "clear", "all", "arp", "number", "send",
     "load", "receive", "write", "test", "close", "forget", "fclose", "returned"}

TypeInv ==
    /\ fd \in Fds \cup {-1} /\ seq \in Nat /\ dump \in Nat
    /\ mask \in {"none", "all", "arp"}
    /\ fdTable \in [Fds -> Slots]
    /\ queue \in [Dumpers -> Seq(Messages)]
    /\ pc \in [Dumpers -> Places]
    /\ mySeq \in [Dumpers -> Nat]
    /\ pipeFd \in [Dumpers -> Fds]
    /\ reading \in [Dumpers -> Dumpers]
    /\ closing \in [Dumpers -> Fds \cup {-1}]
    /\ line \in [Dumpers -> [to : Dumpers, entry : Table \cup {Done}]]
    /\ out \in [Dumpers -> Seq(Table)]
    /\ exited \in BOOLEAN /\ failed \in BOOLEAN
    /\ overlapped \in SUBSET Dumpers
    /\ \A d \in Dumpers : pc[d] = "close" => closing[d] \in Fds
    /\ \A d \in Dumpers : pc[d] = "write" => line[d].entry \in Table

(* A descriptor is left for each pipe and each socket that is still to come. *)
Used   == {f \in Fds : fdTable[f] # Free}
Begun  == {d \in Dumpers : pc[d] # "idle"}
Opened == {d \in Dumpers : pc[d] \notin {"idle", "zero", "socket"}}
Room == Cardinality(Used) <= 1 + Cardinality(Begun) + Cardinality(Opened)

(* Two dumps inside are known to overlap. *)
Alone == \A d, e \in Inside : d # e => d \in overlapped

(* What a dump has not opened yet is nowhere, whatever the others do. *)
NoSocket(d) == \A f \in Fds : fdTable[f] # Socket(d)
NoPipe(d)   == \A f \in Fds : fdTable[f] # Pipe(d)
Unopened(d) ==
    /\ pc[d] \in {"idle", "zero", "socket"} => NoSocket(d) /\ queue[d] = <<>>
    /\ pc[d] = "idle" => NoPipe(d) /\ out[d] = <<>>

(* A line that waits for another dump's pipe is known to do so. *)
Strays ==
    /\ overlapped \subseteq Begun
    /\ \A d \in Dumpers : pc[d] = "write" => line[d].to = d \/ line[d].to \in overlapped

(* The entries that have been written or are about to *)
Printed(d) ==
    IF pc[d] = "write" THEN ToSet(out[d]) \cup {line[d].entry} ELSE ToSet(out[d])

(* The rest of the answer: every ARP entry has been printed or is in it. *)
Pending(d) ==
    LET q == queue[d]
    IN /\ Len(q) > 0
       /\ q[Len(q)] = Msg(dump, Done)
       /\ \A i \in 1..(Len(q) - 1) : q[i].seq = dump /\ q[i].body \in Table
       /\ Printed(d) \subseteq Table \ NoArp
       /\ \A e \in Table \ NoArp :
             e \in Printed(d) \/ \E i \in 1..(Len(q) - 1) : q[i].body = e

HoldsSocket ==
    {"prepare", "clear", "all", "arp", "number", "send", "load", "receive",
     "write", "test", "close"}

(* A dump that has been alone so far *)
Solo(d) ==
    /\ d \in Inside => \A f \in Fds : fdTable[f] = Pipe(d) <=> f = pipeFd[d]
    /\ pc[d] \in HoldsSocket => fd \in Fds /\ fdTable[fd] = Socket(d)
    /\ pc[d] = "close" => closing[d] = fd
    /\ pc[d] \in {"number", "send", "load", "receive", "write"} => mask = "arp"
    /\ pc[d] \in {"send", "load", "receive", "write"} => dump = mySeq[d]
    /\ pc[d] \in {"zero", "socket", "prepare", "clear", "all", "arp", "number", "send"} =>
          queue[d] = <<>> /\ out[d] = <<>>
    /\ pc[d] \in {"load", "receive", "write"} => Pending(d)
    /\ pc[d] = "receive" => reading[d] = d
    /\ pc[d] = "write" => line[d].to = d
    /\ pc[d] \in {"test", "close", "forget", "fclose", "returned"} =>
          ToSet(out[d]) = Table \ NoArp
    /\ pc[d] = "returned" => NoPipe(d)

(* What is open while no two dumps have overlapped *)
Accounted ==
    overlapped = {} =>
        /\ fdTable[0] = DevNull
        /\ \A f \in Fds \ {0} :
              \/ fdTable[f] = Free
              \/ \E d \in Inside : f = pipeFd[d] \/ (pc[d] \in HoldsSocket /\ f = fd)

DumpInv ==
    /\ TypeInv /\ Room /\ Alone /\ Strays
    /\ \A d \in Dumpers : Unopened(d)
    /\ \A d \in Dumpers \ overlapped : Solo(d)
    /\ Accounted
    /\ ExitExplained

-----------------------------------------------------------------------------
(* Descriptors and what they refer to *)

LEMMA SlotKinds ==
    ASSUME NEW d \in Dumpers, NEW e \in Dumpers
    PROVE  /\ Socket(d) # Pipe(e) /\ Socket(d) # DevNull /\ Socket(d) # Free
           /\ Pipe(d) # DevNull /\ Pipe(d) # Free /\ DevNull # Free
           /\ Socket(d) = Socket(e) => d = e
           /\ Pipe(d) = Pipe(e) => d = e
<1>1. /\ Socket(d).kind = "socket" /\ Pipe(d).kind = "pipe" /\ Pipe(e).kind = "pipe"
      /\ DevNull.kind = "null" /\ Free.kind = "free"
  BY DEF Socket, Pipe, DevNull, Free
<1>2. /\ Socket(d).of = d /\ Socket(e).of = e /\ Pipe(d).of = d /\ Pipe(e).of = e
  BY DEF Socket, Pipe
<1> HIDE DEF Socket
<1> QED  BY <1>1, <1>2

LEMMA SlotOf ==
    ASSUME NEW x \in Slots
    PROVE  /\ x.kind = "socket" => x.of \in Dumpers /\ x = Socket(x.of)
           /\ x.kind = "pipe" => x.of \in Dumpers /\ x = Pipe(x.of)
<1>1. CASE x = DevNull \/ x = Free
  <2>1. x.kind # "socket" /\ x.kind # "pipe"
    BY <1>1 DEF DevNull, Free
  <2> QED  BY <2>1
<1>2. CASE \E d \in Dumpers : x = Socket(d)
  BY <1>2 DEF Socket
<1>3. CASE \E d \in Dumpers : x = Pipe(d)
  BY <1>3 DEF Pipe
<1> QED  BY <1>1, <1>2, <1>3 DEF Slots

LEMMA IsSocketOf ==
    ASSUME TypeInv, NEW f \in Fds
    PROVE  /\ IsSocket(f) => fdTable[f].of \in Dumpers /\ fdTable[f] = Socket(fdTable[f].of)
           /\ \A d \in Dumpers : fdTable[f] = Socket(d) => IsSocket(f) /\ fdTable[f].of = d
<1>1. fdTable[f] \in Slots
  BY DEF TypeInv
<1>2. IsSocket(f) <=> fdTable[f].kind = "socket"
  BY DEF IsSocket
<1>3. \A d \in Dumpers : Socket(d).kind = "socket" /\ Socket(d).of = d
  BY DEF Socket
<1> QED  BY <1>1, <1>2, <1>3, SlotOf

LEMMA FdsFinite ==
    /\ IsFiniteSet(Fds) /\ Fds \subseteq Nat
    /\ Cardinality(Dumpers) \in Nat
    /\ Cardinality(Fds) = 2 * Cardinality(Dumpers) + 1
<1>1. Cardinality(Dumpers) \in Nat
  BY DumpAssumption, FS_CardinalityType
<1> DEFINE n == 2 * Cardinality(Dumpers)
<1>2. n \in Nat
  BY <1>1
<1> HIDE DEF n
<1>3. IsFiniteSet(0..n) /\ Cardinality(0..n) = n + 1
  BY <1>2, FS_Interval
<1> QED  BY <1>1, <1>2, <1>3 DEF Fds, n

LEMMA LeastOfNaturals ==
    ASSUME NEW T \in SUBSET Nat, T # {}
    PROVE  \E x \in T : \A y \in T : x <= y
<1> DEFINE R == OpToRel(<, Nat)
<1>1. \A x, y \in Nat : x < y => <<x, y>> \in R
  BY DEF OpToRel
<1>2. IsWellFoundedOn(R, Nat)
  BY NatLessThanWellFounded
<1> HIDE DEF R
<1>3. PICK x \in T : \A y \in T : ~(<<y, x>> \in R)
  BY <1>2, WFMin
<1>4. \A y \in T : ~(y < x)
  BY <1>1, <1>3
<1> QED  BY <1>4

(* A descriptor that is asked for is found while one is free. *)
LEMMA LowestFreeIsFree ==
    ASSUME TypeInv, \E f \in Fds : fdTable[f] = Free
    PROVE  LowestFree \in Fds /\ fdTable[LowestFree] = Free
<1> DEFINE T == {f \in Fds : fdTable[f] = Free}
<1>1. T \in SUBSET Nat /\ T # {}
  BY FdsFinite
<1>2. PICK f \in T : \A g \in T : f <= g
  BY <1>1, LeastOfNaturals
<1>3. \E h \in Fds : fdTable[h] = Free /\ \A g \in Fds : fdTable[g] = Free => h <= g
  BY <1>2
<1> QED  BY <1>3 DEF LowestFree

LEMMA CountsFinite ==
    /\ IsFiniteSet(Used) /\ Cardinality(Used) \in Nat
    /\ IsFiniteSet(Begun) /\ Cardinality(Begun) \in Nat
    /\ IsFiniteSet(Opened) /\ Cardinality(Opened) \in Nat
<1>1. Used \in SUBSET Fds /\ Begun \in SUBSET Dumpers /\ Opened \in SUBSET Dumpers
  BY DEF Used, Begun, Opened
<1>2. IsFiniteSet(Used) /\ IsFiniteSet(Begun) /\ IsFiniteSet(Opened)
  BY <1>1, FdsFinite, DumpAssumption, FS_Subset
<1> QED  BY <1>2, FS_CardinalityType

LEMMA OneMissing ==
    ASSUME NEW S \in SUBSET Dumpers, NEW d \in Dumpers, d \notin S
    PROVE  Cardinality(S) < Cardinality(Dumpers) /\ Cardinality(S) \in Nat
<1>1. IsFiniteSet(S) /\ Cardinality(S) <= Cardinality(Dumpers)
      /\ (Cardinality(Dumpers) = Cardinality(S) => Dumpers = S)
  BY DumpAssumption, FS_Subset
<1>2. Cardinality(S) \in Nat
  BY <1>1, FS_CardinalityType
<1> QED  BY <1>1, <1>2, FdsFinite

(* The descriptors suffice for a pipe or a socket that is not open yet. *)
LEMMA RoomForOne ==
    ASSUME TypeInv, Room, NEW d \in Dumpers, pc[d] \in {"idle", "socket"}
    PROVE  LowestFree \in Fds /\ fdTable[LowestFree] = Free
<1> DEFINE n == Cardinality(Dumpers)
<1>1. Cardinality(Opened) < n /\ Opened \in SUBSET Dumpers
  BY OneMissing DEF Opened
<1>2. Cardinality(Begun) <= n
  BY DumpAssumption, FS_Subset DEF Begun
<1>3. Cardinality(Used) < Cardinality(Fds)
  BY <1>1, <1>2, FdsFinite, CountsFinite DEF Room
<1>4. Used # Fds
  BY <1>3, FdsFinite
<1>5. \E f \in Fds : fdTable[f] = Free
  BY <1>4 DEF Used
<1> QED  BY <1>5, LowestFreeIsFree

(* What the kernel answers has every entry of the table, and NLMSG_DONE. *)
LEMMA AnswerComplete ==
    ASSUME NEW n \in Nat, NEW q \in Answers(n)
    PROVE  /\ q \in Seq(Messages) /\ Len(q) > 0
           /\ q[Len(q)] = Msg(n, Done)
           /\ \A i \in 1..(Len(q) - 1) : q[i].seq = n /\ q[i].body \in Table
           /\ \A e \in Table : \E i \in 1..(Len(q) - 1) : q[i].body = e
<1> DEFINE c == Cardinality(Table)
<1>1. c \in Nat
  BY DumpAssumption, FS_CardinalityType
<1>2. PICK es \in SetToSeqs(Table) :
          q = [i \in 1..Len(es) |-> Msg(n, es[i])] \o <<Msg(n, Done)>>
  BY DEF Answers
<1> HIDE DEF c
<1>3. es \in [1..c -> Table] /\ \A i, j \in 1..c : i # j => es[i] # es[j]
  BY <1>2 DEF SetToSeqs, c
<1>4. es \in Injection(1..c, Table)
  BY <1>3 DEF Injection, IsInjective
<1>5. Cardinality(1..c) = c
  BY <1>1, FS_Interval
<1>6. es \in Surjection(1..c, Table)
  BY <1>4, <1>5, DumpAssumption, FS_Injection DEF c
<1>7. \A e \in Table : \E i \in 1..c : es[i] = e
  BY <1>6 DEF Surjection
<1>8. Len(es) = c
  BY <1>1, <1>3
<1> DEFINE first == [i \in 1..c |-> Msg(n, es[i])]
<1>9. \A i \in 1..c : Msg(n, es[i]) \in Messages /\ Msg(n, es[i]).seq = n
                      /\ Msg(n, es[i]).body = es[i]
  BY <1>3 DEF Msg, Messages
<1>10. first \in Seq(Messages) /\ Len(first) = c
  BY <1>1, <1>9
<1>11. Msg(n, Done) \in Messages
  BY DEF Msg, Messages
<1>12. q = first \o <<Msg(n, Done)>>
  BY <1>2, <1>8
<1>13. \A i \in 1..c : first[i].seq = n /\ first[i].body = es[i]
  BY <1>9
<1> HIDE DEF first
<1>14. /\ q \in Seq(Messages) /\ Len(q) = c + 1 /\ q[c + 1] = Msg(n, Done)
       /\ \A i \in 1..c : q[i] = first[i]
  BY <1>1, <1>10, <1>11, <1>12
<1>15. (Len(q) - 1) = c
  BY <1>1, <1>14
<1> QED  BY <1>1, <1>3, <1>7, <1>13, <1>14, <1>15

-----------------------------------------------------------------------------
(* The steps, those that end the process taken together *)

Stop(d) ==
    PrepareFails(d) \/ SendFails(d) \/ LoadFails(d) \/ ReceiveError(d) \/ SystemFails(d)

state == <<fd, seq, dump, mask, fdTable, queue, pc, mySeq, pipeFd, reading, closing,
           line, out, overlapped>>

LEMMA StopKeeps ==
    ASSUME NEW d \in Dumpers, Stop(d)
    PROVE  UNCHANGED state /\ exited' /\ (failed => failed')
  BY DEF Stop, PrepareFails, SendFails, LoadFails, ReceiveError, SystemFails, Exit,
         state, handle, kernel, local

LEMMA StutterKeeps == UNCHANGED vars => UNCHANGED state /\ UNCHANGED <<exited, failed>>
  BY DEF vars, state, handle, kernel, local

Runs(d) ==
    \/ Begin(d) \/ Zero(d) \/ OpenSocket(d) \/ Prepare(d) \/ SetFilter(d) \/ Number(d)
    \/ Send(d) \/ Load(d) \/ Receive(d) \/ Write(d) \/ Test(d) \/ Close(d) \/ Forget(d)
    \/ Fclose(d)

LEMMA StepCases ==
    ASSUME [Next]_vars
    PROVE  UNCHANGED vars \/ \E d \in Dumpers : Runs(d) \/ Stop(d)
  BY DEF Next, DumpStep, Terminating, Runs, Stop

-----------------------------------------------------------------------------
(* Types, and the descriptors that are left *)

LEMMA TypeInit == Init => TypeInv /\ Room
<1> SUFFICES ASSUME Init PROVE TypeInv /\ Room
  OBVIOUS
<1>1. 0 \in Fds
  BY FdsFinite DEF Fds
<1>2. \A d \in Dumpers : <<>> \in Seq(Messages)
  OBVIOUS
<1>3. TypeInv
  BY <1>1, <1>2 DEF Init, TypeInv, Slots, Places
<1>4. Used \subseteq {0}
  BY DEF Init, Used
<1>5. Cardinality(Used) <= 1
  <2>1. Used \in SUBSET {0} /\ IsFiniteSet({0}) /\ Cardinality({0}) = 1
    BY <1>4, FS_Singleton
  <2>2. Cardinality(Used) <= Cardinality({0})
    BY <2>1, FS_Subset
  <2> QED  BY <2>1, <2>2
<1>6. Room
  BY <1>5, CountsFinite DEF Room
<1> QED  BY <1>3, <1>6

LEMMA GotoTyped ==
    ASSUME TypeInv, NEW d \in Dumpers, NEW from, NEW to \in Places, Goto(d, from, to)
    PROVE  /\ pc' \in [Dumpers -> Places] /\ pc[d] = from /\ pc'[d] = to
           /\ \A e \in Dumpers \ {d} : pc'[e] = pc[e]
  BY DEF Goto, TypeInv

(* No thread comes to hold a descriptor to close or a line to write. *)
Still == \A d \in Dumpers : pc'[d] \in {"close", "write"} => pc'[d] = pc[d]

LEMMA TypeStep ==
    ASSUME TypeInv, Room, [Next]_vars
    PROVE  TypeInv'
<1>1. ASSUME UNCHANGED state, exited' \in BOOLEAN, failed' \in BOOLEAN
      PROVE  TypeInv'
  BY <1>1 DEF TypeInv, state
<1>2. ASSUME NEW d \in Dumpers, Stop(d)
      PROVE  TypeInv'
  <2>1. exited' \in BOOLEAN /\ failed' \in BOOLEAN
    BY <1>2 DEF TypeInv, Stop, PrepareFails, SendFails, LoadFails, ReceiveError,
                SystemFails, Exit
  <2> QED  BY <1>1, <1>2, <2>1, StopKeeps
<1>3. CASE UNCHANGED vars
  BY <1>1, <1>3, StutterKeeps DEF TypeInv
<1>4. ASSUME NEW d \in Dumpers, Begin(d)
      PROVE  TypeInv'
  <2>1. LowestFree \in Fds
    BY <1>4, RoomForOne DEF Begin, Goto
  <2>2. Pipe(d) \in Slots
    BY DEF Slots
  <2>3. pc' \in [Dumpers -> Places] /\ Still
    BY <1>4 DEF Begin, Goto, TypeInv, Places, Still
  <2>4. overlapped' \in SUBSET Dumpers
    BY <1>4 DEF Begin, TypeInv, Inside
  <2> QED  BY <1>4, <2>1, <2>2, <2>3, <2>4 DEF Begin, TypeInv, Still, handle
<1>5. ASSUME NEW d \in Dumpers, Zero(d)
      PROVE  TypeInv'
  <2>1. 0 \in Fds
    BY FdsFinite DEF Fds
  <2>2. pc' \in [Dumpers -> Places] /\ Still
    BY <1>5 DEF Zero, Goto, TypeInv, Places, Still
  <2> QED  BY <1>5, <2>1, <2>2 DEF Zero, TypeInv, Still, kernel, local
<1>6. ASSUME NEW d \in Dumpers, OpenSocket(d)
      PROVE  TypeInv'
  <2>1. LowestFree \in Fds
    BY <1>6, RoomForOne DEF OpenSocket, Goto
  <2>2. Socket(d) \in Slots
    BY DEF Slots
  <2>3. pc' \in [Dumpers -> Places] /\ Still
    BY <1>6 DEF OpenSocket, Goto, TypeInv, Places, Still
  <2> QED  BY <1>6, <2>1, <2>2, <2>3 DEF OpenSocket, TypeInv, Still, local
<1>7. ASSUME NEW d \in Dumpers, Prepare(d)
      PROVE  TypeInv'
  <2>1. pc' \in [Dumpers -> Places] /\ Still
    BY <1>7 DEF Prepare, Goto, TypeInv, Places, Still
  <2>2. seq' \in Nat
    BY <1>7, DumpAssumption DEF Prepare
  <2> QED  BY <1>7, <2>1, <2>2 DEF Prepare, TypeInv, Still, kernel, local
<1>8. ASSUME NEW d \in Dumpers, SetFilter(d)
      PROVE  TypeInv'
  <2>1. pc' \in [Dumpers -> Places] /\ Still
    BY <1>8 DEF SetFilter, Goto, TypeInv, Places, Still
  <2>2. mask' \in {"none", "all", "arp"}
    BY <1>8 DEF SetFilter, LastMask
  <2> QED  BY <1>8, <2>1, <2>2 DEF SetFilter, TypeInv, Still, handle, kernel, local
<1>9. ASSUME NEW d \in Dumpers, Number(d)
      PROVE  TypeInv'
  <2>1. pc' \in [Dumpers -> Places] /\ Still
    BY <1>9 DEF Number, Goto, TypeInv, Places, Still
  <2>2. seq' \in Nat /\ dump' \in Nat /\ mySeq' \in [Dumpers -> Nat]
    BY <1>9 DEF Number, TypeInv
  <2> QED  BY <1>9, <2>1, <2>2 DEF Number, TypeInv, Still, kernel
<1>10. ASSUME NEW d \in Dumpers, Send(d)
       PROVE  TypeInv'
  <2>1. pc' \in [Dumpers -> Places] /\ Still
    BY <1>10 DEF Send, Goto, TypeInv, Places, Still
  <2>2. queue' \in [Dumpers -> Seq(Messages)]
    <3> DEFINE s == fdTable[fd].of
    <3>1. mySeq[d] \in Nat /\ queue \in [Dumpers -> Seq(Messages)]
      BY DEF TypeInv
    <3>2. Msg(mySeq[d], Error) \in Messages
      BY <3>1 DEF Msg, Messages
    <3>3. \A answer \in Answers(mySeq[d]) : answer \in Seq(Messages)
      BY <3>1, AnswerComplete
    <3>4. /\ \/ \E answer \in Answers(mySeq[d]) :
                    queue' = [queue EXCEPT ![s] = @ \o answer]
             \/ queue' = [queue EXCEPT ![s] = Append(@, Msg(mySeq[d], Error))]
          /\ s \in Dumpers
      <4>1. fd \in Fds /\ IsSocket(fd)
        BY <1>10 DEF Send, IsSocket
      <4>2. s \in Dumpers
        BY <4>1, IsSocketOf
      <4> QED  BY <1>10, <4>2 DEF Send
    <3> HIDE DEF s
    <3>5. CASE \E answer \in Answers(mySeq[d]) : queue' = [queue EXCEPT ![s] = @ \o answer]
      <4>1. PICK answer \in Answers(mySeq[d]) : queue' = [queue EXCEPT ![s] = @ \o answer]
        BY <3>5
      <4>2. queue[s] \o answer \in Seq(Messages)
        BY <3>1, <3>3, <3>4
      <4> QED  BY <3>1, <3>4, <4>1, <4>2
    <3>6. CASE queue' = [queue EXCEPT ![s] = Append(@, Msg(mySeq[d], Error))]
      <4>1. Append(queue[s], Msg(mySeq[d], Error)) \in Seq(Messages)
        BY <3>1, <3>2, <3>4
      <4> QED  BY <3>1, <3>4, <3>6, <4>1
    <3> QED  BY <3>4, <3>5, <3>6
  <2> QED  BY <1>10, <2>1, <2>2 DEF Send, TypeInv, Still, handle, local
<1>11. ASSUME NEW d \in Dumpers, Load(d)
       PROVE  TypeInv'
  <2>1. pc' \in [Dumpers -> Places] /\ Still
    BY <1>11 DEF Load, Goto, TypeInv, Places, Still
  <2>2. fdTable[fd].of \in Dumpers
    BY <1>11, IsSocketOf DEF Load, IsSocket
  <2> QED  BY <1>11, <2>1, <2>2 DEF Load, TypeInv, Still, handle, kernel
<1>12. ASSUME NEW d \in Dumpers, Receive(d)
       PROVE  TypeInv'
  <2> DEFINE s == reading[d]
             target == fdTable[pipeFd[d]]
             b == Head(queue[s]).body
  <2>1. /\ pc' \in [Dumpers -> Places]
        /\ \A e \in Dumpers : pc'[e] = "close" => pc[e] = "close"
        /\ \A e \in Dumpers \ {d} : pc'[e] = pc[e]
    BY <1>12 DEF Receive, Goto, TypeInv, Places, AfterMsg
  <2>2. queue' \in [Dumpers -> Seq(Messages)]
    <3>1. s \in Dumpers /\ queue[s] \in Seq(Messages) /\ queue[s] # <<>>
          /\ queue \in [Dumpers -> Seq(Messages)]
      BY <1>12 DEF Receive, TypeInv
    <3>2. queue' = [queue EXCEPT ![s] = Tail(@)]
      BY <1>12 DEF Receive
    <3> HIDE DEF s
    <3>3. Tail(queue[s]) \in Seq(Messages)
      BY <3>1
    <3> QED  BY <3>1, <3>2, <3>3
  <2>3. \/ line' = line /\ pc'[d] # "write"
        \/ /\ b \in Table /\ target.kind = "pipe"
           /\ line' = [line EXCEPT ![d] = [to |-> target.of, entry |-> b]]
    BY <1>12 DEF Receive, Goto, TypeInv, AfterMsg
  <2>4. target.kind = "pipe" => target.of \in Dumpers
    <3>1. target \in Slots
      BY DEF TypeInv
    <3> HIDE DEF target
    <3> QED  BY <3>1, SlotOf
  <2>5. line \in [Dumpers -> [to : Dumpers, entry : Table \cup {Done}]]
        /\ \A e \in Dumpers : pc[e] = "write" => line[e].entry \in Table
    BY DEF TypeInv
  <2> HIDE DEF s, target, b
  <2>6. /\ line' \in [Dumpers -> [to : Dumpers, entry : Table \cup {Done}]]
        /\ \A e \in Dumpers : pc'[e] = "write" => line'[e].entry \in Table
    BY <2>1, <2>3, <2>4, <2>5
  <2> QED  BY <1>12, <2>1, <2>2, <2>6 DEF Receive, TypeInv, Still, handle
<1>13. ASSUME NEW d \in Dumpers, Test(d)
       PROVE  TypeInv'
  <2>1. AfterTest \in Places \ {"write"} /\ (AfterTest = "close" => fd \in Fds)
    BY FdsFinite DEF AfterTest, Places, TypeInv
  <2>2. pc' \in [Dumpers -> Places] /\ pc'[d] = AfterTest
        /\ \A e \in Dumpers \ {d} : pc'[e] = pc[e]
    BY <1>13, <2>1, GotoTyped DEF Test
  <2> QED  BY <1>13, <2>1, <2>2 DEF Test, TypeInv, handle, kernel
<1>14. ASSUME NEW d \in Dumpers, Close(d)
       PROVE  TypeInv'
  <2>1. pc' \in [Dumpers -> Places] /\ Still
    BY <1>14 DEF Close, Goto, TypeInv, Places, Still
  <2>2. fdTable' \in [Fds -> Slots]
    BY <1>14 DEF Close, TypeInv, Slots
  <2> QED  BY <1>14, <2>1, <2>2 DEF Close, TypeInv, Still, handle, local
<1>15. ASSUME NEW d \in Dumpers, Forget(d)
       PROVE  TypeInv'
  <2>1. pc' \in [Dumpers -> Places] /\ Still
    BY <1>15 DEF Forget, Goto, TypeInv, Places, Still
  <2> QED  BY <1>15, <2>1 DEF Forget, TypeInv, Still, kernel, local
<1>16. ASSUME NEW d \in Dumpers, Fclose(d)
       PROVE  TypeInv'
  <2>1. pc' \in [Dumpers -> Places] /\ Still
    BY <1>16 DEF Fclose, Goto, TypeInv, Places, Still
  <2>2. fdTable' \in [Fds -> Slots]
    BY <1>16 DEF Fclose, TypeInv, Slots
  <2> QED  BY <1>16, <2>1, <2>2 DEF Fclose, TypeInv, Still, handle, local
<1>17. ASSUME NEW d \in Dumpers, Write(d)
       PROVE  TypeInv'
  <2>1. pc' \in [Dumpers -> Places] /\ Still
    BY <1>17 DEF Write, Goto, TypeInv, Places, Still
  <2>2. /\ line[d].to \in Dumpers /\ line[d].entry \in Table
        /\ out \in [Dumpers -> Seq(Table)]
    BY <1>17 DEF Write, Goto, TypeInv
  <2>3. out' = [out EXCEPT ![line[d].to] = Append(@, line[d].entry)]
    BY <1>17 DEF Write
  <2>4. Append(out[line[d].to], line[d].entry) \in Seq(Table)
    BY <2>2
  <2>5. out' \in [Dumpers -> Seq(Table)]
    BY <2>2, <2>3, <2>4
  <2> QED  BY <1>17, <2>1, <2>5 DEF Write, TypeInv, Still, handle, kernel, local
<1> QED  BY <1>2, <1>3, <1>4, <1>5, <1>6, <1>7, <1>8, <1>9, <1>10, <1>11, <1>12,
             <1>13, <1>14, <1>15, <1>16, <1>17, StepCases DEF Runs

-----------------------------------------------------------------------------
(* How the steps move between the places *)

LEMMA OnlyOneMoves ==
    ASSUME TypeInv, NEW d \in Dumpers, Runs(d), NEW e \in Dumpers, e # d
    PROVE  pc'[e] = pc[e]
  BY DEF TypeInv, Runs, Begin, Zero, OpenSocket, Prepare, SetFilter, Number, Send, Load,
         Receive, Write, Test, Close, Forget, Fclose, Goto

LEMMA StepsInside ==
    ASSUME TypeInv, NEW d \in Dumpers, Runs(d), ~Begin(d)
    PROVE  /\ d \in Inside /\ overlapped' = overlapped
           /\ Inside' \subseteq Inside
           /\ Begun' = Begun /\ Opened \subseteq Opened'
<1>1. /\ pc[d] \notin {"idle", "returned"} /\ pc'[d] # "idle"
      /\ pc[d] \notin {"idle", "zero", "socket"} => pc'[d] \notin {"idle", "zero", "socket"}
      /\ overlapped' = overlapped
  BY DEF TypeInv, Runs, Zero, OpenSocket, Prepare, SetFilter, Number, Send, Load,
         Receive, Write, Test, Close, Forget, Fclose, Goto, AfterMsg, AfterTest
<1>2. \A e \in Dumpers \ {d} : pc'[e] = pc[e]
  BY OnlyOneMoves
<1> QED  BY <1>1, <1>2 DEF Inside, Begun, Opened

LEMMA BeginsOutside ==
    ASSUME TypeInv, NEW d \in Dumpers, Begin(d)
    PROVE  /\ pc[d] = "idle" /\ pc'[d] = "zero"
           /\ Inside' = Inside \cup {d} /\ d \notin Inside
           /\ Begun' = Begun \cup {d} /\ d \notin Begun /\ Opened' = Opened
<1>1. pc[d] = "idle" /\ pc'[d] = "zero"
  BY DEF Begin, Goto, TypeInv
<1>2. \A e \in Dumpers \ {d} : pc'[e] = pc[e]
  BY OnlyOneMoves DEF Runs
<1> QED  BY <1>1, <1>2 DEF Inside, Begun, Opened

LEMMA TableChanges ==
    ASSUME TypeInv, NEW d \in Dumpers, Runs(d), NEW f \in Fds
    PROVE  \/ fdTable'[f] = fdTable[f] \/ fdTable'[f] = Free
           \/ Begin(d) /\ f = LowestFree /\ fdTable'[f] = Pipe(d)
           \/ OpenSocket(d) /\ f = LowestFree /\ fdTable'[f] = Socket(d)
  BY DEF TypeInv, Runs, Begin, Zero, OpenSocket, Prepare, SetFilter, Number, Send, Load,
         Receive, Write, Test, Close, Forget, Fclose, kernel

-----------------------------------------------------------------------------
(* There is room *)

LEMMA RoomKept ==
    ASSUME Room, Used' \subseteq Used, Begun \subseteq Begun', Opened \subseteq Opened'
    PROVE  Room'
<1>1. Begun' \subseteq Dumpers /\ Opened' \subseteq Dumpers
  BY DEF Begun, Opened
<1>2. IsFiniteSet(Begun') /\ IsFiniteSet(Opened')
  BY <1>1, DumpAssumption, FS_Subset
<1>3. Cardinality(Used') <= Cardinality(Used) /\ IsFiniteSet(Used')
  BY CountsFinite, FS_Subset
<1>4. Cardinality(Begun) <= Cardinality(Begun')
  BY <1>2, FS_Subset
<1>5. Cardinality(Opened) <= Cardinality(Opened')
  BY <1>2, FS_Subset
<1>6. /\ Cardinality(Used') \in Nat /\ Cardinality(Begun') \in Nat
      /\ Cardinality(Opened') \in Nat
  BY <1>2, <1>3, FS_CardinalityType
<1> QED  BY <1>3, <1>4, <1>5, <1>6, CountsFinite DEF Room

LEMMA OneAdded ==
    ASSUME NEW S, NEW x, IsFiniteSet(S)
    PROVE  /\ IsFiniteSet(S \cup {x})
           /\ Cardinality(S) \in Nat /\ Cardinality(S \cup {x}) \in Nat
           /\ Cardinality(S \cup {x}) <= Cardinality(S) + 1
           /\ x \notin S => Cardinality(S \cup {x}) = Cardinality(S) + 1
<1>1. Cardinality(S) \in Nat
  BY FS_CardinalityType
<1>2. /\ IsFiniteSet(S \cup {x})
      /\ Cardinality(S \cup {x}) = IF x \in S THEN Cardinality(S) ELSE Cardinality(S) + 1
  BY FS_AddElement
<1> QED  BY <1>1, <1>2

LEMMA RoomTaken ==
    ASSUME Room, NEW f, Used' \subseteq Used \cup {f}, NEW d \in Dumpers,
           \/ d \notin Begun /\ Begun' = Begun \cup {d} /\ Opened' = Opened
           \/ d \notin Opened /\ Opened' = Opened \cup {d} /\ Begun' = Begun
    PROVE  Room'
<1>1. /\ IsFiniteSet(Used \cup {f}) /\ Cardinality(Used \cup {f}) <= Cardinality(Used) + 1
      /\ Cardinality(Used \cup {f}) \in Nat
  BY CountsFinite, OneAdded
<1>2. /\ Cardinality(Used') <= Cardinality(Used \cup {f}) /\ IsFiniteSet(Used')
  BY <1>1, FS_Subset
<1>3. Cardinality(Used') \in Nat
  BY <1>2, FS_CardinalityType
<1>4. /\ Cardinality(Begun \cup {d}) \in Nat
      /\ d \notin Begun => Cardinality(Begun \cup {d}) = Cardinality(Begun) + 1
  BY CountsFinite, OneAdded
<1>5. /\ Cardinality(Opened \cup {d}) \in Nat
      /\ d \notin Opened => Cardinality(Opened \cup {d}) = Cardinality(Opened) + 1
  BY CountsFinite, OneAdded
<1>6. CASE d \notin Begun /\ Begun' = Begun \cup {d} /\ Opened' = Opened
  <2>1. Cardinality(Begun') = Cardinality(Begun) + 1
    BY <1>4, <1>6
  <2>2. Cardinality(Opened') = Cardinality(Opened)
    BY <1>6
  <2> QED  BY <1>1, <1>2, <1>3, <2>1, <2>2, CountsFinite DEF Room
<1>7. CASE d \notin Opened /\ Opened' = Opened \cup {d} /\ Begun' = Begun
  <2>1. Cardinality(Opened') = Cardinality(Opened) + 1
    BY <1>5, <1>7
  <2>2. Cardinality(Begun') = Cardinality(Begun)
    BY <1>7
  <2> QED  BY <1>1, <1>2, <1>3, <2>1, <2>2, CountsFinite DEF Room
<1> QED  BY <1>6, <1>7

LEMMA RoomStep ==
    ASSUME TypeInv, Room, [Next]_vars
    PROVE  Room'
<1>1. ASSUME UNCHANGED state
      PROVE  Room'
  BY <1>1 DEF state, Room, Used, Begun, Opened
<1>2. ASSUME NEW d \in Dumpers, Begin(d)
      PROVE  Room'
  <2>1. Used' \subseteq Used \cup {LowestFree}
    BY <1>2 DEF Begin, Used, TypeInv
  <2> QED  BY <1>2, <2>1, RoomTaken, BeginsOutside
<1>3. ASSUME NEW d \in Dumpers, OpenSocket(d)
      PROVE  Room'
  <2>1. Used' \subseteq Used \cup {LowestFree}
    BY <1>3 DEF OpenSocket, Used, TypeInv
  <2>2. /\ pc[d] = "socket" /\ pc'[d] = "prepare"
        /\ \A e \in Dumpers \ {d} : pc'[e] = pc[e]
    BY <1>3 DEF OpenSocket, Goto, TypeInv
  <2>3. d \notin Opened /\ Opened' = Opened \cup {d} /\ Begun' = Begun
    BY <2>2 DEF Opened, Begun
  <2> QED  BY <2>1, <2>3, RoomTaken
<1>4. ASSUME NEW d \in Dumpers, Runs(d), ~Begin(d), ~OpenSocket(d)
      PROVE  Room'
  <2>1. Used' \subseteq Used
    BY <1>4, TableChanges DEF Used
  <2> QED  BY <1>4, <2>1, StepsInside, RoomKept
<1> QED  BY <1>1, <1>2, <1>3, <1>4, StepCases, StopKeeps, StutterKeeps

-----------------------------------------------------------------------------
(* Who is alone *)

LEMMA AloneStep ==
    ASSUME TypeInv, Alone, [Next]_vars
    PROVE  Alone'
<1>1. ASSUME UNCHANGED state
      PROVE  Alone'
  BY <1>1 DEF state, Alone, Inside
<1>2. ASSUME NEW d \in Dumpers, Begin(d)
      PROVE  Alone'
  <2>1. Inside' = Inside \cup {d} /\ d \notin Inside
    BY <1>2, BeginsOutside
  <2>2. overlapped' = IF Inside = {} THEN overlapped ELSE overlapped \cup Inside \cup {d}
    BY <1>2 DEF Begin
  <2> QED  BY <2>1, <2>2 DEF Alone
<1>3. ASSUME NEW d \in Dumpers, Runs(d), ~Begin(d)
      PROVE  Alone'
  BY <1>3, StepsInside DEF Alone
<1> QED  BY <1>1, <1>2, <1>3, StepCases, StopKeeps, StutterKeeps

(* A dump that is still alone after another one's step is not inside. *)
LEMMA OthersAreOut ==
    ASSUME TypeInv, Alone, NEW d \in Dumpers, Runs(d),
           NEW e \in Dumpers, e # d, e \notin overlapped'
    PROVE  pc'[e] = pc[e] /\ pc[e] \in {"idle", "returned"} /\ e \notin overlapped
<1>1. CASE Begin(d)
  <2>1. overlapped' = IF Inside = {} THEN overlapped ELSE overlapped \cup Inside \cup {d}
    BY <1>1 DEF Begin
  <2> QED  BY <2>1, OnlyOneMoves DEF Inside
<1>2. CASE ~Begin(d)
  <2>1. d \in Inside /\ overlapped' = overlapped
    BY <1>2, StepsInside
  <2> QED  BY <2>1, OnlyOneMoves DEF Inside, Alone
<1> QED  BY <1>1, <1>2

-----------------------------------------------------------------------------
(* What is not open yet *)

(* A dump for whose pipe no line waits is not written to. *)
LEMMA OutKept ==
    ASSUME TypeInv, NEW d \in Dumpers, Runs(d), NEW e \in Dumpers,
           pc[d] = "write" => line[d].to # e
    PROVE  out'[e] = out[e]
<1>1. CASE Write(d)
  BY <1>1 DEF Write, Goto, TypeInv
<1> QED  BY <1>1 DEF Runs, Begin, Zero, OpenSocket, Prepare, SetFilter, Number, Send,
                     Load, Receive, Test, Close, Forget, Fclose, local

LEMMA UnopenedStep ==
    ASSUME TypeInv, Room, Strays, NEW e \in Dumpers, Unopened(e), [Next]_vars
    PROVE  Unopened(e)'
<1>1. ASSUME UNCHANGED state
      PROVE  Unopened(e)'
  BY <1>1 DEF state, Unopened, NoSocket, NoPipe
<1>2. ASSUME NEW d \in Dumpers, Runs(d)
      PROVE  Unopened(e)'
  <2>1. /\ pc'[e] \in {"idle", "zero", "socket"} =>
               pc[e] \in {"idle", "zero", "socket"} /\ ~(e = d /\ OpenSocket(d))
        /\ pc'[e] = "idle" => pc[e] = "idle" /\ e # d
    <3>1. CASE e # d
      BY <1>2, <3>1, OnlyOneMoves
    <3>2. CASE e = d
      BY <1>2, <3>2 DEF TypeInv, Runs, Begin, Zero, OpenSocket, Prepare, SetFilter,
                        Number, Send, Load, Receive, Write, Test, Close, Forget, Fclose,
                        Goto, AfterMsg, AfterTest
    <3> QED  BY <3>1, <3>2
  <2>2. ASSUME pc'[e] \in {"idle", "zero", "socket"}
        PROVE  NoSocket(e)'
    <3>1. NoSocket(e)
      BY <2>1, <2>2 DEF Unopened
    <3> QED  BY <1>2, <2>1, <2>2, <3>1, TableChanges, SlotKinds DEF NoSocket
  <2>3. ASSUME pc'[e] = "idle"
        PROVE  NoPipe(e)'
    <3>1. NoPipe(e)
      BY <2>1, <2>3 DEF Unopened
    <3> QED  BY <1>2, <2>1, <2>3, <3>1, TableChanges, SlotKinds DEF NoPipe
  <2>4. ASSUME pc'[e] \in {"idle", "zero", "socket"}
        PROVE  queue'[e] = <<>>
    <3>1. NoSocket(e) /\ queue[e] = <<>>
      BY <2>1, <2>4 DEF Unopened
    <3>2. CASE Send(d)
      <4>1. fd \in Fds /\ IsSocket(fd)
        BY <3>2 DEF Send, IsSocket
      <4>2. fdTable[fd].of \in Dumpers /\ fdTable[fd].of # e
        BY <3>1, <4>1, IsSocketOf DEF NoSocket
      <4> QED  BY <3>1, <3>2, <4>2 DEF Send, TypeInv
    <3>3. CASE Receive(d)
      BY <3>1, <3>3 DEF Receive, TypeInv
    <3> QED  BY <1>2, <3>1, <3>2, <3>3
             DEF Runs, Begin, Zero, OpenSocket, Prepare, SetFilter,
                 Number, Load, Write, Test, Close, Forget, Fclose, kernel
  <2>5. ASSUME pc'[e] = "idle"
        PROVE  out'[e] = <<>>
    <3>1. pc[e] = "idle" /\ e # d /\ out[e] = <<>>
      BY <2>1, <2>5 DEF Unopened
    <3>2. pc[d] = "write" => line[d].to # e
      BY <3>1 DEF Strays, Begun
    <3> QED  BY <1>2, <3>1, <3>2, OutKept
  <2> QED  BY <2>2, <2>3, <2>4, <2>5 DEF Unopened
<1> QED  BY <1>1, <1>2, StepCases, StopKeeps, StutterKeeps

-----------------------------------------------------------------------------
(* Lines for the pipe of another dump *)

LEMMA StrayStep ==
    ASSUME TypeInv, Alone, Strays, \A d \in Dumpers : Unopened(d),
           \A d \in Dumpers \ overlapped : Solo(d), [Next]_vars
    PROVE  Strays'
<1>1. ASSUME UNCHANGED state
      PROVE  Strays'
  BY <1>1 DEF state, Strays, Begun
<1>2. ASSUME NEW d \in Dumpers, Begin(d)
      PROVE  Strays'
  <2>1. Begun' = Begun \cup {d} /\ Inside \subseteq Begun
    BY <1>2, BeginsOutside DEF Inside, Begun
  <2>2. overlapped' \in {overlapped, overlapped \cup Inside \cup {d}} /\ line' = line
    BY <1>2 DEF Begin
  <2>3. \A e \in Dumpers : pc'[e] = "write" => pc[e] = "write"
    BY <1>2, BeginsOutside, OnlyOneMoves DEF Runs
  <2> QED  BY <2>1, <2>2, <2>3 DEF Strays
<1>3. ASSUME NEW d \in Dumpers, Runs(d), ~Begin(d)
      PROVE  Strays'
  <2>1. Begun' = Begun /\ overlapped' = overlapped /\ d \in Inside
    BY <1>3, StepsInside
  <2>2. \A e \in Dumpers \ {d} : pc'[e] = pc[e] /\ line'[e] = line[e]
    BY <1>3, OnlyOneMoves
       DEF TypeInv, Runs, Zero, OpenSocket, Prepare, SetFilter, Number, Send, Load,
           Receive, Write, Test, Close, Forget, Fclose, local
  <2>3. ASSUME pc'[d] = "write"
        PROVE  line'[d].to = d \/ line'[d].to \in overlapped
    <3> DEFINE target == fdTable[pipeFd[d]]
    <3>1. Receive(d)
      BY <1>3, <2>3
         DEF TypeInv, Runs, Zero, OpenSocket, Prepare, SetFilter, Number, Send, Load,
             Write, Test, Close, Forget, Fclose, Goto, AfterTest
    <3>2. target.kind = "pipe" /\ line'[d].to = target.of
      BY <2>3, <3>1 DEF Receive, Goto, TypeInv, AfterMsg
    <3>3. target \in Slots /\ pipeFd[d] \in Fds
      BY DEF TypeInv
    <3>4. target.of \in Dumpers /\ target = Pipe(target.of)
      BY <3>2, <3>3, SlotOf
    <3>5. ~NoPipe(target.of)
      BY <3>3, <3>4 DEF NoPipe
    <3> HIDE DEF target
    <3> SUFFICES ASSUME target.of # d, target.of \notin overlapped PROVE FALSE
      BY <3>2
    <3>6. target.of \in Inside
      BY <3>4, <3>5 DEF Inside, Unopened, Solo
    <3> QED  BY <2>1, <3>6 DEF Alone
  <2> QED  BY <2>1, <2>2, <2>3 DEF Strays
<1> QED  BY <1>1, <1>2, <1>3, StepCases, StopKeeps, StutterKeeps

-----------------------------------------------------------------------------
(* What a dump does that is alone *)

LEMMA SoloStutter ==
    ASSUME NEW d \in Dumpers, Solo(d), UNCHANGED state
    PROVE  Solo(d)'
  BY DEF Solo, state, Inside, Pending, Printed, NoPipe

LEMMA SoloBesideOthers ==
    ASSUME TypeInv, Alone, Strays, NEW d \in Dumpers, Runs(d), NEW e \in Dumpers, e # d,
           e \notin overlapped', Solo(e)
    PROVE  Solo(e)'
<1>1. pc'[e] = pc[e] /\ pc[e] \in {"idle", "returned"}
  BY OthersAreOut
<1>2. CASE pc[e] = "idle"
  BY <1>1, <1>2 DEF Solo, Inside, HoldsSocket
<1>3. CASE pc[e] = "returned"
  <2>1. NoPipe(e) /\ ToSet(out[e]) = Table \ NoArp
    BY <1>3 DEF Solo
  <2>2. NoPipe(e)'
    BY <2>1, TableChanges, SlotKinds DEF NoPipe
  <2>3. out'[e] = out[e]
    BY OthersAreOut, OutKept DEF Strays
  <2> QED  BY <1>1, <1>3, <2>1, <2>2, <2>3 DEF Solo, Inside, HoldsSocket
<1> QED  BY <1>1, <1>2, <1>3

LEMMA SoloBegin ==
    ASSUME TypeInv, Room, NEW d \in Dumpers, Unopened(d), Begin(d)
    PROVE  Solo(d)'
<1>1. pc[d] = "idle" /\ pc'[d] = "zero"
  BY BeginsOutside
<1>2. LowestFree \in Fds
  BY <1>1, RoomForOne
<1>3. NoPipe(d) /\ queue'[d] = <<>> /\ out'[d] = <<>>
  BY <1>1 DEF Unopened, Begin
<1>4. pipeFd'[d] = LowestFree /\ \A f \in Fds : fdTable'[f] = Pipe(d) <=> f = LowestFree
  BY <1>2, <1>3 DEF TypeInv, NoPipe, Begin
<1> QED  BY <1>1, <1>3, <1>4 DEF Solo, HoldsSocket

LEMMA SoloOpens ==
    ASSUME TypeInv, Room, NEW d \in Dumpers, Solo(d), OpenSocket(d)
    PROVE  Solo(d)'
<1>1. pc[d] = "socket" /\ pc'[d] = "prepare" /\ d \in Inside
  BY DEF OpenSocket, Goto, TypeInv, Inside
<1>2. LowestFree \in Fds /\ fdTable[LowestFree] = Free
  BY <1>1, RoomForOne
<1>3. fd' = LowestFree /\ fdTable' = [fdTable EXCEPT ![LowestFree] = Socket(d)]
      /\ pipeFd' = pipeFd /\ queue' = queue /\ out' = out
  BY DEF OpenSocket, local
<1>4. \A f \in Fds : fdTable[f] = Pipe(d) <=> f = pipeFd[d]
  BY <1>1 DEF Solo
<1>5. fdTable'[LowestFree] = Socket(d) /\ \A f \in Fds \ {LowestFree} : fdTable'[f] = fdTable[f]
  BY <1>2, <1>3 DEF TypeInv
<1>6. \A f \in Fds : fdTable'[f] = Pipe(d) <=> f = pipeFd[d]
  BY <1>2, <1>4, <1>5, SlotKinds
<1> QED  BY <1>1, <1>2, <1>3, <1>5, <1>6 DEF Solo

(* The steps that leave the descriptors, the queues and the pipes alone *)
LEMMA SoloInThread ==
    ASSUME TypeInv, NEW d \in Dumpers, Solo(d),
           Zero(d) \/ Prepare(d) \/ SetFilter(d) \/ Number(d) \/ Load(d) \/ Test(d)
    PROVE  Solo(d)'
<1>1. UNCHANGED <<fdTable, queue, pipeFd, out>> /\ d \in Inside
  BY DEF Zero, Prepare, SetFilter, Number, Load, Test, kernel, local, Goto, Inside
<1>2. \A f \in Fds : fdTable'[f] = Pipe(d) <=> f = pipeFd'[d]
  BY <1>1 DEF Solo
<1>3. CASE Zero(d)
  <2>1. pc[d] = "zero" /\ pc'[d] = "socket"
    BY <1>3 DEF Zero, Goto, TypeInv
  <2> QED  BY <1>1, <1>2, <2>1 DEF Solo, HoldsSocket
<1>4. CASE Prepare(d)
  <2>1. pc[d] = "prepare" /\ pc'[d] = "clear" /\ fd' = fd
    BY <1>4 DEF Prepare, Goto, TypeInv
  <2> QED  BY <1>1, <1>2, <2>1 DEF Solo, HoldsSocket
<1>5. CASE SetFilter(d)
  <2>1. /\ fd' = fd /\ pc[d] \in {"clear", "all", "arp"} /\ pc'[d] \in {"all", "arp", "number"}
        /\ pc'[d] = "number" => mask' = "arp"
    BY <1>5 DEF SetFilter, Goto, TypeInv, handle, LastMask
  <2> QED  BY <1>1, <1>2, <2>1 DEF Solo, HoldsSocket
<1>6. CASE Number(d)
  <2>1. /\ pc[d] = "number" /\ pc'[d] = "send" /\ fd' = fd /\ mask' = mask
        /\ dump' = mySeq'[d]
    BY <1>6 DEF Number, Goto, TypeInv
  <2> QED  BY <1>1, <1>2, <2>1 DEF Solo, HoldsSocket
<1>7. CASE Load(d)
  <2>1. /\ pc[d] = "load" /\ pc'[d] = "receive"
        /\ fd' = fd /\ mask' = mask /\ dump' = dump /\ mySeq' = mySeq
        /\ reading'[d] = fdTable[fd].of
    BY <1>7 DEF Load, Goto, TypeInv, handle
  <2>2. fd \in Fds /\ fdTable[fd] = Socket(d)
    BY <2>1 DEF Solo, HoldsSocket
  <2>3. reading'[d] = d
    BY <2>1, <2>2, IsSocketOf
  <2>4. Pending(d)'
    BY <1>1, <2>1 DEF Solo, Pending, Printed
  <2> QED  BY <1>1, <1>2, <2>1, <2>2, <2>3, <2>4 DEF Solo, HoldsSocket
<1>8. CASE Test(d)
  <2>1. fd \in Fds /\ fdTable[fd] = Socket(d)
    BY <1>8 DEF Solo, HoldsSocket, Test, Goto
  <2>2. AfterTest = "close"
    BY <2>1, FdsFinite DEF AfterTest
  <2>3. /\ pc[d] = "test" /\ pc'[d] = "close" /\ fd' = fd /\ closing'[d] = fd
    BY <1>8, <2>2 DEF Test, Goto, TypeInv, handle
  <2> QED  BY <1>1, <1>2, <2>1, <2>3 DEF Solo, HoldsSocket
<1> QED  BY <1>3, <1>4, <1>5, <1>6, <1>7, <1>8

LEMMA SoloSend ==
    ASSUME TypeInv, NEW d \in Dumpers, Solo(d), Send(d)
    PROVE  Solo(d)'
<1>1. pc[d] = "send" /\ pc'[d] = "load" /\ d \in Inside
  BY DEF Send, Goto, TypeInv, Inside
<1>2. UNCHANGED <<fd, dump, mask, fdTable, mySeq, pipeFd, reading, closing, out>>
  BY DEF Send, handle, local
<1>3. /\ fd \in Fds /\ fdTable[fd] = Socket(d) /\ mask = "arp" /\ dump = mySeq[d]
      /\ queue[d] = <<>> /\ out[d] = <<>>
  BY <1>1 DEF Solo, HoldsSocket
<1>4. fdTable[fd].of = d
  BY <1>3, IsSocketOf
<1>5. PICK answer \in Answers(mySeq[d]) : queue' = [queue EXCEPT ![d] = @ \o answer]
  BY <1>3, <1>4 DEF Send
<1>6. mySeq[d] \in Nat
  BY DEF TypeInv
<1>7. answer \in Seq(Messages)
  BY <1>6, AnswerComplete
<1>8. queue'[d] = answer
  <2>1. queue'[d] = queue[d] \o answer
    BY <1>5 DEF TypeInv
  <2> QED  BY <1>3, <1>7, <2>1
<1>9. Pending(d)'
  <2>1. /\ Len(answer) > 0 /\ answer[Len(answer)] = Msg(dump, Done)
        /\ \A i \in 1..(Len(answer) - 1) : answer[i].seq = dump /\ answer[i].body \in Table
        /\ \A e \in Table : \E i \in 1..(Len(answer) - 1) : answer[i].body = e
    BY <1>3, <1>6, AnswerComplete
  <2>2. dump' = dump /\ Printed(d)' = {}
    BY <1>1, <1>2, <1>3 DEF Printed, ToSet
  <2> QED  BY <1>8, <2>1, <2>2 DEF Pending
<1> QED  BY <1>1, <1>2, <1>3, <1>9 DEF Solo, HoldsSocket

LEMMA SoloReceive ==
    ASSUME TypeInv, NEW d \in Dumpers, Solo(d), Receive(d)
    PROVE  Solo(d)'
<1> DEFINE q == queue[d]
           n == Len(q)
           m == Head(q)
           prints == m.seq = dump /\ m.body \in Table /\ Passes(m.body)
<1>1. pc[d] = "receive" /\ d \in Inside /\ reading[d] = d
  BY DEF Receive, Goto, TypeInv, Inside, Solo
<1>2. UNCHANGED <<fd, dump, mask, fdTable, mySeq, pipeFd, reading, closing, out>>
  BY DEF Receive, handle
<1>3. /\ fd \in Fds /\ fdTable[fd] = Socket(d) /\ mask = "arp" /\ dump = mySeq[d]
      /\ Pending(d) /\ \A f \in Fds : fdTable[f] = Pipe(d) <=> f = pipeFd[d]
  BY <1>1 DEF Solo, HoldsSocket
<1>4. q \in Seq(Messages) /\ queue \in [Dumpers -> Seq(Messages)] /\ pipeFd[d] \in Fds
      /\ line \in [Dumpers -> [to : Dumpers, entry : Table \cup {Done}]]
  BY DEF TypeInv
<1>5. queue'[d] = Tail(q)
  BY <1>1, <1>4 DEF Receive
<1>6. /\ n > 0 /\ n \in Nat /\ m = q[1] /\ q[n] = Msg(dump, Done)
      /\ \A i \in 1..(n - 1) : q[i].seq = dump /\ q[i].body \in Table
      /\ Printed(d) \subseteq Table \ NoArp
      /\ \A e \in Table \ NoArp :
            e \in Printed(d) \/ \E i \in 1..(n - 1) : q[i].body = e
  BY <1>3, <1>4 DEF Pending
<1>7. fdTable[pipeFd[d]] = Pipe(d) /\ Pipe(d).kind = "pipe" /\ Pipe(d).of = d
  BY <1>3, <1>4 DEF Pipe
<1>8. /\ prints => pc'[d] = "write" /\ line'[d] = [to |-> d, entry |-> m.body]
      /\ ~prints => pc'[d] = AfterMsg(m)
  BY <1>1, <1>4, <1>7 DEF Receive, Goto, TypeInv
<1>9. /\ \A e : Passes(e) <=> e \notin NoArp
      /\ Printed(d) = ToSet(out[d])
      /\ Printed(d)' = IF pc'[d] = "write" THEN ToSet(out[d]) \cup {line'[d].entry}
                       ELSE ToSet(out[d])
  BY <1>1, <1>2, <1>3 DEF Passes, Printed
<1>10. CASE n = 1
  <2>1. m.seq = dump /\ m.body = Done
    BY <1>6, <1>10 DEF Msg
  <2>2. pc'[d] = "test"
    BY <1>8, <2>1, DumpAssumption DEF AfterMsg
  <2>3. ToSet(out'[d]) = Table \ NoArp
    BY <1>2, <1>6, <1>9, <1>10
  <2> QED  BY <1>1, <1>2, <1>3, <2>2, <2>3 DEF Solo, HoldsSocket
<1>11. CASE n > 1
  <2>1. m.seq = dump /\ m.body \in Table /\ m.body # Done
    BY <1>6, <1>11, DumpAssumption
  <2>2. /\ pc'[d] = IF m.body \notin NoArp THEN "write" ELSE "load"
        /\ pc'[d] = "write" => line'[d].to = d
        /\ Printed(d)' = Printed(d) \cup (IF m.body \notin NoArp THEN {m.body} ELSE {})
    BY <1>8, <1>9, <2>1 DEF AfterMsg
  <2> DEFINE r == Tail(q)
  <2>4. r \in Seq(Messages) /\ Len(r) = n - 1 /\ \A i \in 1..(n - 1) : r[i] = q[i + 1]
    BY <1>4, <1>6, <1>11
  <2>5. Len(r) > 0 /\ r[Len(r)] = q[n]
    BY <1>6, <1>11, <2>4
  <2>6. \A i \in 1..(Len(r) - 1) : r[i] = q[i + 1] /\ (i + 1) \in 1..(n - 1)
    BY <1>6, <1>11, <2>4
  <2>7. ASSUME NEW e \in Table \ NoArp
        PROVE  e \in Printed(d)' \/ \E i \in 1..(Len(r) - 1) : r[i].body = e
    <3>1. CASE e \in Printed(d) \/ e = m.body
      BY <2>2, <2>7, <3>1
    <3>2. CASE e \notin Printed(d) /\ e # m.body
      <4>1. PICK i \in 1..(n - 1) : q[i].body = e
        BY <1>6, <2>7, <3>2
      <4>2. i # 1
        BY <1>6, <3>2, <4>1
      <4>3. (i - 1) \in 1..(Len(r) - 1) /\ (i - 1) \in 1..(n - 1) /\ (i - 1) + 1 = i
        BY <1>6, <2>4, <4>1, <4>2
      <4>4. r[i - 1].body = e
        BY <2>4, <4>1, <4>3
      <4> QED  BY <4>3, <4>4
    <3> QED  BY <3>1, <3>2
  <2>8. Printed(d)' \subseteq Table \ NoArp
    BY <1>6, <2>1, <2>2
  <2>9. r = queue'[d] /\ dump' = dump
    BY <1>2, <1>5
  <2>10. /\ Len(r) > 0 /\ r[Len(r)] = Msg(dump', Done)
         /\ \A i \in 1..(Len(r) - 1) : r[i].seq = dump' /\ r[i].body \in Table
    <3>1. r[Len(r)] = Msg(dump', Done)
      BY <1>6, <2>5, <2>9
    <3>2. ASSUME NEW i \in 1..(Len(r) - 1)
          PROVE  r[i].seq = dump' /\ r[i].body \in Table
      <4>1. r[i] = q[i + 1] /\ (i + 1) \in 1..(n - 1)
        BY <2>6, <3>2
      <4>2. q[i + 1].seq = dump /\ q[i + 1].body \in Table
        BY <1>6, <4>1
      <4> QED  BY <2>9, <4>1, <4>2
    <3> QED  BY <2>5, <3>1, <3>2
  <2> HIDE DEF r
  <2>11. Pending(d)'
    BY <2>7, <2>8, <2>9, <2>10 DEF Pending
  <2> QED  BY <1>1, <1>2, <1>3, <2>2, <2>11 DEF Solo, HoldsSocket
<1>12. n > 0 /\ n \in Nat
  BY <1>6
<1> HIDE DEF n
<1>13. n = 1 \/ n > 1
  BY <1>12
<1> QED  BY <1>10, <1>11, <1>13

LEMMA ToSetAppend ==
    ASSUME NEW S, NEW s \in Seq(S), NEW x \in S
    PROVE  ToSet(Append(s, x)) = ToSet(s) \cup {x}
<1>1. /\ Len(s) \in Nat /\ Len(Append(s, x)) = Len(s) + 1
      /\ Append(s, x)[Len(s) + 1] = x
      /\ \A i \in 1..Len(s) : Append(s, x)[i] = s[i]
  OBVIOUS
<1>2. 1..(Len(s) + 1) = 1..Len(s) \cup {Len(s) + 1}
  BY <1>1
<1> QED  BY <1>1, <1>2 DEF ToSet

LEMMA SoloWrite ==
    ASSUME TypeInv, NEW d \in Dumpers, Solo(d), Write(d)
    PROVE  Solo(d)'
<1>1. pc[d] = "write" /\ pc'[d] = "load" /\ d \in Inside
  BY DEF Write, Goto, TypeInv, Inside
<1>2. UNCHANGED <<fd, dump, mask, fdTable, queue, mySeq, pipeFd>>
  BY DEF Write, handle, kernel, local
<1>3. /\ fd \in Fds /\ fdTable[fd] = Socket(d) /\ mask = "arp" /\ dump = mySeq[d]
      /\ Pending(d) /\ line[d].to = d
      /\ \A f \in Fds : fdTable[f] = Pipe(d) <=> f = pipeFd[d]
  BY <1>1 DEF Solo, HoldsSocket
<1>4. out'[d] = Append(out[d], line[d].entry) /\ out[d] \in Seq(Table)
      /\ line[d].entry \in Table
  BY <1>1, <1>3 DEF Write, TypeInv
<1>5. Printed(d)' = Printed(d)
  BY <1>1, <1>4, ToSetAppend DEF Printed
<1>6. Pending(d)'
  BY <1>2, <1>3, <1>5 DEF Pending
<1> QED  BY <1>1, <1>2, <1>3, <1>6 DEF Solo, HoldsSocket

LEMMA SoloCloses ==
    ASSUME TypeInv, NEW d \in Dumpers, Solo(d), Close(d) \/ Forget(d) \/ Fclose(d)
    PROVE  Solo(d)'
<1>1. CASE Close(d)
  <2>1. pc[d] = "close" /\ pc'[d] = "forget" /\ d \in Inside
    BY <1>1 DEF Close, Goto, TypeInv, Inside
  <2>2. /\ fd \in Fds /\ fdTable[fd] = Socket(d) /\ closing[d] = fd
        /\ ToSet(out[d]) = Table \ NoArp
        /\ \A f \in Fds : fdTable[f] = Pipe(d) <=> f = pipeFd[d]
    BY <2>1 DEF Solo, HoldsSocket
  <2>3. /\ fdTable'[fd] = Free /\ \A f \in Fds \ {fd} : fdTable'[f] = fdTable[f]
        /\ pipeFd' = pipeFd /\ out' = out
    BY <1>1, <2>2 DEF Close, TypeInv, local
  <2>4. \A f \in Fds : fdTable'[f] = Pipe(d) <=> f = pipeFd'[d]
    BY <2>2, <2>3, SlotKinds
  <2> QED  BY <2>1, <2>2, <2>3, <2>4 DEF Solo, HoldsSocket
<1>2. CASE Forget(d)
  <2>1. pc[d] = "forget" /\ pc'[d] = "fclose" /\ d \in Inside
    BY <1>2 DEF Forget, Goto, TypeInv, Inside
  <2>2. UNCHANGED <<fdTable, pipeFd, out>>
    BY <1>2 DEF Forget, kernel, local
  <2> QED  BY <2>1, <2>2 DEF Solo, HoldsSocket
<1>3. CASE Fclose(d)
  <2>1. pc[d] = "fclose" /\ pc'[d] = "returned" /\ d \in Inside
    BY <1>3 DEF Fclose, Goto, TypeInv, Inside
  <2>2. /\ pipeFd[d] \in Fds /\ ToSet(out[d]) = Table \ NoArp
        /\ \A f \in Fds : fdTable[f] = Pipe(d) <=> f = pipeFd[d]
    BY <2>1 DEF Solo, TypeInv
  <2>3. /\ fdTable'[pipeFd[d]] = Free
        /\ \A f \in Fds \ {pipeFd[d]} : fdTable'[f] = fdTable[f]
        /\ out' = out
    BY <1>3, <2>2 DEF Fclose, TypeInv
  <2>4. NoPipe(d)'
    BY <2>2, <2>3, SlotKinds DEF NoPipe
  <2> QED  BY <2>1, <2>2, <2>3, <2>4 DEF Solo, HoldsSocket, Inside
<1> QED  BY <1>1, <1>2, <1>3

LEMMA SoloStep ==
    ASSUME TypeInv, Room, Alone, Strays, \A d \in Dumpers : Unopened(d),
           \A d \in Dumpers \ overlapped : Solo(d), [Next]_vars,
           NEW e \in Dumpers \ overlapped'
    PROVE  Solo(e)'
<1>1. ASSUME UNCHANGED state
      PROVE  Solo(e)'
  BY <1>1, SoloStutter DEF state
<1>2. ASSUME NEW d \in Dumpers, Runs(d), d # e
      PROVE  Solo(e)'
  BY <1>2, OthersAreOut, SoloBesideOthers
<1>3. ASSUME Runs(e)
      PROVE  Solo(e)'
  <2>1. CASE Begin(e)
    BY <2>1, SoloBegin
  <2>2. CASE ~Begin(e)
    <3>1. Solo(e)
      BY <1>3, <2>2, StepsInside
    <3> QED  BY <1>3, <2>2, <3>1, SoloOpens, SoloInThread, SoloSend, SoloReceive,
                SoloWrite, SoloCloses DEF Runs
  <2> QED  BY <2>1, <2>2
<1> QED  BY <1>1, <1>2, <1>3, StepCases, StopKeeps, StutterKeeps

-----------------------------------------------------------------------------
(* What is open while no two dumps have overlapped *)

LEMMA AccountedStep ==
    ASSUME TypeInv, Room, Alone, Accounted,
           \A d \in Dumpers \ overlapped : Solo(d), [Next]_vars
    PROVE  Accounted'
<1>1. ASSUME UNCHANGED state
      PROVE  Accounted'
  BY <1>1 DEF state, Accounted, Inside
<1>2. ASSUME NEW d \in Dumpers, Runs(d), overlapped' = {}
      PROVE  /\ fdTable'[0] = DevNull
             /\ \A f \in Fds \ {0} :
                   \/ fdTable'[f] = Free
                   \/ \E e \in Inside' :
                         f = pipeFd'[e] \/ (pc'[e] \in HoldsSocket /\ f = fd')
  <2> SUFFICES /\ fdTable'[0] = DevNull
               /\ \A f \in Fds \ {0} :
                     \/ fdTable'[f] = Free
                     \/ d \in Inside' /\ f = pipeFd'[d]
                     \/ d \in Inside' /\ pc'[d] \in HoldsSocket /\ f = fd'
    OBVIOUS
  <2>1. overlapped = {} /\ Inside \subseteq {d}
    <3>1. CASE Begin(d)
      BY <1>2, <3>1 DEF Begin
    <3>2. CASE ~Begin(d)
      BY <1>2, <3>2, StepsInside DEF Alone
    <3> QED  BY <3>1, <3>2
  <2>2. Solo(d) /\ 0 \in Fds
    BY <2>1, FdsFinite DEF Fds
  <2>3. /\ fdTable[0] = DevNull
        /\ \A f \in Fds \ {0} :
              \/ fdTable[f] = Free
              \/ d \in Inside /\ (f = pipeFd[d] \/ (pc[d] \in HoldsSocket /\ f = fd))
    BY <2>1 DEF Accounted
  <2>4. CASE Begin(d)
    <3>1. LowestFree \in Fds /\ fdTable[LowestFree] = Free /\ d \notin Inside
          /\ d \in Inside'
      BY <2>4, BeginsOutside, RoomForOne
    <3>2. pipeFd'[d] = LowestFree /\ \A f \in Fds \ {LowestFree} : fdTable'[f] = fdTable[f]
      BY <2>4, <3>1 DEF Begin, TypeInv
    <3> QED  BY <2>2, <2>3, <3>1, <3>2, SlotKinds
  <2>5. CASE OpenSocket(d)
    <3>1. pc[d] = "socket" /\ pc'[d] = "prepare"
      BY <2>5 DEF OpenSocket, Goto, TypeInv
    <3>2. LowestFree \in Fds /\ fdTable[LowestFree] = Free
      BY <3>1, RoomForOne
    <3>3. /\ fd' = LowestFree /\ \A f \in Fds \ {LowestFree} : fdTable'[f] = fdTable[f]
          /\ pipeFd' = pipeFd
      BY <2>5, <3>2 DEF OpenSocket, TypeInv, local
    <3>4. d \in Inside' /\ pc'[d] \in HoldsSocket /\ pc[d] \notin HoldsSocket
      BY <3>1 DEF Inside, HoldsSocket
    <3> QED  BY <2>2, <2>3, <3>2, <3>3, <3>4, SlotKinds
  <2>6. CASE Close(d)
    <3>1. pc[d] = "close" /\ pc'[d] = "forget" /\ d \in Inside'
      BY <2>6 DEF Close, Goto, TypeInv, Inside
    <3>2. fd \in Fds /\ fdTable[fd] = Socket(d) /\ closing[d] = fd
      BY <2>2, <3>1 DEF Solo, HoldsSocket
    <3>3. /\ fdTable'[fd] = Free /\ \A f \in Fds \ {fd} : fdTable'[f] = fdTable[f]
          /\ pipeFd' = pipeFd
      BY <2>6, <3>2 DEF Close, TypeInv, local
    <3>4. fd # 0
      BY <2>3, <3>2, SlotKinds
    <3> QED  BY <2>2, <2>3, <3>1, <3>3, <3>4
  <2>7. CASE Fclose(d)
    <3>1. pc[d] = "fclose" /\ d \in Inside
      BY <2>7 DEF Fclose, Goto, TypeInv, Inside
    <3>2. pipeFd[d] \in Fds /\ fdTable[pipeFd[d]] = Pipe(d)
      BY <2>2, <3>1 DEF Solo, TypeInv
    <3>3. /\ fdTable'[pipeFd[d]] = Free
          /\ \A f \in Fds \ {pipeFd[d]} : fdTable'[f] = fdTable[f]
      BY <2>7, <3>2 DEF Fclose, TypeInv
    <3>4. pipeFd[d] # 0 /\ pc[d] \notin HoldsSocket
      BY <2>3, <3>1, <3>2, SlotKinds DEF HoldsSocket
    <3> QED  BY <2>2, <2>3, <3>3, <3>4
  <2>8. CASE Zero(d) \/ Prepare(d) \/ SetFilter(d) \/ Number(d) \/ Send(d) \/ Load(d)
             \/ Receive(d) \/ Write(d) \/ Test(d) \/ Forget(d)
    <3>1. UNCHANGED <<fdTable, pipeFd>>
      BY <2>8 DEF Zero, Prepare, SetFilter, Number, Send, Load, Receive, Write, Test,
                  Forget, kernel, local
    <3>2. d \in Inside'
      BY <2>8 DEF Zero, Prepare, SetFilter, Number, Send, Load, Receive, Write, Test,
                  Forget, Goto, TypeInv, Inside, AfterMsg, AfterTest
    <3>3. pc[d] \in HoldsSocket => fd' = fd /\ pc'[d] \in HoldsSocket
      <4>1. CASE Test(d)
        <5>1. pc[d] = "test" /\ pc'[d] = AfterTest /\ fd' = fd
          BY <4>1 DEF Test, Goto, TypeInv, handle
        <5>2. fd \in Fds
          BY <2>2, <5>1 DEF Solo, HoldsSocket
        <5>3. AfterTest = "close"
          BY <5>2, FdsFinite DEF AfterTest
        <5> QED  BY <5>1, <5>3 DEF HoldsSocket
      <4> QED  BY <2>8, <4>1 DEF Zero, Prepare, SetFilter, Number, Send, Load, Receive,
                       Write, Forget, Goto, TypeInv, HoldsSocket, handle, AfterMsg
    <3> QED  BY <2>3, <3>1, <3>2, <3>3
  <2> QED  BY <1>2, <2>4, <2>5, <2>6, <2>7, <2>8 DEF Runs
<1>3. ASSUME NEW d \in Dumpers, Runs(d)
      PROVE  Accounted'
  BY <1>2, <1>3 DEF Accounted
<1> QED  BY <1>1, <1>3, StepCases, StopKeeps, StutterKeeps

-----------------------------------------------------------------------------
(* The native code ends the process for a reason *)

LEMMA ExitStep ==
    ASSUME TypeInv, ExitExplained, \A d \in Dumpers \ overlapped : Solo(d), [Next]_vars
    PROVE  ExitExplained'
<1>1. ASSUME UNCHANGED vars
      PROVE  ExitExplained'
  BY <1>1 DEF vars, ExitExplained
<1>2. ASSUME NEW d \in Dumpers, SystemFails(d)
      PROVE  ExitExplained'
  BY <1>2 DEF SystemFails, ExitExplained
<1>3. ASSUME NEW d \in Dumpers, PrepareFails(d) \/ SendFails(d) \/ LoadFails(d)
      PROVE  ExitExplained'
  <2>1. pc[d] \in {"prepare", "send", "load"} /\ ~IsSocket(fd) /\ overlapped' = overlapped
    BY <1>3 DEF PrepareFails, SendFails, LoadFails, Exit
  <2>2. d \in overlapped
    <3> SUFFICES ASSUME d \notin overlapped PROVE FALSE
      OBVIOUS
    <3>1. fd \in Fds /\ fdTable[fd] = Socket(d)
      BY <2>1 DEF Solo, HoldsSocket
    <3> QED  BY <2>1, <3>1, IsSocketOf
  <2> QED  BY <2>1, <2>2 DEF ExitExplained
<1>4. ASSUME NEW d \in Dumpers, ReceiveError(d)
      PROVE  ExitExplained'
  <2>1. pc[d] = "receive" /\ queue[reading[d]] # <<>> /\ overlapped' = overlapped
        /\ Head(queue[reading[d]]).body = Error
    BY <1>4 DEF ReceiveError, Exit
  <2>2. d \in overlapped
    <3> SUFFICES ASSUME d \notin overlapped PROVE FALSE
      OBVIOUS
    <3>1. reading[d] = d /\ Pending(d) /\ queue[d] \in Seq(Messages)
      BY <2>1 DEF Solo, TypeInv
    <3> DEFINE q == queue[d]
    <3>2. /\ Len(q) > 0 /\ Len(q) \in Nat /\ Head(q) = q[1]
          /\ q[Len(q)].body = Done
          /\ \A i \in 1..(Len(q) - 1) : q[i].body \in Table
      BY <3>1 DEF Pending, Msg
    <3>3. q[1].body = Done \/ q[1].body \in Table
      BY <3>2
    <3> QED  BY <2>1, <3>1, <3>2, <3>3, DumpAssumption DEF Done, Error
  <2> QED  BY <2>1, <2>2 DEF ExitExplained
<1>5. ASSUME NEW d \in Dumpers, Runs(d)
      PROVE  ExitExplained'
  <2>1. exited' = exited /\ failed' = failed
    BY <1>5 DEF Runs, Begin, Zero, OpenSocket, Prepare, SetFilter, Number, Send, Load,
                Receive, Write, Test, Close, Forget, Fclose
  <2>2. overlapped \subseteq overlapped'
    BY <1>5, StepsInside DEF Begin
  <2> QED  BY <2>1, <2>2 DEF ExitExplained
<1> QED  BY <1>1, <1>2, <1>3, <1>4, <1>5, StepCases DEF Stop

-----------------------------------------------------------------------------
(* The theorems *)

LEMMA DumpInvInit == Init => DumpInv
<1> SUFFICES ASSUME Init PROVE DumpInv
  OBVIOUS
<1>1. TypeInv /\ Room
  BY TypeInit
<1>2. /\ \A d \in Dumpers : pc[d] = "idle" /\ queue[d] = <<>> /\ out[d] = <<>>
      /\ \A f \in Fds : fdTable[f] = DevNull \/ fdTable[f] = Free
      /\ 0 \in Fds /\ fdTable[0] = DevNull /\ \A f \in Fds \ {0} : fdTable[f] = Free
      /\ exited = FALSE /\ overlapped = {}
  BY FdsFinite DEF Init, Fds
<1>3. \A d \in Dumpers : NoSocket(d) /\ NoPipe(d)
  BY <1>2, SlotKinds DEF NoSocket, NoPipe
<1>4. Alone /\ \A d \in Dumpers : Unopened(d) /\ Solo(d)
  BY <1>2, <1>3 DEF Alone, Inside, Unopened, Solo, HoldsSocket
<1> QED  BY <1>1, <1>2, <1>4 DEF DumpInv, Strays, Accounted, ExitExplained

LEMMA DumpInvStep == DumpInv /\ [Next]_vars => DumpInv'
<1> SUFFICES ASSUME DumpInv, [Next]_vars PROVE DumpInv'
  OBVIOUS
<1>1. TypeInv /\ Room /\ Alone /\ Strays /\ Accounted /\ ExitExplained
      /\ (\A d \in Dumpers : Unopened(d)) /\ (\A d \in Dumpers \ overlapped : Solo(d))
  BY DEF DumpInv
<1>2. TypeInv' /\ Room' /\ Alone' /\ Strays'
  BY <1>1, TypeStep, RoomStep, AloneStep, StrayStep
<1>3. \A d \in Dumpers : Unopened(d)'
  BY <1>1, UnopenedStep
<1>4. \A d \in Dumpers \ overlapped' : Solo(d)'
  BY <1>1, SoloStep
<1>5. Accounted' /\ ExitExplained'
  BY <1>1, AccountedStep, ExitStep
<1> QED  BY <1>2, <1>3, <1>4, <1>5 DEF DumpInv

LEMMA DumpInvariant == Spec => []DumpInv
  BY DumpInvInit, DumpInvStep, PTL DEF Spec

(* A dump that no other dump overlaps writes every ARP entry of the kernel's
   table to its pipe and no other entry, whatever the dumps before it have left
   in rth, the filter and the descriptors (rtnl_dump_request_n,
   rtnl_dump_filter_l, print_neigh). *)
THEOREM SoloDumpIsComplete == Spec => []SoloDumpComplete
<1>1. DumpInv => SoloDumpComplete
  BY DEF DumpInv, Solo, SoloDumpComplete
<1> QED  BY <1>1, DumpInvariant, PTL

(* The exits of the native code (rtnl_open's, rtnl_send's and the filter's) are
   reached only when a system call fails or two dumps have overlapped. *)
THEOREM ExitsAreExplained == Spec => []ExitExplained
<1>1. DumpInv => ExitExplained
  BY DEF DumpInv
<1> QED  BY <1>1, DumpInvariant, PTL

(* Dumps that never overlap leave no pipe and no socket open, and /dev/null on
   descriptor 0 (rtnl_close, fclose). *)
THEOREM DescriptorsAreReturned == Spec => []DescriptorsReturned
<1>1. DumpInv => DescriptorsReturned
  BY DEF DumpInv, Accounted, DescriptorsReturned
<1> QED  BY <1>1, DumpInvariant, PTL
=============================================================================
