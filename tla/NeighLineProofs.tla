--------------------------- MODULE NeighLineProofs ---------------------------
(***************************************************************************)
(* What the scanner reads from the lines of a dump, for any number of      *)
(* dumps and any table of neighbours.                                      *)
(***************************************************************************)
EXTENDS NeighLine, SequenceTheorems, TLAPS

-----------------------------------------------------------------------------
(* The inductive invariant *)

Places == {"idle", "filter", "next", "format", "print", "parse", "returned"}

(* The text that format_host gives a neighbour of its own *)
TextOf(e) == IF UsesBuffer(e.family) THEN e.dst ELSE Unprintable

PrintedLines == {Line(e, w) : e \in Entries, w \in Addresses \cup {Unprintable}}
Reports      == {HostOf(l) : l \in PrintedLines}

TypeInv ==
    /\ table \in Seq(Entries)
    /\ pc \in [Dumpers -> Places]
    /\ left \in [Dumpers -> Seq(Entries)]
    /\ lines \in [Dumpers -> Seq(PrintedLines)]
    /\ hosts \in [Dumpers -> Seq(Reports)]
    /\ buf \in Addresses \cup {Torn}
    /\ clash \in BOOLEAN
    /\ overlapped \in SUBSET Dumpers

Printed(e) == ~Filtered(e, FilterState)

Alone == \A d, e \in Inside : d # e => d \in overlapped

(* The buffer is written by two only while somebody writes it; a dump that is
   alone writes it alone, for an entry that its filter lets through, and finds
   there what it has written. *)
BufferInv ==
    /\ clash => In("format") # {}
    /\ \A d \in Dumpers \ overlapped :
          /\ pc[d] = "format" => ~clash
          /\ pc[d] = "print" => buf = Head(left[d]).dst
          /\ pc[d] \in {"format", "print"} => Printed(Head(left[d]))

(* How many entries a dump is done with, and what is left is the rest *)
Seen(d) == Len(table) - Len(left[d])
LeftInv(d) ==
    /\ pc[d] \in {"idle", "filter"} => lines[d] = <<>> /\ hosts[d] = <<>>
    /\ pc[d] \in {"next", "format", "print"} => hosts[d] = <<>>
    /\ pc[d] \in {"format", "print"} =>
          left[d] # <<>> /\ UsesBuffer(Head(left[d]).family)
    /\ pc[d] \in {"parse", "returned"} => left[d] = <<>>
    /\ pc[d] = "returned" => lines[d] = <<>>
    /\ Len(left[d]) <= Len(table)
    /\ \A i \in 1..Len(left[d]) : left[d][i] = table[Seen(d) + i]

(* Every line is a neighbour's, with the text of its own address unless the
   dump was overlapped; and every host comes from a line. *)
LineOf(d, l) ==
    \E j \in DOMAIN table : \E w \in Addresses \cup {Unprintable} :
        /\ l = Line(table[j], w)
        /\ w # TextOf(table[j]) => d \in overlapped
HostExplained(d, h) ==
    \E j \in DOMAIN table :
        /\ table[j].nud \in NudValid
        /\ h.mac = LlAddrN2a(table[j].mac, IndexToType(table[j].ifindex))
        /\ h.ip # table[j].dst => d \in overlapped
Explained(d) ==
    /\ \A i \in DOMAIN lines[d] : LineOf(d, lines[d][i])
    /\ \A i \in DOMAIN hosts[d] : HostExplained(d, hosts[d][i])

(* Where the hosts and the lines of a dump come from: bt and at number the
   entries of the table, in its order; those wanted are all among them. *)
Report(e) == [ip |-> e.dst, mac |-> e.mac]
Increasing(f) == \A i, j \in DOMAIN f : i < j => f[i] < f[j]
Trace(d, bt, at) ==
    /\ bt \in [DOMAIN hosts[d] -> DOMAIN table] /\ at \in [DOMAIN lines[d] -> DOMAIN table]
    /\ Increasing(bt) /\ Increasing(at)
    /\ \A i \in DOMAIN bt, j \in DOMAIN at : bt[i] < at[j]
    /\ \A i \in DOMAIN bt : Wanted(table[bt[i]]) /\ hosts[d][i] = Report(table[bt[i]])
    /\ \A i \in DOMAIN at : /\ Printed(table[at[i]]) /\ at[i] <= Seen(d)
                            /\ lines[d][i] = Line(table[at[i]], TextOf(table[at[i]]))
    /\ \A k \in 1..Seen(d) : Wanted(table[k]) =>
          (\E i \in DOMAIN bt : bt[i] = k) \/ (\E i \in DOMAIN at : at[i] = k)
Traced(d) ==
    pc[d] \in {"next", "format", "print", "parse", "returned"} =>
        \E bt, at : Trace(d, bt, at)

LineInv ==
    /\ TypeInv /\ Alone /\ BufferInv
    /\ \A d \in Dumpers : LeftInv(d) /\ Explained(d)
    /\ \A d \in Dumpers \ overlapped : Traced(d)

-----------------------------------------------------------------------------
(* The words of a line *)

LEMMA ThreeAttributes ==
    ASSUME NEW a, NEW b, NEW c
    PROVE  LET l == <<a>> \o <<>> \o <<b, c>>
           IN  DOMAIN l = 1..3 /\ l[1] = a /\ l[2] = b /\ l[3] = c
  OBVIOUS

LEMMA FourAttributes ==
    ASSUME NEW a, NEW b, NEW c, NEW d
    PROVE  LET l == <<a>> \o <<b>> \o <<c, d>>
           IN  DOMAIN l = 1..4 /\ l[1] = a /\ l[2] = b /\ l[3] = c /\ l[4] = d
  OBVIOUS

(* Of the attributes of a neighbour the parsed table has its address, if it has
   one. *)
LEMMA FirstOfType ==
    ASSUME NEW e \in Entries
    PROVE  ParseRtattr(Attributes(e))["LLADDR"] = IF e.mac = NoMac THEN {} ELSE {e.mac}
<1> DEFINE as == Attributes(e)
           d == Attr("DST", e.dst)
           l == Attr("LLADDR", e.mac)
           c == Attr("CACHEINFO", "times")
           p == Attr("PROTOCOL", "number")
           I == {j \in DOMAIN as : IsFirst(as, j, "LLADDR")}
<1>1. ParseRtattr(as)["LLADDR"] = {as[i].data : i \in I}
  BY DEF ParseRtattr, Known
<1>2. /\ d.type = "DST" /\ l.type = "LLADDR" /\ c.type = "CACHEINFO" /\ p.type = "PROTOCOL"
      /\ l.data = e.mac
  BY DEF Attr
<1>3. as = <<d>> \o (IF e.mac # NoMac THEN <<l>> ELSE <<>>) \o <<c, p>>
  BY DEF Attributes
<1> HIDE DEF as, d, l, c, p
<1>4. CASE e.mac = NoMac
  <2>1. DOMAIN as = 1..3 /\ as[1] = d /\ as[2] = c /\ as[3] = p
    BY <1>3, <1>4, ThreeAttributes
  <2>2. as[1].type # "LLADDR" /\ as[2].type # "LLADDR" /\ as[3].type # "LLADDR"
    BY <1>2, <2>1
  <2>3. \A j \in 1..3 : j = 1 \/ j = 2 \/ j = 3
    OBVIOUS
  <2>4. \A j \in 1..3 : as[j].type # "LLADDR"
    BY <2>2, <2>3
  <2>5. I = {}
    BY <2>1, <2>4 DEF IsFirst
  <2> QED  BY <1>1, <1>4, <2>5 DEF as
<1>5. CASE e.mac # NoMac
  <2>1. DOMAIN as = 1..4 /\ as[1] = d /\ as[2] = l /\ as[3] = c /\ as[4] = p
    BY <1>3, <1>5, FourAttributes
  <2>2. /\ as[1].type # "LLADDR" /\ as[3].type # "LLADDR" /\ as[4].type # "LLADDR"
        /\ as[2].type = "LLADDR" /\ as[2].data = e.mac
    BY <1>2, <2>1
  <2>3. \A j \in 1..4 : j = 1 \/ j = 2 \/ j = 3 \/ j = 4
    OBVIOUS
  <2>4. \A j \in 1..4 : as[j].type = "LLADDR" => j = 2
    BY <2>2, <2>3
  <2>5. IsFirst(as, 2, "LLADDR")
    <3>1. \A j \in 1..(2 - 1) : j = 1
      OBVIOUS
    <3> QED  BY <2>2, <3>1 DEF IsFirst
  <2>6. I = {2}
    <3>1. 2 \in DOMAIN as
      BY <2>1
    <3>2. \A j \in DOMAIN as : IsFirst(as, j, "LLADDR") => j = 2
      BY <2>1, <2>4 DEF IsFirst
    <3> QED  BY <2>5, <3>1, <3>2
  <2>7. {as[i].data : i \in I} = {as[2].data}
    BY <2>6
  <2> QED  BY <1>1, <1>5, <2>2, <2>7 DEF as
<1> QED  BY <1>4, <1>5

LEMMA SixWords ==
    ASSUME NEW a, NEW b, NEW c, NEW d, NEW e, NEW f
    PROVE  LET l == <<a>> \o <<b, c>> \o (<<d, e>> \o <<>> \o <<>> \o <<f>>)
           IN  Len(l) = 6 /\ l[1] = a /\ l[5] = e /\ l[6] = f
               /\ <<d, e>> \o <<>> \o <<>> \o <<f>> # <<>>
  OBVIOUS

LEMMA SevenWords ==
    ASSUME NEW a, NEW b, NEW c, NEW d, NEW e, NEW f, NEW g
    PROVE  LET l == <<a>> \o <<b, c>> \o (<<d, e>> \o <<f>> \o <<>> \o <<g>>)
           IN  Len(l) = 7 /\ l[1] = a /\ l[5] = e /\ l[7] = g
               /\ <<d, e>> \o <<f>> \o <<>> \o <<g>> # <<>>
  OBVIOUS

LEMMA FourWords ==
    ASSUME NEW a, NEW b, NEW c, NEW d
    PROVE  LET l == <<a>> \o <<b, c>> \o (<<>> \o <<>> \o <<>> \o <<d>>)
           IN  Len(l) = 4 /\ l[4] = d /\ <<>> \o <<>> \o <<>> \o <<d>> # <<>>
  OBVIOUS

LEMMA FiveWords ==
    ASSUME NEW a, NEW b, NEW c, NEW d, NEW e
    PROVE  LET l == <<a>> \o <<b, c>> \o (<<>> \o <<d>> \o <<>> \o <<e>>)
           IN  Len(l) = 5 /\ l[5] = e /\ <<>> \o <<d>> \o <<>> \o <<e>> # <<>>
  OBVIOUS

(* A neighbour in a valid state has its link-layer address in the fifth word and
   its state in the last, behind more than five words ... *)
LEMMA ValidLine ==
    ASSUME NEW e \in Entries, e.nud \in NudValid, NEW w
    PROVE  /\ Len(Line(e, w)) > 5 /\ Line(e, w)[1] = w
           /\ Line(e, w)[5] = LlAddrN2a(e.mac, IndexToType(e.ifindex))
           /\ Line(e, w)[Len(Line(e, w))] = e.nud
<1>1. /\ e.mac # NoMac /\ e.ifindex # 0 /\ e.proxy = FALSE /\ e.nud # "NONE"
      /\ IndexToName(e.ifindex) = "name"
  BY DEF Entries, NudValid, IndexToName
<1> DEFINE m    == LlAddrN2a(e.mac, IndexToType(e.ifindex))
           tail == <<"lladdr", m>> \o Word(e.router, "router") \o <<>> \o <<e.nud>>
<1>2. ParseRtattr(Attributes(e))["LLADDR"] = {e.mac} /\ (CHOOSE a \in {e.mac} : TRUE) = e.mac
  BY <1>1, FirstOfType
<1>3. Line(e, w) = <<w>> \o <<"dev", "name">> \o (IF tail = <<>> THEN <<"">> ELSE tail)
  BY <1>1, <1>2 DEF Line, Word
<1> HIDE DEF m
<1>4. CASE e.router
  <2>1. tail = <<"lladdr", m>> \o <<"router">> \o <<>> \o <<e.nud>>
    BY <1>4 DEF Word
  <2> HIDE DEF tail
  <2>2. Line(e, w) = <<w>> \o <<"dev", "name">>
                          \o (<<"lladdr", m>> \o <<"router">> \o <<>> \o <<e.nud>>)
    BY <1>3, <2>1, SevenWords
  <2>3. /\ Len(Line(e, w)) = 7 /\ Line(e, w)[1] = w /\ Line(e, w)[5] = m
        /\ Line(e, w)[7] = e.nud
    BY <2>2, SevenWords
  <2> QED  BY <2>3 DEF m
<1>5. CASE ~e.router
  <2>1. tail = <<"lladdr", m>> \o <<>> \o <<>> \o <<e.nud>>
    BY <1>5 DEF Word
  <2> HIDE DEF tail
  <2>2. Line(e, w) = <<w>> \o <<"dev", "name">>
                          \o (<<"lladdr", m>> \o <<>> \o <<>> \o <<e.nud>>)
    BY <1>3, <2>1, SixWords
  <2>3. /\ Len(Line(e, w)) = 6 /\ Line(e, w)[1] = w /\ Line(e, w)[5] = m
        /\ Line(e, w)[6] = e.nud
    BY <2>2, SixWords
  <2> QED  BY <2>3 DEF m
<1> QED  BY <1>4, <1>5

(* ... a neighbour that is not known to be there has its state in the last ... *)
LEMMA PendingLine ==
    ASSUME NEW e \in Entries, e.nud \in {"INCOMPLETE", "FAILED"}, NEW w
    PROVE  Line(e, w)[Len(Line(e, w))] = e.nud
<1>1. /\ e.mac = NoMac /\ e.ifindex # 0 /\ e.proxy = FALSE /\ e.nud # "NONE"
      /\ IndexToName(e.ifindex) = "name"
  BY DEF Entries, NudValid, IndexToName
<1> DEFINE tail == <<>> \o Word(e.router, "router") \o <<>> \o <<e.nud>>
<1>2. ParseRtattr(Attributes(e))["LLADDR"] = {}
  BY <1>1, FirstOfType
<1>3. Line(e, w) = <<w>> \o <<"dev", "name">> \o (IF tail = <<>> THEN <<"">> ELSE tail)
  BY <1>1, <1>2 DEF Line, Word
<1>4. CASE e.router
  <2>1. tail = <<>> \o <<"router">> \o <<>> \o <<e.nud>>
    BY <1>4 DEF Word
  <2> HIDE DEF tail
  <2>2. Line(e, w) = <<w>> \o <<"dev", "name">> \o (<<>> \o <<"router">> \o <<>> \o <<e.nud>>)
    BY <1>3, <2>1, FiveWords
  <2>3. Len(Line(e, w)) = 5 /\ Line(e, w)[5] = e.nud
    BY <2>2, FiveWords
  <2> QED  BY <2>3
<1>5. CASE ~e.router
  <2>1. tail = <<>> \o <<>> \o <<>> \o <<e.nud>>
    BY <1>5 DEF Word
  <2> HIDE DEF tail
  <2>2. Line(e, w) = <<w>> \o <<"dev", "name">> \o (<<>> \o <<>> \o <<>> \o <<e.nud>>)
    BY <1>3, <2>1, FourWords
  <2>3. Len(Line(e, w)) = 4 /\ Line(e, w)[4] = e.nud
    BY <2>2, FourWords
  <2> QED  BY <2>3
<1> QED  BY <1>4, <1>5

LEMMA AtMostTwo ==
    ASSUME NEW r \in {<<>>, <<"router">>}, NEW p \in {<<>>, <<"proxy">>}, NEW w, NEW n,
           NEW dev \in {<<>>, <<"dev", n>>}
    PROVE  LET tail == <<>> \o r \o p \o <<>>
           IN  Len(<<w>> \o dev \o (IF tail = <<>> THEN <<"">> ELSE tail)) <= 5
<1>1. CASE r = <<>> /\ p = <<>> /\ dev = <<>>
  BY <1>1
<1>2. CASE r = <<"router">> /\ p = <<>> /\ dev = <<>>
  BY <1>2
<1>3. CASE r = <<>> /\ p = <<"proxy">> /\ dev = <<>>
  BY <1>3
<1>4. CASE r = <<"router">> /\ p = <<"proxy">> /\ dev = <<>>
  BY <1>4
<1>5. CASE r = <<>> /\ p = <<>> /\ dev = <<"dev", n>>
  BY <1>5
<1>6. CASE r = <<"router">> /\ p = <<>> /\ dev = <<"dev", n>>
  BY <1>6
<1>7. CASE r = <<>> /\ p = <<"proxy">> /\ dev = <<"dev", n>>
  BY <1>7
<1>8. CASE r = <<"router">> /\ p = <<"proxy">> /\ dev = <<"dev", n>>
  BY <1>8
<1> QED  BY <1>1, <1>2, <1>3, <1>4, <1>5, <1>6, <1>7, <1>8

(* ... and a neighbour without a state has five words at most. *)
LEMMA StatelessLine ==
    ASSUME NEW e \in Entries, e.nud = "NONE", NEW w
    PROVE  Len(Line(e, w)) <= 5
<1> DEFINE dev  == IF e.ifindex # 0 THEN <<"dev", IndexToName(e.ifindex)>> ELSE <<>>
           r    == Word(e.router, "router")
           p    == Word(e.proxy, "proxy")
           tail == <<>> \o r \o p \o <<>>
<1>1. ParseRtattr(Attributes(e))["LLADDR"] = {}
  BY FirstOfType DEF Entries, NudValid
<1>2. Line(e, w) = <<w>> \o dev \o (IF tail = <<>> THEN <<"">> ELSE tail)
  BY <1>1 DEF Line, Word
<1>3. /\ r \in {<<>>, <<"router">>} /\ p \in {<<>>, <<"proxy">>}
      /\ dev \in {<<>>, <<"dev", IndexToName(e.ifindex)>>}
  BY DEF Word
<1> HIDE DEF dev, r, p
<1> QED  BY <1>2, <1>3, AtMostTwo

-----------------------------------------------------------------------------
(* What the parser tells from the words *)

(* A line that is accepted is a valid neighbour's, whatever stands for its
   address. *)
LEMMA AcceptedIsValid ==
    ASSUME NEW e \in Entries, NEW w, Accepted(Line(e, w))
    PROVE  /\ e.nud \in NudValid /\ w \in Global
           /\ HostOf(Line(e, w)) = [ip |-> w, mac |-> LlAddrN2a(e.mac, IndexToType(e.ifindex))]
<1>1. e.nud \in NudValid \/ e.nud \in {"INCOMPLETE", "FAILED"} \/ e.nud = "NONE"
  BY DEF Entries, NudStates
<1>2. e.nud # "NONE"
  <2> SUFFICES ASSUME e.nud = "NONE" PROVE FALSE
    OBVIOUS
  <2> HIDE DEF Line
  <2>1. Len(Line(e, w)) > 5 /\ Len(Line(e, w)) <= 5
    BY StatelessLine DEF Accepted, LongEnough
  <2> QED  BY <2>1
<1>3. e.nud \notin {"INCOMPLETE", "FAILED"}
  BY PendingLine DEF Accepted
<1>4. e.nud \in NudValid
  BY <1>1, <1>2, <1>3
<1>5. Line(e, w)[1] = w /\ Line(e, w)[5] = LlAddrN2a(e.mac, IndexToType(e.ifindex))
  BY <1>4, ValidLine
<1> QED  BY <1>4, <1>5 DEF Accepted, HostOf

(* Of the lines that the filter lets through, those with the neighbour's own
   address, the accepted ones are the wanted neighbours'. *)
LEMMA AcceptedIsWanted ==
    ASSUME NEW e \in Entries, Printed(e)
    PROVE  /\ Accepted(Line(e, TextOf(e))) <=> Wanted(e)
           /\ Wanted(e) => HostOf(Line(e, TextOf(e))) = Report(e)
<1>1. ASSUME Wanted(e)
      PROVE  Accepted(Line(e, TextOf(e))) /\ HostOf(Line(e, TextOf(e))) = Report(e)
  <2>1. e.nud \in NudValid /\ e.nud # "NOARP" /\ e.dst \in Global /\ TextOf(e) = e.dst
    BY <1>1 DEF Wanted, TextOf
  <2>2. /\ Len(Line(e, e.dst)) > 5 /\ Line(e, e.dst)[1] = e.dst
        /\ Line(e, e.dst)[5] = LlAddrN2a(e.mac, IndexToType(e.ifindex))
        /\ Line(e, e.dst)[Len(Line(e, e.dst))] = e.nud
    BY <2>1, ValidLine
  <2>3. e.mac # EmptyMac /\ e.nud \notin {"FAILED", "INCOMPLETE"}
    BY <2>1 DEF Entries, NudValid
  <2>4. LlAddrN2a(e.mac, IndexToType(e.ifindex)) = e.mac
    BY <2>3 DEF LlAddrN2a, IndexToType
  <2> QED  BY <2>1, <2>2, <2>3, <2>4 DEF Accepted, LongEnough, HostOf, Report
<1>2. ASSUME Accepted(Line(e, TextOf(e)))
      PROVE  Wanted(e)
  <2>1. e.nud \in NudValid /\ TextOf(e) \in Global
    BY <1>2, AcceptedIsValid
  <2>2. UsesBuffer(e.family) /\ e.dst \in Global
    BY <2>1, LineAssumption DEF TextOf
  <2>3. e.nud # "NOARP"
    BY <2>2 DEF Printed, Filtered, FilterState, Entries, UsesBuffer
  <2> QED  BY <2>1, <2>2, <2>3 DEF Wanted
<1> QED  BY <1>1, <1>2

(* What the filter drops is not wanted. *)
LEMMA FilteredIsUnwanted ==
    ASSUME NEW e \in Entries, ~Printed(e)
    PROVE  ~Wanted(e)
  BY DEF Printed, Filtered, FilterState, Wanted, NudStates, NudValid

-----------------------------------------------------------------------------
(* The steps *)

Prints(d) == PrintUnprintable(d) \/ PrintNeigh(d)

LEMMA StepCases ==
    ASSUME [Next]_vars
    PROVE  \/ UNCHANGED vars
           \/ \E d \in Dumpers :
                 \/ Begin(d) \/ SetFilter(d) \/ Skip(d) \/ FormatHost(d) \/ Formatted(d)
                 \/ Prints(d) \/ ReadLines(d) \/ ParseLine(d) \/ ReturnHosts(d)
  BY DEF Next, DumpStep, Ended, Prints

LEMMA HeadAndTail ==
    ASSUME NEW S, NEW s \in Seq(S), s # <<>>
    PROVE  /\ Head(s) \in S /\ Head(s) = s[1] /\ Tail(s) \in Seq(S)
           /\ Len(s) \in Nat /\ Len(s) > 0 /\ Len(Tail(s)) = Len(s) - 1
           /\ \A i \in 1..(Len(s) - 1) : Tail(s)[i] = s[i + 1]
  OBVIOUS

LEMMA Appended ==
    ASSUME NEW S, NEW s \in Seq(S), NEW x \in S
    PROVE  /\ Append(s, x) \in Seq(S) /\ Len(Append(s, x)) = Len(s) + 1
           /\ Append(s, x)[Len(s) + 1] = x /\ Len(s) \in Nat
           /\ \A i \in 1..Len(s) : Append(s, x)[i] = s[i]
  OBVIOUS

(* A printed line is the next neighbour's; a dump that is alone prints the text
   of its own address. *)
LEMMA PrintEffect ==
    ASSUME TypeInv, NEW d \in Dumpers, BufferInv, LeftInv(d), Prints(d)
    PROVE  /\ pc[d] \in {"next", "print"} /\ pc' = [pc EXCEPT ![d] = "next"]
           /\ UNCHANGED <<table, hosts, buf, clash, overlapped>>
           /\ left[d] # <<>>
           /\ \E w \in Addresses \cup {Unprintable} :
                 /\ w # TextOf(Head(left[d])) => d \in overlapped
                 /\ PrintLine(d, w)
<1>1. CASE PrintUnprintable(d)
  <2>1. PrintLine(d, Unprintable) /\ TextOf(Head(left[d])) = Unprintable
        /\ left[d] # <<>>
    BY <1>1 DEF PrintUnprintable, TextOf, Passes
  <2>2. pc' = [pc EXCEPT ![d] = "next"] /\ pc[d] = "next"
        /\ UNCHANGED <<table, hosts, buf, clash, overlapped>>
    BY <1>1 DEF PrintUnprintable, TypeInv
  <2> QED  BY <2>1, <2>2
<1>2. CASE PrintNeigh(d)
  <2>1. PICK w \in Texts : PrintLine(d, w)
    BY <1>2 DEF PrintNeigh
  <2>2. /\ pc[d] = "print" /\ pc' = [pc EXCEPT ![d] = "next"] /\ left[d] # <<>>
        /\ UsesBuffer(Head(left[d]).family)
        /\ UNCHANGED <<table, hosts, buf, clash, overlapped>>
    BY <1>2 DEF PrintNeigh, Goto, LeftInv
  <2>3. Head(left[d]) \in Entries
    BY <2>2, HeadAndTail DEF TypeInv
  <2>4. Head(left[d]).dst \in Addresses /\ TextOf(Head(left[d])) = Head(left[d]).dst
    BY <2>2, <2>3 DEF Entries, TextOf
  <2>5. w \in Addresses \cup {Unprintable}
    BY <2>1 DEF Texts, TypeInv
  <2>6. d \notin overlapped => w = Head(left[d]).dst
    BY <2>1, <2>2, <2>4, LineAssumption DEF BufferInv, Texts
  <2> QED  BY <2>1, <2>2, <2>4, <2>5, <2>6
<1> QED  BY <1>1, <1>2 DEF Prints

LEMMA PrintedLine ==
    ASSUME NEW e \in Entries, NEW w \in Addresses \cup {Unprintable}
    PROVE  Line(e, w) \in PrintedLines /\ HostOf(Line(e, w)) \in Reports
<1>1. Line(e, w) \in PrintedLines
  BY DEF PrintedLines
<1> QED  BY <1>1 DEF Reports

LEMMA TypeInit == Init => TypeInv
<1> SUFFICES ASSUME Init PROVE TypeInv
  OBVIOUS
<1>1. table \in Seq(Entries)
  BY TableAssumption DEF Init
<1>2. <<>> \in Seq(Entries) /\ <<>> \in Seq(PrintedLines) /\ <<>> \in Seq(Reports)
  BY EmptySeq
<1>3. pc \in [Dumpers -> Places]
  BY DEF Init, Places
<1> QED  BY <1>1, <1>2, <1>3 DEF Init, TypeInv

LEMMA TypeStep ==
    ASSUME TypeInv, BufferInv, \A d \in Dumpers : LeftInv(d), [Next]_vars
    PROVE  TypeInv'
<1>1. CASE UNCHANGED vars
  BY <1>1 DEF vars, TypeInv
<1>2. ASSUME NEW d \in Dumpers, Begin(d)
      PROVE  TypeInv'
  BY <1>2 DEF Begin, Goto, TypeInv, Places, Inside
<1>3. ASSUME NEW d \in Dumpers, SetFilter(d)
      PROVE  TypeInv'
  BY <1>3 DEF SetFilter, Goto, TypeInv, Places
<1>4. ASSUME NEW d \in Dumpers, Skip(d)
      PROVE  TypeInv'
  <2>1. Tail(left[d]) \in Seq(Entries)
    BY <1>4, HeadAndTail DEF Skip, TypeInv
  <2> QED  BY <1>4, <2>1 DEF Skip, TypeInv
<1>5. ASSUME NEW d \in Dumpers, FormatHost(d)
      PROVE  TypeInv'
  BY <1>5 DEF FormatHost, Goto, TypeInv, Places
<1>6. ASSUME NEW d \in Dumpers, Formatted(d)
      PROVE  TypeInv'
  <2>1. pc[d] = "format" /\ pc' \in [Dumpers -> Places]
    BY <1>6 DEF Formatted, Goto, TypeInv, Places
  <2>2. Head(left[d]) \in Entries
    BY <2>1, HeadAndTail DEF TypeInv, LeftInv
  <2>3. buf' \in Addresses \cup {Torn}
    BY <1>6, <2>2 DEF Formatted, Entries
  <2> QED  BY <1>6, <2>1, <2>3 DEF Formatted, TypeInv
<1>7. ASSUME NEW d \in Dumpers, Prints(d)
      PROVE  TypeInv'
  <2>1. /\ pc' = [pc EXCEPT ![d] = "next"] /\ left[d] # <<>>
        /\ UNCHANGED <<table, hosts, buf, clash, overlapped>>
    BY <1>7, PrintEffect
  <2>2. PICK w \in Addresses \cup {Unprintable} : PrintLine(d, w)
    BY <1>7, PrintEffect
  <2>3. Head(left[d]) \in Entries /\ Tail(left[d]) \in Seq(Entries)
    BY <2>1, HeadAndTail DEF TypeInv
  <2> DEFINE l == Line(Head(left[d]), w)
  <2>4. l \in PrintedLines
    BY <2>3, PrintedLine
  <2> HIDE DEF l
  <2>5. Append(lines[d], l) \in Seq(PrintedLines)
    BY <2>4, Appended DEF TypeInv
  <2>6. /\ lines' = [lines EXCEPT ![d] = Append(lines[d], l)]
        /\ left' = [left EXCEPT ![d] = Tail(left[d])]
    BY <2>2 DEF PrintLine, l
  <2> QED  BY <2>1, <2>3, <2>5, <2>6 DEF TypeInv, Places
<1>8. ASSUME NEW d \in Dumpers, ReadLines(d)
      PROVE  TypeInv'
  BY <1>8 DEF ReadLines, Goto, TypeInv, Places
<1>9. ASSUME NEW d \in Dumpers, ParseLine(d)
      PROVE  TypeInv'
  <2> DEFINE l == Head(lines[d])
  <2>1. l \in PrintedLines /\ Tail(lines[d]) \in Seq(PrintedLines)
    BY <1>9, HeadAndTail DEF ParseLine, TypeInv
  <2>2. HostOf(l) \in Reports
    BY <2>1 DEF Reports
  <2> HIDE DEF l
  <2>3. Append(hosts[d], HostOf(l)) \in Seq(Reports)
    BY <2>2, Appended DEF TypeInv
  <2>4. hosts' = hosts \/ hosts' = [hosts EXCEPT ![d] = Append(hosts[d], HostOf(l))]
    BY <1>9 DEF ParseLine, l
  <2> QED  BY <1>9, <2>1, <2>3, <2>4 DEF ParseLine, TypeInv
<1>10. ASSUME NEW d \in Dumpers, ReturnHosts(d)
       PROVE  TypeInv'
  BY <1>10 DEF ReturnHosts, Goto, TypeInv, Places
<1> QED  BY <1>1, <1>2, <1>3, <1>4, <1>5, <1>6, <1>7, <1>8, <1>9, <1>10, StepCases

-----------------------------------------------------------------------------
(* Who moves, and who is alone *)

Runs(d) ==
    \/ Begin(d) \/ SetFilter(d) \/ Skip(d) \/ FormatHost(d) \/ Formatted(d)
    \/ Prints(d) \/ ReadLines(d) \/ ParseLine(d) \/ ReturnHosts(d)

LEMMA OthersKeep ==
    ASSUME TypeInv, NEW d \in Dumpers, Runs(d), NEW e \in Dumpers, e # d
    PROVE  pc'[e] = pc[e] /\ left'[e] = left[e] /\ lines'[e] = lines[e] /\ hosts'[e] = hosts[e]
  BY DEF TypeInv, Runs, Begin, SetFilter, Skip, FormatHost, Formatted, Prints,
         PrintUnprintable, PrintNeigh, PrintLine, ReadLines, ParseLine, ReturnHosts, Goto

LEMMA TableKept ==
    ASSUME NEW d \in Dumpers, Runs(d)
    PROVE  table' = table /\ overlapped \subseteq overlapped'
  BY DEF Runs, Begin, SetFilter, Skip, FormatHost, Formatted, Prints,
         PrintUnprintable, PrintNeigh, PrintLine, ReadLines, ParseLine, ReturnHosts

LEMMA BeginsOutside ==
    ASSUME TypeInv, NEW d \in Dumpers, Begin(d)
    PROVE  /\ pc[d] = "idle" /\ pc'[d] = "filter"
           /\ Inside' = Inside \cup {d} /\ d \notin Inside
<1>1. pc[d] = "idle" /\ pc'[d] = "filter"
  BY DEF Begin, Goto, TypeInv
<1>2. \A e \in Dumpers \ {d} : pc'[e] = pc[e]
  BY OthersKeep DEF Runs
<1> QED  BY <1>1, <1>2 DEF Inside

(* The steps within the native code *)
LEMMA StepsInside ==
    ASSUME TypeInv, NEW d \in Dumpers, Runs(d), ~Begin(d)
    PROVE  /\ overlapped' = overlapped
           /\ Inside' \subseteq Inside
           /\ ~ParseLine(d) /\ ~ReturnHosts(d) => d \in Inside
<1>1. /\ pc[d] \in {"idle", "parse", "returned"} => pc'[d] \in {"idle", "parse", "returned"}
      /\ ~ParseLine(d) /\ ~ReturnHosts(d) => pc[d] \notin {"idle", "parse", "returned"}
      /\ overlapped' = overlapped
  BY DEF TypeInv, Runs, SetFilter, Skip, FormatHost, Formatted, Prints,
         PrintUnprintable, PrintNeigh, ReadLines, ParseLine, ReturnHosts, Goto
<1>2. \A e \in Dumpers \ {d} : pc'[e] = pc[e]
  BY OthersKeep
<1> QED  BY <1>1, <1>2 DEF Inside

LEMMA AloneStep ==
    ASSUME TypeInv, Alone, [Next]_vars
    PROVE  Alone'
<1>1. CASE UNCHANGED vars
  BY <1>1 DEF vars, Alone, Inside
<1>2. ASSUME NEW d \in Dumpers, Begin(d)
      PROVE  Alone'
  <2>1. Inside' = Inside \cup {d} /\ d \notin Inside
    BY <1>2, BeginsOutside
  <2>2. overlapped' = IF Inside = {} THEN overlapped ELSE overlapped \cup Inside \cup {d}
    BY <1>2 DEF Begin
  <2> QED  BY <2>1, <2>2 DEF Alone
<1>3. ASSUME NEW d \in Dumpers, Runs(d), ~Begin(d)
      PROVE  Alone'
  BY <1>3, StepsInside DEF Alone
<1> QED  BY <1>1, <1>2, <1>3, StepCases DEF Runs

(* A dump that is still alone after another one's step in the native code is
   not in there. *)
LEMMA OthersAreOut ==
    ASSUME TypeInv, Alone, NEW d \in Dumpers, Runs(d), ~ParseLine(d), ~ReturnHosts(d),
           NEW e \in Dumpers, e # d, e \notin overlapped'
    PROVE  e \notin Inside
<1>1. CASE Begin(d)
  <2>1. overlapped' = IF Inside = {} THEN overlapped ELSE overlapped \cup Inside \cup {d}
    BY <1>1 DEF Begin
  <2> QED  BY <2>1
<1>2. CASE ~Begin(d)
  <2>1. d \in Inside /\ overlapped' = overlapped
    BY <1>2, StepsInside
  <2> QED  BY <2>1 DEF Alone
<1> QED  BY <1>1, <1>2

(* The filter of a dump that is alone is its own. *)
LEMMA OwnFilter ==
    ASSUME Alone, NEW d \in Dumpers \ overlapped, pc[d] \in {"next", "format", "print"}
    PROVE  FilterStates = {FilterState} /\ In("format") \subseteq {d}
<1>1. \A e \in Dumpers \ {d} : e \notin Inside
  BY DEF Alone, Inside
<1> QED  BY <1>1 DEF FilterStates, In, Inside

-----------------------------------------------------------------------------
(* The shared buffer *)

LEMMA BufferStep ==
    ASSUME TypeInv, Alone, BufferInv, \A d \in Dumpers : LeftInv(d), [Next]_vars
    PROVE  BufferInv'
<1>1. CASE UNCHANGED vars
  BY <1>1 DEF vars, BufferInv, In
<1>2. ASSUME NEW d \in Dumpers, Runs(d), (clash => In("format") # {})',
             d \notin overlapped' =>
                 /\ pc'[d] = "format" => ~clash'
                 /\ pc'[d] = "print" => buf' = Head(left'[d]).dst
                 /\ pc'[d] \in {"format", "print"} => Printed(Head(left'[d]))
      PROVE  BufferInv'
  <2>1. ASSUME NEW e \in Dumpers, e # d, e \notin overlapped'
        PROVE  /\ pc'[e] = "format" => ~clash'
               /\ pc'[e] = "print" => buf' = Head(left'[e]).dst
               /\ pc'[e] \in {"format", "print"} => Printed(Head(left'[e]))
    <3>1. CASE ParseLine(d) \/ ReturnHosts(d)
      <4>1. UNCHANGED <<clash, buf, overlapped>>
        BY <3>1 DEF ParseLine, ReturnHosts
      <4> QED  BY <1>2, <2>1, <4>1, OthersKeep DEF BufferInv
    <3>2. CASE ~(ParseLine(d) \/ ReturnHosts(d))
      <4>1. e \notin Inside /\ pc'[e] = pc[e]
        BY <1>2, <2>1, <3>2, OthersAreOut, OthersKeep
      <4> QED  BY <4>1 DEF Inside
    <3> QED  BY <3>1, <3>2
  <2> QED  BY <1>2, <2>1 DEF BufferInv, Printed
<1>3. ASSUME NEW d \in Dumpers, FormatHost(d)
      PROVE  BufferInv'
  <2>1. /\ pc[d] = "next" /\ pc'[d] = "format" /\ clash' = (In("format") # {} \/ clash)
        /\ left' = left /\ overlapped' = overlapped
        /\ \E s \in FilterStates : ~Filtered(Head(left[d]), s)
    BY <1>3 DEF FormatHost, Goto, TypeInv, Passes
  <2>2. (clash => In("format") # {})'
    BY <2>1 DEF In
  <2>3. ASSUME d \notin overlapped
        PROVE  ~clash' /\ Printed(Head(left'[d]))
    <3>1. FilterStates = {FilterState} /\ In("format") = {}
      BY <2>1, <2>3, OwnFilter DEF In
    <3> QED  BY <2>1, <3>1 DEF BufferInv, Printed
  <2> QED  BY <1>2, <1>3, <2>1, <2>2, <2>3 DEF Runs
<1>4. ASSUME NEW d \in Dumpers, Formatted(d)
      PROVE  BufferInv'
  <2>1. /\ pc[d] = "format" /\ pc'[d] = "print" /\ clash' = (clash /\ In("format") # {d})
        /\ left' = left /\ overlapped' = overlapped
        /\ buf' = IF clash THEN Torn ELSE Head(left[d]).dst
        /\ \A e \in Dumpers \ {d} : pc'[e] = pc[e]
    BY <1>4 DEF Formatted, Goto, TypeInv
  <2>2. (clash => In("format") # {})'
    <3>1. ASSUME clash'
          PROVE  In("format")' # {}
      <4>1. PICK e \in In("format") : e # d
        BY <2>1, <3>1 DEF In
      <4> QED  BY <2>1, <4>1 DEF In
    <3> QED  BY <3>1
  <2>3. ASSUME d \notin overlapped
        PROVE  ~clash' /\ buf' = Head(left'[d]).dst /\ Printed(Head(left'[d]))
    BY <2>1, <2>3 DEF BufferInv
  <2> QED  BY <1>2, <1>4, <2>1, <2>2, <2>3 DEF Runs
<1>5. ASSUME NEW d \in Dumpers,
             \/ Begin(d) \/ SetFilter(d) \/ Skip(d) \/ Prints(d) \/ ReadLines(d)
             \/ ParseLine(d) \/ ReturnHosts(d)
      PROVE  BufferInv'
  <2>1. /\ pc[d] # "format" /\ pc'[d] \notin {"format", "print"} /\ clash' = clash
    BY <1>5 DEF Begin, SetFilter, Skip, Prints, PrintUnprintable, PrintNeigh, ReadLines,
                ParseLine, ReturnHosts, Goto, TypeInv
  <2>2. Runs(d) /\ \A e \in Dumpers \ {d} : pc'[e] = pc[e]
    BY <1>5, OthersKeep DEF Runs
  <2>3. In("format")' = In("format")
    BY <2>1, <2>2 DEF In
  <2>4. (clash => In("format") # {})'
    BY <2>1, <2>3 DEF BufferInv
  <2> QED  BY <1>2, <2>1, <2>2, <2>4
<1> QED  BY <1>1, <1>3, <1>4, <1>5, StepCases

-----------------------------------------------------------------------------
(* What is left of the table *)

LEMMA LeftOfOthers ==
    ASSUME TypeInv, NEW d \in Dumpers, Runs(d), NEW e \in Dumpers, e # d, LeftInv(e)
    PROVE  LeftInv(e)'
<1>1. /\ pc'[e] = pc[e] /\ left'[e] = left[e] /\ lines'[e] = lines[e]
      /\ hosts'[e] = hosts[e] /\ table' = table
  BY OthersKeep, TableKept
<1> QED  BY <1>1 DEF LeftInv, Seen

LEMMA NextIsOfTable ==
    ASSUME TypeInv, NEW d \in Dumpers, LeftInv(d), left[d] # <<>>
    PROVE  /\ Seen(d) \in Nat /\ Seen(d) + 1 \in 1..Len(table)
           /\ Head(left[d]) = table[Seen(d) + 1] /\ Head(left[d]) \in Entries
<1>1. /\ Len(table) \in Nat /\ Len(left[d]) \in Nat /\ Len(left[d]) > 0
      /\ Head(left[d]) = left[d][1] /\ Head(left[d]) \in Entries
  BY HeadAndTail DEF TypeInv
<1>2. Len(left[d]) <= Len(table) /\ left[d][1] = table[Seen(d) + 1]
  BY <1>1 DEF LeftInv
<1> DEFINE n == Len(table)
           m == Len(left[d])
<1>3. Seen(d) = n - m /\ n \in Nat /\ m \in Nat /\ m > 0 /\ m <= n
  BY <1>1, <1>2 DEF Seen
<1> HIDE DEF n, m
<1>4. Seen(d) \in Nat /\ Seen(d) + 1 \in 1..n
  BY <1>3
<1> QED  BY <1>1, <1>2, <1>4 DEF n

(* The next entry is skipped or printed. *)
LEMMA LeftAdvances ==
    ASSUME TypeInv, NEW d \in Dumpers, LeftInv(d), left[d] # <<>>, table' = table,
           left'[d] = Tail(left[d])
    PROVE  /\ Seen(d)' = Seen(d) + 1
           /\ Len(left'[d]) <= Len(table')
           /\ \A i \in 1..Len(left'[d]) : left'[d][i] = table'[Seen(d)' + i]
<1> DEFINE l == left[d]
           t == Tail(l)
<1>1. /\ Len(table) \in Nat /\ Len(l) \in Nat /\ Len(l) > 0 /\ Len(t) = Len(l) - 1
      /\ \A i \in 1..(Len(l) - 1) : t[i] = l[i + 1]
  BY HeadAndTail DEF TypeInv
<1>2. Len(l) <= Len(table) /\ \A i \in 1..Len(l) : l[i] = table[(Len(table) - Len(l)) + i]
  BY DEF LeftInv, Seen
<1>3. left'[d] = t
  OBVIOUS
<1> HIDE DEF l, t
<1>4. Seen(d)' = Seen(d) + 1
  <2> DEFINE n == Len(table)
             m == Len(l)
  <2>1. Seen(d) = n - m /\ n \in Nat /\ m \in Nat
    BY <1>1 DEF Seen, l
  <2>2. Seen(d)' = n - Len(t) /\ Len(t) = m - 1
    BY <1>1, <1>3 DEF Seen
  <2> HIDE DEF n, m
  <2>3. Seen(d)' = n - (m - 1)
    BY <2>2
  <2> QED  BY <2>1, <2>3
<1>5. Len(t) <= Len(table)
  BY <1>1, <1>2
<1>6. ASSUME NEW i \in 1..Len(t)
      PROVE  t[i] = table[(Len(table) - Len(t)) + i]
  <2>1. i \in 1..(Len(l) - 1) /\ (i + 1) \in 1..Len(l)
    BY <1>1
  <2>2. t[i] = l[i + 1] /\ l[i + 1] = table[(Len(table) - Len(l)) + (i + 1)]
    BY <1>1, <1>2, <2>1
  <2>3. (Len(table) - Len(l)) + (i + 1) = (Len(table) - Len(t)) + i
    BY <1>1, <2>1
  <2> QED  BY <2>2, <2>3
<1>7. Seen(d)' = Len(table) - Len(t)
  BY <1>3 DEF Seen
<1> QED  BY <1>3, <1>4, <1>5, <1>6, <1>7

LEMMA LeftStep ==
    ASSUME TypeInv, BufferInv, NEW d \in Dumpers, LeftInv(d), Runs(d)
    PROVE  LeftInv(d)'
<1>1. table' = table /\ d \in Dumpers
  BY TableKept
<1>2. CASE Begin(d)
  BY <1>1, <1>2 DEF Begin, Goto, TypeInv, LeftInv, Seen
<1>3. CASE SetFilter(d)
  <2>1. /\ pc[d] = "filter" /\ pc'[d] = "next" /\ left'[d] = table
        /\ lines' = lines /\ hosts' = hosts
    BY <1>3 DEF SetFilter, Goto, TypeInv
  <2>2. Len(table) \in Nat
    BY DEF TypeInv
  <2>3. Seen(d)' = 0
    BY <1>1, <2>1, <2>2 DEF Seen
  <2>4. \A i \in 1..Len(table) : 0 + i = i
    BY <2>2
  <2>5. Len(left'[d]) <= Len(table') /\ \A i \in 1..Len(left'[d]) : left'[d][i] = table'[Seen(d)' + i]
    BY <1>1, <2>1, <2>2, <2>3, <2>4
  <2> QED  BY <1>1, <2>1, <2>5 DEF LeftInv
<1>4. CASE Skip(d)
  <2>1. /\ pc[d] = "next" /\ pc' = pc /\ left[d] # <<>> /\ left'[d] = Tail(left[d])
        /\ lines' = lines /\ hosts' = hosts
    BY <1>4 DEF Skip, TypeInv
  <2>2. Len(left'[d]) <= Len(table') /\ \A i \in 1..Len(left'[d]) : left'[d][i] = table'[Seen(d)' + i]
    BY <1>1, <2>1, LeftAdvances
  <2> QED  BY <2>1, <2>2 DEF LeftInv
<1>5. CASE FormatHost(d)
  BY <1>1, <1>5 DEF FormatHost, Passes, Goto, TypeInv, LeftInv, Seen
<1>6. CASE Formatted(d)
  BY <1>1, <1>6 DEF Formatted, Goto, TypeInv, LeftInv, Seen
<1>7. CASE Prints(d)
  <2>1. /\ pc[d] \in {"next", "print"} /\ pc'[d] = "next" /\ left[d] # <<>> /\ hosts' = hosts
        /\ \E w : PrintLine(d, w)
    BY <1>7, PrintEffect DEF TypeInv
  <2>2. left'[d] = Tail(left[d])
    BY <2>1 DEF PrintLine, TypeInv
  <2>3. Len(left'[d]) <= Len(table') /\ \A i \in 1..Len(left'[d]) : left'[d][i] = table'[Seen(d)' + i]
    BY <1>1, <2>1, <2>2, LeftAdvances
  <2> QED  BY <2>1, <2>3 DEF LeftInv
<1>8. CASE ReadLines(d)
  BY <1>1, <1>8 DEF ReadLines, Goto, TypeInv, LeftInv, Seen
<1>9. CASE ParseLine(d)
  BY <1>1, <1>9 DEF ParseLine, TypeInv, LeftInv, Seen
<1>10. CASE ReturnHosts(d)
  BY <1>1, <1>10 DEF ReturnHosts, Goto, TypeInv, LeftInv, Seen
<1> QED  BY <1>2, <1>3, <1>4, <1>5, <1>6, <1>7, <1>8, <1>9, <1>10 DEF Runs

-----------------------------------------------------------------------------
(* Every host is explained *)

LEMMA ExplainedOfOthers ==
    ASSUME NEW d \in Dumpers, Explained(d), table' = table, overlapped \subseteq overlapped',
           lines'[d] = lines[d], hosts'[d] = hosts[d]
    PROVE  Explained(d)'
<1>1. \A l : LineOf(d, l) => LineOf(d, l)'
  BY DEF LineOf
<1>2. \A h : HostExplained(d, h) => HostExplained(d, h)'
  BY DEF HostExplained
<1> QED  BY <1>1, <1>2 DEF Explained

LEMMA HostOfLine ==
    ASSUME TypeInv, NEW d \in Dumpers, NEW l, LineOf(d, l), Accepted(l)
    PROVE  HostExplained(d, HostOf(l))
<1>1. PICK j \in DOMAIN table, w \in Addresses \cup {Unprintable} :
          l = Line(table[j], w) /\ (w # TextOf(table[j]) => d \in overlapped)
  BY DEF LineOf
<1>2. table[j] \in Entries
  BY DEF TypeInv
<1>3. /\ table[j].nud \in NudValid /\ w \in Global
      /\ HostOf(l) = [ip |-> w, mac |-> LlAddrN2a(table[j].mac, IndexToType(table[j].ifindex))]
  BY <1>1, <1>2, AcceptedIsValid
<1>4. w # table[j].dst => d \in overlapped
  BY <1>1, <1>3, LineAssumption DEF TextOf
<1>5. /\ HostOf(l).ip = w
      /\ HostOf(l).mac = LlAddrN2a(table[j].mac, IndexToType(table[j].ifindex))
  BY <1>3
<1> QED  BY <1>3, <1>4, <1>5 DEF HostExplained

LEMMA ExplainedStep ==
    ASSUME TypeInv, BufferInv, NEW d \in Dumpers, LeftInv(d), Explained(d), Runs(d)
    PROVE  Explained(d)'
<1>1. table' = table /\ overlapped \subseteq overlapped'
  BY TableKept
<1>2. (\A l : LineOf(d, l) => LineOf(d, l)') /\ (\A h : HostExplained(d, h) => HostExplained(d, h)')
  BY <1>1 DEF LineOf, HostExplained
<1>3. lines[d] \in Seq(PrintedLines) /\ hosts[d] \in Seq(Reports)
  BY DEF TypeInv
<1>4. CASE Prints(d)
  <2>1. PICK w \in Addresses \cup {Unprintable} :
            (w # TextOf(Head(left[d])) => d \in overlapped) /\ PrintLine(d, w)
    BY <1>4, PrintEffect
  <2>2. hosts' = hosts /\ left[d] # <<>>
    BY <1>4, PrintEffect
  <2>3. Head(left[d]) = table[Seen(d) + 1] /\ Seen(d) + 1 \in DOMAIN table
        /\ Head(left[d]) \in Entries
    BY <2>2, NextIsOfTable DEF TypeInv
  <2> DEFINE l == Line(Head(left[d]), w)
  <2>4. LineOf(d, l)
    BY <2>1, <2>3 DEF LineOf
  <2>5. l \in PrintedLines /\ lines'[d] = Append(lines[d], l)
    BY <2>1, <2>3, PrintedLine DEF PrintLine, TypeInv
  <2> HIDE DEF l
  <2> DEFINE n == Len(lines[d])
  <2>6. /\ n \in Nat /\ DOMAIN lines[d] = 1..n /\ DOMAIN lines'[d] = 1..(n + 1)
        /\ lines'[d][n + 1] = l /\ \A i \in 1..n : lines'[d][i] = lines[d][i]
    BY <1>3, <2>5, Appended
  <2> HIDE DEF n
  <2>7. ASSUME NEW i \in 1..(n + 1)
        PROVE  LineOf(d, lines'[d][i])
    <3>1. CASE i = n + 1
      BY <2>4, <2>6, <3>1
    <3>2. CASE i # n + 1
      <4>1. i \in 1..n
        BY <2>6, <3>2
      <4> QED  BY <2>6, <4>1 DEF Explained
    <3> QED  BY <3>1, <3>2
  <2> QED  BY <1>2, <2>2, <2>6, <2>7 DEF Explained
<1>5. CASE ParseLine(d)
  <2> DEFINE l == Head(lines[d])
  <2>1. /\ lines[d] # <<>> /\ lines'[d] = Tail(lines[d])
        /\ hosts' = IF Accepted(l) THEN [hosts EXCEPT ![d] = Append(hosts[d], HostOf(l))]
                    ELSE hosts
    BY <1>5 DEF ParseLine, TypeInv
  <2> DEFINE n == Len(lines[d])
  <2>2. /\ n \in Nat /\ n > 0 /\ DOMAIN lines[d] = 1..n /\ DOMAIN lines'[d] = 1..(n - 1)
        /\ l = lines[d][1] /\ \A i \in 1..(n - 1) : lines'[d][i] = lines[d][i + 1]
    BY <1>3, <2>1, HeadAndTail
  <2>3. l \in PrintedLines
    BY <1>3, <2>1, HeadAndTail
  <2> HIDE DEF n, l
  <2>4. \A i \in 1..(n - 1) : (i + 1) \in 1..n
    BY <2>2
  <2>5. \A i \in DOMAIN lines'[d] : LineOf(d, lines'[d][i])
    BY <2>2, <2>4 DEF Explained
  <2>6. CASE ~Accepted(l)
    <3>1. hosts' = hosts
      BY <2>1, <2>6
    <3> QED  BY <1>2, <2>5, <3>1 DEF Explained
  <2>7. CASE Accepted(l)
    <3>1. LineOf(d, l)
      BY <2>2 DEF Explained
    <3>2. HostExplained(d, HostOf(l)) /\ HostOf(l) \in Reports
      BY <2>3, <2>7, <3>1, HostOfLine DEF Reports
    <3>3. hosts'[d] = Append(hosts[d], HostOf(l))
      BY <2>1, <2>7 DEF TypeInv
    <3> DEFINE k == Len(hosts[d])
    <3>4. /\ k \in Nat /\ DOMAIN hosts[d] = 1..k /\ DOMAIN hosts'[d] = 1..(k + 1)
          /\ hosts'[d][k + 1] = HostOf(l) /\ \A i \in 1..k : hosts'[d][i] = hosts[d][i]
      BY <1>3, <3>2, <3>3, Appended
    <3> HIDE DEF k
    <3>5. ASSUME NEW i \in 1..(k + 1)
          PROVE  HostExplained(d, hosts'[d][i])
      <4>1. CASE i = k + 1
        BY <3>2, <3>4, <4>1
      <4>2. CASE i # k + 1
        <5>1. i \in 1..k
          BY <3>4, <4>2
        <5> QED  BY <3>4, <5>1 DEF Explained
      <4> QED  BY <4>1, <4>2
    <3> QED  BY <1>2, <2>5, <3>4, <3>5 DEF Explained
  <2> QED  BY <2>6, <2>7
<1>6. CASE ~Prints(d) /\ ~ParseLine(d)
  <2>1. lines' = lines /\ hosts' = hosts
    BY <1>6 DEF Runs, Begin, SetFilter, Skip, FormatHost, Formatted, ReadLines, ReturnHosts
  <2> QED  BY <1>1, <2>1, ExplainedOfOthers
<1> QED  BY <1>4, <1>5, <1>6

-----------------------------------------------------------------------------
(* The hosts of a dump that is alone *)

LEMMA TraceKept ==
    ASSUME NEW d \in Dumpers, NEW bt, NEW at, Trace(d, bt, at), table' = table,
           left'[d] = left[d], lines'[d] = lines[d], hosts'[d] = hosts[d]
    PROVE  Trace(d, bt, at)'
  BY DEF Trace, Seen, Increasing

LEMMA TraceSkips ==
    ASSUME TypeInv, NEW d \in Dumpers, LeftInv(d), NEW bt, NEW at, Trace(d, bt, at),
           left[d] # <<>>, ~Printed(Head(left[d])), table' = table,
           left'[d] = Tail(left[d]), lines'[d] = lines[d], hosts'[d] = hosts[d]
    PROVE  Trace(d, bt, at)'
<1>1. /\ Seen(d) \in Nat /\ Head(left[d]) = table[Seen(d) + 1] /\ Head(left[d]) \in Entries
      /\ Seen(d)' = Seen(d) + 1
  BY NextIsOfTable, LeftAdvances
<1>2. ~Wanted(table[Seen(d) + 1])
  BY <1>1, FilteredIsUnwanted
<1> DEFINE s == Seen(d)
<1>3. /\ s \in Nat /\ Seen(d)' = s + 1 /\ ~Wanted(table[s + 1])
      /\ \A i \in DOMAIN at : at[i] <= s /\ at[i] \in Int
      /\ \A k \in 1..s : Wanted(table[k]) =>
            (\E i \in DOMAIN bt : bt[i] = k) \/ (\E i \in DOMAIN at : at[i] = k)
  BY <1>1, <1>2 DEF Trace, TypeInv
<1> HIDE DEF s
<1>4. \A i \in DOMAIN at : at[i] <= s + 1
  BY <1>3
<1>5. ASSUME NEW k \in 1..(s + 1), Wanted(table[k])
      PROVE  (\E i \in DOMAIN bt : bt[i] = k) \/ (\E i \in DOMAIN at : at[i] = k)
  <2>1. k # s + 1
    BY <1>3, <1>5
  <2>2. k \in 1..s
    BY <1>3, <2>1
  <2> QED  BY <1>3, <1>5, <2>2
<1> QED  BY <1>3, <1>4, <1>5 DEF Trace, Increasing

LEMMA TracePrints ==
    ASSUME TypeInv, NEW d \in Dumpers, LeftInv(d), NEW bt, NEW at, Trace(d, bt, at),
           left[d] # <<>>, Printed(Head(left[d])), PrintLine(d, TextOf(Head(left[d]))),
           hosts[d] = <<>>, UNCHANGED <<table, hosts>>
    PROVE  \E c : Trace(d, bt, c)'
<1> DEFINE s == Seen(d)
           e == Head(left[d])
           l == Line(e, TextOf(e))
           n == Len(lines[d])
           c == [i \in 1..(n + 1) |-> IF i <= n THEN at[i] ELSE s + 1]
<1>1. /\ s \in Nat /\ s + 1 \in DOMAIN table /\ e = table[s + 1] /\ e \in Entries
  BY NextIsOfTable DEF TypeInv
<1>2. left'[d] = Tail(left[d]) /\ lines'[d] = Append(lines[d], l)
  BY DEF PrintLine, TypeInv
<1>3. Seen(d)' = s + 1
  BY <1>2, LeftAdvances
<1>4. lines[d] \in Seq(PrintedLines)
  BY DEF TypeInv
<1>5. l \in PrintedLines
  <2>1. e.dst \in Addresses
    BY <1>1 DEF Entries
  <2> QED  BY <1>1, <2>1, PrintedLine DEF TextOf
<1> HIDE DEF l
<1>6. /\ n \in Nat /\ DOMAIN lines[d] = 1..n /\ DOMAIN lines'[d] = 1..(n + 1)
      /\ lines'[d][n + 1] = l /\ \A i \in 1..n : lines'[d][i] = lines[d][i]
  BY <1>2, <1>4, <1>5, Appended
<1>7. bt = [i \in {} |-> 0] /\ DOMAIN bt = {} /\ DOMAIN hosts'[d] = {}
  BY DEF Trace
<1>8. /\ at \in [1..n -> DOMAIN table] /\ DOMAIN table \subseteq Nat
      /\ \A i, j \in 1..n : i < j => at[i] < at[j]
      /\ \A i \in 1..n : /\ Printed(table[at[i]]) /\ at[i] <= s
                         /\ lines[d][i] = Line(table[at[i]], TextOf(table[at[i]]))
      /\ \A k \in 1..s : Wanted(table[k]) => \E i \in 1..n : at[i] = k
  <2>1. at \in [1..n -> DOMAIN table] /\ DOMAIN at = 1..n
    BY <1>6 DEF Trace
  <2>2. DOMAIN table \subseteq Nat
    BY DEF TypeInv
  <2>3. \A i, j \in 1..n : i < j => at[i] < at[j]
    BY <2>1 DEF Trace, Increasing
  <2>4. \A i \in 1..n : /\ Printed(table[at[i]]) /\ at[i] <= s
                        /\ lines[d][i] = Line(table[at[i]], TextOf(table[at[i]]))
    BY <2>1 DEF Trace
  <2>5. \A k \in 1..s : Wanted(table[k]) => \E i \in 1..n : at[i] = k
    BY <1>7, <2>1 DEF Trace
  <2> QED  BY <2>1, <2>2, <2>3, <2>4, <2>5
<1>9. Printed(table[s + 1]) /\ l = Line(table[s + 1], TextOf(table[s + 1]))
  BY <1>1 DEF l
<1> HIDE DEF s, e, n
<1>10. /\ DOMAIN c = 1..(n + 1) /\ c[n + 1] = s + 1 /\ \A i \in 1..n : c[i] = at[i]
  BY <1>6
<1>11. \A i \in 1..(n + 1) : i = n + 1 \/ i \in 1..n
  BY <1>6
<1>12. c \in [1..(n + 1) -> DOMAIN table]
  BY <1>1, <1>8, <1>10, <1>11
<1> HIDE DEF c
<1>13. ASSUME NEW i \in 1..(n + 1), NEW j \in 1..(n + 1), i < j
       PROVE  c[i] < c[j]
  <2>1. i \in 1..n
    BY <1>6, <1>13
  <2>2. CASE j \in 1..n
    BY <1>8, <1>10, <1>13, <2>1, <2>2
  <2>3. CASE j = n + 1
    <3>1. at[i] <= s /\ at[i] \in Nat
      BY <1>8, <2>1
    <3> QED  BY <1>1, <1>10, <2>1, <2>3, <3>1
  <2> QED  BY <1>11, <2>2, <2>3
<1>14. ASSUME NEW i \in 1..(n + 1)
       PROVE  /\ Printed(table[c[i]]) /\ c[i] <= s + 1
              /\ lines'[d][i] = Line(table[c[i]], TextOf(table[c[i]]))
  <2>1. CASE i = n + 1
    BY <1>1, <1>6, <1>9, <1>10, <2>1
  <2>2. CASE i \in 1..n
    <3>1. at[i] <= s /\ at[i] \in Nat
      BY <1>8, <2>2
    <3>2. c[i] <= s + 1
      BY <1>1, <1>10, <2>2, <3>1
    <3> QED  BY <1>6, <1>8, <1>10, <2>2, <3>2
  <2> QED  BY <1>11, <2>1, <2>2
<1>15. ASSUME NEW k \in 1..(s + 1), Wanted(table[k])
       PROVE  \E i \in 1..(n + 1) : c[i] = k
  <2>1. CASE k = s + 1
    <3>1. n + 1 \in 1..(n + 1)
      BY <1>6
    <3> QED  BY <1>10, <2>1, <3>1
  <2>2. CASE k # s + 1
    <3>1. k \in 1..s
      BY <1>1, <2>2
    <3>2. PICK i \in 1..n : at[i] = k
      BY <1>8, <1>15, <3>1
    <3>3. i \in 1..(n + 1)
      BY <1>6
    <3> QED  BY <1>10, <3>2, <3>3
  <2> QED  BY <2>1, <2>2
<1>16. bt \in [DOMAIN hosts'[d] -> DOMAIN table']
  BY <1>7
<1> QED  BY <1>3, <1>6, <1>7, <1>10, <1>12, <1>13, <1>14, <1>15, <1>16 DEF Trace, Increasing

(* c numbers the entries of the n - 1 lines that follow the first one. *)
Rest(d, bt, at, c, n) ==
    /\ n > 0 /\ DOMAIN at = 1..n /\ DOMAIN Tail(lines[d]) = 1..(n - 1)
    /\ at[1] \in DOMAIN table /\ table[at[1]] \in Entries /\ Printed(table[at[1]])
    /\ Head(lines[d]) = Line(table[at[1]], TextOf(table[at[1]]))
    /\ c \in [1..(n - 1) -> DOMAIN table] /\ Increasing(c)
    /\ \A i \in 1..(n - 1) :
          /\ at[1] < c[i] /\ Printed(table[c[i]]) /\ c[i] <= Seen(d)
          /\ Tail(lines[d])[i] = Line(table[c[i]], TextOf(table[c[i]]))
    /\ \A j \in DOMAIN bt : bt[j] < at[1] /\ \A i \in 1..(n - 1) : bt[j] < c[i]
    /\ \A i \in 1..n : at[i] = at[1] \/ \E j \in 1..(n - 1) : c[j] = at[i]

LEMMA TraceRest ==
    ASSUME TypeInv, NEW d \in Dumpers, NEW bt, NEW at, Trace(d, bt, at), lines[d] # <<>>
    PROVE  \E c : Rest(d, bt, at, c, Len(lines[d]))
<1>a. PICK n \in Nat : n = Len(lines[d])
  <2>1. Len(lines[d]) \in Nat
    BY DEF TypeInv
  <2> QED  BY <2>1
<1>b. PICK c : c = [i \in 1..(n - 1) |-> at[i + 1]]
  OBVIOUS
<1>0. n = Len(lines[d]) /\ n \in Nat /\ c = [i \in 1..(n - 1) |-> at[i + 1]]
  BY <1>a, <1>b
<1>1. /\ n > 0 /\ DOMAIN lines[d] = 1..n /\ DOMAIN Tail(lines[d]) = 1..(n - 1)
      /\ Head(lines[d]) = lines[d][1]
      /\ \A i \in 1..(n - 1) : Tail(lines[d])[i] = lines[d][i + 1]
  BY <1>0, HeadAndTail DEF TypeInv
<1>2. at \in [1..n -> DOMAIN table] /\ DOMAIN at = 1..n
  BY <1>1 DEF Trace
<1>3. 1 \in 1..n /\ \A i \in 1..(n - 1) : (i + 1) \in 1..n /\ 1 < i + 1
  BY <1>0, <1>1
<1>4. \A i \in 1..n : /\ Printed(table[at[i]]) /\ at[i] <= Seen(d)
                      /\ lines[d][i] = Line(table[at[i]], TextOf(table[at[i]]))
  BY <1>2 DEF Trace
<1>5. \A i, j \in 1..n : i < j => at[i] < at[j]
  BY <1>2 DEF Trace, Increasing
<1>6. \A i \in 1..(n - 1) : c[i] = at[i + 1]
  BY <1>0
<1>7. c \in [1..(n - 1) -> DOMAIN table] /\ DOMAIN c = 1..(n - 1)
  BY <1>0, <1>2, <1>3
<1>8. Increasing(c)
  <2>1. ASSUME NEW i \in 1..(n - 1), NEW j \in 1..(n - 1), i < j
        PROVE  c[i] < c[j]
    <3>1. (i + 1) \in 1..n /\ (j + 1) \in 1..n /\ i + 1 < j + 1
      BY <1>3, <2>1
    <3> QED  BY <1>5, <1>6, <3>1
  <2> QED  BY <1>7, <2>1 DEF Increasing
<1>9. \A i \in 1..(n - 1) :
          /\ at[1] < c[i] /\ Printed(table[c[i]]) /\ c[i] <= Seen(d)
          /\ Tail(lines[d])[i] = Line(table[c[i]], TextOf(table[c[i]]))
  BY <1>1, <1>3, <1>4, <1>5, <1>6
<1>10. \A j \in DOMAIN bt : bt[j] < at[1] /\ \A i \in 1..(n - 1) : bt[j] < c[i]
  BY <1>2, <1>3, <1>6 DEF Trace
<1>11. ASSUME NEW i \in 1..n, i # 1
       PROVE  \E j \in 1..(n - 1) : c[j] = at[i]
  <2>1. i - 1 \in 1..(n - 1) /\ (i - 1) + 1 = i
    BY <1>0, <1>11
  <2>2. c[i - 1] = at[i]
    BY <1>6, <2>1
  <2> QED  BY <2>1, <2>2
<1>12. at[1] \in DOMAIN table /\ table[at[1]] \in Entries
  <2>1. \A k \in DOMAIN table : table[k] \in Entries
    BY DEF TypeInv
  <2>2. at[1] \in DOMAIN table
    BY <1>2, <1>3
  <2> QED  BY <2>1, <2>2
<1>13. \A i \in 1..n : at[i] = at[1] \/ \E j \in 1..(n - 1) : c[j] = at[i]
  BY <1>11
<1>14. Printed(table[at[1]]) /\ Head(lines[d]) = Line(table[at[1]], TextOf(table[at[1]]))
  BY <1>1, <1>3, <1>4
<1>15. Rest(d, bt, at, c, n)
  BY <1>1, <1>2, <1>7, <1>8, <1>9, <1>10, <1>12, <1>13, <1>14 DEF Rest
<1> QED  BY <1>0, <1>15

LEMMA TraceParses ==
    ASSUME TypeInv, NEW d \in Dumpers, NEW bt, NEW at, Trace(d, bt, at), ParseLine(d)
    PROVE  \E b, c : Trace(d, b, c)'
<1>0. PICK n, c : n = Len(lines[d]) /\ Rest(d, bt, at, c, n)
  BY TraceRest DEF ParseLine
<1> DEFINE m == Len(hosts[d])
           l == Head(lines[d])
           e == table[at[1]]
           b == [i \in 1..(m + 1) |-> IF i <= m THEN bt[i] ELSE at[1]]
<1>1. /\ lines[d] # <<>> /\ lines'[d] = Tail(lines[d]) /\ table' = table /\ left' = left
      /\ hosts' = IF Accepted(l) THEN [hosts EXCEPT ![d] = Append(hosts[d], HostOf(l))]
                  ELSE hosts
  BY DEF ParseLine, TypeInv
<1>2. /\ lines[d] \in Seq(PrintedLines) /\ hosts[d] \in Seq(Reports)
      /\ n \in Nat /\ m \in Nat /\ DOMAIN hosts[d] = 1..m
  BY <1>0 DEF TypeInv
<1>3. Seen(d)' = Seen(d)
  BY <1>1 DEF Seen
<1>4. /\ n > 0 /\ DOMAIN at = 1..n /\ DOMAIN lines'[d] = 1..(n - 1)
      /\ at[1] \in DOMAIN table /\ e \in Entries /\ Printed(e)
      /\ l = Line(e, TextOf(e))
      /\ c \in [1..(n - 1) -> DOMAIN table] /\ Increasing(c)
      /\ \A i \in 1..(n - 1) :
            /\ at[1] < c[i] /\ Printed(table[c[i]]) /\ c[i] <= Seen(d)
            /\ lines'[d][i] = Line(table[c[i]], TextOf(table[c[i]]))
      /\ \A j \in DOMAIN bt : bt[j] < at[1] /\ \A i \in 1..(n - 1) : bt[j] < c[i]
      /\ \A i \in 1..n : at[i] = at[1] \/ \E j \in 1..(n - 1) : c[j] = at[i]
  <2>1. lines'[d] = Tail(lines[d]) /\ lines[d] # <<>>
    BY <1>1
  <2> QED  BY <1>0, <2>1 DEF Rest
<1>5. /\ bt \in [1..m -> DOMAIN table] /\ DOMAIN bt = 1..m /\ Increasing(bt)
      /\ \A i \in 1..m : Wanted(table[bt[i]]) /\ hosts[d][i] = Report(table[bt[i]])
  BY <1>2 DEF Trace
<1>6. \A k \in 1..Seen(d) : Wanted(table[k]) =>
          (\E i \in 1..m : bt[i] = k) \/ (\E i \in 1..n : at[i] = k)
  BY <1>4, <1>5 DEF Trace
<1>7. /\ Accepted(l) <=> Wanted(e)
      /\ Wanted(e) => HostOf(l) = Report(e)
  BY <1>4, AcceptedIsWanted
<1>8. l \in PrintedLines /\ HostOf(l) \in Reports
  BY <1>1, <1>2, HeadAndTail DEF Reports
<1>9. DOMAIN c = 1..(n - 1)
  BY <1>4
<1> HIDE DEF l
<1>10. CASE ~Accepted(l)
  <2>1. hosts' = hosts /\ ~Wanted(e)
    BY <1>1, <1>7, <1>10
  <2>2. ASSUME NEW k \in 1..Seen(d), Wanted(table[k])
        PROVE  (\E i \in 1..m : bt[i] = k) \/ (\E i \in 1..(n - 1) : c[i] = k)
    <3>1. CASE \E i \in 1..n : at[i] = k
      <4>1. PICK i \in 1..n : at[i] = k
        BY <3>1
      <4>2. at[i] # at[1]
        BY <2>1, <2>2, <4>1
      <4> QED  BY <1>4, <4>1, <4>2
    <3> QED  BY <1>6, <2>2, <3>1
  <2>3. bt \in [DOMAIN hosts'[d] -> DOMAIN table'] /\ c \in [DOMAIN lines'[d] -> DOMAIN table']
    BY <1>1, <1>2, <1>4, <1>5, <2>1
  <2> HIDE DEF m, e
  <2>4. /\ \A i \in DOMAIN bt, j \in DOMAIN c : bt[i] < c[j]
        /\ \A i \in DOMAIN bt : Wanted(table[bt[i]]) /\ hosts'[d][i] = Report(table[bt[i]])
        /\ \A i \in DOMAIN c : /\ Printed(table[c[i]]) /\ c[i] <= Seen(d)
                              /\ lines'[d][i] = Line(table[c[i]], TextOf(table[c[i]]))
        /\ \A k \in 1..Seen(d) : Wanted(table[k]) =>
              (\E i \in DOMAIN bt : bt[i] = k) \/ (\E i \in DOMAIN c : c[i] = k)
    BY <1>4, <1>5, <1>9, <2>1, <2>2
  <2>5. Increasing(bt) /\ Increasing(c)
    BY <1>4, <1>5
  <2>6. table' = table
    BY <1>1
  <2>7. Trace(d, bt, c)'
    BY <1>3, <2>3, <2>4, <2>5, <2>6 DEF Trace, Increasing
  <2> QED  BY <2>7
<1>11. CASE Accepted(l)
  <2>1. hosts'[d] = Append(hosts[d], HostOf(l)) /\ Wanted(e) /\ HostOf(l) = Report(e)
    BY <1>1, <1>7, <1>11 DEF TypeInv
  <2>2. /\ DOMAIN hosts'[d] = 1..(m + 1) /\ hosts'[d][m + 1] = Report(e)
        /\ \A i \in 1..m : hosts'[d][i] = hosts[d][i]
    BY <1>2, <1>8, <2>1, Appended
  <2>3. /\ DOMAIN b = 1..(m + 1) /\ b[m + 1] = at[1] /\ \A i \in 1..m : b[i] = bt[i]
    BY <1>2
  <2>4. \A i \in 1..(m + 1) : i = m + 1 \/ i \in 1..m
    BY <1>2
  <2>5. b \in [1..(m + 1) -> DOMAIN table]
    BY <1>4, <1>5, <2>3, <2>4
  <2>6. m + 1 \in 1..(m + 1) /\ \A i \in 1..m : i \in 1..(m + 1)
    BY <1>2
  <2> HIDE DEF b, m
  <2>7. Increasing(b)
    <3>1. ASSUME NEW i \in 1..(m + 1), NEW j \in 1..(m + 1), i < j
          PROVE  b[i] < b[j]
      <4>1. i \in 1..m
        BY <1>2, <3>1
      <4>2. CASE j \in 1..m
        BY <1>5, <2>3, <3>1, <4>1, <4>2 DEF Increasing
      <4>3. CASE j = m + 1
        BY <1>4, <1>5, <2>3, <4>1, <4>3
      <4> QED  BY <2>4, <4>2, <4>3
    <3> QED  BY <2>3, <3>1 DEF Increasing
  <2>8. ASSUME NEW i \in 1..(m + 1)
        PROVE  /\ Wanted(table[b[i]]) /\ hosts'[d][i] = Report(table[b[i]])
               /\ \A j \in 1..(n - 1) : b[i] < c[j]
    <3>1. CASE i = m + 1
      BY <1>4, <2>1, <2>2, <2>3, <3>1
    <3>2. CASE i \in 1..m
      BY <1>4, <1>5, <2>2, <2>3, <3>2
    <3> QED  BY <2>4, <3>1, <3>2
  <2>9. ASSUME NEW k \in 1..Seen(d), Wanted(table[k])
        PROVE  (\E i \in 1..(m + 1) : b[i] = k) \/ (\E i \in 1..(n - 1) : c[i] = k)
    <3>1. CASE \E i \in 1..m : bt[i] = k
      BY <2>3, <2>6, <3>1
    <3>2. CASE \E i \in 1..n : at[i] = k
      BY <1>4, <2>3, <2>6, <3>2
    <3> QED  BY <1>6, <2>9, <3>1, <3>2
  <2>10. b \in [DOMAIN hosts'[d] -> DOMAIN table'] /\ c \in [DOMAIN lines'[d] -> DOMAIN table']
    BY <1>1, <1>4, <2>2, <2>5
  <2> HIDE DEF e
  <2>11. /\ \A i \in DOMAIN b, j \in DOMAIN c : b[i] < c[j]
         /\ \A i \in DOMAIN b : Wanted(table[b[i]]) /\ hosts'[d][i] = Report(table[b[i]])
         /\ \A i \in DOMAIN c : /\ Printed(table[c[i]]) /\ c[i] <= Seen(d)
                               /\ lines'[d][i] = Line(table[c[i]], TextOf(table[c[i]]))
         /\ \A k \in 1..Seen(d) : Wanted(table[k]) =>
               (\E i \in DOMAIN b : b[i] = k) \/ (\E i \in DOMAIN c : c[i] = k)
    BY <1>4, <1>9, <2>3, <2>8, <2>9
  <2>12. PICK f : f = b
    OBVIOUS
  <2>13. Increasing(f) /\ Increasing(c)
    BY <1>4, <2>7, <2>12
  <2>14. table' = table
    BY <1>1
  <2>15. Trace(d, f, c)'
    BY <1>3, <2>10, <2>11, <2>12, <2>13, <2>14 DEF Trace, Increasing
  <2> QED  BY <2>15
<1> QED  BY <1>10, <1>11

LEMMA TraceStep ==
    ASSUME TypeInv, Alone, BufferInv, NEW d \in Dumpers, LeftInv(d), Runs(d),
           d \notin overlapped => Traced(d), d \notin overlapped'
    PROVE  Traced(d)'
<1>1. table' = table /\ d \notin overlapped
  BY TableKept
<1>2. pc[d] \in {"next", "format", "print", "parse", "returned"} =>
          \E bt, at : Trace(d, bt, at)
  BY <1>1 DEF Traced
<1>3. CASE Begin(d)
  BY <1>3, BeginsOutside DEF Traced
<1>4. CASE SetFilter(d)
  <2>1. /\ pc[d] = "filter" /\ left'[d] = table /\ lines' = lines /\ hosts' = hosts
    BY <1>4 DEF SetFilter, Goto, TypeInv
  <2>2. DOMAIN lines'[d] = {} /\ DOMAIN hosts'[d] = {}
    BY <2>1 DEF LeftInv
  <2>3. Seen(d)' = 0
    <3>1. Len(table) \in Nat
      BY DEF TypeInv
    <3> QED  BY <1>1, <2>1, <3>1 DEF Seen
  <2> DEFINE z == [i \in {} |-> 0]
  <2>4. z \in [{} -> DOMAIN table'] /\ DOMAIN z = {}
    OBVIOUS
  <2> HIDE DEF z
  <2>5. Trace(d, z, z)'
    BY <2>2, <2>3, <2>4 DEF Trace, Increasing
  <2> QED  BY <2>5 DEF Traced
<1>5. CASE Skip(d)
  <2>1. /\ pc[d] = "next" /\ left[d] # <<>> /\ left'[d] = Tail(left[d])
        /\ lines' = lines /\ hosts' = hosts
        /\ \E s \in FilterStates : Filtered(Head(left[d]), s)
    BY <1>5 DEF Skip, TypeInv
  <2>2. ~Printed(Head(left[d]))
    BY <1>1, <2>1, OwnFilter DEF Printed
  <2>3. PICK bt, at : Trace(d, bt, at)
    BY <1>2, <2>1
  <2>4. Trace(d, bt, at)'
    BY <1>1, <2>1, <2>2, <2>3, TraceSkips
  <2> QED  BY <2>4 DEF Traced
<1>6. CASE FormatHost(d) \/ Formatted(d) \/ ReadLines(d) \/ ReturnHosts(d)
  <2>1. /\ pc[d] \in {"next", "format", "parse"}
        /\ left' = left /\ lines' = lines /\ hosts' = hosts
    BY <1>6 DEF FormatHost, Formatted, ReadLines, ReturnHosts, Goto
  <2>2. PICK bt, at : Trace(d, bt, at)
    BY <1>2, <2>1
  <2>3. Trace(d, bt, at)'
    BY <1>1, <2>1, <2>2, TraceKept
  <2> QED  BY <2>3 DEF Traced
<1>7. CASE Prints(d)
  <2>1. /\ pc[d] \in {"next", "print"} /\ left[d] # <<>> /\ hosts' = hosts
        /\ PrintLine(d, TextOf(Head(left[d])))
    BY <1>1, <1>7, PrintEffect
  <2>2. hosts[d] = <<>>
    BY <2>1 DEF LeftInv
  <2>3. Printed(Head(left[d]))
    <3>1. CASE PrintNeigh(d)
      BY <1>1, <3>1 DEF PrintNeigh, Goto, BufferInv
    <3>2. CASE PrintUnprintable(d)
      <4>1. pc[d] = "next" /\ \E s \in FilterStates : ~Filtered(Head(left[d]), s)
        BY <3>2 DEF PrintUnprintable, Passes
      <4> QED  BY <1>1, <4>1, OwnFilter DEF Printed
    <3> QED  BY <1>7, <3>1, <3>2 DEF Prints
  <2>4. PICK bt, at : Trace(d, bt, at)
    BY <1>2, <2>1
  <2>5. \E c : Trace(d, bt, c)'
    BY <1>1, <2>1, <2>2, <2>3, <2>4, TracePrints
  <2> QED  BY <2>5 DEF Traced
<1>8. CASE ParseLine(d)
  <2>1. pc[d] = "parse"
    BY <1>8 DEF ParseLine
  <2>2. PICK bt, at : Trace(d, bt, at)
    BY <1>2, <2>1
  <2>3. \E b, c : Trace(d, b, c)'
    BY <1>8, <2>2, TraceParses
  <2> QED  BY <2>3 DEF Traced
<1> QED  BY <1>3, <1>4, <1>5, <1>6, <1>7, <1>8 DEF Runs

LEMMA TraceOfOthers ==
    ASSUME TypeInv, NEW d \in Dumpers, Runs(d), NEW e \in Dumpers, e # d, Traced(e)
    PROVE  Traced(e)'
<1>1. /\ pc'[e] = pc[e] /\ left'[e] = left[e] /\ lines'[e] = lines[e]
      /\ hosts'[e] = hosts[e] /\ table' = table
  BY OthersKeep, TableKept
<1>2. \A bt, at : Trace(e, bt, at) => Trace(e, bt, at)'
  BY <1>1, TraceKept
<1> QED  BY <1>1, <1>2 DEF Traced

-----------------------------------------------------------------------------
LEMMA LineInvInit == Init => LineInv
<1> SUFFICES ASSUME Init PROVE LineInv
  OBVIOUS
<1>1. TypeInv
  BY TypeInit
<1>2. Alone
  BY DEF Init, Alone, Inside
<1>3. BufferInv
  BY DEF Init, BufferInv
<1>4. ASSUME NEW d \in Dumpers
      PROVE  LeftInv(d) /\ Explained(d) /\ Traced(d)
  <2>1. /\ pc[d] = "idle" /\ left[d] = <<>> /\ lines[d] = <<>> /\ hosts[d] = <<>>
        /\ Len(table) \in Nat
    BY <1>1 DEF Init, TypeInv
  <2>2. Len(left[d]) <= Len(table) /\ 1..Len(left[d]) = {}
    BY <2>1
  <2> QED  BY <2>1, <2>2 DEF LeftInv, Explained, Traced
<1> QED  BY <1>1, <1>2, <1>3, <1>4 DEF LineInv

LEMMA LineInvStep == LineInv /\ [Next]_vars => LineInv'
<1> SUFFICES ASSUME LineInv, [Next]_vars PROVE LineInv'
  OBVIOUS
<1>1. /\ TypeInv /\ Alone /\ BufferInv
      /\ \A d \in Dumpers : LeftInv(d) /\ Explained(d)
      /\ \A d \in Dumpers \ overlapped : Traced(d)
  BY DEF LineInv
<1>2. TypeInv' /\ Alone' /\ BufferInv'
  BY <1>1, TypeStep, AloneStep, BufferStep
<1>3. CASE UNCHANGED vars
  <2>1. \A d \in Dumpers : LeftInv(d)'
    BY <1>1, <1>3 DEF vars, LeftInv, Seen
  <2>2. \A d \in Dumpers : Explained(d)'
    BY <1>1, <1>3, ExplainedOfOthers DEF vars
  <2>3. ASSUME NEW d \in Dumpers \ overlapped'
        PROVE  Traced(d)'
    <3>1. Traced(d) /\ pc' = pc
      BY <1>1, <1>3 DEF vars
    <3>2. \A bt, at : Trace(d, bt, at) => Trace(d, bt, at)'
      BY <1>3, TraceKept DEF vars
    <3> QED  BY <3>1, <3>2 DEF Traced
  <2> QED  BY <1>2, <2>1, <2>2, <2>3 DEF LineInv
<1>4. ASSUME NEW d \in Dumpers, Runs(d)
      PROVE  LineInv'
  <2>1. table' = table /\ overlapped \subseteq overlapped'
    BY <1>4, TableKept
  <2>2. ASSUME NEW e \in Dumpers
        PROVE  LeftInv(e)' /\ Explained(e)'
    <3>1. CASE e = d
      BY <1>1, <1>4, <3>1, LeftStep, ExplainedStep
    <3>2. CASE e # d
      <4>1. lines'[e] = lines[e] /\ hosts'[e] = hosts[e]
        BY <1>1, <1>4, <3>2, OthersKeep
      <4> QED  BY <1>1, <1>4, <2>1, <3>2, <4>1, LeftOfOthers, ExplainedOfOthers
    <3> QED  BY <3>1, <3>2
  <2>3. ASSUME NEW e \in Dumpers \ overlapped'
        PROVE  Traced(e)'
    <3>1. CASE e = d
      BY <1>1, <1>4, <2>3, <3>1, TraceStep
    <3>2. CASE e # d
      BY <1>1, <1>4, <2>1, <2>3, <3>2, TraceOfOthers
    <3> QED  BY <3>1, <3>2
  <2> QED  BY <1>2, <2>2, <2>3 DEF LineInv
<1> QED  BY <1>3, <1>4, StepCases DEF Runs

LEMMA LineInvariant == Spec => []LineInv
<1>1. Init => LineInv
  BY LineInvInit
<1>2. LineInv /\ [Next]_vars => LineInv'
  BY LineInvStep
<1> QED  BY <1>1, <1>2, PTL DEF Spec

-----------------------------------------------------------------------------
(* Whatever the table holds, and whatever flags and states stand at the end of
   a line: what parseAndExtractValidArpFromInputStream returns for a dump that
   none overlapped is what print_neigh printed of the wanted neighbours, each
   once, in the table's order, with its own link-layer address. *)
THEOREM ReportsAreWanted == Spec => []ReportsWanted
<1>1. LineInv => ReportsWanted
  <2> SUFFICES ASSUME LineInv, NEW d \in Dumpers, pc[d] = "returned", d \notin overlapped
               PROVE  \E at \in [DOMAIN hosts[d] -> DOMAIN table] :
                        /\ \A i, j \in DOMAIN at : i < j => at[i] < at[j]
                        /\ \A k \in DOMAIN table :
                              Wanted(table[k]) <=> \E i \in DOMAIN at : at[i] = k
                        /\ \A i \in DOMAIN at :
                              hosts[d][i] = [ip |-> table[at[i]].dst, mac |-> table[at[i]].mac]
    BY DEF ReportsWanted
  <2>1. PICK bt, at : Trace(d, bt, at)
    BY DEF LineInv, Traced
  <2>2. left[d] = <<>> /\ lines[d] = <<>> /\ Len(table) \in Nat
        /\ DOMAIN table = 1..Len(table)
    BY DEF LineInv, LeftInv, TypeInv
  <2>3. Seen(d) = Len(table)
    BY <2>2 DEF Seen
  <2>4. DOMAIN at = {}
    BY <2>1, <2>2 DEF Trace
  <2>5. /\ bt \in [DOMAIN hosts[d] -> DOMAIN table] /\ Increasing(bt)
        /\ \A i \in DOMAIN bt : Wanted(table[bt[i]]) /\ hosts[d][i] = Report(table[bt[i]])
    BY <2>1 DEF Trace
  <2>6. \A k \in DOMAIN table : Wanted(table[k]) => \E i \in DOMAIN bt : bt[i] = k
    BY <2>1, <2>2, <2>3, <2>4 DEF Trace
  <2> QED  BY <2>5, <2>6 DEF Increasing, Report
<1> QED  BY <1>1, LineInvariant, PTL

(* Whatever dumps overlap in ipneigh.c, the MAC that the scanner takes from a
   line's fifth word is a neighbour's in a valid state; the IP before it is
   another's only when format_host's static buffer was shared. *)
THEOREM MixedHostsAreExplained == Spec => []MixedHostExplained
<1>1. LineInv => MixedHostExplained
  BY DEF LineInv, Explained, HostExplained, MixedHostExplained
<1> QED  BY <1>1, LineInvariant, PTL
=============================================================================
