------------------------------ MODULE NeighLine ------------------------------
(***************************************************************************)
(* The lines that the native dump prints for the neighbours, in C, and     *)
(* what the scanner reads from them, in Kotlin.  The two agree on no       *)
(* format: the parser counts words.  A line is the sequence of its words.  *)
(* Every scan dumps in a thread of its own and prints to a pipe of its own *)
(* (NeighDump); the buffer that holds the text of an address is static.    *)
(***************************************************************************)
EXTENDS Integers, Sequences

CONSTANTS
    Dumpers,     \* the scans' threads that enter nativeIPNeigh
    Addresses,   \* the addresses of neighbours
    Global,      \* those that are neither link-local nor loopback
    Macs,        \* the texts of link-layer addresses
    Tables       \* the neighbour tables that the kernel may have

(* What a buffer holds while it is written, or after two have written it; and
   what stands for the address of a family that has no text *)
Torn        == "torn"
Unprintable == "???"

ASSUME LineAssumption ==
    /\ Global \subseteq Addresses
    /\ Torn \notin Addresses /\ Unprintable \notin Addresses

-----------------------------------------------------------------------------
(* The kernel's entries (external).  A neighbour has a link-layer address when
   its state is valid; it is empty on a device that has none, where every state
   is NOARP.  A proxy entry has neither, and perhaps no device.  Kernels that
   speak DECnet have its neighbours in the dump, too. *)
NudValid  == {"PERMANENT", "NOARP", "REACHABLE", "PROBE", "STALE", "DELAY"}
NudStates == NudValid \cup {"NONE", "INCOMPLETE", "FAILED"}
NoMac     == "none"
EmptyMac  == ""

Entries ==
    {e \in [family : {"INET", "DECnet"}, dst : Addresses, ifindex : 0..1,
            nud : NudStates, mac : Macs \cup {EmptyMac, NoMac}, router : BOOLEAN,
            proxy : BOOLEAN] :
        /\ e.mac # NoMac <=> e.nud \in NudValid
        /\ e.mac = EmptyMac => e.nud = "NOARP"
        /\ e.proxy => e.nud = "NONE"
        /\ e.ifindex = 0 => e.proxy}

ASSUME TableAssumption == Tables \subseteq Seq(Entries)

(* The attributes of its message; the last is of a type above NDA_MAX. *)
Attr(t, v) == [type |-> t, data |-> v]
Attributes(e) ==
    <<Attr("DST", e.dst)>>
    \o (IF e.mac # NoMac THEN <<Attr("LLADDR", e.mac)>> ELSE <<>>)
    \o <<Attr("CACHEINFO", "times"), Attr("PROTOCOL", "number")>>

(* parse_rtattr: tb[t] has the first attribute of type t, if there is one. *)
Known == {"DST", "LLADDR", "CACHEINFO", "PROBES"}
IsFirst(as, i, t) == as[i].type = t /\ \A j \in 1..(i - 1) : as[j].type # t
ParseRtattr(as) ==
    [t \in Known |-> {as[i].data : i \in {j \in DOMAIN as : IsFirst(as, j, t)}}]

(* ll_index_to_name: the list of links is never read (ll_init_map), so that the
   name is the system's, or made from the index; ll_index_to_type gives -1. *)
IndexToName(i) == IF i = 0 THEN "*" ELSE "name"
IndexToType(i) == "unknown"

(* ll_addr_n2a prints the octets, in hexadecimal when the type is no tunnel's;
   the first is printed even when there is none, from what stands behind. *)
Behind == "behind"
LlAddrN2a(a, type) ==
    CASE type \in {"TUNNEL", "SIT", "IPGRE", "TUNNEL6"} -> "dotted"
      [] a = EmptyMac -> Behind
      [] OTHER -> a

(* rt_addr_n2a_r and the text that inet_ntop leaves in the buffer; for DECnet,
   which Android does without, the buffer is not touched. *)
UsesBuffer(f) == f \in {"INET", "INET6"}

-----------------------------------------------------------------------------
VARIABLES
    table,       \* the kernel's entries
    pc,          \* where each dump is
    left,        \* the entries it has still to print
    lines,       \* what it has written to its pipe and nobody has parsed
    hosts,       \* what its scanner has made of it
    buf,         \* format_host's buffer, which all share
    clash,       \* the buffer is being written by two
    overlapped   \* history: the dumps that ran beside another

vars == <<table, pc, left, lines, hosts, buf, clash, overlapped>>

Init ==
    /\ table \in Tables
    /\ pc = [d \in Dumpers |-> "idle"]
    /\ left = [d \in Dumpers |-> <<>>]
    /\ lines = [d \in Dumpers |-> <<>>]
    /\ hosts = [d \in Dumpers |-> <<>>]
    /\ buf = Torn
    /\ clash = FALSE
    /\ overlapped = {}

Goto(d, from, to) == pc[d] = from /\ pc' = [pc EXCEPT ![d] = to]
Inside == {d \in Dumpers : pc[d] \notin {"idle", "parse", "returned"}}
In(at) == {d \in Dumpers : pc[d] = at}

(* filter.state as do_show_or_flush leaves it.  Mutant: as
   ipneigh_reset_filter leaves it. *)
FilterStateAll == NudStates
FilterState == NudStates \ {"NONE", "NOARP"}

(* What it may be: another dump that begins clears it and lets everything
   through before it sets it. *)
FilterStates ==
    IF In("filter") = {} THEN {FilterState}
    ELSE {{}, NudStates, FilterState}

Filtered(e, states) ==
    e.nud \notin states /\ ~e.proxy /\ e.family # "DECnet"

Word(b, w) == IF b THEN <<w>> ELSE <<>>

(* print_neigh, when the first %s is dst; a blank at the end is a word to the
   parser, an empty one. *)
Line(e, dst) ==
    LET tb   == ParseRtattr(Attributes(e))
        tail == (IF tb["LLADDR"] = {} THEN <<>>
                 ELSE <<"lladdr", LlAddrN2a(CHOOSE a \in tb["LLADDR"] : TRUE,
                                            IndexToType(e.ifindex))>>)
                \o Word(e.router, "router")
                \o Word(e.proxy, "proxy")
                \o Word(e.nud # "NONE", e.nud)
    IN <<dst>>
       \o (IF e.ifindex # 0 THEN <<"dev", IndexToName(e.ifindex)>> ELSE <<>>)
       \o (IF tail = <<>> THEN <<"">> ELSE tail)

(* neighborLine.size > 5.  Mutant: the size of a line without a state. *)
LongEnoughLess1(l) == Len(l) > 4
LongEnough(l) == Len(l) > 5

(* parseAndExtractValidArpFromInputStream, for one line *)
Accepted(l) ==
    /\ LongEnough(l)
    /\ l[1] \in Global
    /\ l[Len(l)] \notin {"FAILED", "INCOMPLETE"}

HostOf(l) == [ip |-> l[1], mac |-> l[5]]

-----------------------------------------------------------------------------
Begin(d) ==
    /\ Goto(d, "idle", "filter")
    /\ overlapped' = IF Inside = {} THEN overlapped
                     ELSE overlapped \cup Inside \cup {d}
    /\ UNCHANGED <<table, left, lines, hosts, buf, clash>>

(* The filter is set and the kernel answers. *)
SetFilter(d) ==
    /\ Goto(d, "filter", "next")
    /\ left' = [left EXCEPT ![d] = table]
    /\ UNCHANGED <<table, lines, hosts, buf, clash, overlapped>>

(* print_neigh: the filter drops the entry, ... *)
Skip(d) ==
    /\ pc[d] = "next" /\ left[d] # <<>>
    /\ \E s \in FilterStates : Filtered(Head(left[d]), s)
    /\ left' = [left EXCEPT ![d] = Tail(@)]
    /\ UNCHANGED <<table, pc, lines, hosts, buf, clash, overlapped>>

Passes(d) ==
    left[d] # <<>> /\ \E s \in FilterStates : ~Filtered(Head(left[d]), s)

PrintLine(d, dst) ==
    /\ lines' = [lines EXCEPT ![d] = Append(@, Line(Head(left[d]), dst))]
    /\ left' = [left EXCEPT ![d] = Tail(@)]

(* ... or it has an address that cannot be printed, ... *)
PrintUnprintable(d) ==
    /\ pc[d] = "next" /\ Passes(d) /\ ~UsesBuffer(Head(left[d]).family)
    /\ PrintLine(d, Unprintable)
    /\ UNCHANGED <<table, pc, hosts, buf, clash, overlapped>>

(* ... or format_host begins to write the buffer, ... *)
FormatHost(d) ==
    /\ Passes(d) /\ UsesBuffer(Head(left[d]).family)
    /\ Goto(d, "next", "format")
    /\ buf' = Torn
    /\ clash' = (In("format") # {} \/ clash)
    /\ UNCHANGED <<table, left, lines, hosts, overlapped>>

(* ... has written it, ... *)
Formatted(d) ==
    /\ Goto(d, "format", "print")
    /\ buf' = IF clash THEN Torn ELSE Head(left[d]).dst
    /\ clash' = (clash /\ In("format") # {d})
    /\ UNCHANGED <<table, left, lines, hosts, overlapped>>

(* ... and fprintf reads it.  A torn buffer may hold any address or none. *)
Texts == IF buf = Torn THEN Addresses \cup {Unprintable} ELSE {buf}

PrintNeigh(d) ==
    /\ Goto(d, "print", "next")
    /\ \E dst \in Texts : PrintLine(d, dst)
    /\ UNCHANGED <<table, hosts, buf, clash, overlapped>>

(* The dump ends, and the scanner reads its pipe to the end; ... *)
ReadLines(d) ==
    /\ left[d] = <<>>
    /\ Goto(d, "next", "parse")
    /\ UNCHANGED <<table, left, lines, hosts, buf, clash, overlapped>>

(* ... it parses one line after the other, ... *)
ParseLine(d) ==
    /\ pc[d] = "parse" /\ lines[d] # <<>>
    /\ lines' = [lines EXCEPT ![d] = Tail(@)]
    /\ hosts' = IF Accepted(Head(lines[d]))
                THEN [hosts EXCEPT ![d] = Append(@, HostOf(Head(lines[d])))]
                ELSE hosts
    /\ UNCHANGED <<table, pc, left, buf, clash, overlapped>>

(* ... until there is none. *)
ReturnHosts(d) ==
    /\ lines[d] = <<>>
    /\ Goto(d, "parse", "returned")
    /\ UNCHANGED <<table, left, lines, hosts, buf, clash, overlapped>>

DumpStep(d) ==
    \/ Begin(d) \/ SetFilter(d) \/ Skip(d) \/ PrintUnprintable(d)
    \/ FormatHost(d) \/ Formatted(d) \/ PrintNeigh(d)
    \/ ReadLines(d) \/ ParseLine(d) \/ ReturnHosts(d)

Ended == (\A d \in Dumpers : pc[d] = "returned") /\ UNCHANGED vars

Next == (\E d \in Dumpers : DumpStep(d)) \/ Ended

Spec == Init /\ [][Next]_vars

-----------------------------------------------------------------------------
(* The neighbours that the scanner is after: those with a known link-layer
   address, and an address that is worth a visit. *)
Wanted(e) == e.nud \in NudValid \ {"NOARP"} /\ e.dst \in Global /\ UsesBuffer(e.family)

(* Every wanted neighbour reaches the scanner once, in the table's order and
   with its own link-layer address, and no other neighbour does, when no other
   dump overlaps: counting the words of a line tells a printed address from the
   flags and the state that may stand in its place. *)
ReportsWanted ==
    \A d \in Dumpers : pc[d] = "returned" /\ d \notin overlapped =>
        \E at \in [DOMAIN hosts[d] -> DOMAIN table] :
            /\ \A i, j \in DOMAIN at : i < j => at[i] < at[j]
            /\ \A k \in DOMAIN table :
                  Wanted(table[k]) <=> \E i \in DOMAIN at : at[i] = k
            /\ \A i \in DOMAIN at :
                  hosts[d][i] = [ip |-> table[at[i]].dst, mac |-> table[at[i]].mac]

(* Whatever dumps overlap, a reported link-layer address is the one that is
   printed of a neighbour in a valid state; the IP address beside it is another
   neighbour's, or nobody's, only when the buffer was shared. *)
MixedHostExplained ==
    \A d \in Dumpers : \A i \in DOMAIN hosts[d] :
        \E j \in DOMAIN table :
            /\ table[j].nud \in NudValid
            /\ hosts[d][i].mac = LlAddrN2a(table[j].mac, IndexToType(table[j].ifindex))
            /\ hosts[d][i].ip # table[j].dst => d \in overlapped
=============================================================================
