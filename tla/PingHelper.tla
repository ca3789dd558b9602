----------------------------- MODULE PingHelper -----------------------------
(***************************************************************************)
(* PingHelper.start: the ping of one child of an iOS scan, and ip2mac when *)
(* it fails, beside other children that are in ip2mac for their own hosts. *)
(***************************************************************************)
EXTENDS IcmpPing, Sequences

CONSTANTS Children, MaxEvents, Me   \* the child whose ping is modelled

ASSUME MeAssumption == Me \in Children

VARIABLES lookup, sockets, arp, found, events, own, misled

MacFinder == INSTANCE MacFinder

mvars == <<lookup, sockets, arp, found, events, own, misled>>

PInit == Init /\ MacFinder!Init

PingStep == (ResolverStep \/ MainStep \/ SenderStep \/ TimeoutStep \/ Reply)
            /\ UNCHANGED mvars

(* (isSuccess != true) && (MacFinder.ip2mac(self.ipAddress) != nil). *)
GoesOn == resumed > 0 /\ ~isSuccess

MyLookup ==
    /\ GoesOn
    /\ MacFinder!LookupStep(Me)
    /\ UNCHANGED vars

Environment ==
    /\ \/ \E c \in Children \ {Me} : MacFinder!LookupStep(c)
       \/ \E c \in Children : MacFinder!ArpChanges(c)
       \/ MacFinder!News
    /\ UNCHANGED vars

PTerminating ==
    /\ AtRest
    /\ \A c \in Children : lookup[c] \notin {"write", "read"} \/ c \in misled
    /\ UNCHANGED <<vars, mvars>>

PNext == PingStep \/ MyLookup \/ Environment \/ PTerminating

(* The queues run, and a child that has begun goes on. *)
PSpec ==
    /\ PInit /\ [][PNext]_<<vars, mvars>>
    /\ WF_<<vars, mvars>>(ResolverStep /\ UNCHANGED mvars)
    /\ WF_<<vars, mvars>>(MainStep /\ UNCHANGED mvars)
    /\ WF_<<vars, mvars>>(SenderStep /\ UNCHANGED mvars)
    /\ WF_<<vars, mvars>>(TimeoutStep /\ UNCHANGED mvars)
    /\ WF_<<vars, mvars>>(MyLookup)
    /\ \A c \in Children \ {Me} :
        WF_<<vars, mvars>>(lookup[c] # "pinging" /\ MacFinder!LookupStep(c)
                           /\ UNCHANGED vars)

-----------------------------------------------------------------------------
(* What start returns, once it has *)
Returned == resumed > 0 /\ (isSuccess \/ lookup[Me] = "done")
Present  == isSuccess \/ found[Me]

(* A host is reported only if an echo reply was read or the kernel knew its
   link-layer address, and one that the kernel knew is not missed: unless the
   child was misled on its routing socket.  A late resume changes nothing, and
   the other children find what the kernel tells them, too. *)
VerdictExplained ==
    /\ Returned /\ Me \notin misled =>
         (Present <=> isSuccess \/ own[Me] = MacFinder!Mac)
    /\ MacFinder!WrongMacExplained

(* ip2mac returns for every child whose write did not fail. *)
EveryLookupReturns == MacFinder!EveryLookupReturns
=============================================================================
