----------------------------- MODULE WifiAddress -----------------------------
(***************************************************************************)
(* What an Android scan is built from: LanDeviceHandler.onListen asks      *)
(* Wireless whether there is Wi-Fi, then for the address, then for the     *)
(* prefix length, and each answer is read from the system at its own time, *)
(* while Wi-Fi comes, goes and changes.                                    *)
(***************************************************************************)
EXTENDS AddressPlan

CONSTANTS
    Leases,         \* the networks the device may join: [ip, prefix]
    DhcpPrefixes,   \* what dhcpInfo may report for any of them, besides the truth
    MaxStateChanges \* bound: how often Wi-Fi changes

ASSUME LeaseAssumption ==
    /\ \A l \in Leases : l.ip \in Word \ {0} /\ l.prefix \in Prefixes
    /\ DhcpPrefixes \subseteq Prefixes
    /\ MaxStateChanges \in Nat

VARIABLES
    wifiState,    \* the state of Wi-Fi
    lease,        \* the network it is connected to, or was last
    dhcp,         \* the number of one bits in dhcpInfo.netmask
    stateChanges, \* how often Wi-Fi has changed
    pc,           \* where onListen is
    source,       \* where the prefix length came from
    atGate        \* history: the state of Wi-Fi, its lease and changes at the test

wifiVars == <<wifiState, lease, dhcp, stateChanges>>
addressVars == <<wifiVars, pc, ip, prefix, source, atGate>>

States == {"off", "down", "connecting", "connected"}
Pcs    == {"test", "readIp", "readPrefix", "lookUp", "started", "nowifi"}

WInit ==
    /\ wifiState \in States
    /\ lease \in Leases
    /\ dhcp = IF wifiState = "connected" THEN lease.prefix ELSE 0
    /\ stateChanges = 0
    /\ pc = "test" /\ source = "none"
    /\ ip = 0 /\ prefix = 0
    /\ atGate = [wifi |-> "off", lease |-> lease, changes |-> 0]

(* Wi-Fi (external): until a lease arrives there is no address and no netmask;
   with one, dhcpInfo may still report another netmask (issue 82477). *)
WifiStateChanges ==
    /\ stateChanges < MaxStateChanges /\ pc # "started" /\ pc # "nowifi"
    /\ stateChanges' = stateChanges + 1
    /\ wifiState' \in States \ {wifiState}
    /\ lease' \in IF wifiState' = "connected" THEN Leases ELSE {lease}
    /\ dhcp' \in IF wifiState' = "connected" THEN DhcpPrefixes \cup {lease'.prefix}
                                              ELSE {0}
    /\ UNCHANGED <<pc, ip, prefix, source, atGate>>

CurrentIp == IF wifiState = "connected" THEN lease.ip ELSE 0

(* isEnabled() && isConnectedWifi(), which also takes a connection that is
   still being made *)
ConnectedOrConnecting == wifiState \in {"connecting", "connected"}

Test ==
    /\ pc = "test"
    /\ pc' = IF ConnectedOrConnecting THEN "readIp" ELSE "nowifi"
    /\ atGate' = [wifi |-> wifiState, lease |-> lease, changes |-> stateChanges]
    /\ UNCHANGED <<wifiVars, ip, prefix, source>>

ReadIp ==
    /\ pc = "readIp"
    /\ ip' = CurrentIp
    /\ pc' = "readPrefix"
    /\ UNCHANGED <<wifiVars, prefix, source, atGate>>

(* Mutant of Impossible: the workaround is never taken. *)
NothingImpossible(p) == FALSE
Impossible(p) == p < 4 \/ p > 32

ReadPrefix ==
    /\ pc = "readPrefix"
    /\ prefix' = dhcp
    /\ source' = "dhcp"
    /\ pc' = IF Impossible(dhcp) THEN "lookUp" ELSE "started"
    /\ UNCHANGED <<wifiVars, ip, atGate>>

(* No dhcpInfo at all *)
NoDhcp ==
    /\ pc = "readPrefix"
    /\ wifiState # "connected"
    /\ prefix' = 0 /\ source' = "none"
    /\ pc' = "started"
    /\ UNCHANGED <<wifiVars, ip, atGate>>

(* The interface that has the address, which is read again, or none: 0. *)
LookUp ==
    /\ pc = "lookUp"
    /\ prefix' = IF wifiState = "connected" THEN lease.prefix ELSE 0
    /\ source' = IF wifiState = "connected" THEN "interface" ELSE "none"
    /\ pc' = "started"
    /\ UNCHANGED <<wifiVars, ip, atGate>>

(* The look-up throws, or the interface has lost the address meanwhile: the
   number of bits that was found impossible is returned. *)
LookUpFails ==
    /\ pc = "lookUp"
    /\ source' = "kept"
    /\ pc' = "started"
    /\ UNCHANGED <<wifiVars, ip, prefix, atGate>>

Stopped == pc \in {"started", "nowifi"} /\ UNCHANGED addressVars

WNext ==
    WifiStateChanges \/ Test \/ ReadIp \/ ReadPrefix \/ NoDhcp \/ LookUp \/ LookUpFails
    \/ Stopped

WSpec == WInit /\ [][WNext]_addressVars

-----------------------------------------------------------------------------
Started == pc = "started"
CanExist(p) == p \in 4..W
Steady  == atGate.wifi = "connected" /\ stateChanges = atGate.changes

(* If Wi-Fi is connected at the test and does not change until the scan is
   built, the scan visits the hosts of that network, even when dhcpInfo reports
   a prefix length that cannot exist, unless the look-up fails too. *)
SteadyScanVisitsNetwork ==
    (Started /\ Steady /\ source # "kept"
             /\ CanExist(lease.prefix)
             /\ (dhcp = lease.prefix \/ ~CanExist(dhcp))) =>
        Values(AndroidVisits(ip, prefix)) = SubnetHosts(lease.ip, lease.prefix)

(* Wireless.kt:90-93 says of isConnectedWifi: "True if the device is connected,
   false if it isn't". *)
TestMeansConnected == pc \notin {"test", "nowifi"} => atGate.wifi = "connected"
=============================================================================
