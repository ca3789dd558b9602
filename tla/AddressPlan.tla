----------------------------- MODULE AddressPlan -----------------------------
(***************************************************************************)
(* Which addresses a scan visits: the arithmetic at the head of            *)
(* startScanning on both platforms, from the device's address and prefix   *)
(* length to the addresses its workers probe, against the subnet as it is  *)
(* defined.  Words have W bits instead of 32, so that TLC can take every   *)
(* address and every prefix; an address has four octets of W/4 bits.       *)
(***************************************************************************)
EXTENDS Integers, FiniteSetsExt

CONSTANT W      \* bits of an address, 32 in the code

ASSUME WordAssumption == W \in Nat /\ W > 0 /\ W % 4 = 0

(* Powers of two *)
Two[k \in Nat] == IF k = 0 THEN 1 ELSE 2 * Two[k - 1]

Word     == 0..(Two[W] - 1)
Prefixes == 0..W
MaxInt   == Two[W - 1] - 1

(* The definition the code is measured against: the addresses that agree with
   ip on the prefix, without the network and the broadcast address. *)
Network(ip, p)     == (ip \div Two[W - p]) * Two[W - p]
Broadcast(ip, p)   == Network(ip, p) + Two[W - p] - 1
SubnetHosts(ip, p) == (Network(ip, p) + 1)..(Broadcast(ip, p) - 1)

(* The bitwise and of the last n bits, from the last one up *)
And[n \in Nat] ==
    [x \in Nat |-> [y \in Nat |->
        IF n = 0 THEN 0
                 ELSE (x % 2) * (y % 2) + 2 * And[n - 1][x \div 2][y \div 2]]]
BitAnd(x, y) == And[W][x][y]

(* The indices "threadIndex until numberOfHosts step scanThreads" of a worker *)
Strided(w, n, step) == {i \in w..(n - 1) : (i - w) % step = 0}

-----------------------------------------------------------------------------
(* Android: Int arithmetic, in two's complement on W bits *)

(* A shift distance is taken modulo the width of the word. *)
JvmShl(x, k) == (x * Two[k % W]) % Two[W]

(* -1 shr k is -1 for every k *)
AndroidNetmask(p) == JvmShl(Two[W] - 1, W - p)

(* Mutant of AndroidNumberOfHosts: only one address is left out. *)
AndroidNumberOfHostsLess1(p) == Min({Two[W - p], MaxInt}) - 1

(* Double.toInt saturates *)
AndroidNumberOfHosts(p) == Min({Two[W - p], MaxInt}) - 2

ScanThreads(p) == (W - p) * 4

(* Mutant of AndroidAddress: the hosts are counted from the device's own address. *)
AndroidAddressUnmasked(ip, p, index) == (index + ip + 1) % Two[W]

(* index + firstAddress wraps around. *)
AndroidAddress(ip, p, index) ==
    (index + BitAnd(ip, AndroidNetmask(p)) + 1) % Two[W]

AndroidVisits(ip, p) ==
    UNION {{<<w, AndroidAddress(ip, p, i)>> :
                i \in Strided(w, AndroidNumberOfHosts(p), ScanThreads(p))} :
           w \in 0..(ScanThreads(p) - 1)}

(* BigInteger.toByteArray gives the shortest two's complement array that holds
   the value: fewer than four octets for a small one, of either sign, and
   InetAddress.getByAddress then throws. *)
ToSigned(a) == IF a > MaxInt THEN a - Two[W] ELSE a
FitsInThreeOctets(a) ==
    ToSigned(a) \in (-Two[3 * (W \div 4) - 1])..(Two[3 * (W \div 4) - 1] - 1)

AddressThrows(ip, p) == \E v \in AndroidVisits(ip, p) : FitsInThreeOctets(v[2])

-----------------------------------------------------------------------------
(* iOS: Int is twice as wide, so that nothing overflows *)

(* Mutant of IosNetmask: the complement, the host part, is kept. *)
IosNetmaskOfHost(p) == Two[W - p] - 1

IosNetmask(p) == ((Two[W] - 1) * Two[W - p]) % Two[W]
IosNumberOfHosts(p) == Two[W - p] - 2

(* getIPAddress: the four octets of a number, from the highest *)
OctetBits == W \div 4
IosOctets(x) == [k \in 1..4 |-> (x \div Two[(4 - k) * OctetBits]) % Two[OctetBits]]

IosVisits(ip, p) ==
    UNION {{<<w, IosOctets(BitAnd(ip, IosNetmask(p)) + 1 + i)>> :
                i \in Strided(w, IosNumberOfHosts(p), ScanThreads(p))} :
           w \in 0..(ScanThreads(p) - 1)}

-----------------------------------------------------------------------------
(* One state per device address and prefix length; the address steps up, so
   that the run goes through all of them. *)
VARIABLES
    ip,      \* the device's address
    prefix   \* the prefix length of its network

PlanInit == ip = 0 /\ prefix \in Prefixes

NextAddress ==
    /\ ip' = (ip + 1) % Two[W]
    /\ UNCHANGED prefix

PlanSpec == PlanInit /\ [][NextAddress]_<<ip, prefix>>

Values(visits) == {v[2] : v \in visits}

(* Every host address of the subnet is visited, by one worker, and no other
   address is: on Android from prefix length 2 on (for 0 the shift distance is
   0 and for 1 the number of hosts saturates). *)
AndroidVisitsSubnet ==
    prefix >= 2 =>
        /\ Values(AndroidVisits(ip, prefix)) = SubnetHosts(ip, prefix)
        /\ Cardinality(AndroidVisits(ip, prefix)) = Cardinality(SubnetHosts(ip, prefix))

(* The same on iOS, for every prefix length. *)
IosVisitsSubnet ==
    /\ Values(IosVisits(ip, prefix)) = {IosOctets(a) : a \in SubnetHosts(ip, prefix)}
    /\ Cardinality(IosVisits(ip, prefix)) = Cardinality(SubnetHosts(ip, prefix))

(* An Android scan of a subnet inside one half of a first octet throws on an
   address exactly when that half is 0.0/9 or 255.128/9 (W = 32), whatever the
   device's own address. *)
AndroidThrowsAtTheEdges ==
    (prefix > OctetBits /\ SubnetHosts(ip, prefix) # {}) =>
        (AddressThrows(ip, prefix) <=> FitsInThreeOctets(ip))
=============================================================================
