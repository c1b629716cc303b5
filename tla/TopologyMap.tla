---------------------------- MODULE TopologyMap ----------------------------
(* The map of the network that App.Topology of internal/app/topology.go builds  *)
(* from one reading of the tables: where every device belongs by its addresses, *)
(* and the tree of infrastructure that the LLDP neighbours span.  Ids are       *)
(* numbers, which gives the orders the code sorts by.                           *)
EXTENDS Prefixes, Sequences, FiniteSetsExt

CONSTANTS
    Width,                       \* bits of an address, 32 in the code
    Wide, Split, Finest, Busy,   \* /24, /26, /28 and 12 devices in the code
    Nobits                       \* no parent, no place, no group

(* Finer groups have longer prefixes, and none is longer than an address.       *)
ASSUME MapAssumption ==
    /\ Width \in Nat
    /\ Wide \in 0 .. Width /\ Split \in 0 .. Width /\ Finest \in 0 .. Width
    /\ Wide < Split
    /\ Nobits \notin Nat

VARIABLES
    plan,     \* subnets: a sequence of address, bits, valid and enabled, in the
              \* order of their CIDRs; devices: from ids to their addresses, in
              \* the order of their texts
    reports,  \* LLDP neighbours by the sources that report them
    marked,   \* the sources marked as roots or, without any, at a gateway
    walk      \* the breadth-first search under way, with the edges so far

mapVars == <<plan, reports, marked, walk>>

-----------------------------------------------------------------------------
(* Places by address *)

Block(bits) == TwoTo[Width - bits]
Base(a, bits) == FirstOf(a, Block(bits))
Holds(s, a) == Base(a, s.bits) = Base(s.address, s.bits)

SubnetIds == DOMAIN plan.subnets
Subnet(i) == plan.subnets[i]

(* Faulty: a subnet with the same prefix counts as wider. *)
WiderOrSame(i) ==
    {j \in SubnetIds \ {i} :
        Subnet(j).valid /\ Subnet(j).bits <= Subnet(i).bits /\ Holds(Subnet(j), Base(Subnet(i).address, Subnet(i).bits))}

Wider(i) ==
    {j \in SubnetIds :
        Subnet(j).valid /\ Subnet(j).bits < Subnet(i).bits /\ Holds(Subnet(j), Base(Subnet(i).address, Subnet(i).bits))}

(* assignSubnetParents: the narrowest of the wider ones, enabled or not. *)
ParentSubnet(i) ==
    IF ~Subnet(i).valid \/ Wider(i) = {} THEN Nobits
    ELSE Min({j \in Wider(i) : \A k \in Wider(i) : Subnet(k).bits <= Subnet(j).bits})

(* matchDeviceSubnet: the narrowest enabled subnet around one of the addresses, *)
(* and of equals that of the first address.                                     *)
Around(a) == {i \in SubnetIds : Subnet(i).valid /\ Subnet(i).enabled /\ Holds(Subnet(i), a)}

Address(d) == plan.devices[d]
AddressesOf(d) == {Address(d)[k] : k \in DOMAIN Address(d)}

DeviceSubnet(d) ==
    LET all == UNION {Around(a) : a \in AddressesOf(d)}
        bits == Max({Subnet(i).bits : i \in all})
        best(k) == {i \in Around(Address(d)[k]) : Subnet(i).bits = bits}
    IN  IF all = {} THEN Nobits
        ELSE Min(best(Min({k \in DOMAIN Address(d) : best(k) # {}})))

Residents(i) == {d \in DOMAIN plan.devices : DeviceSubnet(d) = i}

(* deviceAddressInPrefix: the primary address or else the least.  All addresses *)
(* are stored as primary, and buildTopologyDevice keeps the last of them.       *)
Primary(d) == Address(d)[Len(Address(d))]

AddressIn(d, i) ==
    LET inside == {a \in AddressesOf(d) : Holds(Subnet(i), a)}
    IN  IF Primary(d) \in inside THEN Primary(d) ELSE Min(inside)

Buckets(i, bits) == {Base(AddressIn(d, i), bits) : d \in Residents(i)}

(* addressGroupBucketBits *)
BucketBits(i) ==
    LET bits == Subnet(i).bits
        crowded(finer) == Cardinality(Residents(i)) > Busy /\ Cardinality(Buckets(i, finer)) >= 2
    IN  CASE bits < Wide -> Wide
          [] bits = Wide /\ crowded(Split) -> Split
          [] bits > Wide /\ bits < Finest /\ crowded(Finest) -> Finest
          [] OTHER -> Nobits

(* buildTopologyAddressGroups: by subnet, bits and base; Nobits for a device    *)
(* that hangs from its subnet.                                                  *)
Group(d) ==
    LET i == DeviceSubnet(d)
    IN  IF i = Nobits \/ BucketBits(i) = Nobits THEN Nobits
        ELSE [subnet |-> i, bits |-> BucketBits(i), base |-> Base(AddressIn(d, i), BucketBits(i))]

Groups == {Group(d) : d \in DOMAIN plan.devices} \ {Nobits}

-----------------------------------------------------------------------------
(* Infrastructure by LLDP *)

Nodes == {r.from : r \in reports} \cup {r.to : r \in reports}

(* sort.Strings: the place of an element is the number of those before it.      *)
Ascending(S) ==
    [i \in 1 .. Cardinality(S) |-> CHOOSE n \in S : Cardinality({m \in S : m < n}) = i - 1]

Mirrored(r) == [from |-> r.to, port |-> r.toPort, to |-> r.from, toPort |-> r.port]

(* Faulty: the two ends of a cable make two keys. *)
LinksByReport == reports

(* lldpPairKey: a cable that both ends report is the link of the first of them. *)
Links == {r \in reports : Mirrored(r) \notin reports \/ r.from < r.to}

Between(a, b) == {l \in Links : {l.from, l.to} = {a, b}}
Neighbours(n) == {m \in Nodes \ {n} : Between(n, m) # {}}

(* chooseInfrastructureRoots, and then every node that is left. *)
Roots == IF marked # {} THEN marked ELSE {Min({r.from : r \in reports})}

WalkStart ==
    [todo |-> IF reports = {} THEN <<>> ELSE Ascending(Roots) \o Ascending(Nodes),
     queue |-> <<>>, depth |-> <<>>, parent |-> <<>>, tree |-> {}, cross |-> {}]

Visited == DOMAIN walk.depth

Start ==
    /\ walk.queue = <<>> /\ walk.todo # <<>>
    /\ walk' = LET n == Head(walk.todo)
               IN  IF n \in Visited THEN [walk EXCEPT !.todo = Tail(@)]
                   ELSE [walk EXCEPT !.todo = Tail(@), !.queue = <<n>>,
                                     !.depth = [m \in Visited \cup {n} |-> IF m = n THEN 0 ELSE @[m]],
                                     !.parent = [m \in Visited \cup {n} |-> IF m = n THEN Nobits ELSE @[m]]]
    /\ UNCHANGED <<plan, reports, marked>>

(* Faulty: what is found is looked at first. *)
QueuedFirst(rest, found) == found \o rest

Queued(rest, found) == rest \o found

(* One turn of the loop: neighbours not visited yet are the children; links to  *)
(* others but the parent are cross-links, once each; links parallel to a link   *)
(* of the tree are not shown.                                                   *)
Visit ==
    /\ walk.queue # <<>>
    /\ LET n == Head(walk.queue)
           fresh == Neighbours(n) \ Visited
           others == {m \in Neighbours(n) \cap Visited : walk.parent[n] # m /\ walk.parent[m] # n}
       IN  walk' = [walk EXCEPT
               !.queue = Queued(Tail(@), Ascending(fresh)),
               !.depth = [m \in Visited \cup fresh |-> IF m \in fresh THEN @[n] + 1 ELSE @[m]],
               !.parent = [m \in Visited \cup fresh |-> IF m \in fresh THEN n ELSE @[m]],
               !.tree = @ \cup {<<n, m>> : m \in fresh},
               !.cross = @ \cup UNION {Between(n, m) : m \in others}]
    /\ UNCHANGED <<plan, reports, marked>>

MapNext == Start \/ Visit

SubnetRow == [address : 0 .. TwoTo[Width] - 1, bits : 0 .. Width, valid : BOOLEAN, enabled : BOOLEAN]

(* A report of a source about itself is dropped. *)
LinkReport == {r \in [from : Nat, port : Nat, to : Nat, toPort : Nat] : r.from # r.to}

MapInit ==
    /\ plan.subnets \in Seq(SubnetRow)
    /\ plan.devices \in [DOMAIN plan.devices -> Seq(0 .. TwoTo[Width] - 1)]
    /\ reports \in SUBSET LinkReport /\ IsFiniteSet(reports)
    /\ marked \subseteq {r.from : r \in reports}
    /\ walk = WalkStart

MapSpec == MapInit /\ [][MapNext]_mapVars

-----------------------------------------------------------------------------
(* Every subnet is directly below the narrowest one around it, no two are below *)
(* each other, and every device is in one place, around one of its addresses,   *)
(* in a group inside its subnet; what the place does not cover is unmapped.     *)
PlacesHold ==
    /\ \A i \in SubnetIds : ParentSubnet(i) # Nobits =>
          LET p == ParentSubnet(i)
          IN  /\ ParentSubnet(p) # i
              /\ \A a \in 0 .. TwoTo[Width] - 1 : Holds(Subnet(i), a) => Holds(Subnet(p), a)
              /\ \E a \in 0 .. TwoTo[Width] - 1 : Holds(Subnet(p), a) /\ ~Holds(Subnet(i), a)
    /\ \A d \in DOMAIN plan.devices :
          LET i == DeviceSubnet(d)
          IN  /\ i = Nobits <=> \A a \in AddressesOf(d) : Around(a) = {}
              /\ Group(d) # Nobits =>
                    /\ Holds(Subnet(i), Group(d).base)
                    /\ Group(d).bits > Subnet(i).bits
                    /\ \E a \in AddressesOf(d) : Base(a, Group(d).bits) = Group(d).base

(* When the search is over, every node but the first of its component has one   *)
(* parent a step nearer to it; links join nodes at most one step apart in       *)
(* depth; every pair that is linked is shown so, and no cable twice, whoever    *)
(* reports it.                                                                  *)
LinksSpan ==
    walk.queue = <<>> /\ walk.todo = <<>> =>
        /\ Visited = Nodes
        /\ \A n \in Nodes :
              /\ {e[1] : e \in {e \in walk.tree : e[2] = n}} = {walk.parent[n]} \ {Nobits}
              /\ walk.parent[n] # Nobits => walk.depth[n] = walk.depth[walk.parent[n]] + 1
              /\ walk.parent[n] = Nobits <=> walk.depth[n] = 0
        /\ \A r \in reports :
              /\ walk.depth[r.from] - walk.depth[r.to] \in {-1, 0, 1}
              /\ \/ {<<r.from, r.to>>, <<r.to, r.from>>} \cap walk.tree # {}
                 \/ {r, Mirrored(r)} \cap walk.cross # {}
              /\ Mirrored(r) \in reports => {r, Mirrored(r)} \cap walk.cross # {r, Mirrored(r)}

(* The map a user is shown, both halves. *)
MapHolds == PlacesHold /\ LinksSpan
=============================================================================
