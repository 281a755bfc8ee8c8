---------------------------- MODULE RdmaTopology ----------------------------
(***************************************************************************)
(* The choice of a NIC and of a GID (common/rdma-topology.cpp).  The loops *)
(* of the code are recursive functions over the prefixes of a list, and    *)
(* are compared with what the header promises, the best entry.             *)
(*                                                                         *)
(* libibverbs, sysfs and HIP are external: a query that fails is part of   *)
(* the entry it is about.  A GID is its four 32-bit words, and a word is   *)
(* one of the few values the code tells apart; a PCI address is its bus    *)
(* number, or -1 when it does not parse.                                   *)
(***************************************************************************)
EXTENDS Integers, Sequences, SequencesExt

CONSTANTS
  MaxGids,      \* bound on the length of the GID tables checked
  MaxNics,      \* bound on the number of NICs checked
  MaxBus        \* bound on the bus numbers checked

Words == {"0", "fe80", "ffff", "x"}

\* A GID table entry: whether query_gid answers, the words, and what the
\* RoCE type file says (-1: unreadable, 0: something else).
GidEntry == [ok : BOOLEAN, w : Words \X {"0", "x"} \X Words \X {"0", "x"}, roce : {-1, 0, 1, 2}]

IsConfiguredGid(g) ==
  LET trailer == {g.w[2], g.w[3], g.w[4]}
  IN  ~(trailer = {"0"} /\ g.w[1] \in {"0", "fe80"})

LinkLocalGid(g) == g.w[1] = "fe80" /\ g.w[2] = "0"

IsIPv4MappedIPv6(g) == g.w[1] = "0" /\ g.w[2] = "0" /\ g.w[3] = "ffff"

\* GidPriority: link-local, IPv6, IPv4-mapped, and version 2 before any other.
Priority(g) ==
  (IF IsIPv4MappedIPv6(g) THEN 4 ELSE IF ~LinkLocalGid(g) THEN 2 ELSE 0)
    + (IF g.roce = 2 THEN 1 ELSE 0)

UsableGid(g) == g.ok /\ IsConfiguredGid(g) /\ g.roce # -1

\* Indices count from 0.
AutoSelectGidIndex(tbl) ==
  LET scan[n \in 0 .. Len(tbl)] ==
        IF n = 0 THEN [best |-> -1, priority |-> -1]
        ELSE IF UsableGid(tbl[n]) /\ Priority(tbl[n]) > scan[n - 1].priority
        THEN [best |-> n - 1, priority |-> Priority(tbl[n])]
        ELSE scan[n - 1]
  IN  scan[Len(tbl)].best

SelectBestGid(queried, tbl) == IF queried THEN AutoSelectGidIndex(tbl) ELSE -1

-----------------------------------------------------------------------------
(* The device list.                                                        *)

\* A port: whether query_port answers, its state and link layer, its GIDs.
Port == [ok : BOOLEAN, active : BOOLEAN, ethernet : BOOLEAN, gids : Seq(GidEntry)]

\* The first active port of a device decides, whatever the later ones are.
IbvDeviceInfo(ports) ==
  LET active == SelectSeq(ports, LAMBDA p : p.ok /\ p.active)
      roce   == active # <<>> /\ Head(active).ethernet
  IN  [hasActivePort |-> active # <<>>,
       isRoce        |-> roce,
       gidIndex      |-> IF roce THEN AutoSelectGidIndex(Head(active).gids) ELSE -1]

-----------------------------------------------------------------------------
(* GetClosestNicToGpu.  A NIC is its name, its bus number and whether it   *)
(* has an active port and a bus id; a list of names excludes or includes.  *)

Nic == [name : {"a", "b"}, bus : -1 .. MaxBus, active : BOOLEAN, hasBusId : BOOLEAN]
HcaList == [exclude : BOOLEAN, names : SUBSET {"a", "b"}]

GetBusIdDistance(bus1, bus2) ==
  IF bus1 < 0 \/ bus2 < 0 THEN -1
  ELSE IF bus1 < bus2 THEN bus2 - bus1 ELSE bus1 - bus2

\* An empty list includes everything.
hasExactMatch(hca, name) == name \in hca.names

Excluded(hca, name) ==
  IF hca.exclude THEN hasExactMatch(hca, name)
                 ELSE hca.names # {} /\ ~hasExactMatch(hca, name)

Candidate(nic, hca, gpuBus) ==
  /\ nic.active /\ nic.hasBusId
  /\ ~Excluded(hca, nic.name)
  /\ GetBusIdDistance(gpuBus, nic.bus) >= 0

GetClosestNicToGpu(nics, hca, gpuBus) ==
  LET scan[n \in 0 .. Len(nics)] ==
        IF n = 0 THEN [idx |-> -1, min |-> MaxBus + 1]
        ELSE LET d == GetBusIdDistance(gpuBus, nics[n].bus)
             IN  IF Candidate(nics[n], hca, gpuBus) /\ d < scan[n - 1].min
                 THEN [idx |-> n - 1, min |-> d]
                 ELSE scan[n - 1]
  IN  scan[Len(nics)].idx
-----------------------------------------------------------------------------

\* One entry for each way to be passed over and for each priority.
Gid(w1, w3, ok, roce) == [ok |-> ok, w |-> <<w1, "0", w3, "0">>, roce |-> roce]
GidsChecked ==
  {Gid("x", "x", FALSE, 2), Gid("fe80", "0", TRUE, 2), Gid("x", "x", TRUE, -1)}
    \cup {Gid(w[1], w[2], TRUE, v) :
            w \in {<<"fe80", "x">>, <<"x", "x">>, <<"0", "ffff">>}, v \in {1, 2}}

TablesChecked == BoundedSeq(GidsChecked, MaxGids)
NicsChecked == BoundedSeq({n \in Nic : n.hasBusId \/ n.active}, MaxNics)

\* The three kinds of GID exclude each other, and an IPv4-mapped address or
\* one with a link-local prefix and an identifier counts as configured.
ASSUME KindsDisjoint ==
  \A g \in GidEntry :
    /\ ~(IsIPv4MappedIPv6(g) /\ LinkLocalGid(g))
    /\ IsIPv4MappedIPv6(g) => IsConfiguredGid(g)
    /\ LinkLocalGid(g) => (IsConfiguredGid(g) <=> {g.w[3], g.w[4]} # {"0"})

\* SelectBestGid "prefers RoCEv2 IPv4-mapped, falls back through priority
\* list": it answers -1 exactly for a table without a usable entry, and else
\* the first of the usable entries no other one surpasses.
ASSUME GidIsBest ==
  \A tbl \in TablesChecked :
    LET r      == SelectBestGid(TRUE, tbl)
        usable == {i \in DOMAIN tbl : UsableGid(tbl[i])}
    IN  IF usable = {} THEN r = -1
        ELSE /\ r + 1 \in usable
             /\ \A i \in usable :
                  /\ Priority(tbl[i]) <= Priority(tbl[r + 1])
                  /\ Priority(tbl[i]) = Priority(tbl[r + 1]) => r + 1 <= i

\* GetClosestNicToGpu answers a NIC the list allows, with an active port, such
\* that no other is nearer, and -1 only if there is none.
ASSUME NicIsClosest ==
  \A nics \in NicsChecked, hca \in HcaList, gpuBus \in 0 .. MaxBus :
    LET r     == GetClosestNicToGpu(nics, hca, gpuBus)
        can   == {i \in DOMAIN nics : Candidate(nics[i], hca, gpuBus)}
        d(i)  == GetBusIdDistance(gpuBus, nics[i].bus)
    IN  IF can = {} THEN r = -1
        ELSE r + 1 \in can /\ \A i \in can : d(r + 1) <= d(i)

\* A device is offered with a GID only for the port that made it active, so
\* the index belongs to an Ethernet port's table.
ASSUME DeviceGid ==
  \A ports \in BoundedSeq([ok : BOOLEAN, active : BOOLEAN, ethernet : BOOLEAN,
                           gids : BoundedSeq(GidsChecked, 1)], 2) :
    LET d == IbvDeviceInfo(ports)
    IN  d.gidIndex # -1 =>
          \E i \in DOMAIN ports :
            /\ ports[i].ok /\ ports[i].active /\ ports[i].ethernet
            /\ UsableGid(ports[i].gids[d.gidIndex + 1])
            /\ \A j \in 1 .. i - 1 : ~(ports[j].ok /\ ports[j].active)
=============================================================================
