----------------------------- MODULE SpecsValidation ----------------------------
(***************************************************************************)
(* What specs.NewFromPaths accepts (pkg/specs): the defaults it fills into *)
(* a cluster manifest and the rules the manifest has to satisfy.  A rule   *)
(* that fails makes the manifest invalid; the messages are left out.       *)
(***************************************************************************)
EXTENDS Integers, Sequences, FiniteSets

CONSTANTS
  Families,   \* the lengths addresses come in: IPv4, IPv6
  Sizes,      \* the sizes of networks, powers of two
  Malformed   \* a CIDR block that cannot be parsed

\* Of two powers of two the smaller divides the larger.
ASSUME SizesAssumption ==
  /\ Sizes \subseteq Nat \ {0}
  /\ \A s, t \in Sizes : s <= t => \E d \in 1 .. t : t = d * s

\* Addresses are numbers of a family.  A block like 10.4.0.0/16 is an address
\* and a size, and net.ParseCIDR clears the bits of the address below the size.
Masked(ip, size) == ip - (ip % size)
Blocks == [family : Families, ip : Nat, size : Sizes]
Network(block) == [block EXCEPT !.ip = Masked(block.ip, block.size)]

\* isValidCIDR: the address of a network and not of a host.
IsValidCIDR(block) == block # Malformed /\ block = Network(block)

\* (*net.IPNet).Contains.
Contains(n, family, ip) == n.family = family /\ Masked(ip, n.size) = n.ip

NetworksIntersectOneWay(n1, n2) == Contains(n2, n1.family, n1.ip)
NetworksIntersect(n1, n2) ==
  \/ Contains(n2, n1.family, n1.ip)
  \/ Contains(n1, n2.family, n2.ip)

\* validateCIDRBlocks, of the services and of the pods.
IsOneNetwork(blocks) == Len(blocks) = 1 /\ IsValidCIDR(blocks[1])
ValidCIDRBlocks(cluster) ==
  /\ IsOneNetwork(cluster.services) /\ IsOneNetwork(cluster.pods)
  /\ ~NetworksIntersect(cluster.services[1], cluster.pods[1])

\* What is validated of a cluster manifest.
Clusters ==
  [services : Seq(Blocks \union {Malformed}), pods : Seq(Blocks \union {Malformed}),
   serviceDomain : STRING, sshKeyPath : STRING, addonsValid : BOOLEAN]

\* populateNetwork.
Populated(cluster) ==
  [cluster EXCEPT !.serviceDomain = IF @ = "" THEN "cluster.local" ELSE @]

\* validateCluster, with the rules for addons of module Addons.
ValidCluster(cluster) ==
  /\ ValidCIDRBlocks(cluster)
  /\ cluster.serviceDomain = "cluster.local"
  /\ cluster.sshKeyPath = ""
  /\ cluster.addonsValid

\* parseManifests: the cluster manifest parses and is valid with its defaults,
\* and so are the machines.
ValidManifests(manifests) ==
  /\ manifests.parses
  /\ ValidCluster(Populated(manifests.cluster))
  /\ manifests.machinesValid

\* The addresses of a network.
Addresses(n) == {n.family} \X (n.ip .. n.ip + n.size - 1)
================================================================================
