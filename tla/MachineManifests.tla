---------------------------- MODULE MachineManifests ----------------------------
(***************************************************************************)
(* What Validate (pkg/cluster/machine) accepts as a machines manifest: its *)
(* Machines and the ExistingInfraMachines they refer to, in the order of   *)
(* the file.  The commands call the copy of this function in the provider  *)
(* for existing infrastructure, through ParseAndDefaultAndValidate; it is  *)
(* taken to be the function of this repository.                            *)
(***************************************************************************)
EXTENDS Naturals, Sequences

CONSTANTS
  Versions,  \* Kubernetes versions
  Supported, \* those in DefaultVersionsRange
  None       \* no version

Machine == [master : BOOLEAN, version : Versions \union {None}, ref : STRING]

\* parses: is it YAML of the right kinds?
MachinesManifest ==
  [parses : BOOLEAN, list : Seq(Machine), infra : Seq(STRING)]

\* validateAtLeastOneMaster.
HasMaster(m) == \E i \in DOMAIN m.list : m.list[i].master

\* validateVersions: no machine names a version, or all name the same.
SameVersionsWhereNamed(m) ==
  \A i \in DOMAIN m.list : m.list[i].version \in {None, m.list[1].version}
SameVersions(m) ==
  \A i \in DOMAIN m.list : m.list[i].version = m.list[1].version

\* validateKubernetesVersion.
SupportedVersion(m) == m.list[1].version \in Supported \union {None}

\* The machines and what they refer to correspond one to one, in order.
RefersInOrder(m) ==
  /\ Len(m.list) = Len(m.infra)
  /\ \A i \in DOMAIN m.list : m.list[i].ref = m.infra[i]

ValidMachines(m) ==
  /\ m.parses /\ m.list # <<>>
  /\ HasMaster(m) /\ SameVersions(m) /\ SupportedVersion(m) /\ RefersInOrder(m)
================================================================================
