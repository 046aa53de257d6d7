---------------------------- MODULE MCApplyCommand -----------------------------
(***************************************************************************)
(* Instances of ApplyCommand for TLC: manifests of each form, a version    *)
(* named by the cluster, by all machines, by some or by none, machines     *)
(* that are invalid otherwise, no secret, one, two, two of one name and a  *)
(* broken one; flags with each way of giving the key for the sealed        *)
(* secrets, from two paths of the SSH key, and a plan view.                *)
(***************************************************************************)
EXTENDS ApplyCommand

CONSTANTS v1, old, authn, authz, broken, home, tmpdir

C(form, version, n, z) ==
  [form |-> form, version |-> version, authn |-> n, authz |-> z]
Node(master, version, ref) == [master |-> master, version |-> version, ref |-> ref]
M(list, infra) == [parses |-> TRUE, list |-> list, infra |-> infra]
F(view, git, path, cert, sealedKey, deployKey, overrides) ==
  [view |-> view, git |-> git, sshKeyPath |-> path, cert |-> cert,
   sealedKey |-> sealedKey, deployKey |-> deployKey, overrides |-> overrides]

MCClusters ==
  {C("valid", v1, None, None), C("valid", None, authn, None),
   C("valid", v1, authn, authz), C("valid", v1, authn, authn),
   C("valid", v1, broken, None),
   C("garbled", None, None, None)}
MCMachines ==
  {M(<<Node(TRUE, v1, "m")>>, <<"m">>),
   M(<<Node(TRUE, None, "m"), Node(FALSE, None, "n")>>, <<"m", "n">>),
   M(<<Node(TRUE, v1, "m"), Node(FALSE, None, "n")>>, <<"m", "n">>),
   M(<<Node(FALSE, v1, "m")>>, <<"m">>),
   M(<<Node(TRUE, old, "m")>>, <<"n">>),
   [M(<<>>, <<>>) EXCEPT !.parses = FALSE]}
MCFlags ==
  {F(FALSE, TRUE, home, TRUE, FALSE, TRUE, FALSE),
   F(FALSE, FALSE, tmpdir, TRUE, TRUE, FALSE, FALSE),
   F(FALSE, FALSE, home, TRUE, TRUE, FALSE, FALSE),
   F(FALSE, FALSE, home, TRUE, FALSE, FALSE, TRUE),
   F(TRUE, TRUE, home, FALSE, FALSE, FALSE, FALSE)}
MCVersions == {v1, old}
MCSupported == {v1}
MCSecrets == {authn, authz, broken}
MCBroken == {broken}
MCPemKeys == {"client-key"}
MCKeyPaths == {home, tmpdir}
================================================================================
