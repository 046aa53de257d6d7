----------------------------- MODULE MCKubeadmInit -----------------------------
(***************************************************************************)
(* Instances of KubeadmInit for TLC.  MCMinors holds a version on each     *)
(* side of those at which the code branches, 1.15 and 1.17.                *)
(***************************************************************************)
EXTENDS KubeadmInit

MCMinors == {14, 17}
MCMinor17 == {17}
================================================================================
