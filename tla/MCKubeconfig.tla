------------------------------ MODULE MCKubeconfig -----------------------------
(***************************************************************************)
(* Instances of Kubeconfig for TLC.  ControlPlaneEndpoint is empty or a    *)
(* host alone, or it is a host and a port.                                 *)
(***************************************************************************)
EXTENDS Kubeconfig

MCClusters == {"east", "west"}
MCEndpoints == {<<>>, <<6443>>}
================================================================================
