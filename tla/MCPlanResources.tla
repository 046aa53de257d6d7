---------------------------- MODULE MCPlanResources -----------------------------
(***************************************************************************)
(* An instance of PlanResources for TLC: one addon of two manifests beside *)
(* another of one, a config map, and a node that joins.                    *)
(***************************************************************************)
EXTENDS PlanResources

MCAddons == {"flux", "memcached"}
MCManifests == [a \in MCAddons |-> IF a = "flux" THEN 2 ELSE 1]
================================================================================
