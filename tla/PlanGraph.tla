------------------------------- MODULE PlanGraph -------------------------------
(***************************************************************************)
(* The part of the plan engine this repository relies on.  The engine      *)
(* itself (plan.NewBuilder, AddResource, DependOn, Plan, Apply) belongs to *)
(* cluster-api-provider-existinginfra; the code under src/ builds graphs   *)
(* with it and expects a resource to be applied only after the resources   *)
(* it depends on, one at a time, in any order the edges allow.             *)
(*                                                                         *)
(* A graph is a function from the names of its resources to the sets of    *)
(* names they depend on.                                                   *)
(***************************************************************************)
EXTENDS Integers, FiniteSets

\* The resources that may be applied next, once those in applied are.
Ready(deps, applied) ==
  {r \in DOMAIN deps \ applied : deps[r] \subseteq applied}
================================================================================
