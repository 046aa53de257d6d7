------------------------------ MODULE ContextFile -------------------------------
(***************************************************************************)
(* What a kubeconfig is to whoever runs kubectl: the name of a context     *)
(* leads to one installation of a cluster, whose certificate and           *)
(* credentials belong together.  A run of "wksctl kubeconfig" puts the     *)
(* context of its cluster there in one step, over whatever the file holds  *)
(* by then and without touching any other context, and never brings back   *)
(* an installation older than the one the file leads to.                   *)
(*                                                                         *)
(* Module Kubeconfig implements this one when runs do not overlap.         *)
(***************************************************************************)
EXTENDS Naturals

CONSTANTS
  Clusters, \* names of the clusters wksctl installs
  Runs,     \* runs of wksctl kubeconfig
  None      \* no context is current

VARIABLES
  gen,      \* gen[c]: how often cluster c has been installed again
  contexts, \* contexts[n]: the installations context n leads to; it is one, or
            \* none if there is no context n
  current,  \* the current context
  done,     \* the runs that are over
  target, useContext \* of each run, the cluster and --use-context

vars == <<gen, contexts, current, done, target, useContext>>

\* A cluster of the user's own is named as kubeadm names its clusters.
Names == Clusters \union {"default"}
Own == [of |-> "own", gen |-> 0]
Installation(c, g) == [of |-> c, gen |-> g]

Init ==
  /\ gen = [c \in Clusters |-> 0]
  /\ \E has \in BOOLEAN :
       /\ contexts = [n \in Names |-> IF has /\ n = "default" THEN {Own} ELSE {}]
       /\ current = IF has THEN "default" ELSE None
  /\ done = {}
  /\ target \in [Runs -> Clusters]
  /\ useContext \in [Runs -> BOOLEAN]

Put(p, g) ==
  LET c == target[p] IN
  /\ p \notin done
  /\ g <= gen[c]
  /\ \A i \in contexts[c] : i.gen <= g
  /\ contexts' = [contexts EXCEPT ![c] = {Installation(c, g)}]
  /\ current' = IF useContext[p] THEN c ELSE current
  /\ done' = done \union {p}
  /\ UNCHANGED <<gen, target, useContext>>

GiveUp(p) ==
  /\ p \notin done
  /\ done' = done \union {p}
  /\ UNCHANGED <<gen, contexts, current, target, useContext>>

Reinstall(c) ==
  /\ gen' = [gen EXCEPT ![c] = @ + 1]
  /\ UNCHANGED <<contexts, current, done, target, useContext>>

\* kubectl config use-context, and delete-context, which keeps the current
\* context though it be the deleted one.
Use(n) ==
  /\ contexts[n] # {}
  /\ current' = n
  /\ UNCHANGED <<gen, contexts, done, target, useContext>>

Delete(n) ==
  /\ contexts' = [contexts EXCEPT ![n] = {}]
  /\ UNCHANGED <<gen, current, done, target, useContext>>

Next ==
  \/ \E p \in Runs : GiveUp(p) \/ \E g \in 0 .. gen[target[p]] : Put(p, g)
  \/ \E c \in Clusters : Reinstall(c)
  \/ \E n \in Names : Use(n) \/ Delete(n)

Spec == Init /\ [][Next]_vars
================================================================================
