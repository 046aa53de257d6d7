-------------------------------- MODULE SeedNode --------------------------------
(***************************************************************************)
(* What installing a seed node promises the operator, whatever commands    *)
(* KubeadmInit.Apply sends to get there: runs take turns, a run creates a  *)
(* control plane of its own only where there is none, completes it only    *)
(* while it is the one that runs, with its own credentials in one step,    *)
(* and reports success only after that.  A run that fails or is killed     *)
(* leaves what it has come to, and the next one starts from that.          *)
(*                                                                         *)
(* Module KubeadmInit implements this one when runs do not overlap.        *)
(***************************************************************************)
EXTENDS Naturals

CONSTANT NumRuns \* how many times wksctl is run, a natural number

Runs == 1 .. NumRuns
None == 0

VARIABLES
  control,     \* the run whose control plane the node runs, or None
  credentials, \* the run whose credentials other machines join with; they
               \* are there from when the installation is complete
  client,      \* whose control plane the node's own kubectl is set up for
  outcome      \* outcome[p]: where the p-th run is

vars == <<control, credentials, client, outcome>>

Outcomes == {"waiting", "running", "ok", "failed"}

TypeOK ==
  /\ control \in Runs \union {None}
  /\ credentials \in Runs \union {None}
  /\ client \in Runs \union {None}
  /\ outcome \in [Runs -> Outcomes]

Init ==
  /\ control = None
  /\ credentials = None
  /\ client = None
  /\ outcome = [p \in Runs |-> "waiting"]

--------------------------------------------------------------------------------
Becomes(p, o) == outcome' = [outcome EXCEPT ![p] = o]

\* The operator starts wksctl, for the p-th time, when the runs before are
\* over; it may fail at once.
Start(p) ==
  /\ outcome[p] = "waiting"
  /\ \A q \in 1 .. (p - 1) : outcome[q] \in {"ok", "failed"}
  /\ \E o \in {"running", "failed"} : Becomes(p, o)
  /\ UNCHANGED <<control, credentials, client>>

\* The control plane of an earlier run goes, with the credentials for it.
TearDown(p) ==
  /\ outcome[p] = "running"
  /\ control' = None /\ credentials' = None
  /\ UNCHANGED <<client, outcome>>

Create(p) ==
  /\ outcome[p] = "running"
  /\ control = None
  /\ control' = p
  /\ UNCHANGED <<credentials, client, outcome>>

SetUpClient(p) ==
  /\ outcome[p] = "running"
  /\ control = p
  /\ client' = p
  /\ UNCHANGED <<control, credentials, outcome>>

Complete(p) ==
  /\ outcome[p] = "running"
  /\ control = p /\ client = p
  /\ credentials' = p
  /\ UNCHANGED <<control, client, outcome>>

Succeed(p) ==
  /\ outcome[p] = "running"
  /\ credentials = p
  /\ Becomes(p, "ok")
  /\ UNCHANGED <<control, credentials, client>>

Fail(p) ==
  /\ outcome[p] = "running"
  /\ Becomes(p, "failed")
  /\ UNCHANGED <<control, credentials, client>>

Next ==
  \E p \in Runs :
    \/ Start(p)
    \/ TearDown(p) \/ Create(p) \/ SetUpClient(p) \/ Complete(p)
    \/ Succeed(p) \/ Fail(p)

Spec == Init /\ [][Next]_vars

--------------------------------------------------------------------------------
\* Credentials are those of the control plane that runs, which the node's
\* kubectl talks to; and the last run to succeed is still the one installed
\* as long as no later one was started.
Consistent ==
  /\ credentials # None => credentials = control /\ client = control
  /\ \A p \in Runs :
       (outcome[p] = "ok" /\ \A q \in Runs : q > p => outcome[q] = "waiting") =>
         credentials = p
================================================================================
