----------------------------- MODULE PlanResources ------------------------------
(***************************************************************************)
(* The plans of pkg/plan/recipe and the resources of pkg/plan/resource     *)
(* that run kubectl: KubectlApply, KubectlWait and                         *)
(* KubectlAnnotateSingleNode, applied by the plan engine one at a time     *)
(* while the cluster goes on by itself: nodes join, controllers create     *)
(* what manifests ask for, and both take their time.                       *)
(*                                                                         *)
(* The plan that holds them is a caller's and external: it installs custom *)
(* resource definitions and waits until they are established, then the     *)
(* config maps and the addons, waits for what the addons start, and writes *)
(* down on the node what it has done.  Plans are run again after a failure *)
(* or a kill.  How a manifest gets to the node is in KubeadmInit in more   *)
(* detail; here making and writing the file are one step.                  *)
(***************************************************************************)
EXTENDS PlanGraph

CONSTANTS
  NumRuns,    \* how many times the plan is applied
  MaxFaults,  \* bound on failed commands, lost connections and kills
  ConfigMaps, \* names of config maps
  Addons,     \* names of addons
  Manifests,  \* Manifests[a]: how many manifests addon a has
  Nodes,      \* nodes that may join the cluster, and
  Seed        \* the one that is the cluster in the beginning

ASSUME PlanResourcesAssumption ==
  /\ NumRuns \in Nat /\ MaxFaults \in Nat
  /\ Manifests \in [Addons -> Nat]
  /\ Seed \in Nodes
  /\ {"none", "several"} \intersect Nodes = {} \* see NodeName

VARIABLES
  run,         \* how many runs have begun
  pc,          \* where the run is
  applied,     \* the resources it has applied
  current,     \* the one it is applying, None between two
  listed,      \* the nodes KubectlAnnotateSingleNode has listed
  err,         \* is the resource returning an error?
  reasons,     \* what happened that may make the run fail
  lost,        \* is the connection to the node lost, or the context cancelled?
  tmp,         \* temporary files on the node, by run and resource
  objects,     \* the manifests the cluster has
  established, \* are the custom resource definitions established?
  workload,    \* what KubectlWait waits for
  nodes,       \* the nodes of the cluster, and
  annotated,   \* those that have the annotation
  faults

local == <<applied, current, listed, err, reasons, lost>>
cluster == <<objects, established, workload, nodes, annotated>>
vars == <<run, pc, local, tmp, cluster, faults>>

--------------------------------------------------------------------------------
\* The plans.

\* BuildConfigMapPlan: resources without an edge between them.
ConfigMapPlan == [r \in {"config-map"} \X ConfigMaps |-> {}]

\* BuildAddonPlan: the manifests of an addon one after the other, addons in any
\* order.
AddonResources == UNION {{"addon"} \X {<<a, i>> : i \in 1 .. Manifests[a]} : a \in Addons}
AddonPlanFromZero ==
  [r \in UNION {{"addon"} \X {<<a, i>> : i \in 0 .. Manifests[a]} : a \in Addons} |->
     IF r[2][2] = 0 THEN {} ELSE {<<"addon", <<r[2][1], r[2][2] - 1>>>>}]
AddonPlanUnordered == [r \in AddonResources |-> {}]
AddonPlan ==
  [r \in AddonResources |->
     IF r[2][2] = 1 THEN {} ELSE {<<"addon", <<r[2][1], r[2][2] - 1>>>>}]

\* The caller's plan around them.
None == <<"none">>
CRDs == <<"crds">>
Wait == <<"wait">>
Annotate == <<"annotate">>

Resources ==
  DOMAIN ConfigMapPlan \union AddonResources \union {CRDs, Wait, Annotate}

Plan ==
  [r \in DOMAIN ConfigMapPlan \union DOMAIN AddonPlan \union {CRDs, Wait, Annotate} |->
     CASE r = CRDs -> {}
       [] r = Wait -> DOMAIN AddonPlan
       [] r = Annotate -> {CRDs}
       [] r \in DOMAIN ConfigMapPlan -> {CRDs} \union ConfigMapPlan[r]
       [] OTHER -> {CRDs} \union AddonPlan[r]]

Applies == Resources \ {Wait, Annotate}

\* Only the custom resource definitions have a WaitCondition.
HasWaitCondition(r) == r = CRDs

\* kubectl apply: a manifest may use the definitions and those before it.
Accepts(r) ==
  /\ r # CRDs => established
  /\ r[1] = "addon" => \A i \in 1 .. (r[2][2] - 1) : <<"addon", <<r[2][1], i>>>> \in objects

\* "kubectl get nodes -o name", trimmed: a name, nothing, or several lines.
NodeNameLast(l) ==
  IF l = {} THEN "none" ELSE CHOOSE n \in l : n # Seed \/ l = {Seed}
NodeName(l) ==
  IF l = {} THEN "none"
  ELSE IF Cardinality(l) > 1 THEN "several" ELSE CHOOSE n \in l : TRUE

\* kubectl annotate: there must be such a node, and if it has the annotation
\* already, with another value, it may refuse to overwrite it.
Annotatable(n) == n \in nodes
Refusable(n) == n \notin nodes \/ n \in annotated

--------------------------------------------------------------------------------
Ends == {"ok", "failed", "killed"}
Running == pc \notin Ends \union {"idle"}

Init ==
  /\ run = 0 /\ pc = "idle"
  /\ applied = {} /\ current = None /\ listed = {}
  /\ err = FALSE /\ reasons = {} /\ lost = FALSE
  /\ tmp = {}
  /\ objects = {} /\ established = FALSE /\ workload = "absent"
  /\ nodes = {} /\ annotated = {}
  /\ faults = 0

Fault ==
  /\ faults < MaxFaults
  /\ faults' = faults + 1

Goto(from, to) == pc = from /\ pc' = to

Begin ==
  /\ ~Running /\ run < NumRuns
  /\ run' = run + 1
  /\ pc' = "plan"
  /\ applied' = {} /\ current' = None /\ listed' = {}
  /\ err' = FALSE /\ reasons' = {} /\ lost' = FALSE
  /\ UNCHANGED <<tmp, cluster, faults>>

\* The engine takes a resource whose dependencies are applied.
Choose(r) ==
  /\ r \in Ready(Plan, applied)
  /\ Goto("plan", CASE r = Wait -> "get" [] r = Annotate -> "list" [] OTHER -> "content")
  /\ current' = r
  /\ UNCHANGED <<run, applied, listed, err, reasons, lost, tmp, cluster, faults>>

\* Every resource is applied.
Finish ==
  /\ Goto("plan", "ok")
  /\ applied = DOMAIN Plan
  /\ UNCHANGED <<run, local, tmp, cluster, faults>>

\* A resource has been applied; the engine goes on.
Applied ==
  /\ applied' = applied \union {current}
  /\ current' = None
  /\ UNCHANGED <<listed, err, reasons, lost>>

\* It returns an error for reason why, if any; the engine stops.
Error(why) ==
  /\ err' = TRUE
  /\ reasons' = reasons \union why
  /\ UNCHANGED <<applied, current, listed, lost>>

--------------------------------------------------------------------------------
\* KubectlApply.Apply and RunKubectlApply.

\* The manifest is read or fetched and given its namespace.
Content ==
  /\ Goto("content", "put")
  /\ UNCHANGED <<run, local, tmp, cluster, faults>>

MyFile == <<run, current>>

\* writeTempFile.
Put ==
  /\ ~lost
  /\ Goto("put", IF current = Annotate THEN "annotate" ELSE "apply")
  /\ tmp' = tmp \union {MyFile}
  /\ UNCHANGED <<run, local, cluster, faults>>

AfterApply(r) == IF HasWaitCondition(r) THEN "await" ELSE "rm"

\* The cluster takes the manifest, or kubectl reports an error.
KubectlApply ==
  /\ ~lost
  /\ Goto("apply", IF Accepts(current) THEN AfterApply(current) ELSE "rm")
  /\ IF Accepts(current)
       THEN objects' = objects \union {current} /\ UNCHANGED local
       ELSE Error({}) /\ UNCHANGED objects
  /\ UNCHANGED <<run, tmp, established, workload, nodes, annotated, faults>>

\* "kubectl wait", which gives up after 30 seconds.
Established ==
  /\ ~lost
  /\ Goto("await", "rm")
  /\ established
  /\ UNCHANGED <<run, local, tmp, cluster, faults>>

NotEstablished ==
  /\ ~lost
  /\ Goto("await", "rm")
  /\ ~established
  /\ Error({"timeout"})
  /\ UNCHANGED <<run, tmp, cluster, faults>>

\* The deferred rm, of KubectlApply and KubectlAnnotateSingleNode.
AfterRm == IF err THEN "failed" ELSE "plan"
FilesWithout(file) == tmp \ {file}
Rm ==
  /\ ~lost
  /\ Goto("rm", AfterRm)
  /\ tmp' = FilesWithout(MyFile)
  /\ IF err THEN UNCHANGED local ELSE Applied
  /\ UNCHANGED <<run, cluster, faults>>

--------------------------------------------------------------------------------
\* KubectlWait.Apply: it asks twice a second until there is something to wait
\* for, and then has kubectl wait for its condition.
Get ==
  /\ ~lost
  /\ Goto("get", "wait")
  /\ workload # "absent"
  /\ UNCHANGED <<run, local, tmp, cluster, faults>>

\* Nothing is there yet, or the question itself failed: it sleeps and asks
\* again, however often and whatever the error.
AskAgain ==
  /\ pc = "get"
  /\ lost \/ workload = "absent"
  /\ UNCHANGED vars

Waited ==
  /\ ~lost
  /\ Goto("wait", "plan")
  /\ workload = "ready"
  /\ Applied
  /\ UNCHANGED <<run, tmp, cluster, faults>>

AfterTimeoutAsking == "get"
AfterTimeout == "failed"
WaitTimesOut ==
  /\ ~lost
  /\ Goto("wait", AfterTimeout)
  /\ workload # "ready"
  /\ Error({"timeout"})
  /\ UNCHANGED <<run, tmp, cluster, faults>>

--------------------------------------------------------------------------------
\* KubectlAnnotateSingleNode.Apply.
List ==
  /\ ~lost
  /\ Goto("list", "put")
  /\ NodeName(nodes) # "several"
  /\ listed' = nodes
  /\ UNCHANGED <<run, applied, current, err, reasons, lost, tmp, cluster, faults>>

SeveralNodes ==
  /\ ~lost
  /\ Goto("list", "failed")
  /\ NodeName(nodes) = "several"
  /\ Error({"nodes"})
  /\ UNCHANGED <<run, tmp, cluster, faults>>

KubectlAnnotate ==
  /\ ~lost
  /\ Goto("annotate", "rm")
  /\ Annotatable(NodeName(listed))
  /\ annotated' = annotated \union {NodeName(listed)}
  /\ UNCHANGED <<run, local, tmp, objects, established, workload, nodes, faults>>

KubectlAnnotateRejects ==
  /\ ~lost
  /\ Goto("annotate", "rm")
  /\ Refusable(NodeName(listed))
  /\ Error({"nodes"})
  /\ UNCHANGED <<run, tmp, cluster, faults>>

--------------------------------------------------------------------------------
\* Failures.

\* Where a resource goes when the command of a stage reports an error.
AfterError(s) == IF s \in {"apply", "await", "annotate"} THEN "rm" ELSE "failed"
Effect(s) ==
  CASE s = "apply" /\ Accepts(current) ->
         /\ objects' \in {objects, objects \union {current}}
         /\ UNCHANGED <<established, workload, nodes, annotated>>
    [] s = "annotate" /\ Annotatable(NodeName(listed)) ->
         /\ annotated' \in {annotated, annotated \union {NodeName(listed)}}
         /\ UNCHANGED <<objects, established, workload, nodes>>
    [] OTHER -> UNCHANGED cluster

\* A command fails, whatever it did by then; getting the content may fail too.
\* An error of the get is not one: KubectlWait asks again.
CommandFails(s) ==
  /\ s \in {"content", "put", "apply", "await", "wait", "list", "annotate"}
  /\ Goto(s, AfterError(s))
  /\ Effect(s)
  /\ tmp' \in IF s = "put" THEN {tmp, tmp \union {MyFile}} ELSE {tmp}
  /\ Error({"fault"})
  /\ Fault
  /\ UNCHANGED run

\* The error of a deferred rm is ignored.
RmFails ==
  /\ Goto("rm", AfterRm)
  /\ IF err
       THEN reasons' = reasons \union {"fault"} /\ UNCHANGED <<applied, current>>
       ELSE applied' = applied \union {current} /\ current' = None
              /\ reasons' = reasons \union {"fault"}
  /\ Fault
  /\ UNCHANGED <<run, listed, err, lost, tmp, cluster>>

\* The connection is lost for good, or the context of the run is cancelled:
\* from now on every command reports an error.
Lose ==
  /\ Running /\ ~lost
  /\ lost' = TRUE
  /\ reasons' = reasons \union {"fault"}
  /\ Fault
  /\ UNCHANGED <<run, pc, applied, current, listed, err, tmp, cluster>>

LostCommand(s) ==
  /\ lost
  /\ s \in {"put", "apply", "await", "wait", "list", "annotate"}
  /\ Goto(s, AfterError(s))
  /\ Error({})
  /\ UNCHANGED <<run, tmp, cluster, faults>>

LostRm ==
  /\ lost
  /\ Goto("rm", AfterRm)
  /\ IF err THEN UNCHANGED local ELSE Applied
  /\ UNCHANGED <<run, tmp, cluster, faults>>

Kill ==
  /\ Running
  /\ pc' = "killed"
  /\ Fault
  /\ UNCHANGED <<run, local, tmp, cluster>>

--------------------------------------------------------------------------------
\* What the cluster does by itself, at any moment.
Join(n) ==
  /\ n \notin nodes
  /\ n # Seed => Seed \in nodes
  /\ nodes' = nodes \union {n}
  /\ UNCHANGED <<run, pc, local, tmp, objects, established, workload, annotated, faults>>

Establish ==
  /\ CRDs \in objects /\ ~established
  /\ established' = TRUE
  /\ UNCHANGED <<run, pc, local, tmp, objects, workload, nodes, annotated, faults>>

\* A controller starts what the addons ask for, and it becomes ready.
Start ==
  /\ workload = "absent"
  /\ AddonResources \subseteq objects
  /\ workload' = "started"
  /\ UNCHANGED <<run, pc, local, tmp, objects, established, nodes, annotated, faults>>

GetReady ==
  /\ workload = "started"
  /\ workload' = "ready"
  /\ UNCHANGED <<run, pc, local, tmp, objects, established, nodes, annotated, faults>>

Finished ==
  /\ ~Running /\ run = NumRuns
  /\ UNCHANGED vars

\* What a run does by itself.
Progress ==
  \/ \E r \in DOMAIN Plan : Choose(r)
  \/ Finish
  \/ Content \/ Put
  \/ KubectlApply \/ Established \/ NotEstablished \/ Rm
  \/ Get \/ Waited \/ WaitTimesOut
  \/ List \/ SeveralNodes \/ KubectlAnnotate \/ KubectlAnnotateRejects
  \/ \E s \in {"put", "apply", "await", "wait", "list", "annotate"} : LostCommand(s)
  \/ LostRm

Next ==
  \/ Begin
  \/ Progress
  \/ \E s \in {"content", "put", "apply", "await", "wait", "list", "annotate"} :
       CommandFails(s)
  \/ RmFails \/ Lose \/ Kill \/ AskAgain
  \/ \E n \in Nodes : Join(n)
  \/ Establish \/ Start \/ GetReady
  \/ Finished

Spec == Init /\ [][Next]_vars

\* A run that is not killed goes on.  Nothing is assumed of the cluster: it may
\* never create what a run waits for.
FairSpec == Spec /\ WF_vars(Progress)

--------------------------------------------------------------------------------
\* Properties.

\* Every variable has its type.
TypeOK ==
  /\ run \in 0 .. NumRuns
  /\ pc \in {"idle", "plan", "content", "put", "apply", "await", "rm", "get",
             "wait", "list", "annotate"} \union Ends
  /\ applied \subseteq Resources
  /\ current \in Resources \union {None}
  /\ listed \subseteq Nodes
  /\ err \in BOOLEAN /\ lost \in BOOLEAN /\ established \in BOOLEAN
  /\ reasons \subseteq {"fault", "timeout", "nodes"}
  /\ tmp \subseteq (1 .. NumRuns) \X (Applies \union {Annotate})
  /\ objects \subseteq Applies
  /\ workload \in {"absent", "started", "ready"}
  /\ nodes \subseteq Nodes /\ annotated \subseteq Nodes
  /\ faults \in 0 .. MaxFaults

\* A run that returns success has put every config map and every manifest of
\* every addon into the cluster, seen its workload ready and left its mark on
\* the node.  One that returns an error met a failure of a command, a timeout
\* or a cluster of another number of nodes than one: it never comes to that by
\* applying a manifest before those it needs (BuildAddonPlan, the
\* WaitCondition of KubectlApply).  Either way, if no command failed, no
\* manifest and no value of the annotation is left in a file on the node.
ReturnsForAReason ==
  /\ pc = "ok" =>
       /\ objects = Applies
       /\ workload = "ready"
       /\ annotated # {}
  /\ pc = "failed" => reasons # {}
  /\ pc \in {"ok", "failed"} /\ "fault" \notin reasons => \A f \in tmp : f[1] # run

\* The annotation describes the seed node and is on no other, whenever in the
\* run and between runs other nodes join (KubectlAnnotateSingleNode).
OnlySeedAnnotated == annotated \subseteq {Seed}

\* A run returns, unless it is in the loop of KubectlWait for good, waiting for
\* what never appears, or asking over a connection that is gone.
HangsOnlyInWait ==
  \/ []<>(~Running)
  \/ <>[](pc = "get" /\ (lost \/ workload = "absent"))
================================================================================
