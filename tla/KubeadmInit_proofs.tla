-------------------------- MODULE KubeadmInit_proofs --------------------------
(***************************************************************************)
(* Theorems about KubeadmInit, for every number of runs, every set of      *)
(* versions and every number of faults: the secret and the kubeconfig, the *)
(* files on the node, and what success means.                              *)
(***************************************************************************)
EXTENDS KubeadmInit, TLAPS

\* Applying a resource takes a well-formed node to a well-formed node.
LEMMA NodeAfterType ==
  ASSUME TypeOK, NEW p \in Runs, NEW r \in Resources
  PROVE  NodeAfter(p, r) \in NodeType
<1> USE DEF TypeOK, NodeType, NodeAfter, Gens, ConfigForms
<1>1. CASE r = "kubeadm:config:upgrade"
  BY <1>1
<1>2. CASE r = "kubeadm:reset"
  BY <1>2
<1>3. CASE r = "kubeadm:run-init"
  BY <1>3
<1>4. CASE r = "kubeadm:config:kubectl-dir"
  BY <1>4 DEF Place, Places
<1>5. CASE r = "kubeadm:config:copy"
  BY <1>5 DEF Place, Places
<1>6. CASE r \in {"configure:iptables", "kubeadm:config:images",
                  "kubeadm:get-homedir", "kubeadm:config:set-ownership"}
  BY <1>6
<1>7. QED
  BY <1>1, <1>2, <1>3, <1>4, <1>5, <1>6 DEF Resources

\* The files a run writes are well formed.
LEMMA FileTypes ==
  ASSUME TypeOK, NEW p \in Runs
  PROVE  /\ EmptyFile(p) \in TempFile
         /\ MyFile(p) \in TempFile
         /\ Writing(EmptyFile(p)) \subseteq TempFile
         /\ Writing(MyFile(p)) \subseteq TempFile
<1>1. MyPath(p) \in Gens \X (1 .. 3)
  BY DEF TypeOK, MyPath, TempPath, Gens
<1>2. EmptyFile(p) \in TempFile /\ MyFile(p) \in TempFile
  BY <1>1 DEF TypeOK, EmptyFile, MyFile, TempFile, Gens
<1>3. QED
  BY <1>2 DEF TypeOK, Writing

\* So is the node after kubectl applied a file.
LEMMA NodeWithType ==
  ASSUME TypeOK, NEW f \in tmp
  PROVE  NodeWith(f) \in NodeType
<1>1. f.path[2] \in 1 .. 3 /\ f.creds \in Gens
  BY DEF TypeOK, TempFile
<1>2. QED
  BY <1>1 DEF TypeOK, NodeWith, NodeType

--------------------------------------------------------------------------------
\* Type correctness, one step per group of actions that change the same things.
LEMMA TypeStep ==
  ASSUME TypeOK, [Next]_vars
  PROVE  TypeOK'
<1> USE KubeadmInitAssumption DEF Goto, NoFault, Fault, Unclean, remote, local
<1>1. ASSUME NEW p \in Runs, Begin(p) \/ BeginFails(p) \/ Crash(p)
      PROVE  TypeOK'
  BY <1>1 DEF TypeOK, Begin, BeginFails, Crash, Phases
<1>2. ASSUME NEW p \in Runs, UploadConfig(p) \/ UploadFails(p)
      PROVE  TypeOK'
  <2>1. node' \in NodeType
    BY <1>2 DEF TypeOK, UploadConfig, UploadFails, NodeType, ConfigForms, Gens
  <2>2. QED
    BY <1>2, <2>1 DEF TypeOK, UploadConfig, UploadFails, Phases
<1>3. ASSUME NEW p \in Runs, NEW r \in Resources,
             ApplyResource(p, r) \/ ResourceRejected(p, r) \/ ResourceFault(p, r)
      PROVE  TypeOK'
  <2>1. NodeAfter(p, r) \in NodeType
    BY NodeAfterType
  <2>2. CASE ApplyResource(p, r)
    <3>1. homedir' \in [Runs -> BOOLEAN]
      BY <2>2, Zenon DEF TypeOK, ApplyResource
    <3>2. QED
      BY <2>1, <2>2, <3>1 DEF TypeOK, ApplyResource, Gens
  <2>3. CASE ResourceRejected(p, r)
    BY <2>3 DEF TypeOK, ResourceRejected, Phases
  <2>4. CASE ResourceFault(p, r)
    <3>1. node' \in NodeType
      BY <2>1, <2>4 DEF TypeOK, ResourceFault, FaultEffect, NodeType, Gens
    <3>2. QED
      BY <2>4, <3>1 DEF TypeOK, ResourceFault, Phases
  <2>5. QED
    BY <1>3, <2>2, <2>3, <2>4
<1>4. ASSUME NEW p \in Runs, Extract(p) \/ ExtractFails(p)
      PROVE  TypeOK'
  <2>1. CASE Extract(p)
    BY <2>1 DEF TypeOK, Extract, Phases
  <2>2. CASE ExtractFails(p)
    BY <2>2 DEF TypeOK, ExtractFails, Phases
  <2>3. QED
    BY <1>4, <2>1, <2>2
<1>5. ASSUME NEW p \in Runs,
             \/ Mktemp(p) \/ MktempFails(p)
             \/ WriteManifest(p) \/ WriteManifestFails(p)
      PROVE  TypeOK'
  <2>1. tmp' \subseteq TempFile
    BY <1>5, FileTypes DEF TypeOK, Mktemp, MktempFails, WriteManifest, WriteManifestFails
  <2>2. CASE Mktemp(p) \/ WriteManifest(p)
    BY <2>1, <2>2 DEF TypeOK, Mktemp, WriteManifest, Phases
  <2>3. CASE MktempFails(p)
    BY <2>1, <2>3 DEF TypeOK, MktempFails, Phases
  <2>4. CASE WriteManifestFails(p)
    BY <2>1, <2>4 DEF TypeOK, WriteManifestFails, AfterFailedWrite, Phases
  <2>5. QED
    BY <1>5, <2>2, <2>3, <2>4
<1>6. ASSUME NEW p \in Runs, KubectlApply(p) \/ KubectlRejected(p) \/ KubectlFault(p)
      PROVE  TypeOK'
  <2>1. node' \in NodeType
    BY <1>6, NodeWithType DEF TypeOK, KubectlApply, KubectlRejected, KubectlFault
  <2>2. CASE KubectlApply(p)
    BY <2>1, <2>2 DEF TypeOK, KubectlApply, Phases
  <2>3. CASE KubectlRejected(p)
    BY <2>3 DEF TypeOK, KubectlRejected, Phases
  <2>4. CASE KubectlFault(p)
    BY <2>1, <2>4 DEF TypeOK, KubectlFault, Phases
  <2>5. QED
    BY <1>6, <2>2, <2>3, <2>4
<1>7. ASSUME NEW p \in Runs, RemoveTemp(p) \/ RemoveTempFails(p)
      PROVE  TypeOK'
  <2>1. step' \in [Runs -> 1 .. 3]
    BY <1>7 DEF TypeOK, RemoveTemp, RemoveTempFails, LastOrFailed, LastManifest
  <2>2. QED
    BY <1>7, <2>1 DEF TypeOK, RemoveTemp, RemoveTempFails, AfterRm, Phases
<1>8. ASSUME NEW p \in Runs, Cleanup(p) \/ CleanupFails(p)
      PROVE  TypeOK'
  <2>1. node' \in NodeType
    BY <1>8 DEF TypeOK, Cleanup, CleanupFails, ConfigRemoved, NodeType, ConfigForms, Gens
  <2>2. QED
    BY <1>8, <2>1 DEF TypeOK, Cleanup, CleanupFails, Phases
<1>9. CASE UNCHANGED vars
  BY <1>9 DEF TypeOK, vars
<1>10. QED
  BY <1>1, <1>2, <1>3, <1>4, <1>5, <1>6, <1>7, <1>8, <1>9
     DEF Next, Progress, Disturbance, Finished

\* The node starts without a cluster and without files.
LEMMA TypeInit == Init => TypeOK
BY KubeadmInitAssumption
   DEF Init, TypeOK, NodeType, ConfigForms, Places, Phases, Gens

\* Every variable keeps its type in every behaviour of the specification.
THEOREM TypeCorrect == Spec => []TypeOK
<1>1. Init => TypeOK
  BY TypeInit
<1>2. TypeOK /\ [Next]_vars => TypeOK'
  BY TypeStep
<1>3. QED
  BY <1>1, <1>2, PTL DEF Spec

--------------------------------------------------------------------------------
(***************************************************************************)
(* When runs do not overlap, SecretMatchesCluster and KubeconfigCurrent    *)
(* hold.  They are not inductive: that the credentials a run holds are     *)
(* those of the running control plane depends on what the run has applied  *)
(* so far, on the edges of its plan, and on no other run being active.     *)
(***************************************************************************)
Active(p) == pc[p] \notin Over \union {"idle"}

\* A run starts when those before it are over.
OneAtATime ==
  \A p \in Runs : \A q \in 1 .. (p - 1) : pc[p] # "idle" => pc[q] \in Over

\* A set of resources that holds everything its members depend on.
ClosedUnder(deps, done) == \A r \in done : deps[r] \subseteq done

\* Nothing is applied before the plan, and then only along its edges.
AlongEdges ==
  \A p \in Runs :
    /\ pc[p] \in {"idle", "upload"} => applied[p] = {}
    /\ ClosedUnder(InitDeps, applied[p])

\* What the applied resources of a run achieved is still so.
PlanProgress ==
  \A p \in Runs :
    pc[p] = "plan" =>
      /\ "kubeadm:get-homedir" \in applied[p] => homedir[p]
      /\ "kubeadm:run-init" \in applied[p] =>
           node.cluster = p /\ node.adminConf = p /\ output[p] = p
      /\ "kubeadm:config:copy" \in applied[p] => node.kubeconfig["home"] = p

Reaches(p) ==
  node.cluster = p /\ node.kubeconfig["home"] = p /\ output[p] = p

\* Once the plan is applied and as long as no error occurred, kubectl reaches
\* the control plane this run created, and the run holds its credentials.
Installed ==
  \A p \in Runs :
    (pc[p] \in {"mktemp", "write", "apply"} \/ (pc[p] = "rm" /\ ~err[p])) => Reaches(p)

\* A complete secret manifest holds the credentials of the run it belongs to.
OwnCredentials ==
  \A f \in tmp : f.full /\ f.path[2] = 3 => f.creds = f.path[1]

SafeInv ==
  /\ OneAtATime
  /\ AlongEdges
  /\ PlanProgress
  /\ Installed
  /\ OwnCredentials
  /\ SecretMatchesCluster

\* None marks what belongs to no run.
LEMMA NoneIsNoRun == ASSUME NEW p \in Runs PROVE p # None /\ p \in Nat
BY KubeadmInitAssumption DEF Runs, None

\* While one run is active, no other is.
LEMMA Alone ==
  ASSUME OneAtATime, NEW p \in Runs, Active(p), NEW q \in Runs, q # p
  PROVE  ~Active(q)
<1>1. p \in Int /\ q \in Int /\ p >= 1 /\ q >= 1
  BY KubeadmInitAssumption DEF Runs
<1>2. CASE q < p
  BY <1>1, <1>2 DEF OneAtATime, Active
<1>3. CASE p < q
  BY <1>1, <1>3 DEF OneAtATime, Active
<1>4. QED
  BY <1>1, <1>2, <1>3

\* A run that is active has those before it over.
LEMMA BeforeActive ==
  ASSUME OneAtATime, NEW p \in Runs, Active(p)
  PROVE  pc[p] \notin Over /\ \A q \in 1 .. (p - 1) : pc[q] \in Over
BY DEF OneAtATime, Active

\* A run that is not over has only idle ones after it and runs that are over
\* before it.
LEMMA Neighbours ==
  ASSUME OneAtATime, NEW p \in Runs, pc[p] \notin Over,
         \A q \in 1 .. (p - 1) : pc[q] \in Over,
         NEW q \in Runs, q # p
  PROVE  IF q > p THEN pc[q] = "idle" ELSE pc[q] \in Over
<1>1. p \in Int /\ q \in Int /\ p >= 1 /\ q >= 1
  BY KubeadmInitAssumption DEF Runs
<1>2. CASE q > p
  BY <1>1, <1>2 DEF OneAtATime
<1>3. CASE q < p
  BY <1>1, <1>3
<1>4. QED
  BY <1>1, <1>2, <1>3

\* A step of an active run that goes anywhere but back to idle keeps the order.
LEMMA OrderKept ==
  ASSUME TypeOK, OneAtATime, NEW p \in Runs, Active(p),
         NEW x \in Phases \ {"idle"}, pc' = [pc EXCEPT ![p] = x]
  PROVE  OneAtATime'
<1> SUFFICES ASSUME NEW a \in Runs, NEW b \in 1 .. (a - 1), pc'[a] # "idle"
             PROVE  pc'[b] \in Over
  BY DEF OneAtATime
<1>1. a \in Int /\ b \in Runs /\ b < a
  BY KubeadmInitAssumption DEF Runs
<1>2. CASE a = p
  BY <1>1, <1>2 DEF OneAtATime, TypeOK, Active
<1>3. CASE b = p
  BY <1>1, <1>3 DEF OneAtATime, TypeOK, Active
<1>4. CASE a # p /\ b # p
  BY <1>1, <1>4 DEF OneAtATime, TypeOK
<1>5. QED
  BY <1>2, <1>3, <1>4

\* What PlanProgress and Installed say of the runs other than the one that
\* takes the step holds after it because they are not active.
LEMMA OthersIdle ==
  ASSUME TypeOK, OneAtATime, NEW p \in Runs, Active(p), NEW q \in Runs, q # p,
         NEW x, pc' = [pc EXCEPT ![p] = x]
  PROVE  pc'[q] = pc[q] /\ pc'[q] \in Over \union {"idle"}
BY Alone DEF Active, TypeOK

\* The edges of the plan that the argument needs.
LEMMA Edges ==
  /\ DOMAIN InitDeps = Resources
  /\ InitDeps["kubeadm:config:images"] = {"kubeadm:reset"}
  /\ InitDeps["kubeadm:run-init"] = {"kubeadm:config:images"}
  /\ InitDeps["kubeadm:config:kubectl-dir"] = {"kubeadm:get-homedir"}
  /\ InitDeps["kubeadm:config:copy"] =
       {"kubeadm:run-init", "kubeadm:config:kubectl-dir"}
BY DEF InitDeps, Resources, DependsOn

\* Applying a ready resource keeps the applied set closed under the edges.
LEMMA ClosureKept ==
  ASSUME NEW deps, NEW done, ClosedUnder(deps, done), NEW r \in Ready(deps, done)
  PROVE  ClosedUnder(deps, done \union {r})
BY DEF ClosedUnder, Ready

\* A step that changes neither the applied sets nor the nodes' relevant parts,
\* and in which a run leaves for a phase of no commitment.
LEMMA AlongEdgesKept ==
  ASSUME TypeOK, AlongEdges, NEW p \in Runs, NEW x \in Phases \ {"idle", "upload"},
         pc' = [pc EXCEPT ![p] = x], UNCHANGED applied
  PROVE  AlongEdges'
BY DEF AlongEdges, TypeOK

\* A step to another phase than the plan keeps what the plan has done.
LEMMA PlanProgressKept ==
  ASSUME TypeOK, OneAtATime, PlanProgress, NEW p \in Runs, Active(p),
         NEW x \in Phases \ {"plan"}, pc' = [pc EXCEPT ![p] = x]
  PROVE  PlanProgress'
<1> SUFFICES ASSUME NEW q \in Runs, pc'[q] = "plan" PROVE FALSE
  BY DEF PlanProgress
<1>1. CASE q = p
  BY <1>1 DEF TypeOK
<1>2. CASE q # p
  BY <1>2, OthersIdle DEF Over
<1>3. QED
  BY <1>1, <1>2

\* A step of the run that is on keeps what a run that reaches manifests has installed.
LEMMA InstalledKept ==
  ASSUME TypeOK, OneAtATime, NEW p \in Runs, Active(p),
         NEW x \in Phases, pc' = [pc EXCEPT ![p] = x],
         (x \in {"mktemp", "write", "apply"} \/ (x = "rm" /\ ~err'[p])) => Reaches(p)'
  PROVE  Installed'
<1> SUFFICES ASSUME NEW q \in Runs,
                    pc'[q] \in {"mktemp", "write", "apply"} \/ (pc'[q] = "rm" /\ ~err'[q])
             PROVE  Reaches(q)'
  BY DEF Installed
<1>1. CASE q = p
  BY <1>1 DEF TypeOK
<1>2. CASE q # p
  BY <1>2, OthersIdle DEF Over
<1>3. QED
  BY <1>1, <1>2

\* The step in which a resource takes effect, whether or not its command then
\* reports it, keeps the secret and the cluster together: a reset removes both,
\* and "kubeadm init" runs when there is no cluster.
LEMMA SecretKeptByResource ==
  ASSUME TypeOK, SecretMatchesCluster, NEW p \in Runs, NEW r \in Resources,
         Succeeds(p, r), node' = NodeAfter(p, r)
  PROVE  SecretMatchesCluster'
<1> USE DEF SecretMatchesCluster, NodeAfter, Succeeds, TypeOK, NodeType
<1>1. CASE r = "kubeadm:reset"
  BY <1>1
<1>2. CASE r = "kubeadm:run-init"
  BY <1>2
<1>3. CASE r = "kubeadm:config:upgrade"
  BY <1>3
<1>4. CASE r \in Resources \ {"kubeadm:reset", "kubeadm:run-init", "kubeadm:config:upgrade"}
  BY <1>4 DEF Resources
<1>5. QED
  BY <1>1, <1>2, <1>3, <1>4

\* The resources that ApplyResource may apply, and what it does to the plan.
LEMMA PlanProgressByResource ==
  ASSUME TypeOK, ~Overlap, SafeInv, NEW p \in Runs, NEW r \in Resources,
         ApplyResource(p, r)
  PROVE  PlanProgress'
<1> SUFFICES ASSUME NEW q \in Runs, pc'[q] = "plan"
             PROVE  /\ "kubeadm:get-homedir" \in applied'[q] => homedir'[q]
                    /\ "kubeadm:run-init" \in applied'[q] =>
                         /\ node'.cluster = q
                         /\ node'.adminConf = q
                         /\ output'[q] = q
                    /\ "kubeadm:config:copy" \in applied'[q] =>
                         node'.kubeconfig["home"] = q
  BY DEF PlanProgress
<1>1. pc[p] = "plan" /\ Active(p) /\ q = p
  BY Alone DEF ApplyResource, SafeInv, Active, Over
<1>2. /\ applied'[p] = applied[p] \union {r}
      /\ output'[p] = IF r = "kubeadm:run-init" THEN p ELSE output[p]
      /\ node' = NodeAfter(p, r)
      /\ r \in Ready(InitDeps, applied[p])
      /\ Succeeds(p, r)
  BY DEF ApplyResource, TypeOK
<1>3. homedir'[p] = (homedir[p] \/ r = "kubeadm:get-homedir")
  BY Zenon DEF ApplyResource, TypeOK
<1>4. /\ r \notin applied[p]
      /\ InitDeps[r] \subseteq applied[p]
      /\ ClosedUnder(InitDeps, applied[p])
  BY <1>2 DEF Ready, SafeInv, AlongEdges
<1>5. "kubeadm:get-homedir" \in applied'[p] => homedir'[p]
  BY <1>1, <1>2, <1>3, Zenon DEF SafeInv, PlanProgress
<1>6. "kubeadm:run-init" \in applied[p] =>
        r \notin {"kubeadm:reset", "kubeadm:run-init"}
  BY <1>4, Edges DEF ClosedUnder
<1>7. "kubeadm:run-init" \in applied'[p] =>
        node'.cluster = p /\ node'.adminConf = p /\ output'[p] = p
  <2>1. CASE r = "kubeadm:run-init"
    BY <1>2, <2>1 DEF NodeAfter, TypeOK, NodeType
  <2>2. CASE r # "kubeadm:run-init" /\ "kubeadm:run-init" \in applied[p]
    <3>1. node.cluster = p /\ node.adminConf = p /\ output[p] = p
      BY <1>1, <2>2 DEF SafeInv, PlanProgress
    <3>2. node'.cluster = node.cluster /\ node'.adminConf = node.adminConf
      BY <1>2, <1>6, <2>2 DEF NodeAfter, TypeOK, NodeType
    <3>3. QED
      BY <1>2, <2>2, <3>1, <3>2
  <2>3. QED
    BY <1>2, <2>1, <2>2
<1>8. "kubeadm:config:copy" \in applied'[p] => node'.kubeconfig["home"] = p
  <2>1. CASE r = "kubeadm:config:copy"
    <3>1. node.adminConf = p
      BY <1>1, <1>4, <2>1, Edges DEF SafeInv, PlanProgress
    <3>2. "kubeadm:get-homedir" \in applied[p]
      BY <1>4, <2>1, Edges DEF ClosedUnder
    <3>3. homedir[p]
      BY <1>1, <3>2 DEF SafeInv, PlanProgress
    <3>4. QED
      BY <1>2, <2>1, <3>1, <3>3 DEF NodeAfter, Place, Places, TypeOK, NodeType
  <2>2. CASE r # "kubeadm:config:copy" /\ "kubeadm:config:copy" \in applied[p]
    <3>1. node.kubeconfig["home"] = p
      BY <1>1, <2>2 DEF SafeInv, PlanProgress
    <3>2. node'.kubeconfig = node.kubeconfig
      BY <1>2, <2>2 DEF NodeAfter, TypeOK, NodeType
    <3>3. QED
      BY <3>1, <3>2
  <2>3. QED
    BY <1>2, <2>1, <2>2
<1>9. QED
  BY <1>1, <1>5, <1>7, <1>8

\* A step of an active run that changes only pc, and files or the uploaded
\* configuration, keeps what SecretMatchesCluster speaks of.
LEMMA SecretKept ==
  ASSUME SecretMatchesCluster,
         UNCHANGED <<node.objects, node.secret, node.cluster>>
  PROVE  SecretMatchesCluster'
BY DEF SecretMatchesCluster

\* A run starts.
LEMMA StartKeepsSafeInv ==
  ASSUME TypeOK, ~Overlap, SafeInv, NEW p \in Runs, Begin(p) \/ BeginFails(p)
  PROVE  SafeInv'
<1> DEFINE x == pc'[p]
<1>1. /\ pc[p] = "idle" /\ x \in {"upload", "failed"}
      /\ pc' = [pc EXCEPT ![p] = x]
      /\ \A q \in 1 .. (p - 1) : pc[q] \in Over
      /\ UNCHANGED <<node, tmp, applied, output, homedir, step, err>>
  BY DEF Begin, BeginFails, Goto, remote, TypeOK
<1>2. OneAtATime'
  <2> SUFFICES ASSUME NEW a \in Runs, NEW b \in 1 .. (a - 1), pc'[a] # "idle"
               PROVE  pc'[b] \in Over
    BY DEF OneAtATime
  <2>1. b \in Runs /\ b < a
    BY KubeadmInitAssumption DEF Runs
  <2>2. CASE a = p
    BY <1>1, <2>1, <2>2 DEF TypeOK
  <2>3. CASE a # p
    BY <1>1, <2>1, <2>3 DEF TypeOK, SafeInv, OneAtATime, Over
  <2>4. QED
    BY <2>2, <2>3
<1>3. AlongEdges'
  BY <1>1 DEF SafeInv, AlongEdges, TypeOK
<1>4. PlanProgress' /\ Installed'
  BY <1>1 DEF SafeInv, PlanProgress, Installed, Reaches, TypeOK
<1>5. OwnCredentials' /\ SecretMatchesCluster'
  BY <1>1 DEF SafeInv, OwnCredentials, SecretMatchesCluster
<1>6. QED
  BY <1>2, <1>3, <1>4, <1>5 DEF SafeInv

\* The upload of the configuration, with which the plan starts.
LEMMA UploadKeepsSafeInv ==
  ASSUME TypeOK, ~Overlap, SafeInv, NEW p \in Runs, UploadConfig(p) \/ UploadFails(p)
  PROVE  SafeInv'
<1> DEFINE x == pc'[p]
<1>1. /\ pc[p] = "upload" /\ Active(p) /\ x \in {"plan", "failed"}
      /\ pc' = [pc EXCEPT ![p] = x]
      /\ UNCHANGED <<tmp, applied, output, homedir, step, err>>
  BY DEF UploadConfig, UploadFails, Goto, TypeOK, Active, Over
<1>2. \E c : node' = [node EXCEPT !.config = c]
  BY DEF UploadConfig, UploadFails
<1>3. UNCHANGED <<node.objects, node.secret, node.cluster>>
  BY <1>2 DEF TypeOK, NodeType
<1>4. OneAtATime' /\ AlongEdges'
  BY <1>1, OrderKept, AlongEdgesKept DEF SafeInv, Phases
<1>5. PlanProgress'
  <2> SUFFICES ASSUME NEW q \in Runs, pc'[q] = "plan" PROVE applied'[q] = {}
    BY DEF PlanProgress
  <2>1. q = p
    BY <1>1, OthersIdle DEF SafeInv, Over
  <2>2. QED
    BY <1>1, <2>1 DEF SafeInv, AlongEdges
<1>6. Installed'
  BY <1>1, InstalledKept DEF SafeInv, Phases
<1>7. OwnCredentials' /\ SecretMatchesCluster'
  BY <1>1, <1>3, SecretKept DEF SafeInv, OwnCredentials
<1>8. QED
  BY <1>4, <1>5, <1>6, <1>7 DEF SafeInv

\* The plan: a resource is applied, or its command fails.
LEMMA ResourceKeepsSafeInv ==
  ASSUME TypeOK, ~Overlap, SafeInv, NEW p \in Runs, NEW r \in Resources,
         ApplyResource(p, r) \/ ResourceRejected(p, r) \/ ResourceFault(p, r)
  PROVE  SafeInv'
<1>1. CASE ApplyResource(p, r)
  <2>1. /\ pc[p] = "plan" /\ UNCHANGED <<pc, tmp, err>>
        /\ applied' = [applied EXCEPT ![p] = applied[p] \union {r}]
        /\ r \in Ready(InitDeps, applied[p])
        /\ Succeeds(p, r) /\ node' = NodeAfter(p, r)
    BY <1>1 DEF ApplyResource
  <2>2. OneAtATime' /\ OwnCredentials'
    BY <2>1 DEF SafeInv, OneAtATime, OwnCredentials
  <2>3. AlongEdges'
    <3> SUFFICES ASSUME NEW q \in Runs
                 PROVE  /\ pc'[q] \in {"idle", "upload"} => applied'[q] = {}
                        /\ ClosedUnder(InitDeps, applied'[q])
      BY DEF AlongEdges, ClosedUnder
    <3>1. CASE q = p
      BY <2>1, <3>1, ClosureKept DEF SafeInv, AlongEdges, TypeOK
    <3>2. CASE q # p
      BY <2>1, <3>2 DEF SafeInv, AlongEdges, TypeOK
    <3>3. QED
      BY <3>1, <3>2
  <2>4. Installed'
    <3> SUFFICES ASSUME NEW q \in Runs, pc[q] \in {"mktemp", "write", "apply", "rm"}
                 PROVE  FALSE
      BY <2>1 DEF Installed
    <3>1. q # p /\ Active(p) /\ Active(q)
      BY <2>1 DEF Active, Over
    <3>2. QED
      BY <3>1, Alone DEF SafeInv
  <2>5. QED
    BY <1>1, <2>1, <2>2, <2>3, <2>4, PlanProgressByResource, SecretKeptByResource DEF SafeInv
<1>2. CASE ResourceRejected(p, r) \/ ResourceFault(p, r)
  <2>1. /\ Active(p) /\ pc' = [pc EXCEPT ![p] = "cleanup"]
        /\ UNCHANGED <<tmp, applied>>
    BY <1>2 DEF ResourceRejected, ResourceFault, Goto, remote, Active, Over
  <2>2. OneAtATime' /\ AlongEdges' /\ PlanProgress' /\ Installed'
    BY <2>1, OrderKept, AlongEdgesKept, PlanProgressKept, InstalledKept DEF SafeInv, Phases
  <2>3. SecretMatchesCluster'
    <3>1. CASE Succeeds(p, r) /\ node' = NodeAfter(p, r)
      BY <3>1, SecretKeptByResource DEF SafeInv
    <3>2. CASE UNCHANGED node \/ node' = [node EXCEPT !.upgraded = p]
      BY <3>2 DEF SafeInv, SecretMatchesCluster, TypeOK, NodeType
    <3>3. QED
      BY <1>2, <3>1, <3>2 DEF ResourceRejected, ResourceFault, FaultEffect, remote
  <2>4. QED
    BY <2>1, <2>2, <2>3 DEF SafeInv, OwnCredentials
<1>3. QED
  BY <1>1, <1>2

\* The steps after which the run has nothing left to promise.
LEMMA GivingUpKeepsSafeInv ==
  ASSUME TypeOK, ~Overlap, SafeInv, NEW p \in Runs,
         ExtractFails(p) \/ MktempFails(p) \/ Cleanup(p) \/ CleanupFails(p) \/ Crash(p)
  PROVE  SafeInv'
<1> DEFINE x == pc'[p]
<1>1. /\ Active(p) /\ x \in Over \union {"cleanup"}
      /\ pc' = [pc EXCEPT ![p] = x] /\ UNCHANGED applied
  BY DEF ExtractFails, MktempFails, Cleanup, CleanupFails, Crash, Goto, TypeOK, Active, Over
<1>2. OneAtATime' /\ AlongEdges' /\ PlanProgress' /\ Installed'
  BY <1>1, OrderKept, AlongEdgesKept, PlanProgressKept, InstalledKept DEF SafeInv, Phases, Over
<1>3. SecretMatchesCluster'
  BY SecretKept DEF ExtractFails, MktempFails, Cleanup, CleanupFails, Crash, ConfigRemoved,
                    remote, SafeInv, TypeOK, NodeType
<1>4. OwnCredentials'
  BY DEF ExtractFails, MktempFails, Cleanup, CleanupFails, Crash, remote, SafeInv,
         OwnCredentials, Writing, EmptyFile
<1>5. QED
  BY <1>2, <1>3, <1>4 DEF SafeInv

\* The plan is complete, and its output is read.
LEMMA ExtractKeepsSafeInv ==
  ASSUME TypeOK, ~Overlap, SafeInv, NEW p \in Runs, Extract(p)
  PROVE  SafeInv'
<1>1. /\ pc[p] = "plan" /\ Active(p) /\ applied[p] = Resources
      /\ pc' = [pc EXCEPT ![p] = "mktemp"]
      /\ UNCHANGED <<node, tmp, applied, output, err>>
  BY DEF Extract, Goto, remote, Active, Over
<1>2. Reaches(p)'
  BY <1>1 DEF SafeInv, PlanProgress, Reaches, Resources
<1>3. OneAtATime' /\ AlongEdges' /\ PlanProgress' /\ Installed'
  BY <1>1, <1>2, OrderKept, AlongEdgesKept, PlanProgressKept, InstalledKept DEF SafeInv, Phases
<1>4. QED
  BY <1>1, <1>3 DEF SafeInv, OwnCredentials, SecretMatchesCluster

\* The temporary file is made, written and removed.
LEMMA FileKeepsSafeInv ==
  ASSUME TypeOK, ~Overlap, SafeInv, NEW p \in Runs,
         \/ Mktemp(p) \/ WriteManifest(p) \/ WriteManifestFails(p)
         \/ RemoveTemp(p) \/ RemoveTempFails(p)
  PROVE  SafeInv'
<1> DEFINE x == pc'[p]
<1>1. /\ Active(p) /\ x \in {"write", "apply", "rm", "mktemp", "cleanup"}
      /\ pc' = [pc EXCEPT ![p] = x]
      /\ UNCHANGED <<node, applied, output>>
  BY DEF Mktemp, WriteManifest, WriteManifestFails, AfterFailedWrite, RemoveTemp,
         RemoveTempFails, AfterRm, Goto, remote, TypeOK, Active, Over
<1>2. OneAtATime' /\ AlongEdges' /\ PlanProgress'
  BY <1>1, OrderKept, AlongEdgesKept, PlanProgressKept DEF SafeInv, Phases
<1>3. (x \in {"mktemp", "write", "apply"} \/ (x = "rm" /\ ~err'[p])) => Reaches(p)'
  <2>1. CASE Mktemp(p) \/ WriteManifest(p)
    BY <1>1, <2>1 DEF Mktemp, WriteManifest, Goto, SafeInv, Installed, Reaches
  <2>2. CASE WriteManifestFails(p)
    BY <2>2 DEF WriteManifestFails, AfterFailedWrite, Goto, TypeOK
  <2>3. CASE RemoveTemp(p) \/ RemoveTempFails(p)
    <3>1. pc[p] = "rm" /\ x = AfterRm(p)
      BY <2>3 DEF RemoveTemp, RemoveTempFails, Goto, TypeOK
    <3>2. CASE err[p]
      BY <3>1, <3>2 DEF AfterRm, LastOrFailed
    <3>3. CASE ~err[p]
      BY <1>1, <3>1, <3>3 DEF SafeInv, Installed, Reaches
    <3>4. QED
      BY <3>2, <3>3
  <2>4. QED
    BY <2>1, <2>2, <2>3
<1>4. Installed'
  BY <1>1, <1>3, InstalledKept DEF SafeInv, Phases
<1>5. OwnCredentials'
  <2>1. CASE RemoveTemp(p) \/ RemoveTempFails(p)
    BY <2>1 DEF RemoveTemp, RemoveTempFails, remote, SafeInv, OwnCredentials
  <2>2. CASE Mktemp(p)
    BY <2>2 DEF Mktemp, Writing, EmptyFile, SafeInv, OwnCredentials
  <2>3. CASE WriteManifest(p) \/ WriteManifestFails(p)
    <3>1. output[p] = p
      BY <2>3 DEF WriteManifest, WriteManifestFails, Goto, SafeInv, Installed, Reaches
    <3>2. QED
      BY <2>3, <3>1 DEF WriteManifest, WriteManifestFails, Writing, EmptyFile, MyFile,
                        MyPath, TempPath, SafeInv, OwnCredentials
  <2>4. QED
    BY <2>1, <2>2, <2>3
<1>6. QED
  BY <1>1, <1>2, <1>4, <1>5 DEF SafeInv, SecretMatchesCluster

\* kubectl applies the file, is rejected, or fails halfway.
LEMMA KubectlKeepsSafeInv ==
  ASSUME TypeOK, ~Overlap, SafeInv, NEW p \in Runs,
         KubectlApply(p) \/ KubectlRejected(p) \/ KubectlFault(p)
  PROVE  SafeInv'
<1>1. /\ pc[p] = "apply" /\ Active(p) /\ Reaches(p)
      /\ pc' = [pc EXCEPT ![p] = "rm"]
      /\ UNCHANGED <<tmp, applied, output>>
  BY DEF KubectlApply, KubectlRejected, KubectlFault, Goto, remote, SafeInv, Installed,
         Active, Over
<1>2. \/ UNCHANGED node
      \/ \E f \in tmp : f.path = MyPath(p) /\ Applies(f) /\ node' = NodeWith(f)
  BY DEF KubectlApply, KubectlRejected, KubectlFault, remote
<1>3. UNCHANGED <<node.cluster, node.kubeconfig>>
  BY <1>2 DEF NodeWith, TypeOK, NodeType
<1>4. SecretMatchesCluster'
  <2>1. CASE UNCHANGED node
    BY <2>1 DEF SafeInv, SecretMatchesCluster
  <2>2. CASE \E f \in tmp : f.path = MyPath(p) /\ Applies(f) /\ node' = NodeWith(f)
    <3>1. PICK f \in tmp : f.path = MyPath(p) /\ Applies(f) /\ node' = NodeWith(f)
      BY <2>2
    <3>2. CASE f.path[2] = 3
      <4>1. f.creds = p
        BY <3>1, <3>2 DEF Applies, SafeInv, OwnCredentials, MyPath, TempPath
      <4>2. node'.secret = p
        BY <3>1, <3>2, <4>1 DEF NodeWith, TypeOK, NodeType
      <4>3. QED
        BY <1>1, <1>3, <4>2, NoneIsNoRun DEF SecretMatchesCluster, Reaches
    <3>3. CASE f.path[2] # 3
      BY <3>1, <3>3 DEF SafeInv, SecretMatchesCluster, NodeWith, TypeOK, NodeType
    <3>4. QED
      BY <3>2, <3>3
  <2>3. QED
    BY <1>2, <2>1, <2>2
<1>5. Reaches(p)'
  BY <1>1, <1>3 DEF Reaches
<1>6. OneAtATime' /\ AlongEdges' /\ PlanProgress' /\ Installed'
  BY <1>1, <1>5, OrderKept, AlongEdgesKept, PlanProgressKept, InstalledKept DEF SafeInv, Phases
<1>7. QED
  BY <1>1, <1>4, <1>6 DEF SafeInv, OwnCredentials

\* The invariant holds of the empty node.
LEMMA SafeInit == Init => SafeInv
BY KubeadmInitAssumption
   DEF Init, SafeInv, OneAtATime, AlongEdges, ClosedUnder, PlanProgress, Installed,
       OwnCredentials, SecretMatchesCluster

\* Every step preserves the invariant as long as runs do not overlap.
LEMMA SafeStep ==
  ASSUME TypeOK, ~Overlap, SafeInv, [Next]_vars
  PROVE  SafeInv'
<1>1. CASE UNCHANGED vars
  BY <1>1 DEF vars, remote, local, SafeInv, OneAtATime, AlongEdges, PlanProgress, Installed,
              Reaches, OwnCredentials, SecretMatchesCluster
<1>2. ASSUME NEW p \in Runs, Begin(p) \/ Progress(p) \/ Disturbance(p)
      PROVE  SafeInv'
  BY <1>2, StartKeepsSafeInv, UploadKeepsSafeInv, ResourceKeepsSafeInv, GivingUpKeepsSafeInv,
     ExtractKeepsSafeInv, FileKeepsSafeInv, KubectlKeepsSafeInv
     DEF Progress, Disturbance
<1>3. QED
  BY <1>1, <1>2 DEF Next, Finished

\* Whatever faults and crashes happen, the secret in the running cluster holds
\* the credentials of that cluster, if runs of wksctl do not overlap.
THEOREM SecretAlwaysMatches ==
  ASSUME ~Overlap
  PROVE  Spec => []SecretMatchesCluster
<1>1. Init => SafeInv
  BY SafeInit
<1>2. TypeOK /\ SafeInv /\ [Next]_vars => SafeInv'
  BY SafeStep
<1>3. SafeInv => SecretMatchesCluster
  BY DEF SafeInv
<1>4. QED
  BY <1>1, <1>2, <1>3, TypeCorrect, PTL DEF Spec

\* Under the same condition kubectl always reaches the control plane the run
\* itself created.
THEOREM KubeconfigAlwaysCurrent ==
  ASSUME ~Overlap
  PROVE  Spec => []KubeconfigCurrent
<1>1. Init => SafeInv
  BY SafeInit
<1>2. TypeOK /\ SafeInv /\ [Next]_vars => SafeInv'
  BY SafeStep
<1>3. SafeInv => KubeconfigCurrent
  BY DEF SafeInv, Installed, Reaches, KubeconfigCurrent
<1>4. QED
  BY <1>1, <1>2, <1>3, TypeCorrect, PTL DEF Spec

--------------------------------------------------------------------------------
(***************************************************************************)
(* Files on the node: manifests in temporary files, of runs that may       *)
(* overlap, and the configuration, of runs that take turns.                *)
(***************************************************************************)

\* A temporary file belongs to a run that is past its plan, and to the manifest
\* that run is applying unless it was killed or could not make or remove a file.
\* What it holds of credentials are those of its run.
FilesInv ==
  \A f \in tmp :
    /\ f.path[1] \in Runs
    /\ pc[f.path[1]] \notin {"idle", "upload", "plan"}
    /\ \/ f.path[1] \in unclean
       \/ pc[f.path[1]] = "crashed"
       \/ pc[f.path[1]] \in {"write", "apply", "rm"} /\ f.path[2] = step[f.path[1]]
    /\ f.full /\ f.path[2] = 3 => f.creds = output[f.path[1]]

\* Up to the end of the plan a run has no file.
LEMMA FilesKeptBefore ==
  ASSUME TypeOK, FilesInv, NEW p \in Runs, pc[p] \in {"idle", "upload", "plan"},
         UNCHANGED tmp, unclean \subseteq unclean',
         \A q \in Runs \ {p} :
           pc'[q] = pc[q] /\ step'[q] = step[q] /\ output'[q] = output[q]
  PROVE  FilesInv'
<1> SUFFICES ASSUME NEW f \in tmp, f.path[1] # p
             PROVE  /\ pc'[f.path[1]] = pc[f.path[1]]
                    /\ step'[f.path[1]] = step[f.path[1]]
                    /\ output'[f.path[1]] = output[f.path[1]]
  BY DEF FilesInv
<1>1. QED
  BY DEF FilesInv

\* A step that makes no file of a run past its plan.
LEMMA FilesKeptAfter ==
  ASSUME TypeOK, FilesInv, NEW p \in Runs, tmp' \subseteq tmp,
         unclean \subseteq unclean', UNCHANGED output,
         NEW x \in Phases \ {"idle", "upload", "plan"}, pc' = [pc EXCEPT ![p] = x],
         \A q \in Runs \ {p} : step'[q] = step[q],
         \A f \in tmp' : f.path[1] = p =>
           \/ p \in unclean' \/ x = "crashed"
           \/ x \in {"write", "apply", "rm"} /\ f.path[2] = step'[p]
  PROVE  FilesInv'
<1> SUFFICES ASSUME NEW f \in tmp', f \in tmp
             PROVE  /\ pc'[f.path[1]] \notin {"idle", "upload", "plan"}
                    /\ \/ f.path[1] \in unclean'
                       \/ pc'[f.path[1]] = "crashed"
                       \/ /\ pc'[f.path[1]] \in {"write", "apply", "rm"}
                          /\ f.path[2] = step'[f.path[1]]
  BY DEF FilesInv
<1>1. CASE f.path[1] = p
  BY <1>1 DEF TypeOK
<1>2. CASE f.path[1] # p
  BY <1>2 DEF FilesInv, TypeOK
<1>3. QED
  BY <1>1, <1>2

\* The run writes its current file, or what it can of it.
LEMMA FilesKeptByWriting ==
  ASSUME TypeOK, FilesInv, NEW p \in Runs,
         NEW f \in {EmptyFile(p), MyFile(p)}, tmp' = Writing(f) \/ tmp' = tmp,
         UNCHANGED <<output, step>>, unclean \subseteq unclean',
         NEW x \in Phases, pc' = [pc EXCEPT ![p] = x],
         x \in {"write", "apply", "rm"} \/ (x = "cleanup" /\ p \in unclean'),
         \A g \in tmp : g.path[1] = p => p \in unclean' \/ g.path[2] = step[p]
  PROVE  FilesInv'
<1>1. f.path = <<p, step[p]>> /\ (f.full /\ f.path[2] = 3 => f.creds = output[p])
  BY DEF EmptyFile, MyFile, MyPath, TempPath
<1>2. pc'[p] = x /\ \A q \in Runs \ {p} : pc'[q] = pc[q]
  BY DEF TypeOK
<1>3. ASSUME NEW g \in tmp
      PROVE  /\ g.path[1] \in Runs
             /\ pc'[g.path[1]] \notin {"idle", "upload", "plan"}
             /\ \/ g.path[1] \in unclean'
                \/ pc'[g.path[1]] = "crashed"
                \/ /\ pc'[g.path[1]] \in {"write", "apply", "rm"}
                   /\ g.path[2] = step'[g.path[1]]
             /\ g.full /\ g.path[2] = 3 => g.creds = output'[g.path[1]]
  <2>1. CASE g.path[1] = p
    BY <1>2, <1>3, <2>1 DEF FilesInv
  <2>2. CASE g.path[1] # p
    BY <1>2, <1>3, <2>2 DEF FilesInv
  <2>3. QED
    BY <2>1, <2>2
<1>4. tmp' \subseteq tmp \union {f}
  BY DEF Writing
<1>5. QED
  BY <1>1, <1>2, <1>3, <1>4 DEF FilesInv

\* The steps up to the end of the plan.
LEMMA PlanKeepsFilesInv ==
  ASSUME TypeOK, FilesInv, NEW p \in Runs,
         \/ Begin(p) \/ BeginFails(p) \/ UploadConfig(p) \/ UploadFails(p)
         \/ Extract(p) \/ ExtractFails(p)
         \/ \E r \in Resources :
              ApplyResource(p, r) \/ ResourceRejected(p, r) \/ ResourceFault(p, r)
  PROVE  FilesInv'
<1>1. pc[p] \in {"idle", "upload", "plan"} /\ UNCHANGED <<tmp, step>>
  BY DEF Begin, BeginFails, UploadConfig, UploadFails, Extract, ExtractFails,
         ApplyResource, ResourceRejected, ResourceFault, Goto, remote
<1>2. unclean \subseteq unclean'
  BY DEF Begin, BeginFails, UploadConfig, UploadFails, Extract, ExtractFails,
         ApplyResource, ResourceRejected, ResourceFault, Unclean
<1>3. \A q \in Runs \ {p} : pc'[q] = pc[q] /\ output'[q] = output[q]
  BY DEF Begin, BeginFails, UploadConfig, UploadFails, Extract, ExtractFails,
         ApplyResource, ResourceRejected, ResourceFault, Goto, TypeOK
<1>4. QED
  BY <1>1, <1>2, <1>3, FilesKeptBefore

\* The steps that make files and write them.
LEMMA WritingKeepsFilesInv ==
  ASSUME TypeOK, FilesInv, NEW p \in Runs,
         Mktemp(p) \/ MktempFails(p) \/ WriteManifest(p) \/ WriteManifestFails(p)
  PROVE  FilesInv'
<1> DEFINE x == pc'[p]
<1>1. /\ pc[p] \in {"mktemp", "write"} /\ pc' = [pc EXCEPT ![p] = x]
      /\ x \in {"write", "apply", "rm"} \/ (x = "cleanup" /\ p \in unclean')
      /\ UNCHANGED <<output, step>> /\ unclean \subseteq unclean'
  BY DEF Mktemp, MktempFails, WriteManifest, WriteManifestFails, AfterFailedWrite, Goto,
         Unclean, TypeOK
<1>2. \A g \in tmp : g.path[1] = p => p \in unclean' \/ g.path[2] = step[p]
  BY <1>1 DEF FilesInv
<1>3. \E f \in {EmptyFile(p), MyFile(p)} : tmp' = Writing(f) \/ tmp' = tmp
  BY DEF Mktemp, MktempFails, WriteManifest, WriteManifestFails
<1>4. QED
  BY <1>1, <1>2, <1>3, FilesKeptByWriting DEF Phases

\* The steps that apply a file, remove it, or end the run.
LEMMA EndKeepsFilesInv ==
  ASSUME TypeOK, FilesInv, NEW p \in Runs,
         \/ KubectlApply(p) \/ KubectlRejected(p) \/ KubectlFault(p)
         \/ RemoveTemp(p) \/ RemoveTempFails(p)
         \/ Cleanup(p) \/ CleanupFails(p) \/ Crash(p)
  PROVE  FilesInv'
<1> DEFINE x == pc'[p]
<1>1. /\ pc' = [pc EXCEPT ![p] = x] /\ x \in Phases \ {"idle", "upload", "plan"}
      /\ UNCHANGED output /\ unclean \subseteq unclean' /\ tmp' \subseteq tmp
      /\ \A q \in Runs \ {p} : step'[q] = step[q]
  BY DEF KubectlApply, KubectlRejected, KubectlFault, RemoveTemp, RemoveTempFails, AfterRm,
         Cleanup, CleanupFails, Crash, Goto, Unclean, remote, TypeOK, Phases
<1>2. ASSUME NEW f \in tmp', f.path[1] = p
      PROVE  \/ p \in unclean' \/ x = "crashed"
             \/ x \in {"write", "apply", "rm"} /\ f.path[2] = step'[p]
  <2>1. CASE KubectlApply(p) \/ KubectlRejected(p) \/ KubectlFault(p)
    BY <1>1, <1>2, <2>1
       DEF KubectlApply, KubectlRejected, KubectlFault, Goto, FilesInv, TypeOK
  <2>2. CASE RemoveTemp(p)
    <3>1. f.path = <<f.path[1], f.path[2]>>
      BY <1>1, <1>2 DEF TypeOK, TempFile
    <3>2. f.path # <<p, step[p]>> /\ pc[p] = "rm" /\ unclean' = unclean
      BY <1>2, <2>2 DEF RemoveTemp, Goto, MyPath, TempPath
    <3>3. QED
      BY <1>1, <1>2, <3>1, <3>2 DEF FilesInv
  <2>3. CASE RemoveTempFails(p) \/ CleanupFails(p) \/ Crash(p)
    BY <2>3 DEF RemoveTempFails, CleanupFails, Crash, Unclean, TypeOK
  <2>4. CASE Cleanup(p)
    BY <1>1, <1>2, <2>4 DEF Cleanup, Goto, FilesInv
  <2>5. QED
    BY <2>1, <2>2, <2>3, <2>4
<1>3. QED
  BY <1>1, <1>2, FilesKeptAfter

\* Every step preserves the invariant, of runs that overlap too.
LEMMA FilesStep == ASSUME TypeOK, FilesInv, [Next]_vars PROVE FilesInv'
<1>1. CASE UNCHANGED vars
  BY <1>1 DEF vars, remote, local, FilesInv
<1>2. ASSUME NEW p \in Runs, Begin(p) \/ Progress(p) \/ Disturbance(p)
      PROVE  FilesInv'
  BY <1>2, PlanKeepsFilesInv, WritingKeepsFilesInv, EndKeepsFilesInv
     DEF Progress, Disturbance
<1>3. QED
  BY <1>1, <1>2 DEF Next, Finished

\* Only kubectl applying the third manifest puts credentials into the cluster,
\* and they are those of the run it does so for.
LEMMA OwnManifestStep ==
  ASSUME TypeOK, FilesInv, [Next]_vars, node'.secret # node.secret, node'.secret # None
  PROVE  \E p \in Runs : pc[p] = "apply" /\ pc'[p] = "rm" /\ node'.secret = output[p]
<1>1. ~UNCHANGED node
  OBVIOUS
<1>2. PICK p \in Runs : Begin(p) \/ Progress(p) \/ Disturbance(p)
  BY <1>1 DEF Next, Finished, vars, remote
<1>3. CASE KubectlApply(p) \/ KubectlFault(p)
  <2>1. pc[p] = "apply" /\ pc'[p] = "rm"
    BY <1>3 DEF KubectlApply, KubectlFault, Goto, TypeOK
  <2>2. PICK f \in tmp : f.path = MyPath(p) /\ Applies(f) /\ node' = NodeWith(f)
    BY <1>1, <1>3 DEF KubectlApply, KubectlFault
  <2>3. f.path[1] = p /\ f.full /\ f.path[2] = 3 /\ node'.secret = f.creds
    BY <2>2 DEF MyPath, TempPath, Applies, NodeWith, TypeOK, NodeType
  <2>4. QED
    BY <2>1, <2>3 DEF FilesInv
<1>4. ASSUME NEW r \in Resources, ApplyResource(p, r) \/ ResourceFault(p, r)
      PROVE  FALSE
  <2>1. NodeAfter(p, r).secret \in {node.secret, None}
    BY DEF NodeAfter, TypeOK, NodeType
  <2>2. node'.secret \in {node.secret, None}
    BY <1>4, <2>1 DEF ApplyResource, ResourceFault, FaultEffect, TypeOK, NodeType
  <2>3. QED
    BY <2>2
<1>5. CASE UploadConfig(p) \/ UploadFails(p) \/ Cleanup(p)
  BY <1>5 DEF UploadConfig, UploadFails, Cleanup, ConfigRemoved, TypeOK, NodeType
<1>6. QED
  BY <1>1, <1>2, <1>3, <1>4, <1>5
     DEF Progress, Disturbance, Begin, BeginFails, ResourceRejected, Extract, ExtractFails,
         Mktemp, MktempFails, WriteManifest, WriteManifestFails, KubectlRejected,
         RemoveTemp, RemoveTempFails, CleanupFails, Crash, remote

\* There is no file in the beginning.
LEMMA FilesInit == Init => FilesInv
BY DEF Init, FilesInv

\* A run that returns leaves no manifest in a temporary file, unless a command
\* that makes or removes a file failed, and however many runs overlap.
THEOREM TempFilesAlwaysRemoved == Spec => []TempFilesRemoved
<1>1. Init => FilesInv
  BY FilesInit
<1>2. TypeOK /\ FilesInv /\ [Next]_vars => FilesInv'
  BY FilesStep
<1>3. FilesInv => TempFilesRemoved
  BY DEF FilesInv, TempFilesRemoved, TempPath
<1>4. QED
  BY <1>1, <1>2, <1>3, TypeCorrect, PTL DEF Spec

\* The credentials that reach the cluster are those of the run that applies
\* them, although files of other runs lie beside its own.
THEOREM AlwaysAppliesOwnManifest == Spec => AppliesOwnManifest
<1>1. Init => FilesInv
  BY FilesInit
<1>2. TypeOK /\ FilesInv /\ [Next]_vars => FilesInv'
  BY FilesStep
<1>3. TypeOK /\ FilesInv /\ [Next]_vars
        => (node'.secret # node.secret /\ node'.secret # None =>
              \E p \in Runs : pc[p] = "apply" /\ pc'[p] = "rm" /\ node'.secret = output[p])
  BY OwnManifestStep
<1>4. QED
  BY <1>1, <1>2, <1>3, TypeCorrect, PTL DEF Spec, AppliesOwnManifest

--------------------------------------------------------------------------------
\* The configuration.  The run is past the conversion of its configuration,
\* without an error, and no later run was started.
Converted(p) ==
  \/ pc[p] = "plan" /\ "kubeadm:config:upgrade" \in applied[p]
  \/ pc[p] \in {"mktemp", "write", "apply"}
  \/ pc[p] \in {"rm", "cleanup"} /\ ~err[p]
  \/ pc[p] = "ok" /\ \A q \in Runs : q > p => pc[q] = "idle"

Removed(p) ==
  /\ p \notin unclean /\ pc[p] = "ok"
  /\ \A q \in Runs : q > p => pc[q] = "idle"

\* The copy of the configuration that p converts is there only after the
\* conversion failed, when p has nothing left to do.
CopyKept(p) ==
  /\ pc[p] \in {"cleanup", "failed", "crashed"}
  /\ "kubeadm:config:upgrade" \notin applied[p]

\* What is left of the configuration of run p.
LeftBy(p) ==
  /\ p \notin unclean /\ pc[p] \in {"idle", "ok", "failed"} => node.config.owner # p
  /\ Converted(p) => node.upgraded = None
  /\ node.upgraded = p => CopyKept(p)
  /\ Removed(p) => node.config.form = "absent"

ConfigInv ==
  /\ node.upgraded # None => UpgradeKubeadmConfig(minor)
  /\ \A p \in Runs : LeftBy(p)

\* A step of a run that is not over concerns ConfigInv through that run alone.
LEMMA ConfigInvKept ==
  ASSUME TypeOK, OneAtATime, ConfigInv, NEW p \in Runs, pc[p] \notin Over,
         \A q \in 1 .. (p - 1) : pc[q] \in Over,
         NEW x \in Phases \ {"idle"}, pc' = [pc EXCEPT ![p] = x],
         unclean \subseteq unclean',
         node'.config.owner \in {node.config.owner, p, None},
         \A q \in Runs \ {p} : applied'[q] = applied[q],
         node'.upgraded \in {node.upgraded, p, None},
         UNCHANGED minor, node'.upgraded # None => UpgradeKubeadmConfig(minor),
         LeftBy(p)'
  PROVE  ConfigInv'
<1> SUFFICES ASSUME NEW q \in Runs, q # p
             PROVE  LeftBy(q)'
  BY DEF ConfigInv, UpgradeKubeadmConfig
<1>1. pc'[p] = x /\ pc'[q] = pc[q] /\ x # "idle"
  BY DEF TypeOK
<1>2. pc[q] \in Over \union {"idle"} /\ (pc[q] # "idle" => p > q)
  <2>1. p \in Int /\ q \in Int
    BY KubeadmInitAssumption DEF Runs
  <2>2. QED
    BY <2>1, Neighbours
<1>3. ~Converted(q)' /\ ~Removed(q)'
  BY <1>1, <1>2 DEF Converted, Removed, Over
<1>4. q # None
  BY NoneIsNoRun
<1>5. q \notin unclean' /\ pc'[q] \in {"idle", "ok", "failed"} => node'.config.owner # q
  BY <1>1, <1>4 DEF ConfigInv, LeftBy
<1>6. node'.upgraded = q => CopyKept(q)'
  BY <1>1, <1>4 DEF ConfigInv, LeftBy, CopyKept
<1>7. QED
  BY <1>3, <1>5, <1>6 DEF LeftBy

\* The run starts; it has left nothing before.
LEMMA BeginKeepsConfigInv ==
  ASSUME TypeOK, ~Overlap, SafeInv, ConfigInv, NEW p \in Runs, Begin(p) \/ BeginFails(p)
  PROVE  ConfigInv'
<1> DEFINE x == pc'[p]
<1>1. /\ pc[p] = "idle" /\ x \in {"upload", "failed"} /\ pc' = [pc EXCEPT ![p] = x]
      /\ \A q \in 1 .. (p - 1) : pc[q] \in Over
      /\ UNCHANGED <<node, minor, unclean, applied>>
  BY DEF Begin, BeginFails, Goto, remote, TypeOK
<1>2. LeftBy(p)'
  BY <1>1 DEF ConfigInv, LeftBy, Converted, Removed, CopyKept, TypeOK
<1>3. QED
  BY <1>1, <1>2, ConfigInvKept DEF SafeInv, ConfigInv, Over, Phases

\* Its configuration is on the node, or may be.
LEMMA UploadKeepsConfigInv ==
  ASSUME TypeOK, ~Overlap, SafeInv, ConfigInv, NEW p \in Runs, UploadConfig(p) \/ UploadFails(p)
  PROVE  ConfigInv'
<1> DEFINE x == pc'[p]
<1>1. /\ Active(p) /\ x \in {"plan", "failed"} /\ pc' = [pc EXCEPT ![p] = x]
      /\ UNCHANGED minor /\ unclean \subseteq unclean'
      /\ applied[p] = {} /\ UNCHANGED applied
      /\ x = "failed" => p \in unclean'
      /\ pc[p] = "upload"
  BY DEF UploadConfig, UploadFails, Goto, Active, Over, Unclean, TypeOK, SafeInv, AlongEdges
<1>2. node'.config.owner \in {node.config.owner, p} /\ UNCHANGED node.upgraded
  BY DEF UploadConfig, UploadFails, TypeOK, NodeType
<1>3. LeftBy(p)'
  <2>1. node.upgraded # p
    BY <1>1 DEF ConfigInv, LeftBy, CopyKept
  <2>2. node'.upgraded # p
    BY <1>2, <2>1
  <2>3. QED
    BY <1>1, <2>2 DEF LeftBy, Converted, Removed, TypeOK
<1>4. QED
  BY <1>1, <1>2, <1>3, BeforeActive, ConfigInvKept DEF SafeInv, ConfigInv, Phases, Over

\* Converting the configuration replaces the file; a fault between the two
\* commands that do so leaves the second file, and ends the run with an error.
LEMMA ResourceKeepsConfigInv ==
  ASSUME TypeOK, ~Overlap, SafeInv, ConfigInv, NEW p \in Runs, NEW r \in Resources,
         ApplyResource(p, r) \/ ResourceRejected(p, r) \/ ResourceFault(p, r)
  PROVE  ConfigInv'
<1>1. /\ pc[p] = "plan" /\ Active(p) /\ UNCHANGED <<minor, unclean>>
      /\ r \in Ready(InitDeps, applied[p])
  BY DEF ApplyResource, ResourceRejected, ResourceFault, Goto, Active, Over
<1>2. /\ NodeAfter(p, r).config.owner = node.config.owner
      /\ NodeAfter(p, r).upgraded \in {node.upgraded, None}
      /\ r = "kubeadm:config:upgrade" => NodeAfter(p, r).upgraded = None
  <2>1. \/ UpgradeKubeadmConfig(minor)
        \/ ~UpgradeKubeadmConfig(minor) /\ node.upgraded = None
    BY DEF ConfigInv
  <2>2. QED
    BY <2>1 DEF NodeAfter, TypeOK, NodeType
<1>3. CASE ApplyResource(p, r)
  <2>1. /\ pc' = [pc EXCEPT ![p] = "plan"] /\ node' = NodeAfter(p, r)
        /\ applied'[p] = applied[p] \union {r} /\ pc'[p] = "plan"
        /\ \A q \in Runs \ {p} : applied'[q] = applied[q]
    BY <1>1, <1>3 DEF ApplyResource, TypeOK
  <2>2. LeftBy(p)'
    <3>1. node.upgraded # p /\ p # None
      BY <1>1, NoneIsNoRun DEF ConfigInv, LeftBy, CopyKept
    <3>2. node'.upgraded # p
      BY <1>2, <2>1, <3>1
    <3>3. Converted(p)' => node'.upgraded = None
      BY <1>1, <1>2, <2>1 DEF Converted, LeftBy, ConfigInv
    <3>4. QED
      BY <2>1, <3>2, <3>3 DEF LeftBy, Removed
  <2>3. QED
    BY <1>1, <1>2, <2>1, <2>2, BeforeActive, ConfigInvKept DEF SafeInv, ConfigInv, Phases
<1>4. CASE ResourceRejected(p, r) \/ ResourceFault(p, r)
  <2>1. pc' = [pc EXCEPT ![p] = "cleanup"] /\ err'[p] /\ pc'[p] = "cleanup"
    BY <1>4 DEF ResourceRejected, ResourceFault, Goto, TypeOK
  <2>2. /\ node'.config.owner = node.config.owner
        /\ node'.upgraded \in {node.upgraded, p, None}
        /\ node'.upgraded # None => UpgradeKubeadmConfig(minor)
        /\ node'.upgraded = p => "kubeadm:config:upgrade" \notin applied[p]
    <3>1. \/ UNCHANGED node \/ node' = NodeAfter(p, r)
          \/ /\ UpgradeKubeadmConfig(minor) /\ node' = [node EXCEPT !.upgraded = p]
             /\ r = "kubeadm:config:upgrade"
      BY <1>4 DEF ResourceRejected, ResourceFault, FaultEffect, remote
    <3>2. node.upgraded # p /\ p # None
      BY <1>1, NoneIsNoRun DEF ConfigInv, LeftBy, CopyKept
    <3>3. CASE UNCHANGED node \/ node' = NodeAfter(p, r)
      BY <1>2, <3>2, <3>3 DEF ConfigInv
    <3>4. CASE UpgradeKubeadmConfig(minor) /\ node' = [node EXCEPT !.upgraded = p]
               /\ r = "kubeadm:config:upgrade"
      BY <1>1, <3>4 DEF TypeOK, NodeType, Ready
    <3>5. QED
      BY <3>1, <3>3, <3>4
  <2>3. LeftBy(p)'
    <3>1. UNCHANGED applied
      BY <1>4 DEF ResourceRejected, ResourceFault
    <3>2. QED
      BY <2>1, <2>2, <3>1 DEF LeftBy, Converted, Removed, CopyKept
  <2>4. QED
    BY <1>1, <1>4, <2>1, <2>2, <2>3, BeforeActive, ConfigInvKept
       DEF SafeInv, Phases, ResourceRejected, ResourceFault
<1>5. QED
  BY <1>3, <1>4

\* The steps between the plan and the end leave the configuration alone.
LEMMA MiddleKeepsConfigInv ==
  ASSUME TypeOK, ~Overlap, SafeInv, ConfigInv, NEW p \in Runs,
         \/ Extract(p) \/ ExtractFails(p)
         \/ Mktemp(p) \/ MktempFails(p) \/ WriteManifest(p) \/ WriteManifestFails(p)
         \/ KubectlApply(p) \/ KubectlRejected(p) \/ KubectlFault(p)
         \/ RemoveTemp(p) \/ RemoveTempFails(p) \/ Crash(p)
  PROVE  ConfigInv'
<1> DEFINE x == pc'[p]
<1>1. /\ Active(p) /\ pc' = [pc EXCEPT ![p] = x]
      /\ x \in {"mktemp", "write", "apply", "rm", "cleanup", "crashed"}
      /\ UNCHANGED <<minor, applied>> /\ unclean \subseteq unclean'
      /\ x \in {"cleanup", "crashed"} \/ pc[p] \notin {"cleanup", "failed", "crashed"}
  BY DEF Extract, ExtractFails, Mktemp, MktempFails, WriteManifest, WriteManifestFails,
         AfterFailedWrite, KubectlApply, KubectlRejected, KubectlFault, RemoveTemp,
         RemoveTempFails, AfterRm, Crash, Goto, Active, Over, Unclean, TypeOK
<1>2. UNCHANGED <<node.config, node.upgraded>>
  <2>1. UNCHANGED node \/ \E f \in tmp : node' = NodeWith(f)
    BY DEF Extract, ExtractFails, Mktemp, MktempFails, WriteManifest, WriteManifestFails,
           KubectlApply, KubectlRejected, KubectlFault, RemoveTemp, RemoveTempFails, Crash,
           remote
  <2>2. QED
    BY <2>1 DEF NodeWith, TypeOK, NodeType
<1>3. x \in {"mktemp", "write", "apply"} \/ (x \in {"rm", "cleanup"} /\ ~err'[p])
        => Converted(p)
  BY DEF Extract, ExtractFails, Mktemp, MktempFails, WriteManifest, WriteManifestFails,
         AfterFailedWrite, KubectlApply, KubectlRejected, KubectlFault, RemoveTemp,
         RemoveTempFails, AfterRm, LastOrFailed, Crash, Goto, TypeOK, Converted, Resources
<1>4. LeftBy(p)'
  <2>1. pc'[p] = x
    BY <1>1 DEF TypeOK
  <2>2. node'.upgraded = p => CopyKept(p)'
    BY <1>1, <1>2, <2>1 DEF ConfigInv, LeftBy, CopyKept
  <2>3. Converted(p)' => node'.upgraded = None
    BY <1>1, <1>2, <1>3, <2>1 DEF ConfigInv, LeftBy, Converted
  <2>4. QED
    BY <1>1, <2>1, <2>2, <2>3 DEF LeftBy, Removed
<1>5. QED
  BY <1>1, <1>2, <1>4, BeforeActive, ConfigInvKept DEF SafeInv, ConfigInv, Phases

\* The deferred removal, or its failure.
LEMMA CleanupKeepsConfigInv ==
  ASSUME TypeOK, ~Overlap, SafeInv, ConfigInv, NEW p \in Runs, Cleanup(p) \/ CleanupFails(p)
  PROVE  ConfigInv'
<1> DEFINE x == pc'[p]
<1>1. /\ pc[p] = "cleanup" /\ Active(p) /\ pc' = [pc EXCEPT ![p] = x]
      /\ x = IF err[p] THEN "failed" ELSE "ok"
      /\ UNCHANGED <<minor, err, applied>> /\ unclean \subseteq unclean'
  BY DEF Cleanup, CleanupFails, Goto, Active, Over, Unclean, TypeOK
<1>2. \/ Cleanup(p) /\ node'.config = [owner |-> None, form |-> "absent"]
      \/ p \in unclean' /\ UNCHANGED node.config
  BY DEF Cleanup, CleanupFails, ConfigRemoved, Unclean, remote, TypeOK, NodeType
<1>3. UNCHANGED node.upgraded
  BY DEF Cleanup, CleanupFails, ConfigRemoved, remote, TypeOK, NodeType
<1>4. LeftBy(p)'
  <2>1. p # None
    BY NoneIsNoRun
  <2>2. x = "ok" => node'.upgraded = None
    BY <1>1, <1>3 DEF ConfigInv, LeftBy, Converted
  <2>3. pc'[p] = x
    BY <1>1 DEF TypeOK
  <2>4. node'.upgraded = p => CopyKept(p)'
    BY <1>1, <1>3, <2>1, <2>2, <2>3 DEF ConfigInv, LeftBy, CopyKept
  <2>5. QED
    BY <1>1, <1>2, <2>1, <2>2, <2>3, <2>4 DEF LeftBy, Converted, Removed
<1>5. QED
  BY <1>1, <1>2, <1>3, <1>4, BeforeActive, ConfigInvKept DEF SafeInv, ConfigInv, Phases

\* Every step preserves the invariant as long as runs do not overlap.
LEMMA ConfigStep ==
  ASSUME TypeOK, ~Overlap, SafeInv, ConfigInv, [Next]_vars
  PROVE  ConfigInv'
<1>1. CASE UNCHANGED vars
  BY <1>1 DEF vars, remote, local, ConfigInv, LeftBy, Converted, Removed, CopyKept,
                UpgradeKubeadmConfig
<1>2. ASSUME NEW p \in Runs, Begin(p) \/ Progress(p) \/ Disturbance(p)
      PROVE  ConfigInv'
  BY <1>2, BeginKeepsConfigInv, UploadKeepsConfigInv, ResourceKeepsConfigInv,
     MiddleKeepsConfigInv, CleanupKeepsConfigInv
     DEF Progress, Disturbance
<1>3. QED
  BY <1>1, <1>2 DEF Next, Finished

\* There is no configuration in the beginning.
LEMMA ConfigInit == Init => ConfigInv
BY NoneIsNoRun DEF Init, ConfigInv, LeftBy, Converted, Removed

\* A run that returns leaves the file it uploaded on the node only when the
\* upload or the removal failed, and the copy only when its own conversion
\* failed; one that succeeds leaves neither file of an earlier run, as long as
\* runs of wksctl do not overlap.
THEOREM NoConfigEverLeft ==
  ASSUME ~Overlap
  PROVE  Spec => []NoConfigLeft
<1>1. Init => SafeInv /\ ConfigInv
  BY SafeInit, ConfigInit
<1>2. TypeOK /\ SafeInv /\ ConfigInv /\ [Next]_vars => SafeInv' /\ ConfigInv'
  BY SafeStep, ConfigStep
<1>3. ConfigInv => NoConfigLeft
  BY DEF ConfigInv, LeftBy, Converted, Removed, CopyKept, NoConfigLeft
<1>4. QED
  BY <1>1, <1>2, <1>3, TypeCorrect, PTL DEF Spec

--------------------------------------------------------------------------------
(***************************************************************************)
(* When runs take turns, one that reports success has installed the seed   *)
(* node, and KubeadmInit implements SeedNode.                              *)
(***************************************************************************)

\* The run is about to report success, or has and no later one was started.
Concluded(p) ==
  \/ pc[p] = "cleanup" /\ ~err[p]
  \/ pc[p] = "ok" /\ \A q \in Runs : q > p => pc[q] = "idle"

\* The run has applied the manifests before the m-th.
HasApplied(p, m) ==
  \/ pc[p] \in {"mktemp", "write", "apply"} /\ m = step[p]
  \/ pc[p] = "rm" /\ ~err[p] /\ m = step[p] + 1
  \/ Concluded(p) /\ m = 4

\* What a run has achieved, from the plan to its end.
RunInv(p) ==
  /\ pc[p] \in {"idle", "upload", "plan"} => step[p] = 1
  /\ pc[p] = "plan" /\ "kubeadm:config:kubectl-dir" \in applied[p] =>
       "home" \in node.kubeDirs
  /\ \A m \in 1 .. 4 : HasApplied(p, m) =>
       1 .. (m - 1) \subseteq node.objects /\ "home" \in node.kubeDirs
  /\ Concluded(p) => node.cluster = p /\ node.kubeconfig["home"] = p

InstallInv ==
  /\ node.kubeDirs \subseteq {"home"}
  /\ \A p \in Runs : RunInv(p)

\* A step of a run that is not over concerns InstallInv through that run alone:
\* no other has concluded afterwards.
LEMMA InstallKept ==
  ASSUME TypeOK, OneAtATime, InstallInv, NEW p \in Runs, pc[p] \notin Over,
         \A q \in 1 .. (p - 1) : pc[q] \in Over,
         NEW x \in Phases \ {"idle"}, pc' = [pc EXCEPT ![p] = x],
         \A q \in Runs \ {p} : step'[q] = step[q],
         node'.kubeDirs \subseteq {"home"},
         RunInv(p)'
  PROVE  InstallInv'
<1> SUFFICES ASSUME NEW q \in Runs, q # p
             PROVE  RunInv(q)'
  BY DEF InstallInv
<1>1. pc'[p] = x /\ pc'[q] = pc[q] /\ x # "idle"
  BY DEF TypeOK
<1>2. pc[q] \in Over \union {"idle"} /\ (pc[q] # "idle" => p > q)
  <2>1. p \in Int /\ q \in Int
    BY KubeadmInitAssumption DEF Runs
  <2>2. QED
    BY <2>1, Neighbours
<1>3. ~Concluded(q)'
  BY <1>1, <1>2 DEF Concluded, Over
<1>4. pc[q] = "idle" => step'[q] = 1
  BY DEF InstallInv, RunInv
<1>5. QED
  BY <1>1, <1>2, <1>3, <1>4 DEF RunInv, HasApplied, Over

\* A step in which the run goes where it has not applied anything, or not any
\* more.
LEMMA InstallKeptOff ==
  ASSUME TypeOK, OneAtATime, InstallInv, NEW p \in Runs, pc[p] \notin Over,
         \A q \in 1 .. (p - 1) : pc[q] \in Over,
         NEW x \in {"upload", "failed", "crashed", "cleanup", "rm"},
         pc' = [pc EXCEPT ![p] = x],
         x \in {"cleanup", "rm"} => err'[p],
         x = "upload" => step'[p] = 1,
         \A q \in Runs \ {p} : step'[q] = step[q],
         node'.kubeDirs \subseteq {"home"}
  PROVE  InstallInv'
<1>1. pc'[p] = x
  BY DEF TypeOK
<1>2. RunInv(p)'
  BY <1>1 DEF RunInv, HasApplied, Concluded
<1>3. QED
  BY <1>2, InstallKept DEF Phases

\* A run starts, or ends, or gives up: without effect on what is installed.
LEMMA OffKeepsInstallInv ==
  ASSUME TypeOK, ~Overlap, SafeInv, InstallInv, NEW p \in Runs,
         \/ Begin(p) \/ BeginFails(p) \/ UploadFails(p)
         \/ ExtractFails(p) \/ MktempFails(p) \/ WriteManifestFails(p)
         \/ KubectlRejected(p) \/ KubectlFault(p) \/ Crash(p)
  PROVE  InstallInv'
<1> DEFINE x == pc'[p]
<1>1. /\ pc[p] \notin Over
      /\ \A q \in 1 .. (p - 1) : pc[q] \in Over
      /\ x \in {"upload", "failed", "crashed", "cleanup", "rm"}
      /\ pc' = [pc EXCEPT ![p] = x]
      /\ UNCHANGED step
  BY DEF Begin, BeginFails, UploadFails, ExtractFails, MktempFails, WriteManifestFails,
         AfterFailedWrite, KubectlRejected, KubectlFault, Crash, Goto, TypeOK, SafeInv,
         OneAtATime, Over
<1>2. x \in {"cleanup", "rm"} => err'[p]
  BY DEF Begin, BeginFails, UploadFails, ExtractFails, MktempFails, WriteManifestFails,
         AfterFailedWrite, KubectlRejected, KubectlFault, Crash, Goto, TypeOK
<1>3. x = "upload" => step'[p] = 1
  BY <1>1 DEF Begin, BeginFails, UploadFails, ExtractFails, MktempFails, WriteManifestFails,
         AfterFailedWrite, KubectlRejected, KubectlFault, Crash, Goto, TypeOK, InstallInv, RunInv
<1>4. node'.kubeDirs \subseteq {"home"}
  <2>1. CASE KubectlFault(p)
    <3>1. \A f \in tmp : NodeWith(f).kubeDirs = node.kubeDirs
      BY DEF NodeWith, TypeOK, NodeType
    <3>2. QED
      BY <2>1, <3>1 DEF KubectlFault, InstallInv
  <2>2. CASE UploadFails(p)
    BY <2>2 DEF UploadFails, TypeOK, NodeType, InstallInv
  <2>3. CASE ~KubectlFault(p) /\ ~UploadFails(p)
    BY <2>3 DEF Begin, BeginFails, ExtractFails, MktempFails, WriteManifestFails,
                KubectlRejected, Crash, remote, InstallInv
  <2>4. QED
    BY <2>1, <2>2, <2>3
<1>5. QED
  BY <1>1, <1>2, <1>3, <1>4, InstallKeptOff DEF SafeInv

\* The plan begins with nothing applied.
LEMMA UploadKeepsInstallInv ==
  ASSUME TypeOK, ~Overlap, SafeInv, InstallInv, NEW p \in Runs, UploadConfig(p)
  PROVE  InstallInv'
<1>1. /\ Active(p) /\ pc[p] = "upload" /\ pc' = [pc EXCEPT ![p] = "plan"]
      /\ UNCHANGED <<applied, step>>
  BY DEF UploadConfig, Goto, Active, Over
<1>2. node'.kubeDirs \subseteq {"home"}
  BY DEF UploadConfig, TypeOK, NodeType, InstallInv
<1>3. RunInv(p)'
  <2>1. pc'[p] = "plan" /\ applied'[p] = {} /\ step'[p] = 1
    BY <1>1 DEF TypeOK, SafeInv, AlongEdges, InstallInv, RunInv
  <2>2. QED
    BY <2>1 DEF RunInv, HasApplied, Concluded
<1>4. QED
  BY <1>1, <1>2, <1>3, BeforeActive, InstallKept DEF SafeInv, Phases

\* What the command of a ready resource, if it succeeds, does to the directories
\* for kubectl's configuration: it makes one under the home directory, since
\* that is known by then.
LEMMA KubeDirsByResource ==
  ASSUME TypeOK, SafeInv, InstallInv, NEW p \in Runs, pc[p] = "plan",
         NEW r \in Ready(InitDeps, applied[p]), node' = NodeAfter(p, r)
  PROVE  /\ node'.kubeDirs \subseteq {"home"}
         /\ node.kubeDirs \subseteq node'.kubeDirs
         /\ r = "kubeadm:config:kubectl-dir" => "home" \in node'.kubeDirs
<1>1. CASE r = "kubeadm:config:kubectl-dir"
  <2>1. "kubeadm:get-homedir" \in applied[p]
    BY <1>1, Edges DEF Ready
  <2>2. Place(p) = "home"
    BY <2>1 DEF SafeInv, PlanProgress, Place
  <2>3. QED
    BY <1>1, <2>2 DEF NodeAfter, TypeOK, NodeType, InstallInv
<1>2. CASE r # "kubeadm:config:kubectl-dir"
  BY <1>2 DEF NodeAfter, TypeOK, NodeType, InstallInv
<1>3. QED
  BY <1>1, <1>2

\* The plan: a resource is applied, or its command fails.
LEMMA ResourceKeepsInstallInv ==
  ASSUME TypeOK, ~Overlap, SafeInv, InstallInv, NEW p \in Runs, NEW r \in Resources,
         ApplyResource(p, r) \/ ResourceRejected(p, r) \/ ResourceFault(p, r)
  PROVE  InstallInv'
<1>1. pc[p] = "plan" /\ Active(p) /\ UNCHANGED step /\ r \in Ready(InitDeps, applied[p])
  BY DEF ApplyResource, ResourceRejected, ResourceFault, Goto, Active, Over
<1>2. CASE ApplyResource(p, r)
  <2>1. /\ pc' = [pc EXCEPT ![p] = "plan"]
        /\ applied'[p] = applied[p] \union {r}
        /\ node' = NodeAfter(p, r)
    BY <1>1, <1>2 DEF ApplyResource, TypeOK
  <2>2. RunInv(p)'
    <3>1. pc'[p] = "plan" /\ step'[p] = 1
      BY <1>1, <2>1 DEF TypeOK, InstallInv, RunInv
    <3>2. "kubeadm:config:kubectl-dir" \in applied'[p] => "home" \in node'.kubeDirs
      BY <1>1, <2>1, KubeDirsByResource DEF InstallInv, RunInv
    <3>3. QED
      BY <3>1, <3>2 DEF RunInv, HasApplied, Concluded
  <2>3. QED
    BY <1>1, <2>1, <2>2, BeforeActive, KubeDirsByResource, InstallKept DEF SafeInv, Phases
<1>3. CASE ResourceRejected(p, r) \/ ResourceFault(p, r)
  <2>1. pc' = [pc EXCEPT ![p] = "cleanup"] /\ err'[p]
    BY <1>3 DEF ResourceRejected, ResourceFault, Goto, TypeOK
  <2>2. node'.kubeDirs \subseteq {"home"}
    <3>1. CASE node' = NodeAfter(p, r)
      BY <1>1, <3>1, KubeDirsByResource
    <3>2. CASE UNCHANGED node \/ node' = [node EXCEPT !.upgraded = p]
      BY <3>2 DEF InstallInv, TypeOK, NodeType
    <3>3. QED
      BY <1>3, <3>1, <3>2 DEF ResourceRejected, ResourceFault, FaultEffect, remote
  <2>3. QED
    BY <1>1, <2>1, <2>2, BeforeActive, InstallKeptOff DEF SafeInv
<1>4. QED
  BY <1>2, <1>3

\* The manifests begin, with the first.
LEMMA ExtractKeepsInstallInv ==
  ASSUME TypeOK, ~Overlap, SafeInv, InstallInv, NEW p \in Runs, Extract(p)
  PROVE  InstallInv'
<1>1. /\ pc[p] = "plan" /\ Active(p) /\ applied[p] = Resources
      /\ pc' = [pc EXCEPT ![p] = "mktemp"] /\ UNCHANGED <<node, step>>
  BY DEF Extract, Goto, remote, Active, Over
<1>2. RunInv(p)'
  <2>1. pc'[p] = "mktemp" /\ step'[p] = 1 /\ "home" \in node'.kubeDirs
    BY <1>1 DEF TypeOK, InstallInv, RunInv, Resources
  <2>2. QED
    BY <2>1 DEF RunInv, HasApplied, Concluded
<1>3. QED
  BY <1>1, <1>2, BeforeActive, InstallKept DEF SafeInv, InstallInv, Phases

\* The file is made and written.
LEMMA FileKeepsInstallInv ==
  ASSUME TypeOK, ~Overlap, SafeInv, InstallInv, NEW p \in Runs,
         Mktemp(p) \/ WriteManifest(p)
  PROVE  InstallInv'
<1> DEFINE x == pc'[p]
<1>1. /\ pc[p] \in {"mktemp", "write"} /\ Active(p) /\ x \in {"write", "apply"}
      /\ pc' = [pc EXCEPT ![p] = x] /\ UNCHANGED <<node, step>>
  BY DEF Mktemp, WriteManifest, Goto, Active, Over, TypeOK
<1>2. RunInv(p)'
  BY <1>1 DEF InstallInv, RunInv, HasApplied, Concluded
<1>3. QED
  BY <1>1, <1>2, BeforeActive, InstallKept DEF SafeInv, InstallInv, Phases

\* kubectl adds the manifest to those the cluster has.
LEMMA KubectlKeepsInstallInv ==
  ASSUME TypeOK, ~Overlap, SafeInv, InstallInv, NEW p \in Runs, KubectlApply(p)
  PROVE  InstallInv'
<1>1. /\ pc[p] = "apply" /\ Active(p) /\ pc' = [pc EXCEPT ![p] = "rm"] /\ UNCHANGED step
  BY DEF KubectlApply, Goto, Active, Over
<1>2. node'.objects = node.objects \union {step[p]} /\ node'.kubeDirs = node.kubeDirs
  BY DEF KubectlApply, NodeWith, MyPath, TempPath, TypeOK, NodeType
<1>3. RunInv(p)'
  <2>1. pc'[p] = "rm" /\ step'[p] = step[p] /\ step[p] \in 1 .. 3
    BY <1>1 DEF TypeOK
  <2>2. 1 .. (step[p] - 1) \subseteq node.objects /\ "home" \in node.kubeDirs
    BY <1>1, <2>1 DEF InstallInv, RunInv, HasApplied
  <2>3. \A m \in 1 .. 4 : m = step[p] + 1 => 1 .. (m - 1) \subseteq node'.objects
    BY <1>2, <2>1, <2>2
  <2>4. QED
    BY <1>2, <2>1, <2>2, <2>3 DEF RunInv, HasApplied, Concluded
<1>4. QED
  BY <1>1, <1>2, <1>3, BeforeActive, InstallKept DEF SafeInv, InstallInv, Phases

\* The next manifest, or the end; a run without an error has reached its own
\* control plane until here.
LEMMA RemoveKeepsInstallInv ==
  ASSUME TypeOK, ~Overlap, SafeInv, InstallInv, NEW p \in Runs,
         RemoveTemp(p) \/ RemoveTempFails(p)
  PROVE  InstallInv'
<1> DEFINE x == pc'[p]
<1>1. /\ pc[p] = "rm" /\ Active(p) /\ x = AfterRm(p)
      /\ pc' = [pc EXCEPT ![p] = x] /\ UNCHANGED <<node, err>>
      /\ step' = [step EXCEPT ![p] = IF LastOrFailed(p) THEN @ ELSE @ + 1]
  BY DEF RemoveTemp, RemoveTempFails, Goto, remote, Active, Over, TypeOK
<1>2. step[p] \in 1 .. 3 /\ x \in {"cleanup", "mktemp"}
  BY <1>1 DEF TypeOK, AfterRm
<1>3. RunInv(p)'
  <2>1. CASE err[p]
    BY <1>1, <2>1 DEF RunInv, HasApplied, Concluded, AfterRm, LastOrFailed
  <2>2. CASE ~err[p] /\ step[p] = 3
    <3>1. x = "cleanup" /\ HasApplied(p, 4) /\ Reaches(p)
      BY <1>1, <2>2 DEF AfterRm, LastOrFailed, LastManifest, HasApplied, SafeInv, Installed
    <3>2. 1 .. 3 \subseteq node.objects /\ "home" \in node.kubeDirs
      BY <3>1 DEF InstallInv, RunInv
    <3>3. \A m \in 1 .. 4 : 1 .. (m - 1) \subseteq node.objects
      BY <3>2
    <3>4. QED
      BY <1>1, <3>1, <3>2, <3>3 DEF RunInv, HasApplied, Reaches
  <2>3. CASE ~err[p] /\ step[p] # 3
    <3>1. x = "mktemp" /\ HasApplied(p, step[p] + 1) /\ step'[p] = step[p] + 1
      BY <1>1, <2>3 DEF AfterRm, LastOrFailed, LastManifest, HasApplied, TypeOK
    <3>2. step[p] + 1 \in 1 .. 4
      BY <1>2
    <3>3. 1 .. ((step[p] + 1) - 1) \subseteq node.objects /\ "home" \in node.kubeDirs
      BY <3>1, <3>2 DEF InstallInv, RunInv
    <3>4. QED
      BY <1>1, <3>1, <3>3 DEF RunInv, HasApplied, Concluded
  <2>4. QED
    BY <2>1, <2>2, <2>3
<1>4. \A q \in Runs \ {p} : step'[q] = step[q]
  BY <1>1 DEF TypeOK
<1>5. QED
  BY <1>1, <1>2, <1>3, <1>4, BeforeActive, InstallKept DEF SafeInv, InstallInv, Phases

\* The run ends; one that reports success has come this far without an error.
LEMMA CleanupKeepsInstallInv ==
  ASSUME TypeOK, ~Overlap, SafeInv, InstallInv, NEW p \in Runs,
         Cleanup(p) \/ CleanupFails(p)
  PROVE  InstallInv'
<1> DEFINE x == pc'[p]
<1>1. /\ pc[p] = "cleanup" /\ Active(p) /\ x = IF err[p] THEN "failed" ELSE "ok"
      /\ pc' = [pc EXCEPT ![p] = x] /\ UNCHANGED step
  BY DEF Cleanup, CleanupFails, Goto, Active, Over, TypeOK
<1>2. UNCHANGED <<node.kubeDirs, node.objects, node.cluster, node.kubeconfig>>
  BY DEF Cleanup, CleanupFails, ConfigRemoved, remote, TypeOK, NodeType
<1>3. RunInv(p)'
  <2>1. CASE err[p]
    BY <1>1, <2>1 DEF RunInv, HasApplied, Concluded
  <2>2. CASE ~err[p]
    BY <1>1, <1>2, <2>2 DEF InstallInv, RunInv, HasApplied, Concluded
  <2>3. QED
    BY <2>1, <2>2
<1>4. QED
  BY <1>1, <1>2, <1>3, BeforeActive, InstallKept DEF SafeInv, InstallInv, Phases

\* Every step preserves the invariant as long as runs do not overlap.
LEMMA InstallStep ==
  ASSUME TypeOK, ~Overlap, SafeInv, InstallInv, [Next]_vars
  PROVE  InstallInv'
<1>1. CASE UNCHANGED vars
  BY <1>1 DEF vars, remote, local, InstallInv, RunInv, HasApplied, Concluded
<1>2. ASSUME NEW p \in Runs, Begin(p) \/ Progress(p) \/ Disturbance(p)
      PROVE  InstallInv'
  BY <1>2, OffKeepsInstallInv, UploadKeepsInstallInv, ResourceKeepsInstallInv,
     ExtractKeepsInstallInv, FileKeepsInstallInv, KubectlKeepsInstallInv,
     RemoveKeepsInstallInv, CleanupKeepsInstallInv
     DEF Progress, Disturbance
<1>3. QED
  BY <1>1, <1>2 DEF Next, Finished

\* No run has begun.
LEMMA InstallInit == Init => InstallInv
BY DEF Init, InstallInv, RunInv, HasApplied, Concluded

\* A run that has concluded has its own control plane, complete.
LEMMA ConcludedInstalled ==
  ASSUME TypeOK, SafeInv, InstallInv, NEW p \in Runs, Concluded(p)
  PROVE  /\ node.cluster = p /\ node.kubeconfig["home"] = p /\ node.secret = p
         /\ node.objects = 1 .. 3 /\ node.kubeDirs = {"home"}
<1>1. HasApplied(p, 4)
  BY DEF HasApplied
<1>2. 1 .. 3 \subseteq node.objects /\ "home" \in node.kubeDirs
  BY <1>1 DEF InstallInv, RunInv
<1>3. node.cluster = p /\ node.kubeconfig["home"] = p
  BY DEF InstallInv, RunInv
<1>4. node.secret = p
  BY <1>2, <1>3 DEF SafeInv, SecretMatchesCluster
<1>5. QED
  BY <1>2, <1>3, <1>4 DEF InstallInv, TypeOK, NodeType

\* A run that reported success left the seed node installed, whatever the runs
\* before it left, as long as runs of wksctl do not overlap.
THEOREM SuccessAlwaysMeansInstalled ==
  ASSUME ~Overlap
  PROVE  Spec => []SuccessMeansInstalled
<1>1. Init => SafeInv /\ InstallInv
  BY SafeInit, InstallInit
<1>2. TypeOK /\ SafeInv /\ InstallInv /\ [Next]_vars => SafeInv' /\ InstallInv'
  BY SafeStep, InstallStep
<1>3. TypeOK /\ SafeInv /\ InstallInv => SuccessMeansInstalled
  BY ConcludedInstalled DEF SuccessMeansInstalled, Concluded
<1>4. QED
  BY <1>1, <1>2, <1>3, TypeCorrect, PTL DEF Spec

--------------------------------------------------------------------------------
\* The refinement: what SeedNode's variables are in terms of KubeadmInit's.
Control == node.cluster
Credentials == IF node.objects = 1 .. 3 THEN node.secret ELSE None
Client == node.kubeconfig["home"]
Outcomes == [p \in Runs |-> Outcome(p)]

\* The names of both modules are the same things.
LEMMA SameNames == SeedNode!Runs = Runs /\ SeedNode!None = None
BY DEF SeedNode!Runs, SeedNode!None, Runs, None

\* A step of run p changes the outcome of run p only.
LEMMA OutcomeStep ==
  ASSUME TypeOK, NEW p \in Runs, NEW x, pc' = [pc EXCEPT ![p] = x]
  PROVE  Outcomes' = [Outcomes EXCEPT ![p] = Outcome(p)']
<1>1. \A q \in Runs \ {p} : pc'[q] = pc[q]
  BY DEF TypeOK
<1>2. \A q \in Runs \ {p} : Outcome(q)' = Outcome(q)
  BY <1>1, Zenon DEF Outcome
<1>3. QED
  BY <1>2 DEF Outcomes

\* A step within a run changes no outcome.
LEMMA OutcomeKept ==
  ASSUME TypeOK, NEW p \in Runs, Active(p), NEW x, pc' = [pc EXCEPT ![p] = x],
         x \notin Over \union {"idle"}
  PROVE  Outcomes' = Outcomes /\ Outcomes[p] = "running"
<1>1. pc'[p] = x
  BY DEF TypeOK
<1>2. Outcome(p)' = "running" /\ Outcome(p) = "running"
  BY <1>1 DEF Outcome, Active, Over
<1>3. QED
  BY <1>2, OutcomeStep DEF Outcomes

\* A step that SeedNode does not see, one command of the many.
LEMMA Stutter ==
  ASSUME UNCHANGED <<Control, Credentials, Client, Outcomes>>
  PROVE  [SeedNode!Next]_(SeedNode!vars)
BY DEF SeedNode!vars, Control, Credentials, Client, Outcomes

\* The run ends without success, wherever it is.
LEMMA FailStep ==
  ASSUME TypeOK, NEW p \in Runs, Active(p), NEW x \in {"failed", "crashed"},
         pc' = [pc EXCEPT ![p] = x],
         UNCHANGED <<Control, Credentials, Client>>
  PROVE  [SeedNode!Next]_(SeedNode!vars)
<1>1. Outcome(p) = "running" /\ Outcome(p)' = "failed"
  BY DEF Outcome, Active, Over, TypeOK
<1>2. Outcomes[p] = "running" /\ Outcomes' = [Outcomes EXCEPT ![p] = "failed"]
  BY <1>1, OutcomeStep DEF Outcomes
<1>3. SeedNode!Fail(p)
  BY <1>2 DEF SeedNode!Fail, SeedNode!Becomes, Control, Credentials, Client, Outcomes
<1>4. QED
  BY <1>3, SameNames DEF SeedNode!Next

\* A run starts when those before it are over.
LEMMA StartStep ==
  ASSUME TypeOK, ~Overlap, NEW p \in Runs, Begin(p) \/ BeginFails(p)
  PROVE  [SeedNode!Next]_(SeedNode!vars)
<1> DEFINE x == pc'[p]
<1>1. /\ pc[p] = "idle" /\ x \in {"upload", "failed"} /\ pc' = [pc EXCEPT ![p] = x]
      /\ \A q \in 1 .. (p - 1) : pc[q] \in Over
      /\ UNCHANGED node
  BY DEF Begin, BeginFails, Goto, remote, TypeOK
<1>2. Outcome(p) = "waiting" /\ Outcome(p)' \in {"running", "failed"}
  BY <1>1 DEF Outcome
<1>3. \A q \in 1 .. (p - 1) : q \in Runs /\ Outcome(q) \in {"ok", "failed"}
  <2>1. 1 .. (p - 1) \subseteq Runs
    BY KubeadmInitAssumption DEF Runs
  <2>2. QED
    BY <1>1, <2>1 DEF Outcome, Over
<1>4. /\ Outcomes[p] = "waiting"
      /\ \A q \in 1 .. (p - 1) : Outcomes[q] \in {"ok", "failed"}
      /\ Outcomes' = [Outcomes EXCEPT ![p] = Outcome(p)']
  BY <1>1, <1>2, <1>3, OutcomeStep DEF Outcomes
<1>5. SeedNode!Start(p)
  BY <1>1, <1>2, <1>4 DEF SeedNode!Start, SeedNode!Becomes, Outcomes
<1>6. QED
  BY <1>5, SameNames DEF SeedNode!Next

\* The effect of the command of a ready resource: a reset, "kubeadm init" and
\* the copy of its kubeconfig are steps of SeedNode.
LEMMA ResourceEffect ==
  ASSUME TypeOK, SafeInv, NEW p \in Runs, pc[p] = "plan",
         NEW r \in Ready(InitDeps, applied[p]), Succeeds(p, r), node' = NodeAfter(p, r),
         Outcomes' = Outcomes, Outcomes[p] = "running"
  PROVE  [SeedNode!Next]_(SeedNode!vars)
<1>1. r \in Resources
  BY Edges DEF Ready
<1>2. CASE r = "kubeadm:reset"
  <2>1. node' = [node EXCEPT !.cluster = None, !.adminConf = None, !.objects = {}, !.secret = None]
    BY <1>2 DEF NodeAfter
  <2>2. Control' = None /\ Credentials' = None /\ Client' = Client
    BY <2>1 DEF Control, Credentials, Client, TypeOK, NodeType
  <2>3. SeedNode!TearDown(p)
    BY <2>2, SameNames DEF SeedNode!TearDown, Control, Credentials, Client, Outcomes
  <2>4. QED
    BY <2>3, SameNames DEF SeedNode!Next
<1>3. CASE r = "kubeadm:run-init"
  <2>1. node' = [node EXCEPT !.cluster = p, !.adminConf = p] /\ node.cluster = None
    BY <1>3 DEF NodeAfter, Succeeds
  <2>2. Control = None /\ Control' = p /\ Credentials' = Credentials /\ Client' = Client
    BY <2>1 DEF Control, Credentials, Client, TypeOK, NodeType
  <2>3. SeedNode!Create(p)
    BY <2>2, SameNames DEF SeedNode!Create, Control, Credentials, Client, Outcomes
  <2>4. QED
    BY <2>3, SameNames DEF SeedNode!Next
<1>4. CASE r = "kubeadm:config:copy"
  <2>1. node.cluster = p /\ node.adminConf = p /\ "kubeadm:config:kubectl-dir" \in applied[p]
    BY <1>4, Edges DEF Ready, SafeInv, PlanProgress
  <2>2. homedir[p]
    BY <2>1, Edges DEF SafeInv, AlongEdges, ClosedUnder, PlanProgress
  <2>3. node' = [node EXCEPT !.kubeconfig["home"] = p]
    BY <1>4, <2>1, <2>2 DEF NodeAfter, Place
  <2>4. Control = p /\ Control' = Control /\ Credentials' = Credentials /\ Client' = p
    BY <2>1, <2>3 DEF Control, Credentials, Client, TypeOK, NodeType, Places
  <2>5. SeedNode!SetUpClient(p)
    BY <2>4 DEF SeedNode!SetUpClient, Control, Credentials, Client, Outcomes
  <2>6. QED
    BY <2>5, SameNames DEF SeedNode!Next
<1>5. CASE r \in Resources \ {"kubeadm:reset", "kubeadm:run-init", "kubeadm:config:copy"}
  <2>1. UNCHANGED <<Control, Credentials, Client>>
    BY <1>5 DEF NodeAfter, Control, Credentials, Client, TypeOK, NodeType
  <2>2. QED
    BY <2>1, Stutter
<1>6. QED
  BY <1>1, <1>2, <1>3, <1>4, <1>5

\* The plan: a resource is applied, or its command fails, with its effect there
\* or not.
LEMMA ResourceRefines ==
  ASSUME TypeOK, ~Overlap, SafeInv, NEW p \in Runs, NEW r \in Resources,
         ApplyResource(p, r) \/ ResourceRejected(p, r) \/ ResourceFault(p, r)
  PROVE  [SeedNode!Next]_(SeedNode!vars)
<1>1. /\ pc[p] = "plan" /\ Active(p) /\ r \in Ready(InitDeps, applied[p])
      /\ pc' = [pc EXCEPT ![p] = "plan"] \/ pc' = [pc EXCEPT ![p] = "cleanup"]
  BY DEF ApplyResource, ResourceRejected, ResourceFault, Goto, Active, Over, TypeOK
<1>2. Outcomes' = Outcomes /\ Outcomes[p] = "running"
  BY <1>1, OutcomeKept DEF Over
<1>3. CASE Succeeds(p, r) /\ node' = NodeAfter(p, r)
  BY <1>1, <1>2, <1>3, ResourceEffect
<1>4. CASE UNCHANGED node \/ node' = [node EXCEPT !.upgraded = p]
  <2>1. UNCHANGED <<Control, Credentials, Client>>
    BY <1>4 DEF Control, Credentials, Client, TypeOK, NodeType
  <2>2. QED
    BY <1>2, <2>1, Stutter
<1>5. QED
  BY <1>3, <1>4 DEF ApplyResource, ResourceRejected, ResourceFault, FaultEffect, remote

\* Files, and the reading of what "kubeadm init" printed.
LEMMA FileRefines ==
  ASSUME TypeOK, NEW p \in Runs,
         \/ UploadConfig(p) \/ Extract(p) \/ ExtractFails(p)
         \/ Mktemp(p) \/ MktempFails(p) \/ WriteManifest(p) \/ WriteManifestFails(p)
         \/ RemoveTemp(p) \/ RemoveTempFails(p) \/ KubectlRejected(p)
  PROVE  [SeedNode!Next]_(SeedNode!vars)
<1> DEFINE x == pc'[p]
<1>1. /\ Active(p) /\ x \notin Over \union {"idle"} /\ pc' = [pc EXCEPT ![p] = x]
  BY DEF UploadConfig, Extract, ExtractFails, Mktemp, MktempFails, WriteManifest,
         WriteManifestFails, AfterFailedWrite, RemoveTemp, RemoveTempFails, AfterRm,
         KubectlRejected, Goto, Active, Over, TypeOK
<1>2. UNCHANGED <<Control, Credentials, Client>>
  <2>1. CASE UploadConfig(p)
    BY <2>1 DEF UploadConfig, Control, Credentials, Client, TypeOK, NodeType
  <2>2. CASE ~UploadConfig(p)
    BY <2>2 DEF Extract, ExtractFails, Mktemp, MktempFails, WriteManifest,
                WriteManifestFails, RemoveTemp, RemoveTempFails, KubectlRejected, remote,
                Control, Credentials, Client
  <2>3. QED
    BY <2>1, <2>2
<1>3. QED
  BY <1>1, <1>2, OutcomeKept, Stutter

\* The third manifest completes the installation, with the credentials of the
\* control plane that runs; those before it are not seen.
LEMMA KubectlRefines ==
  ASSUME TypeOK, SafeInv, SafeInv', NEW p \in Runs, KubectlApply(p) \/ KubectlFault(p)
  PROVE  [SeedNode!Next]_(SeedNode!vars)
<1>1. /\ pc[p] = "apply" /\ Active(p) /\ Reaches(p) /\ pc' = [pc EXCEPT ![p] = "rm"]
  BY DEF KubectlApply, KubectlFault, Goto, SafeInv, Installed, Active, Over
<1>2. Outcomes' = Outcomes /\ Outcomes[p] = "running"
  BY <1>1, OutcomeKept DEF Over
<1>3. CASE UNCHANGED node
  BY <1>2, <1>3, Stutter DEF Control, Credentials, Client
<1>4. ASSUME NEW f \in tmp, node' = NodeWith(f) PROVE [SeedNode!Next]_(SeedNode!vars)
  <2>1. /\ node'.objects = node.objects \union {f.path[2]}
        /\ node.objects \subseteq 1 .. 3 /\ f.path[2] \in 1 .. 3
        /\ UNCHANGED <<Control, Client>>
    BY <1>4 DEF NodeWith, Control, Client, TypeOK, NodeType, TempFile
  <2>2. CASE node'.objects = 1 .. 3
    <3>1. Control = p /\ Client = p
      BY <1>1 DEF Reaches, Control, Client
    <3>2. Credentials' = p
      BY <2>1, <2>2, <3>1 DEF SafeInv, SecretMatchesCluster, Credentials, Control
    <3>3. SeedNode!Complete(p)
      BY <1>2, <2>1, <3>1, <3>2 DEF SeedNode!Complete, Control, Credentials, Client, Outcomes
    <3>4. QED
      BY <3>3, SameNames DEF SeedNode!Next
  <2>3. CASE node'.objects # 1 .. 3
    <3>1. node.objects # 1 .. 3
      BY <2>1, <2>3
    <3>2. UNCHANGED Credentials
      BY <2>3, <3>1 DEF Credentials
    <3>3. QED
      BY <1>2, <2>1, <3>2, Stutter
  <2>4. QED
    BY <2>2, <2>3
<1>5. QED
  BY <1>3, <1>4 DEF KubectlApply, KubectlFault

\* The end of a run, with the effects it has come to.
LEMMA EndRefines ==
  ASSUME TypeOK, SafeInv, InstallInv, NEW p \in Runs,
         UploadFails(p) \/ Cleanup(p) \/ CleanupFails(p) \/ Crash(p)
  PROVE  [SeedNode!Next]_(SeedNode!vars)
<1> DEFINE x == pc'[p]
<1>1. Active(p) /\ pc' = [pc EXCEPT ![p] = x]
  BY DEF UploadFails, Cleanup, CleanupFails, Crash, Goto, Active, Over, TypeOK
<1>2. UNCHANGED <<Control, Credentials, Client>>
  <2>1. \/ UNCHANGED node
        \/ \E c : node' = [node EXCEPT !.config = c]
    BY DEF UploadFails, Cleanup, CleanupFails, Crash, ConfigRemoved, remote
  <2>2. QED
    BY <2>1 DEF Control, Credentials, Client, TypeOK, NodeType
<1>3. CASE x \in {"failed", "crashed"}
  BY <1>1, <1>2, <1>3, FailStep
<1>4. CASE x \notin {"failed", "crashed"}
  <2>1. Concluded(p) /\ x = "ok"
    BY <1>4 DEF UploadFails, Cleanup, CleanupFails, Crash, Goto, Concluded, TypeOK
  <2>2. Credentials = p
    BY <2>1, ConcludedInstalled DEF Credentials
  <2>3. Outcome(p) = "running" /\ Outcome(p)' = "ok"
    BY <1>1, <2>1 DEF Outcome, Active, Over
  <2>4. Outcomes[p] = "running" /\ Outcomes' = [Outcomes EXCEPT ![p] = "ok"]
    BY <1>1, <2>3, OutcomeStep DEF Outcomes
  <2>5. SeedNode!Succeed(p)
    BY <1>2, <2>2, <2>4
       DEF SeedNode!Succeed, SeedNode!Becomes, Control, Credentials, Client, Outcomes
  <2>6. QED
    BY <2>5, SameNames DEF SeedNode!Next
<1>5. QED
  BY <1>3, <1>4

\* Every step of KubeadmInit is one of SeedNode or changes nothing it sees.
LEMMA StepRefines ==
  ASSUME TypeOK, ~Overlap, SafeInv, SafeInv', InstallInv, [Next]_vars
  PROVE  [SeedNode!Next]_(SeedNode!vars)
<1>1. CASE UNCHANGED vars
  <2>1. UNCHANGED <<Control, Credentials, Client, Outcomes>>
    BY <1>1 DEF vars, remote, local, Control, Credentials, Client, Outcomes, Outcome
  <2>2. QED
    BY <2>1, Stutter
<1>2. ASSUME NEW p \in Runs, Begin(p) \/ Progress(p) \/ Disturbance(p)
      PROVE  [SeedNode!Next]_(SeedNode!vars)
  BY <1>2, StartStep, ResourceRefines, FileRefines, KubectlRefines, EndRefines
     DEF Progress, Disturbance
<1>3. QED
  BY <1>1, <1>2 DEF Next, Finished

\* No run has begun and the node is empty.
LEMMA InitRefines == Init => SeedNode!Init
<1> SUFFICES ASSUME Init PROVE SeedNode!Init
  OBVIOUS
<1>1. /\ node.cluster = None /\ node.objects = {} /\ node.kubeconfig["home"] = None
      /\ \A p \in Runs : pc[p] = "idle"
  BY DEF Init, Places
<1>2. \A p \in Runs : Outcome(p) = "waiting"
  BY <1>1 DEF Outcome
<1>3. (IF node.objects = 1 .. 3 THEN node.secret ELSE None) = None
  BY <1>1
<1>4. QED
  BY <1>1, <1>2, <1>3, SameNames DEF SeedNode!Init

\* KubeadmInit implements SeedNode when runs of wksctl do not overlap, whatever
\* faults and kills there are.
THEOREM AlwaysImplementsSeedNode ==
  ASSUME ~Overlap
  PROVE  Spec => ImplementsSeedNode
<1>1. Init => SafeInv /\ InstallInv
  BY SafeInit, InstallInit
<1>2. TypeOK /\ SafeInv /\ InstallInv /\ [Next]_vars => SafeInv' /\ InstallInv'
  BY SafeStep, InstallStep
<1>3. TypeOK /\ SafeInv /\ SafeInv' /\ InstallInv /\ [Next]_vars
        => [SeedNode!Next]_(SeedNode!vars)
  BY StepRefines
<1>4. QED
  BY <1>1, <1>2, <1>3, InitRefines, TypeCorrect, PTL
     DEF Spec, ImplementsSeedNode, SeedNode!Spec
================================================================================
