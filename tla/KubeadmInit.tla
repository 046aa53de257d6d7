------------------------------ MODULE KubeadmInit ------------------------------
(***************************************************************************)
(* KubeadmInit.Apply (pkg/plan/resource/kubeadm_init.go) with the helpers  *)
(* it calls (RunKubectlApply, writeTempFile, removeFile): a run of wksctl  *)
(* drives a remote seed node with shell commands over SSH, one at a time.  *)
(*                                                                         *)
(* Each command that changes the node is one step.  It succeeds, or it     *)
(* fails: because the node's state makes it fail, or because of a fault (a *)
(* lost connection, a full disk), after which its effect may or may not be *)
(* there.  The process running wksctl may also be killed between two       *)
(* commands.  The operator then runs the same command again, on the node   *)
(* as the previous run left it.                                            *)
(*                                                                         *)
(* What kubeadm, kubectl, mktemp and cp do to the node is external and     *)
(* modelled from how the code uses them.                                   *)
(***************************************************************************)
EXTENDS PlanGraph

CONSTANTS
  NumRuns,    \* how many times wksctl is run against the seed node
  Overlap,    \* may a run start while an earlier one is still in progress?
  Minors,     \* minor versions n of the Kubernetes versions 1.n tried
  MaxFaults   \* bound on the faults of a behaviour (crashes included)

ASSUME KubeadmInitAssumption ==
  /\ NumRuns \in Nat
  /\ Overlap \in BOOLEAN
  /\ Minors \subseteq Nat
  /\ MaxFaults \in Nat

Runs == 1 .. NumRuns

\* A control plane, its certificates and the join command kubeadm prints for
\* it are named by the run whose "kubeadm init" created them; None is no run.
None == 0
Gens == Runs \union {None}

VARIABLES
  minor,    \* the Kubernetes version of the manifests is 1.minor
  node,     \* the seed node, see NodeType
  tmp,      \* its temporary files, a set of records, see TempFile
  pc,       \* pc[p]: what run p does next
  applied,  \* applied[p]: the resources of p's plan that p has applied
  output,   \* output[p]: stdOutErr, as the control plane its join command joins
  homedir,  \* homedir[p]: has the variable homedir been set?
  step,     \* step[p]: the manifest p is applying, or would apply next
  err,      \* err[p]: is p returning an error?
  unclean,  \* runs for which a command that creates or removes a file failed
  faults    \* number of faults so far

remote == <<node, tmp>>
local == <<pc, applied, output, homedir, step, err, unclean>>
vars == <<minor, remote, local, faults>>

--------------------------------------------------------------------------------
\* Types.

ConfigForms == {"absent", "partial", "raw", "migrated"}

\* Where "%s/.kube" is: under the home directory, or at the root of the file
\* system if homedir is still empty when the string is formatted.
Places == {"home", "root"}

NodeType ==
  [config : [owner : Gens, form : ConfigForms], \* remotePath
   upgraded : Gens,             \* the run that left a file <remotePath>_upgraded
   cluster : Gens,              \* the control plane that runs
   adminConf : Gens,            \* the one /etc/kubernetes/admin.conf is for
   kubeDirs : SUBSET Places,    \* the .kube directories that exist
   kubeconfig : [Places -> Gens], \* the control plane .kube/config is for
   objects : SUBSET (1 .. 3),   \* manifests present in the running cluster
   secret : Gens]               \* whose credentials the WKS secret holds

Phases ==
  {"idle", "upload", "plan", "mktemp", "write", "apply", "rm", "cleanup"}
    \union {"ok", "failed", "crashed"}

Over == {"ok", "failed", "crashed"}

--------------------------------------------------------------------------------
\* The plan built by buildKubeadmInitPlan.

\* "kubeadm:config:upgrade" migrates the configuration from 1.17.0 on.
\* (Broken variants of an operator, such as the first one here, stand just
\* before it: a property is shown to have teeth by failing under one.)
UpgradeAfter17(m) == m > 17
UpgradeKubeadmConfig(m) == ~(m < 17)

\* Versions before 1.15.0 get --experimental-upload-certs.
ExperimentalUploadCerts(m) == m < 15

Resources ==
  {"configure:iptables", "kubeadm:config:upgrade", "kubeadm:reset",
   "kubeadm:config:images", "kubeadm:run-init", "kubeadm:get-homedir",
   "kubeadm:config:kubectl-dir", "kubeadm:config:copy",
   "kubeadm:config:set-ownership"}

DependsOn(r) ==
  CASE r = "kubeadm:config:upgrade" -> {"configure:iptables"}
    [] r = "kubeadm:reset" -> {"kubeadm:config:upgrade"}
    [] r = "kubeadm:config:images" -> {"kubeadm:reset"}
    [] r = "kubeadm:run-init" -> {"kubeadm:config:images"}
    [] r = "kubeadm:config:kubectl-dir" -> {"kubeadm:get-homedir"}
    [] r = "kubeadm:config:copy" ->
         {"kubeadm:run-init", "kubeadm:config:kubectl-dir"}
    [] r = "kubeadm:config:set-ownership" -> {"kubeadm:config:copy"}
    [] OTHER -> {}

InitDepsNoHomedir ==
  [r \in Resources |->
     IF r = "kubeadm:config:kubectl-dir" THEN {} ELSE DependsOn(r)]
InitDepsNoInit ==
  [r \in Resources |->
     IF r = "kubeadm:config:copy" THEN {"kubeadm:config:kubectl-dir"}
                                  ELSE DependsOn(r)]
InitDeps == [r \in Resources |-> DependsOn(r)]

Place(p) == IF homedir[p] THEN "home" ELSE "root"

\* kubeadm before 1.15 knows only --experimental-upload-certs, kubeadm after
\* 1.15 only --upload-certs; from 1.17 on it refuses a configuration that has
\* not been migrated.
FlagKnown == IF ExperimentalUploadCerts(minor) THEN minor <= 15 ELSE minor >= 15
ConfigAccepted ==
  IF minor < 17 THEN node.config.form \in {"raw", "migrated"}
                ELSE node.config.form = "migrated"

\* Does the node's state let the command of resource r succeed for run p?
Succeeds(p, r) ==
  CASE r = "kubeadm:config:upgrade" ->
         UpgradeKubeadmConfig(minor) => node.config.form \in {"raw", "migrated"}
    [] r = "kubeadm:config:images" -> ConfigAccepted
    [] r = "kubeadm:run-init" ->
         ConfigAccepted /\ FlagKnown /\ node.cluster = None
    [] r = "kubeadm:config:copy" ->
         node.adminConf # None /\ Place(p) \in node.kubeDirs
    [] r = "kubeadm:config:set-ownership" -> Place(p) \in node.kubeDirs
    [] OTHER -> TRUE

\* The node after the command of resource r of run p.
NodeAfter(p, r) ==
  CASE r = "kubeadm:config:upgrade" ->
         IF UpgradeKubeadmConfig(minor)
         THEN [node EXCEPT !.config.form = "migrated", !.upgraded = None]
         ELSE node
    [] r = "kubeadm:reset" ->
         [node EXCEPT !.cluster = None, !.adminConf = None,
                      !.objects = {}, !.secret = None]
    [] r = "kubeadm:run-init" ->
         [node EXCEPT !.cluster = p, !.adminConf = p]
    [] r = "kubeadm:config:kubectl-dir" ->
         [node EXCEPT !.kubeDirs = @ \union {Place(p)}]
    [] r = "kubeadm:config:copy" ->
         [node EXCEPT !.kubeconfig[Place(p)] = node.adminConf]
    [] OTHER -> node

\* What a command that reports an error may leave behind: nothing, all of its
\* effect, or, of the two commands joined by && that migrate the
\* configuration, the effect of the first: a copy of the configuration.
FaultEffect(p, r) ==
  \/ UNCHANGED node
  \/ Succeeds(p, r) /\ node' = NodeAfter(p, r)
  \/ /\ r = "kubeadm:config:upgrade"
     /\ UpgradeKubeadmConfig(minor)
     /\ node' = [node EXCEPT !.upgraded = p]

--------------------------------------------------------------------------------
\* Temporary files.

\* "mktemp -t <name>XXXXXXXXXX" makes a name no other file has, so the run and
\* the manifest that asked for it can stand for it.
SharedPath(p, m) == <<None, m>>
TempPath(p, m) == <<p, m>>

\* Bodies: nothing yet, a part, or a whole manifest with the credentials that
\* the third manifest (the secret) carries.
TempFile ==
  [path : Gens \X (1 .. 3), full : BOOLEAN, creds : Gens]

MyPath(p) == TempPath(p, step[p])
MyFileNoCreds(p) ==
  [path |-> MyPath(p), full |-> TRUE, creds |-> None]
MyFile(p) ==
  [path |-> MyPath(p), full |-> TRUE,
   creds |-> IF step[p] = 3 THEN output[p] ELSE None]
EmptyFile(p) == [path |-> MyPath(p), full |-> FALSE, creds |-> None]

Writing(f) == {t \in tmp : t.path # f.path} \union {f}

\* "kubectl apply -f" of file f: it reaches the cluster ~/.kube/config is for,
\* and the second and third manifest need the namespace of the first.
Applies(f) ==
  /\ f.full
  /\ node.kubeconfig["home"] # None
  /\ node.kubeconfig["home"] = node.cluster
  /\ f.path[2] # 1 => 1 \in node.objects

NodeWith(f) ==
  [node EXCEPT !.objects = @ \union {f.path[2]},
               !.secret = IF f.path[2] = 3 THEN f.creds ELSE @]

--------------------------------------------------------------------------------
Init ==
  /\ minor \in Minors
  /\ node = [config |-> [owner |-> None, form |-> "absent"],
             upgraded |-> None, cluster |-> None, adminConf |-> None,
             kubeDirs |-> {}, kubeconfig |-> [w \in Places |-> None],
             objects |-> {}, secret |-> None]
  /\ tmp = {}
  /\ pc = [p \in Runs |-> "idle"]
  /\ applied = [p \in Runs |-> {}]
  /\ output = [p \in Runs |-> None]
  /\ homedir = [p \in Runs |-> FALSE]
  /\ step = [p \in Runs |-> 1]
  /\ err = [p \in Runs |-> FALSE]
  /\ unclean = {}
  /\ faults = 0

Goto(p, from, to) ==
  /\ pc[p] = from
  /\ pc' = [pc EXCEPT ![p] = to]

NoFault == UNCHANGED faults
Fault ==
  /\ faults < MaxFaults
  /\ faults' = faults + 1

Unclean(p) == unclean' = unclean \union {p}

\* wksctl is run for the p-th time, reads the SSH key and marshals the
\* configuration.
Begin(p) ==
  /\ \A q \in 1 .. (p - 1) : pc[q] \in (IF Overlap THEN Phases \ {"idle"} ELSE Over)
  /\ Goto(p, "idle", "upload")
  /\ NoFault
  /\ UNCHANGED <<minor, remote, applied, output, homedir, step, err, unclean>>

\* The key cannot be read or the configuration not marshalled.
BeginFails(p) ==
  /\ \A q \in 1 .. (p - 1) : pc[q] \in (IF Overlap THEN Phases \ {"idle"} ELSE Over)
  /\ Goto(p, "idle", "failed")
  /\ Fault
  /\ UNCHANGED <<minor, remote, applied, output, homedir, step, err, unclean>>

UploadConfig(p) ==
  /\ Goto(p, "upload", "plan")
  /\ node' = [node EXCEPT !.config = [owner |-> p, form |-> "raw"]]
  /\ NoFault
  /\ UNCHANGED <<minor, tmp, applied, output, homedir, step, err, unclean>>

\* A failed upload returns before the removal of the file is deferred.
UploadFails(p) ==
  /\ Goto(p, "upload", "failed")
  /\ \E c \in {node.config} \union [owner : {p}, form : {"partial", "raw"}] :
       node' = [node EXCEPT !.config = c]
  /\ Unclean(p)
  /\ Fault
  /\ UNCHANGED <<minor, tmp, applied, output, homedir, step, err>>

\* The engine applies a resource whose dependencies are applied.
ApplyResource(p, r) ==
  /\ pc[p] = "plan"
  /\ r \in Ready(InitDeps, applied[p])
  /\ Succeeds(p, r)
  /\ node' = NodeAfter(p, r)
  /\ applied' = [applied EXCEPT ![p] = @ \union {r}]
  /\ homedir' = [homedir EXCEPT ![p] = @ \/ r = "kubeadm:get-homedir"]
  /\ output' = [output EXCEPT ![p] = IF r = "kubeadm:run-init" THEN p ELSE @]
  /\ NoFault
  /\ UNCHANGED <<minor, tmp, pc, step, err, unclean>>

\* The command of a resource fails; the engine stops and Apply returns.
ResourceRejected(p, r) ==
  /\ r \in Ready(InitDeps, applied[p])
  /\ ~Succeeds(p, r)
  /\ Goto(p, "plan", "cleanup")
  /\ err' = [err EXCEPT ![p] = TRUE]
  /\ NoFault
  /\ UNCHANGED <<minor, remote, applied, output, homedir, step, unclean>>

ResourceFault(p, r) ==
  /\ r \in Ready(InitDeps, applied[p])
  /\ Goto(p, "plan", "cleanup")
  /\ FaultEffect(p, r)
  /\ err' = [err EXCEPT ![p] = TRUE]
  /\ Fault
  /\ UNCHANGED <<minor, tmp, applied, output, homedir, step, unclean>>

\* The join command, the CA certificate's hash and the certificate key are
\* extracted from what "kubeadm init" printed.
Extract(p) ==
  /\ Goto(p, "plan", "mktemp")
  /\ applied[p] = Resources
  /\ NoFault
  /\ UNCHANGED <<minor, remote, applied, output, homedir, step, err, unclean>>

ExtractFails(p) ==
  /\ Goto(p, "plan", "cleanup")
  /\ applied[p] = Resources
  /\ err' = [err EXCEPT ![p] = TRUE]
  /\ Fault
  /\ UNCHANGED <<minor, remote, applied, output, homedir, step, unclean>>

\* RunKubectlApply, for the manifests 01_namespace.yaml, 02_rbac.yaml and
\* 03_secrets.yaml in turn.
Mktemp(p) ==
  /\ Goto(p, "mktemp", "write")
  /\ tmp' = Writing(EmptyFile(p))
  /\ NoFault
  /\ UNCHANGED <<minor, node, applied, output, homedir, step, err, unclean>>

\* mktemp fails, perhaps after it made a file whose name wksctl never learns.
MktempFails(p) ==
  /\ Goto(p, "mktemp", "cleanup")
  /\ tmp' \in {tmp, Writing(EmptyFile(p))}
  /\ err' = [err EXCEPT ![p] = TRUE]
  /\ Unclean(p)
  /\ Fault
  /\ UNCHANGED <<minor, node, applied, output, homedir, step>>

WriteManifest(p) ==
  /\ Goto(p, "write", "apply")
  /\ tmp' = Writing(MyFile(p))
  /\ NoFault
  /\ UNCHANGED <<minor, node, applied, output, homedir, step, err, unclean>>

\* writeTempFile deletes the file it could not write, and returns the error.
GiveUpWrite(p) == "cleanup"
AfterFailedWrite(p) == "rm"
WriteManifestFails(p) ==
  /\ Goto(p, "write", AfterFailedWrite(p))
  /\ tmp' \in {tmp, Writing(EmptyFile(p)), Writing(MyFile(p))}
  /\ err' = [err EXCEPT ![p] = TRUE]
  /\ Fault
  /\ UNCHANGED <<minor, node, applied, output, homedir, step, unclean>>

\* "kubectl apply" of the file at that path, whatever it holds by now.
KubectlApply(p) ==
  /\ Goto(p, "apply", "rm")
  /\ \E f \in tmp : f.path = MyPath(p) /\ Applies(f) /\ node' = NodeWith(f)
  /\ NoFault
  /\ UNCHANGED <<minor, tmp, applied, output, homedir, step, err, unclean>>

KubectlRejected(p) ==
  /\ Goto(p, "apply", "rm")
  /\ ~ \E f \in tmp : f.path = MyPath(p) /\ Applies(f)
  /\ err' = [err EXCEPT ![p] = TRUE]
  /\ NoFault
  /\ UNCHANGED <<minor, remote, applied, output, homedir, step, unclean>>

KubectlFault(p) ==
  /\ Goto(p, "apply", "rm")
  /\ node' \in {node} \union
       {NodeWith(f) : f \in {g \in tmp : g.path = MyPath(p) /\ Applies(g)}}
  /\ err' = [err EXCEPT ![p] = TRUE]
  /\ Fault
  /\ UNCHANGED <<minor, tmp, applied, output, homedir, step, unclean>>

\* The deferred "rm -vf", whose own error is ignored; then the next manifest,
\* or the end of Apply.
LastManifestRBAC == 2
LastManifestExtra == 4
LastManifest == 3
LastOrFailed(p) == err[p] \/ step[p] = LastManifest
AfterRmRetrying(p) ==
  IF err[p] THEN "mktemp" ELSE IF LastOrFailed(p) THEN "cleanup" ELSE "mktemp"
AfterRm(p) == IF LastOrFailed(p) THEN "cleanup" ELSE "mktemp"

RemoveTemp(p) ==
  /\ Goto(p, "rm", AfterRm(p))
  /\ tmp' = {t \in tmp : t.path # MyPath(p)}
  /\ step' = [step EXCEPT ![p] = IF LastOrFailed(p) THEN @ ELSE @ + 1]
  /\ NoFault
  /\ UNCHANGED <<minor, node, applied, output, homedir, err, unclean>>

RemoveTempFails(p) ==
  /\ Goto(p, "rm", AfterRm(p))
  /\ step' = [step EXCEPT ![p] = IF LastOrFailed(p) THEN @ ELSE @ + 1]
  /\ Unclean(p)
  /\ Fault
  /\ UNCHANGED <<minor, remote, applied, output, homedir, err>>

\* The deferred removeFile of the uploaded configuration, error ignored.
ConfigKept(n) == n
ConfigRemoved(n) == [n EXCEPT !.config = [owner |-> None, form |-> "absent"]]

Cleanup(p) ==
  /\ Goto(p, "cleanup", IF err[p] THEN "failed" ELSE "ok")
  /\ node' = ConfigRemoved(node)
  /\ NoFault
  /\ UNCHANGED <<minor, tmp, applied, output, homedir, step, err, unclean>>

CleanupFails(p) ==
  /\ Goto(p, "cleanup", IF err[p] THEN "failed" ELSE "ok")
  /\ Unclean(p)
  /\ Fault
  /\ UNCHANGED <<minor, remote, applied, output, homedir, step, err>>

\* The process running wksctl is killed between two commands.
Crash(p) ==
  /\ pc[p] \notin Over \union {"idle"}
  /\ pc' = [pc EXCEPT ![p] = "crashed"]
  /\ Fault
  /\ UNCHANGED <<minor, remote, applied, output, homedir, step, err, unclean>>

\* What the run does by itself; faults are not among it.
Progress(p) ==
  \/ UploadConfig(p)
  \/ \E r \in Resources : ApplyResource(p, r) \/ ResourceRejected(p, r)
  \/ Extract(p)
  \/ Mktemp(p) \/ WriteManifest(p)
  \/ KubectlApply(p) \/ KubectlRejected(p)
  \/ RemoveTemp(p)
  \/ Cleanup(p)

Disturbance(p) ==
  \/ BeginFails(p)
  \/ UploadFails(p)
  \/ \E r \in Resources : ResourceFault(p, r)
  \/ ExtractFails(p)
  \/ MktempFails(p) \/ WriteManifestFails(p)
  \/ KubectlFault(p)
  \/ RemoveTempFails(p)
  \/ CleanupFails(p)
  \/ Crash(p)

\* All runs are over: the only state in which nothing more happens.
Finished ==
  /\ \A p \in Runs : pc[p] \in Over
  /\ UNCHANGED vars

Next ==
  \/ \E p \in Runs : Begin(p) \/ Progress(p) \/ Disturbance(p)
  \/ Finished

Spec == Init /\ [][Next]_vars

\* A run goes on to its next command as long as it is not killed, and the
\* operator runs wksctl again until every run is used.
FairSpec ==
  Spec /\ \A p \in Runs : WF_vars(Begin(p)) /\ WF_vars(Progress(p))

--------------------------------------------------------------------------------
\* Properties.

\* Every variable has its type.
TypeOK ==
  /\ minor \in Minors
  /\ node \in NodeType
  /\ tmp \subseteq TempFile
  /\ pc \in [Runs -> Phases]
  /\ applied \in [Runs -> SUBSET Resources]
  /\ output \in [Runs -> Gens]
  /\ homedir \in [Runs -> BOOLEAN]
  /\ step \in [Runs -> 1 .. 3]
  /\ err \in [Runs -> BOOLEAN]
  /\ unclean \subseteq Runs
  /\ faults \in 0 .. MaxFaults

\* The WKS secret in the running cluster, from which the controller builds the
\* join command of every other machine, holds the CA hash and certificate key
\* of that cluster: never those of a control plane an earlier run created and
\* a later run reset (applySecretWith).
SecretMatchesCluster ==
  3 \in node.objects => node.secret # None /\ node.secret = node.cluster

\* While Apply runs kubectl, ~/.kube/config is for the control plane its own
\* "kubeadm init" created, although a reset leaves the one of an earlier
\* control plane behind.
KubeconfigCurrent ==
  \A p \in Runs :
    pc[p] \in {"mktemp", "write", "apply"} =>
      /\ node.kubeconfig["home"] = p
      /\ node.cluster = p

\* A run that reported success left a seed node on which the control plane it
\* created runs with the namespace, the roles and the secret in it, until the
\* operator runs wksctl again, and kubectl's configuration for it under the home
\* directory and nowhere else: the path is not formatted before homedir is
\* known.
SuccessMeansInstalled ==
  \A p \in Runs :
    (pc[p] = "ok" /\ \A q \in Runs : q > p => pc[q] = "idle") =>
      /\ node.cluster = p
      /\ node.kubeconfig["home"] = p /\ node.kubeDirs = {"home"}
      /\ node.objects = 1 .. 3
      /\ node.secret = p

\* The configuration of a run, which holds the bootstrap token, after the run.
\* Apply returns without the file it uploaded, unless the upload or the removal
\* failed.  The copy that the conversion makes is not removed by anyone: it
\* outlives the run when the mv after the migration fails, and then only; a run
\* that converted its configuration leaves none, and after a successful run
\* there is neither file, of an earlier run either.
NoConfigLeft ==
  \A p \in Runs :
    /\ pc[p] \in {"ok", "failed"} /\ p \notin unclean => node.config.owner # p
    /\ node.upgraded = p /\ pc[p] \in Over =>
         pc[p] # "ok" /\ "kubeadm:config:upgrade" \notin applied[p]
    /\ (pc[p] = "ok" /\ \A q \in Runs : q > p => pc[q] = "idle") =>
         /\ p \notin unclean => node.config.form = "absent"
         /\ node.upgraded = None

\* Apply returns without any of its manifests, one of which holds the SSH key,
\* in a temporary file on the node, unless making or removing a file failed.
TempFilesRemoved ==
  \A p \in Runs \ unclean :
    pc[p] \in {"ok", "failed"} => \A m \in 1 .. 3, f \in tmp : f.path # TempPath(p, m)

\* The manifest a run applies is its own even when two runs overlap: the
\* secret that reaches the cluster carries the credentials of the run that is
\* applying it.
AppliesOwnManifest ==
  [][(node'.secret # node.secret /\ node'.secret # None) =>
       \E p \in Runs : pc[p] = "apply" /\ pc'[p] = "rm" /\ node'.secret = output[p]]_vars

\* The run as the operator sees it.
Outcome(p) ==
  CASE pc[p] = "idle" -> "waiting"
    [] pc[p] = "ok" -> "ok"
    [] pc[p] \in {"failed", "crashed"} -> "failed"
    [] OTHER -> "running"

\* The installation is complete with the third manifest.
SeedNode == INSTANCE SeedNode WITH
  control <- node.cluster,
  credentials <- IF node.objects = 1 .. 3 THEN node.secret ELSE None,
  client <- node.kubeconfig["home"],
  outcome <- [p \in Runs |-> Outcome(p)]

\* Seen so, runs that take turns behave as module SeedNode specifies, faults
\* and kills included: each command is one of its steps or changes nothing the
\* operator relies on.
ImplementsSeedNode == SeedNode!Spec

\* Whatever faults and crashes the earlier runs left the node in, running
\* wksctl again installs the cluster: some run that meets no fault succeeds.
Converges == <>(\E p \in Runs : pc[p] = "ok")

\* A run that is not killed returns, with or without an error.
EveryRunReturns == \A p \in Runs : pc[p] = "upload" ~> pc[p] \in Over
================================================================================
