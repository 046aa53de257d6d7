----------------------------- MODULE ApplyCommand ------------------------------
(***************************************************************************)
(* "wksctl apply": Applier.Apply and initiateCluster                       *)
(* (cmd/wksctl/apply/apply.go), and "wksctl plan view", which goes the     *)
(* same way to a plan it only prints (cmd/wksctl/plan/view); the clone of  *)
(* the manifests they may work from (pkg/manifests) and SetupSeedNode with *)
(* the plan for the PEM files of the authentication and authorization      *)
(* webhooks (pkg/apis/wksprovider/machine/os/os.go).                       *)
(*                                                                         *)
(* Runs follow one another against one seed node.  A run is a sequence of  *)
(* stages, the values of pc.  A stage succeeds, or fails and Apply returns *)
(* an error: the calls deferred by then close the SSH connection and       *)
(* remove the clone, one after the other.  They also run when the code     *)
(* panics, but not when it calls log.Fatal, which exits the process.       *)
(*                                                                         *)
(* Local manifests can be edited while a run is in progress; the manifests *)
(* of a clone cannot.  The plan that installs Kubernetes                   *)
(* (CreateSeedNodeSetupPlan) is external: one resource whose effect is to  *)
(* record the parameters it was built from.                                *)
(***************************************************************************)
EXTENDS PlanGraph, Functions, MachineManifests

CONSTANTS
  NumRuns,   \* how many times a command is run
  MaxEdits,  \* how often the manifests are edited
  MaxFaults, \* bound on kills and on failures the inputs do not explain
  Clusters,  \* the cluster manifests tried, see ClusterManifest
  Machines,  \* the machines manifests tried, see MachinesManifest
  Secrets,   \* names of sealed secrets
  Broken,    \* those that cannot be unsealed or lack a PEM file
  PemKeys,   \* the PEM files of a secret (pemKeys), all treated alike
  KeyPaths,  \* values of --ssh-key
  Flags      \* the combinations of flags tried, see Params

\* None is also no secret and an empty path.  A cluster manifest is valid,
\* refused by the validation, or not even YAML of the right kinds.
Forms == {"valid", "invalid", "garbled"}

ClusterManifest ==
  [form : Forms,
   version : Versions \union {None},
   authn : Secrets \union {None}, authz : Secrets \union {None}]

Params ==
  [view : BOOLEAN,      \* is the command plan view?
   git : BOOLEAN,       \* is --git-url given?
   sshKeyPath : KeyPaths,
   cert : BOOLEAN,      \* does --sealed-secret-cert name a file?
   sealedKey : BOOLEAN, \* does --sealed-secret-key?
   deployKey : BOOLEAN, \* does --git-deploy-key?
   overrides : BOOLEAN] \* are --namespace, --controller-image, ... given?

ASSUME ApplyCommandAssumption ==
  /\ NumRuns \in Nat /\ MaxEdits \in Nat /\ MaxFaults \in Nat
  /\ Clusters \subseteq ClusterManifest
  /\ Machines \subseteq MachinesManifest
  /\ Broken \subseteq Secrets
  /\ Flags \subseteq Params /\ Flags # {}
  /\ Supported \subseteq Versions
  /\ None \notin Versions \union Secrets \union KeyPaths

VARIABLES
  cluster, machines, \* the manifests, in files or in the repository
  runs,    \* how many runs have begun
  edits, faults,
  params,  \* the flags of the run
  pc,      \* its stage
  clone,   \* the run's clone: is its directory on disk?
  ssh,     \* is the run's SSH connection open?
  deferred,  \* the calls it has deferred: "clone", "ssh"
  result,    \* how it ends once they are done
  abandoned, \* has it failed to remove the clone?
  read,    \* the manifests the run has read for SetupSeedNode
  eic,     \* its ExistingInfraCluster, see EIC
  seed,    \* the SeedNodeParams the seed node's plan is built from
  applied, \* the resources of the secret plan the run has applied
  seeded,  \* has the run applied "install:seed-node"?
  node     \* the seed node

sources == <<cluster, machines>>
counters == <<runs, edits, faults>>
local == <<params, read, eic, seed, applied, seeded>>
held == <<clone, ssh, deferred, result, abandoned>>
vars == <<sources, counters, local, pc, held, node>>

--------------------------------------------------------------------------------
\* Types.

\* What the code uses of an ExistingInfraCluster; the manifest it is encoded
\* to (UnparseCluster) decodes to the same value and is represented by it.
EIC ==
  [version : Versions \union {None}, sshKeyPath : KeyPaths \union {None},
   authn : Secrets \union {None}, authz : Secrets \union {None}]

\* The manifests a run has validated, from which the addresses and networks
\* of SeedNodeParams are, and those it has read again.
Specs == (Clusters \X Machines) \union {None}
ReadType ==
  [spec : Specs, cluster : Clusters \union {None}, machines : Machines \union {None}]

\* What the plan has of the flags, but for --ssh-key: the repository, the keys
\* of the secrets, the directory, namespaces and images.
FlagsOf(p) ==
  [git |-> p.git, cert |-> p.cert, sealedKey |-> p.sealedKey,
   deployKey |-> p.deployKey, overrides |-> p.overrides]

SeedParams ==
  [spec : Specs, eic : EIC, manifest : EIC,
   token : 0 .. NumRuns,         \* BootstrapToken, named by the run that drew it
   flags : {FlagsOf(p) : p \in Flags} \union {None},
   hosts : Nat \union {None},    \* ConnectionInfo
   key : KeyPaths \union {None}, \* the file the key in ConnectionInfo is from
   auth : SUBSET Secrets]        \* the secrets of AuthInfo

NodeType ==
  [pemDir : {"absent", "open", "private"},
   files : SUBSET (Secrets \X (PemKeys \union {"config"})),
   seed : SeedParams \union {None}, \* what it was installed with, and
   from : ReadType]                 \* the manifests that came from

Stages ==
  <<"mkdir", "abs", "clone", "paths", "specs", "ssh", "identify", "token",
    "namespaces", "image", "read-cluster", "read-machines", "parse",
    "version", "unparse", "sealed-secret", "secret-plan", "pool",
    "seed-plan", "apply">>

\* How a run ends: it returned with or without an error, panicked, exited
\* through log.Fatal, or was killed.  Before the first run pc is "idle", and
\* while deferred calls are left to be made it is "return".
Results == {"ok", "error", "panic"}
Ends == Results \union {"fatal", "killed"}

NextStage(s) == Stages[(CHOOSE i \in DOMAIN Stages : Stages[i] = s) + 1]

\* plan view goes another way after "identify": it reads both manifests and
\* the keys of the secrets, and makes a plan and prints it.
ViewStages == {"view-cluster", "view-machines", "view-secret", "view-plan"}
NextViewStage(s) ==
  CASE s = "identify" -> "view-cluster"
    [] s = "view-cluster" -> "view-machines"
    [] s = "view-machines" -> "view-secret"
    [] s = "view-secret" -> "view-plan"

--------------------------------------------------------------------------------
\* SetupSeedNode.

Auth(e) == {e.authn, e.authz} \ {None}

\* The default sealed secret key is the Git deploy key.
HaveSealedSecretKeys(p) == p.cert /\ (p.sealedKey \/ p.deployKey)

\* checkPemValues, getPrivateKey, processSecret for each secret, and
\* Builder.Plan, which refuses two resources of one name: the files of two
\* secrets of one name.
SecretPlanOK(p, e) ==
  Auth(e) = {} \/
    /\ HaveSealedSecretKeys(p)
    /\ Auth(e) \intersect Broken = {}
    /\ e.authn # e.authz

CreateDir == <<None, "create:pem-dir">>
SetPerms == <<None, "set-perms:pem-dir">>
Installs(e) == Auth(e) \X (PemKeys \union {"config"})

\* The plan of processPemFilesIfAny.
SecretPlanUnordered(e) ==
  [r \in {CreateDir, SetPerms} \union Installs(e) |->
     IF r = CreateDir THEN {} ELSE {CreateDir}]
SecretPlan(e) ==
  [r \in {CreateDir, SetPerms} \union Installs(e) |->
     CASE r = CreateDir -> {}
       [] r = SetPerms -> {CreateDir}
       [] OTHER -> {SetPerms}]

\* "install:secret-support" and "install:seed-node" do not depend on each
\* other; one is applied as a whole before the other.
SupportDone == Auth(seed.eic) = {} \/ applied = DOMAIN SecretPlan(seed.eic)
SupportIdle == SupportDone \/ applied = {}

NodeAfterWorldReadable(r) ==
  IF r = SetPerms THEN [node EXCEPT !.pemDir = "shared"]
                  ELSE [node EXCEPT !.pemDir = "open"]
NodeAfter(r) ==
  CASE r = CreateDir ->
         [node EXCEPT !.pemDir = IF @ = "absent" THEN "open" ELSE @]
    [] r = SetPerms -> [node EXCEPT !.pemDir = "private"]
    [] OTHER -> [node EXCEPT !.files = @ \union {r}]

NodeSeeded == [node EXCEPT !.seed = seed, !.from = read]

\* createMachinePoolInfo clears the path of the SSH key, which a later plan
\* for the same node will not have, in the manifest and in the cluster, and
\* reads the key.
PoolKeepingPath(s, p) == [s EXCEPT !.manifest.sshKeyPath = None,
                                   !.hosts = Len(read.machines.infra),
                                   !.key = p.sshKeyPath]
PoolKeyAfterClear(s, p) == [s EXCEPT !.manifest.sshKeyPath = None,
                                     !.eic.sshKeyPath = None,
                                     !.hosts = Len(read.machines.infra),
                                     !.key = None]
Pool(s, p) == [s EXCEPT !.manifest.sshKeyPath = None,
                        !.eic.sshKeyPath = None,
                        !.hosts = Len(read.machines.infra),
                        !.key = s.eic.sshKeyPath]

--------------------------------------------------------------------------------
NotRead == [spec |-> None, cluster |-> None, machines |-> None]
NoSeed == [spec |-> None,
           eic |-> [version |-> None, sshKeyPath |-> None,
                    authn |-> None, authz |-> None],
           manifest |-> [version |-> None, sshKeyPath |-> None,
                         authn |-> None, authz |-> None],
           token |-> 0, flags |-> None,
           hosts |-> None, key |-> None, auth |-> {}]

Init ==
  /\ cluster \in Clusters
  /\ machines \in Machines
  /\ runs = 0 /\ edits = 0 /\ faults = 0
  /\ params = CHOOSE p \in Flags : TRUE
  /\ read = NotRead
  /\ eic = NoSeed.eic
  /\ seed = NoSeed
  /\ applied = {}
  /\ seeded = FALSE
  /\ pc = "idle"
  /\ clone = FALSE /\ ssh = FALSE
  /\ deferred = {} /\ result = "ok" /\ abandoned = FALSE
  /\ node = [pemDir |-> "absent", files |-> {}, seed |-> None, from |-> NotRead]

Running == pc \notin Ends \union {"idle"}

Fault ==
  /\ faults < MaxFaults
  /\ faults' = faults + 1

\* A run makes a directory of its own for the clone, whatever an earlier one
\* has left.
Begin(p) ==
  /\ ~Running /\ runs < NumRuns
  /\ runs' = runs + 1
  /\ params' = p
  /\ pc' = IF p.git THEN "mkdir" ELSE "specs"
  /\ read' = NotRead
  /\ eic' = NoSeed.eic
  /\ seed' = NoSeed
  /\ applied' = {}
  /\ seeded' = FALSE
  /\ clone' = FALSE
  /\ deferred' = {} /\ result' = "ok" /\ abandoned' = FALSE
  /\ UNCHANGED <<sources, edits, faults, ssh, node>>

\* The manifests change, between two runs or, if they are local, during one.
Edit(c, m) ==
  /\ edits < MaxEdits
  /\ ~(Running /\ params.git)
  /\ edits' = edits + 1
  /\ cluster' = c /\ machines' = m
  /\ UNCHANGED <<runs, faults, local, pc, held, node>>

\* The run goes on to its next stage.
Pass(s) == pc = s /\ pc' = NextStage(s)

\* Apply returns, or panics, in stage s.  When cloning fails, CloneClusterAPIRepo
\* removes the directory, which nobody has deferred yet; when filepath.Abs
\* fails it returns without doing so.
UndoesNothing(s) == {}
Undoes(s) == IF s = "clone" THEN {"clone"} ELSE {}
Return(s, end) ==
  /\ pc = s /\ pc' = "return"
  /\ result' = end
  /\ deferred' = deferred \union Undoes(s)
  /\ abandoned' = (abandoned \/ s = "abs")
  /\ UNCHANGED <<clone, ssh>>

\* The deferred calls, the last one first.
CloseSSH ==
  /\ pc = "return" /\ "ssh" \in deferred
  /\ ssh' = FALSE
  /\ deferred' = deferred \ {"ssh"}
  /\ UNCHANGED <<sources, counters, local, pc, clone, result, abandoned, node>>

RemoveClone ==
  /\ pc = "return" /\ deferred = {"clone"}
  /\ clone' = FALSE
  /\ deferred' = {}
  /\ UNCHANGED <<sources, counters, local, pc, ssh, result, abandoned, node>>

\* The error of os.RemoveAll is returned by Close and ignored by its callers.
RemoveCloneFails ==
  /\ pc = "return" /\ deferred = {"clone"}
  /\ deferred' = {}
  /\ abandoned' = TRUE
  /\ Fault
  /\ UNCHANGED <<sources, runs, edits, local, pc, clone, ssh, result, node>>

Returned ==
  /\ pc = "return" /\ deferred = {}
  /\ pc' = result
  /\ UNCHANGED <<sources, counters, local, held, node>>

\* Stages that only may fail.
Quiet == {"abs", "paths", "identify", "token", "namespaces", "image",
          "sealed-secret", "seed-plan"}
PassQuiet(s) ==
  /\ s \in Quiet
  /\ s = "identify" => ~params.view
  /\ Pass(s)
  /\ UNCHANGED <<sources, counters, local, held, node>>

PassView(s) ==
  /\ params.view /\ s \in ({"identify"} \union ViewStages) \ {"view-plan"}
  /\ pc = s /\ pc' = NextViewStage(s)
  /\ UNCHANGED <<sources, counters, local, held, node>>

ViewDone ==
  /\ Return("view-plan", "ok")
  /\ UNCHANGED <<sources, counters, local, node>>

\* A failure the inputs do not explain: of the network, of a file, of the
\* random source, of an argument the model leaves out.
StageFails(s) ==
  /\ s \notin {"specs", "apply"}
  /\ Return(s, "error")
  /\ Fault
  /\ UNCHANGED <<sources, runs, edits, local, node>>

\* FileExists uses the result of os.Stat although it reports an error, when
\* that is another than that there is no such file.
FileExistsPanics(s) ==
  /\ s \in {"sealed-secret", "view-secret"}
  /\ Return(s, "panic")
  /\ Fault
  /\ UNCHANGED <<sources, runs, edits, local, node>>

MakeCloneDir ==
  /\ Pass("mkdir")
  /\ clone' = TRUE
  /\ UNCHANGED <<sources, counters, local, ssh, deferred, result, abandoned, node>>

Clone ==
  /\ Pass("clone")
  /\ deferred' = deferred \union {"clone"}
  /\ UNCHANGED <<sources, counters, local, clone, ssh, result, abandoned, node>>

\* NewFromPaths.
BothValid(c, m) == c.form = "valid" /\ ValidMachines(m)
Validate ==
  /\ Pass("specs")
  /\ BothValid(cluster, machines)
  /\ read' = [read EXCEPT !.spec = <<cluster, machines>>]
  /\ UNCHANGED <<sources, counters, params, eic, seed, applied, seeded, held, node>>

\* log.Fatal: no deferred call runs; the exit closes the connections.
ValidateFatal ==
  /\ pc = "specs" /\ pc' = "fatal"
  /\ ~BothValid(cluster, machines)
  /\ ssh' = FALSE
  /\ UNCHANGED <<sources, counters, local, clone, deferred, result, abandoned, node>>

Connect ==
  /\ Pass("ssh")
  /\ ssh' = TRUE
  /\ deferred' = deferred \union {"ssh"}
  /\ UNCHANGED <<sources, counters, local, clone, result, abandoned, node>>

\* The manifests are read again, as they are by now.
ReadCluster ==
  /\ Pass("read-cluster")
  /\ read' = [read EXCEPT !.cluster = cluster]
  /\ UNCHANGED <<sources, counters, params, eic, seed, applied, seeded, held, node>>

ReadMachines ==
  /\ Pass("read-machines")
  /\ read' = [read EXCEPT !.machines = machines]
  /\ UNCHANGED <<sources, counters, params, eic, seed, applied, seeded, held, node>>

Parse ==
  /\ Pass("parse")
  /\ read.cluster.form # "garbled"
  /\ eic' = [version |-> read.cluster.version, sshKeyPath |-> None,
             authn |-> read.cluster.authn, authz |-> read.cluster.authz]
  /\ UNCHANGED <<sources, counters, params, read, seed, applied, seeded, held, node>>

ParseFails ==
  /\ Return("parse", "error")
  /\ read.cluster.form = "garbled"
  /\ UNCHANGED <<sources, counters, local, node>>

\* The version of the first machine is used if the cluster names none.
PickVersion(e, m) == IF e.version = None THEN m.list[1].version ELSE e.version
NamesVersion(m) == m.list # <<>> /\ m.list[1].version # None

Version ==
  /\ Pass("version")
  /\ eic.version = None => read.machines.parses /\ NamesVersion(read.machines)
  /\ eic' = [eic EXCEPT !.version = PickVersion(eic, read.machines)]
  /\ UNCHANGED <<sources, counters, params, read, seed, applied, seeded, held, node>>

VersionFails ==
  /\ Return("version", "error")
  /\ eic.version = None /\ ~read.machines.parses
  /\ UNCHANGED <<sources, counters, local, node>>

\* *machines[0].Spec.Version with no machine or no version there.
VersionPanics ==
  /\ Return("version", "panic")
  /\ eic.version = None
  /\ read.machines.parses /\ ~NamesVersion(read.machines)
  /\ UNCHANGED <<sources, counters, local, node>>

Unparse ==
  /\ Pass("unparse")
  /\ eic' = [eic EXCEPT !.sshKeyPath = params.sshKeyPath]
  /\ seed' = [NoSeed EXCEPT !.spec = read.spec, !.eic = eic', !.manifest = eic',
                            !.token = runs, !.flags = FlagsOf(params)]
  /\ UNCHANGED <<sources, counters, params, read, applied, seeded, held, node>>

CreateSecretPlan ==
  /\ Pass("secret-plan")
  /\ SecretPlanOK(params, eic)
  /\ seed' = [seed EXCEPT !.auth = Auth(eic)]
  /\ UNCHANGED <<sources, counters, params, read, eic, applied, seeded, held, node>>

SecretPlanRefused ==
  /\ Return("secret-plan", "error")
  /\ ~SecretPlanOK(params, eic)
  /\ UNCHANGED <<sources, counters, local, node>>

CreateMachinePool ==
  /\ Pass("pool")
  /\ read.machines.parses
  /\ seed' = Pool(seed, params)
  /\ UNCHANGED <<sources, counters, params, read, eic, applied, seeded, held, node>>

MachinePoolFails ==
  /\ Return("pool", "error")
  /\ ~read.machines.parses
  /\ UNCHANGED <<sources, counters, local, node>>

ApplySecretResource(r) ==
  /\ pc = "apply" /\ ~SupportDone
  /\ r \in Ready(SecretPlan(seed.eic), applied)
  /\ node' = NodeAfter(r)
  /\ applied' = applied \union {r}
  /\ UNCHANGED <<sources, counters, params, read, eic, seed, seeded, pc, held>>

ApplySeedNode ==
  /\ pc = "apply" /\ ~seeded /\ SupportIdle
  /\ node' = NodeSeeded
  /\ seeded' = TRUE
  /\ UNCHANGED <<sources, counters, params, read, eic, seed, applied, pc, held>>

\* A resource reports an error, whatever it did to the node.
ApplyFails ==
  /\ Return("apply", "error")
  /\ Fault
  /\ \/ ~SupportDone /\ \E r \in Ready(SecretPlan(seed.eic), applied) :
          node' \in {node, NodeAfter(r)}
     \/ ~seeded /\ SupportIdle /\ node' \in {node, NodeSeeded}
  /\ UNCHANGED <<sources, runs, edits, local>>

ApplyDone ==
  /\ Return("apply", "ok")
  /\ SupportDone /\ seeded
  /\ UNCHANGED <<sources, counters, local, node>>

Kill ==
  /\ Running
  /\ pc' = "killed"
  /\ ssh' = FALSE
  /\ Fault
  /\ UNCHANGED <<sources, runs, edits, local, clone, deferred, result, abandoned, node>>

Finished ==
  /\ ~Running /\ runs = NumRuns
  /\ UNCHANGED vars

Next ==
  \/ \E p \in Flags : Begin(p)
  \/ \E c \in Clusters, m \in Machines : Edit(c, m)
  \/ \E s \in Range(Stages) : PassQuiet(s)
  \/ \E s \in Range(Stages) \union ViewStages :
       PassView(s) \/ StageFails(s) \/ FileExistsPanics(s)
  \/ ViewDone
  \/ CloseSSH \/ RemoveClone \/ RemoveCloneFails \/ Returned
  \/ MakeCloneDir \/ Clone
  \/ Validate \/ ValidateFatal
  \/ Connect
  \/ ReadCluster \/ ReadMachines
  \/ Parse \/ ParseFails
  \/ Version \/ VersionFails \/ VersionPanics
  \/ Unparse
  \/ CreateSecretPlan \/ SecretPlanRefused
  \/ CreateMachinePool \/ MachinePoolFails
  \/ \E r \in {CreateDir, SetPerms} \union Installs(seed.eic) : ApplySecretResource(r)
  \/ ApplySeedNode \/ ApplyFails \/ ApplyDone
  \/ Kill
  \/ Finished

Spec == Init /\ [][Next]_vars

--------------------------------------------------------------------------------
\* Properties.

\* Every variable has its type.
TypeOK ==
  /\ cluster \in Clusters /\ machines \in Machines
  /\ runs \in 0 .. NumRuns /\ edits \in 0 .. MaxEdits /\ faults \in 0 .. MaxFaults
  /\ params \in Flags
  /\ pc \in Range(Stages) \union ViewStages \union Ends \union {"idle", "return"}
  /\ clone \in BOOLEAN /\ ssh \in BOOLEAN
  /\ deferred \subseteq {"clone", "ssh"} /\ result \in Results /\ abandoned \in BOOLEAN
  /\ read \in ReadType
  /\ eic \in EIC
  /\ seed \in SeedParams
  /\ applied \subseteq {CreateDir, SetPerms} \union Installs(seed.eic)
  /\ seeded \in BOOLEAN
  /\ node \in NodeType

\* In whatever stage apply or plan view returns an error or panics, what it
\* holds by then is given back: when it is over, the connection to the node is
\* closed, and its clone is on disk only if it could not be removed or if its
\* path could not be made absolute, after which no call removes it.
NothingLeftByReturn ==
  pc \in Results => ~ssh /\ (clone => abandoned)

\* A PEM file of a secret, or the webhook configuration that names it, is on
\* the node only while the directory for PEM files is readable by root alone,
\* after every run and in the middle of one.
PemFilesPrivate == node.files # {} => node.pemDir = "private"

\* What a run installs does not depend on where the operator keeps the SSH key:
\* the same manifests and flags give, from any machine, plans that differ in the
\* bootstrap token, which every run draws, and in the key alone, so that the path
\* of the key is no reason for a repave (createMachinePoolInfo).
SameManifestsSamePlan ==
  [][(/\ node.seed # None /\ node'.from = node.from
      /\ node'.seed.flags = node.seed.flags) =>
       \A f \in DOMAIN node.seed \ {"key", "token"} : node'.seed[f] = node.seed[f]]_vars

\* What a run from a Git repository installs has passed the validation, and the
\* addresses and networks of the plan are those of the manifests it installs:
\* the manifests are read twice, but a clone does not change.  If the cluster
\* names no version, the one installed is that of every machine, although only
\* the first is asked for it.
InstalledAsValidated ==
  params.git /\ seeded =>
    /\ node.from.spec = <<node.from.cluster, node.from.machines>>
    /\ node.seed.spec = node.from.spec
    /\ node.from.cluster.form = "valid" /\ ValidMachines(node.from.machines)
    /\ node.from.cluster.version = None =>
         \A i \in DOMAIN node.from.machines.list :
           node.from.machines.list[i].version = node.seed.eic.version

\* What is installed is what was asked for.  The key the controller is given for
\* the other machines is the one the operator named, although the path it is
\* read from is cleared from everything that is installed.  The cluster has a
\* version, the same in the manifest the controller is given and in the
\* parameters of the seed node's plan.  After a successful apply every file of
\* every secret of webhook authentication and authorization is on the node.
InstalledAsAsked ==
  /\ seeded =>
       /\ node.seed.key = params.sshKeyPath
       /\ node.seed.eic.sshKeyPath = None /\ node.seed.manifest.sshKeyPath = None
  /\ node.seed # None =>
       /\ node.seed.eic.version \in Versions
       /\ node.seed.eic.version = node.seed.manifest.version
  /\ pc = "ok" /\ ~params.view =>
       \A s \in {node.seed.manifest.authn, node.seed.manifest.authz} \ {None} :
         {s} \X (PemKeys \union {"config"}) \subseteq node.files

\* The Git clone is on disk only while the command runs.
CloneOnlyDuringCommand == ~Running /\ pc # "killed" => ~clone
================================================================================
