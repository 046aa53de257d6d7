# A TLA+ model of wksctl

wksctl installs a Kubernetes cluster on machines that already exist. It connects
over SSH to the first machine, the seed node, makes it a control plane, and puts
a controller there that sets up the rest of the cluster from manifests. Beside
that it edits the Git repository such manifests live in, fetches kubeconfigs, and
builds and applies addons.

None of it is a server, and almost none of it is concurrent inside one process.
What makes it hard is the world outside the process: a run is a long sequence of
commands with effects on a remote node, a Git clone or a user's file; any of them
may fail, with its effect there or not; the process may be killed between two of
them; and the operator then runs it **again**, over whatever is left, perhaps
with other manifests, while another operator does the same. The models are about
that. Each has runs that follow one another (or overlap) over state that outlives
them, faults, kills, and changes made by the user in between.

This directory holds the modules, the TLC configurations that check them on small
instances and TLAPS proofs of the most important results for instances of every
size. `PROJECT.json` lists all of it, with the source lines of every definition.

    tlc -workers 2 -config MCKubeadmInit.cfg MCKubeadmInit
    tlapm KubeadmInit_proofs.tla


## 1. The system

| component | state it keeps | operations | what is hard |
|---|---|---|---|
| `wksctl apply` (`cmd/wksctl/apply`, `pkg/manifests`, `pkg/specs`) | a clone, an SSH connection, the manifests it has read | `Apply`, `initiateCluster`, deferred calls | manifests are read twice; `log.Fatal` and panics in callees; what is left after each end |
| seed node set-up (`pkg/apis/wksprovider/machine/os`) | the plan, PEM files and secrets on the node | `SetupSeedNode`, `processPemFilesIfAny`, `createMachinePoolInfo` | order of resources, secrets on disk, reproducible plans |
| `KubeadmInit` resource (`pkg/plan/resource`) | configuration, kubeconfig, manifests and temporary files on the node, the control plane | `Apply`, `RunKubectlApply`, `writeTempFile`, `removeFile` | partial failure, kill and rerun; two runs at once; leftovers with secrets |
| profiles (`cmd/wksctl/profile`, `pkg/git`) | index, HEAD and remote of a clone | `profile enable`, `profile disable` | each is 4 to 8 git commands over the user's own work |
| `wksctl kubeconfig` (`pkg/kubernetes/config`) | a kubeconfig that others write too | `Sanitize`, `RenameConfig`, `Merge`, `Write` | two runs at once; reinstalled clusters |
| addons (`pkg/addons`, `pkg/registry`, `cmd/wksctl/applyaddons`, `.../registrysynccommands`) | directories of generated manifests, the addons in the cluster, a registry | `ValidateOptions`, `Build`, `ListImages`, `UpdateImage`, `apply-addons`, `registry-sync-commands` | two commands must agree on the names of images; partial application |
| image query (`pkg/qjson`) | two stacks, a position | `CollectStrings` | a hand-written automaton over JSON tokens |
| `wksctl init` (`cmd/wksctl/init`) | the files of a repository | the walk, `updateFluxManifests`, `updateWeaveNetManifests` | files rewritten in place, one by one |
| validation (`pkg/specs`) | none | `validateCluster` and the rules it calls | network arithmetic |
| machine manifests (`pkg/cluster/machine`) | none | `Validate`, `Populate`, generated names | versions that have to agree; manifests that name none |
| plan view (`cmd/wksctl/plan/view`) | a clone, an SSH connection | one command on the way of `apply` | what each error leaves open |
| addon and config map plans (`pkg/plan/recipe`), `KubectlApply`, `KubectlWait`, `KubectlAnnotateSingleNode` (`pkg/plan/resource`) | temporary files on the node, the cluster, annotations | one plan or resource each | the cluster catches up and grows by itself; a loop that waits |
| kubeadm configuration, embedded assets, helpers, test servers | none | construction and output | nothing |

How they interact. `apply` and `kubeconfig` and `init` validate manifests with
`specs.NewFromPaths`, which ends the process on a bad one; validation asks
`pkg/addons` about the addons. `apply` calls `SetupSeedNode`, which builds a plan
with the plan engine of cluster-api-provider-existinginfra and applies it over
SSH; one resource of such a plan is `KubeadmInit`, which builds and applies a
plan of its own. `apply-addons` and `registry-sync-commands` share `pkg/addons`;
the images of Jsonnet addons are found with `pkg/qjson`. The
plans of `pkg/plan/recipe` and the resources that wait and annotate have no caller
in this repository: the provider and its controller build the plan around them.
`profile enable` builds the flux helm operator addon. Nothing is shared in memory
between commands: they meet on the seed node, in the clone, in the kubeconfig and
in the registry.


## 2. The modules

A module has the CONSTANTS of its component, one action per step that changes
state outside the process (a command over SSH, a git invocation, a file), Init,
Next and the properties. Pure stretches between two such steps are one action.
`MC*` modules give the constants values for TLC; `*_proofs` modules hold the
theorems.

### PlanGraph, KubeadmInit
`PlanGraph` is the contract of the external plan engine: a resource is applied
after those it depends on (`Ready`). `KubeadmInit` is
`pkg/plan/resource/kubeadm_init.go` with `kubectl_apply.go` and `common.go`.
The plan's edges (`InitDeps`) and conditions on the version are those of
`buildKubeadmInitPlan`; the manifests that follow are each a `mktemp`, a write, a
`kubectl apply` and a deferred `rm`; the configuration file is uploaded first and
removed by a deferred call last. `node` is the seed node: which run's control
plane it is (`cluster`), whose kubeconfig it has, which objects and whose secret
are in the cluster, whose configuration lies in `/tmp`, in what form. Control
planes are named by the run that created them. Every command has an action for
success, one for a rejection because of the node's state, where that is
possible, and one for a fault, after which the effect may be there or not;
`Crash` kills the process between two commands.

### SeedNode
The abstract specification of `KubeadmInit`: what an operator relies on, in four
variables. The node runs the control plane of some run (`control`), other machines
join with the credentials of some run (`credentials`), the node's kubectl talks to
one (`client`), and each run has an outcome. `KubeadmInit!ImplementsSeedNode` maps
`credentials` to the owner of the WKS secret once all three manifests are there,
because the installation is complete with the third: each of the other dozens of
commands, and each fault, is a stutter or one of seven abstract steps.

### MachineManifests, ApplyCommand
`MachineManifests` is what `Validate` of `pkg/cluster/machine` accepts: a machine
that is a master, versions that are all equal or all absent and supported,
references that correspond in order. `ApplyCommand` is `Applier.Apply` with
`SetupSeedNode`, and `plan view`, which goes the same way as far as the two agree
(`ViewStages`). A run is a sequence of stages (`pc`), each of which passes, fails
(the command returns: deferred calls run), panics (deferred calls run) or ends the
process through `log.Fatal` (they do not). The deferred calls are actions of their
own, last deferred first: `CloseSSH`, then `RemoveClone`, or `RemoveCloneFails`,
whose error everybody ignores; a return before a call is deferred makes none of it,
so that a directory without an absolute path stays. Two panics are in the code:
`FileExistsPanics` and `VersionPanics`. Manifests can be edited at any moment; a
clone's cannot. `SecretPlan` is the plan for the PEM files with its edges; the plan
of the seed node is a record of what is given to it: the manifests, the flags
(`FlagsOf`), the bootstrap token of the run, the key. PEM keys are treated alike.

### PlanResources
The resources of `pkg/plan/resource` that run kubectl, in a plan made of
`BuildConfigMapPlan`, `BuildAddonPlan`, a wait and an annotation, applied along
its edges as `PlanGraph` allows. Beside the run the cluster acts on its own:
definitions are established some time after they were applied, a workload appears
and becomes ready, nodes join. `lost` is a connection that is gone for good. The
plan around the recipes is a caller's, modelled as the least one that uses each
resource as its fields allow.

### ProfileGit
Both profile commands over `head`, `index` and `remote` as sets of files with
the command that put them there; each git invocation is an action that succeeds,
fails for the clone's state, or by a fault. Two faults go unnoticed, as they do in
the code: `IgnoreFileUnseen` (any error of os.Stat is taken for the absence of
`.wksctlignore`) and `RemoveSomeIgnored` (nobody asks the scanner why it ended).
`faulted` names the stages that met a fault. `TrimRight` is the Go function, on
sequences of characters, since one finding is about it.

### Kubeconfig
Runs fetch, sanitize, rename, merge and write; `file` is the user's file. Write
has two steps, since it reads the file before it takes the lock. A cluster can be
installed again (`gen`) between the steps, and the user selects or deletes contexts;
kubectl keeps a current context whose entry it deletes.

### ContextFile
The abstract specification of the file: a context name leads to one installation
of a cluster, and a run puts its own there in one step, over whatever the file
holds by then. `Kubeconfig!LeadsTo` is the mapping: the installations whose
certificate and whose credentials the context joins, which have to be one.

### QJson
`CollectStrings` as an automaton over tokens that are chosen as they are read,
within the grammar of JSON. Beside its variables a reference definition
(`ValuePath`, `Matches`) records what should be collected: the strings at whose
path the query is a suffix.

### Addons
`apply-addons` from validation to `kubectl apply`, with `Build` for both kinds of
addon, beside `registry-sync-commands` with `ListImages` and the docker commands
it prints. Image names are sequences of parts; `Parse`, `UpdateImage`, `NewImage`
and `DestImage` are the two parsers and their printers.

### SpecsValidation, InitManifests
`SpecsValidation` is the rules for a cluster manifest, with CIDR blocks as an
address and a size. `InitManifests` is `wksctl init`: the walk over a tree of
entries, and for every file that matches a read, the update, the truncation and
the write. A file is a function from its fields to values, so that a write cut
short leaves some of them. `Fields` are those that init's patterns match; `Others`
are not matched and stay, such as `--memcached-hostname`, whose value has the old
namespace in it (`init_test.go:51`, `:127`). `cut` remembers which files a write has
left cut short; no step reads it. The owner edits the cluster manifest or checks
the files out again between two runs.


## 3. What is checked

Every property is violated by at least one mutant listed in `PROJECT.json`, a
plausible bug in the code it is about.

| run | instance | shows |
|---|---|---|
| `kubeadm_reruns` | 3 runs in turn, 2 faults, kubeadm 1.14 and 1.17 | the secret in the cluster is of that cluster (`SecretMatchesCluster`), kubectl talks to the right control plane (`KubeconfigCurrent`), success means installed, with kubectl's configuration under the home directory and not at `/`, a run leaves no file it uploaded unless its upload or removal failed, nor a second copy unless `mv` failed after the migration, a successful run neither (`NoConfigLeft`), every command is a step of `SeedNode` (`ImplementsSeedNode`), and a rerun installs the cluster (`Converges`) |
| `kubeadm_overlap` | 2 runs interleaved, 1 fault, kubeadm 1.17 | temporary manifests are removed and never another run's; every run returns |
| `apply_runs` | 2 runs of apply or plan view, 1 edit, 1 fault, 6 cluster and 6 machine manifests, 5 sets of flags, 1 PEM key | a run that returns or panics has closed its connection and leaves its clone only if removing it failed or it has no absolute path, PEM files are in a private directory whenever there are any, what is installed is what the manifests and the flags ask for, from Git it is what was validated, equal manifests and flags give plans that differ in the bootstrap token and the key only |
| `apply_clone` | 1 run, no fault | violated: finding 1 |
| `profile_commands` | 3 commands, 1 fault, 5 profiles | a command on a clean clone without a fault succeeds, but for an enable whose `.wksctlignore` names nothing to remove; one that succeeds delivers its profile without the ignored files, unless reading the list met a fault it does not report; and the user's staged work goes nowhere but into the helm commit |
| `profile_lookalikes` | 2 commands, 3 profiles | violated: finding 2 |
| `kubeconfig_runs` | 3 runs in turn, 2 clusters, 1 reinstallation, 1 fault | contexts join a user and a cluster of one installation, and the file changes, with its current context, as `ContextFile` says: only the run's own context, never to an older installation |
| `kubeconfig_overlap` | 2 runs at once | violated: finding 3 |
| `plan_resources` | 2 runs, 1 fault, addons of 2 and 1 manifests, 1 config map, 1 node that joins | no run fails for an order it chose itself, success means applied, ready and annotated, only the seed node is annotated, a run hangs nowhere but in the loop of `KubectlWait` |
| `addon_images` | 2 runs, 8 manifests over the 3 shipped addons, 2 faults | rewritten images are in the registry, a successful run leaves the cluster as its manifest says, only faults make a validated run fail or leave a directory |
| `qjson_query` | 13 tokens, depth 5 | the strings that match are collected, no index or stack underflow, under the conditions below |
| `init_repository` | 2 runs, 2 faults, 15 manifests, 3 sets of flags, 9 entries | a run that succeeds leaves no value of an earlier one in the fields that init writes, and every flux manifest with all its fields unless a write cut it short, pods and services have separate networks, Git's and submodules' files are untouched |

**Why the bounds are enough.** Everything a run leaves for the next is in the
node, the clone or the file, and no action reads how many runs came before, so
that two runs show what one leaves to another. `KubeadmInit` has three, because
its worst histories are a run that installs, one that resets and breaks off, and
one that has to repair both, and two faults, so that a repair may fail itself.
MCMinors has a version on each side of 1.15 and 1.17, where the code branches.
In `ApplyCommand` one fault reaches every stage of either run, and one edit
falls on every side of the two reads; its manifests name a version in the
cluster, in all machines, in some and in none, and fail each rule of the
validation. In `PlanResources` an addon of two manifests has an order to keep and
the other interleaves with it, and one joining node is enough for a list of
several lines. Three profile commands are the least with
which a profile is enabled, another one is, and the first is disabled. 13
tokens hold a complete match of the query in a list (11 tokens from the opening
brace to the closing one) and two more anywhere; depth 5 is one more than the
query is long. The networks of `init_repository` stand in every relation
two networks can have; its tree has each way an entry can be skipped or visited.
Where a property was also proved (below) bounds do not matter to it.

**Fairness.** `KubeadmInit` and `PlanResources` have liveness properties.
`KubeadmInit`'s `FairSpec` has weak
fairness of `Begin(p)`, the operator runs wksctl again as long as he has not
succeeded and has runs left, and of `Progress(p)`, a process that is not killed
goes on: `Apply` is a sequential function that sends one command after another
and retries nothing. Faults and kills are not fair: they need not occur, and
MaxFaults bounds them, so that `Converges` says that a run without a fault
succeeds after whatever the others left. `PlanResources` has weak fairness of
`Progress`, the steps of the run, and none of the cluster: it may never establish,
start or make ready anything. `HangsOnlyInWait` then says where the code depends
on it; `kubectl wait` gives up by itself. Termination of commands on the remote
node is the assumption behind both.

**Deadlock** is checked in every run. Modules whose runs are bounded have an
explicit action for the end, or Checkout and Edit, which are always possible
when nothing runs.

### Findings
1. `CloneOnlyDuringCommand` (`specs.go:23`): manifests from Git that fail to
   validate end the process by `log.Fatal`, and the clone stays.
2. `OnlyItsOwnFiles` (`git.go:61`): `strings.TrimRight(url, ".git")` makes one
   path of different repositories; disabling one removes the other.
3. `MergedWithExistingFile` (`kubeconfig.go:104`): the file is read before it is
   locked; two runs at once lose entries.

Observed while modelling, and not the subject of a run:
* Manifests that name no version are valid, and `apply` dereferences a nil one
  (`apply.go:194`, `machine.go:82`). `FileExists` uses what os.Stat returned after
  any error but absence, and panics (`file.go:56`). Both are actions of
  `ApplyCommand`, and what they leave is checked.
* A machine with both a name and a generateName has its name replaced, though
  `machines_manifest.go:29-31` says that names are honoured.
* `Sanitize` gives a server two ports when ControlPlaneEndpoint has one
  (`kubeconfig.go:59`; `kubeadm.go:16` says it is `IP:port`).
  `NewClusterConfiguration` replaces ExtraArgs when CloudProvider is set
  (`kubeadm.go:56-63`). `writeKubeconfig` makes the directory of `configPath`
  before that is set.
* When `mv` fails after `kubeadm config migrate`, the node keeps
  `/tmp/wks_kubeadm_init_config.yaml_upgraded`, with the bootstrap token in it, until
  a later run converts its configuration (`kubeadm_init.go:296`).
* The clone also stays when `filepath.Abs` or `os.RemoveAll` fails
  (`manifests.go:23`, `:54`); nobody reports the latter.
* A `.wksctlignore` with nothing but comments gives `git rm` no path, and one that
  names no file of the profile a path without a match: `profile enable` then fails
  with the profile committed (`enable.go:178`). An error of os.Stat other than
  absence, or of the scanner, is swallowed, and the profile is pushed unfiltered or
  in part (`enable.go:144`, `:167`).
* A flux manifest that an interrupted `init` has emptied or cut short stays so: a
  rerun finds nothing to replace in it and reports success (`init.go:173`).
* A rerun of `KubectlAnnotateSingleNode` with another value may be refused, since
  it does not pass `--overwrite`; `KubectlWait` asks on after a lost connection.
* The help of `init` announces an error if `weave-net.yaml` is absent, the code
  reports only an absent flux manifest (`init.go:47`, `:181`); an argument set to
  nothing, such as `--git-path=`, is not matched by any later `init`; `.git` is a
  file in a worktree, and SkipDir then skips all of it (`init.go:157`).
* `imageRepository` does not reach flux's images (`addon.go:316`); a repository of
  more than two parts is ignored by `UpdateImage`, and one that is only a host
  gives names that `registry-sync-commands` does not push. The repositories of
  finding 2 need not look alike to a user (`o/ab`, `o/abi`).


## 4. What is proved

For every value of the constants that satisfies the module's named ASSUME.
`tlapm` checks every leaf; nothing is omitted.

**KubeadmInit_proofs.** `TypeCorrect`, for any runs, overlapping or not. With
runs in turn (`~Overlap`), `SecretAlwaysMatches` and `KubeconfigAlwaysCurrent`.
The properties are not inductive: that kubectl reaches the right control plane
depends on which resources of the plan are applied. `SafeInv` adds that at most
one run is active (`OneAtATime`), that the applied resources are closed under the
edges of the plan (`AlongEdges`), what each applied resource has done to the node
(`PlanProgress`, `Installed`), and that a complete secret manifest carries its
own run's credentials (`OwnCredentials`). A step of the plan keeps it because of
the edges: the mutant without the edge to kubeadm init violates
`KubeconfigCurrent` in TLC.

Its second part is about files. Of runs that may overlap, `TempFilesAlwaysRemoved`
and `AlwaysAppliesOwnManifest`, from one invariant: a temporary file belongs to a
run past its plan, is the one of its current manifest unless the run was killed or
could not make or remove one, and holds its own credentials (`FilesInv`). Of runs
in turn, `NoConfigEverLeft`: `ConfigInv` says that a second copy of the
configuration, whichever run made it, is there only from a fault between the two
commands of the conversion on, which ends the run, so that a run that gets past the
conversion has none, nor left the one of an earlier run.

Its third part is about success. `SuccessAlwaysMeansInstalled`: `InstallInv`
counts the manifests a run has applied without an error (`HasApplied`) and says
that they are in the cluster; the edge from `kubeadm:get-homedir` to
`kubeadm:config:kubectl-dir` is what keeps kubectl's configuration out of `/`.
`AlwaysImplementsSeedNode` is the refinement, step by step under `SafeInv` and
`InstallInv`: a reset, kubeadm init, the copy of its kubeconfig, the manifest that
makes three, and the start and end of a run are steps of `SeedNode`, whether or
not the command reports an error; all others are not seen there. That completing
uses the credentials of the control plane that runs is `SecretMatchesCluster`
after the step.

**ApplyCommand_proofs.** `ApplyInv` is types, what a run has at hand in each
stage as a function of what it has read (`StageInv`), what the applied resources
have put on the node (`NodeInv`), that a clone does not change between the two
reads (`GitInv`) and what is held in each stage and which calls are deferred then
(`EndInv`). From it, all five invariants and the action property of `apply_runs`.

**PlanResources_proofs.** `PlanInv`: what a run is about in each stage
(`StageInv`), that what is applied is done and what is being applied has all it
needs (`DoneInv`), manifests of an addon in order (`OrderInv`), a reason for every
error (`ReasonInv`), files of the current resource only (`FilesInv`), and one node
listed at most, the seed (`NodesInv`). From it `TypeOK`, `ReturnsForAReason` and
`OnlySeedAnnotated`. A rejected manifest contradicts `DoneInv` because of the
edges of `BuildAddonPlan` and the wait for the definitions.

**Kubeconfig_proofs.** `ContextsAlwaysCoherent` holds of runs that overlap as
well: what a run writes back may be stale, but `CoherenceInv` says that the three
entries of each name belong together in the file, in what every run has read and
in what it has fetched, and a merge takes all three from one of them. It rests on
what Sanitize and RenameConfig make of admin.conf (`FetchedIs`) and on Merge name
by name (`MergedEntries`). It says nothing of the current context, which the user may
have deleted; that only a run with --use-context changes it is in the refinement.
Of runs in turn, `AlwaysImplementsContextFile`:
`TurnInv` adds that what a run has read is still in the file, and that no entry is
newer than the installation or than what is about to replace it.

**Addons_proofs.** `AddonsInv`: what the entries of the manifest applied so far
have made of the cluster (`RunInv`), that each addon's images are what its
repository makes of them (`ClusterInv`), and that no image is lost between
listing, printing and pushing (`MirrorInv`). The lemmas `OneName` and
`DestImageInjective` are about the two parsers: what one rewrites the other
pushes, and different images do not collide. They need images of at most three
parts with different last ones (`AddonsAssumption`), which the shipped addons
satisfy; with two images of one last part `registry-sync-commands` would push one
over the other.

**InitManifests_proofs.** `NetworksIntersectExact`: two networks have an address
in common exactly when one contains the first address of the other, which is what
the code asks, given that blocks start at a multiple of their size and sizes
divide each other. `InitInv` says that the repository's own files before the
walk's position are up to date and what is skipped is not its own (`WalkInv`),
and that what is about to be written is (`ContentsInv`). What is written into a
field does not depend on what was there before, so that a rerun leaves no other
value of an interrupted run. It does not bring back what that has cut off:
`CutInv` says that a flux manifest is whole unless a write cut it short or is under
way, and that the fields init does not write are as they were. A weave-net manifest
that lost its containers makes the rerun fail; a flux manifest stays cut short.
`OthersNeverTouched` is about what is
skipped: `CoverInv` says that what is below an entry named `.git` that the walk has
passed is skipped with that entry or with one above it. It assumes that the walk
meets `.git` before the manifests it guards (`GitFirst`). A `.git` directory always
comes before what is in it; the `.git` file of a submodule does not if the
submodule has a directory whose name sorts before it, such as `.charts`, and the
manifests there would be written; the tree of `init_repository` has no such one.

**ProfileGit_proofs.** `UserInv`: past the check for staged changes, what the user
has staged is committed already. `DeliverInv`: what is staged before the last
commit of a command is what the command was asked for, and before the push it is
committed. From them `UserWorkOnlyEverInHelmCommit` and `CommandsAlwaysDeliver`.
The files a profile ignores are dropped in the stage `ignore` unless that met a
fault, which the theorem has to except. `GoodCommandAlwaysSucceeds` follows from
`GoodInv`, which says of a command without faults, on a clean clone, what the trees
are in each stage since it began: the commits it makes have something to commit, and
`git subtree add` finds nothing staged; and from `NothingInv`, that an enable whose
`.wksctlignore` names nothing to remove goes no further than to look for it. `OnlyEverItsOwnFiles` assumes that the path of no profile is the beginning
of another's (`PathsApart`); `profile_lookalikes` shows that it is needed.
`PlainNamesApart` gives a condition on names: at one depth of directories, names
that differ and end, but for `.git`, in none of the characters `.`, `g`, `i`, `t`.

**QJson_proofs.** `RegularInv` is about an input of any size and depth that the
function is made for. There is a function `level` from the open objects and arrays
to the stack of positions (`Climbs`): an object opens one position above what it is
in, an array shares the one of its key. Each position of the stack is how many
steps of the query the path to that object or array ends with (`Follows`, `Tracks`).
There is only one such number because the query's first key does not occur in it
again (`MatchUnique`), and a step that the query does not ask for leads back to
none because no other partial match can be under way (`StepTracks`). From it
`CollectsExactlyMatches` and `NeverPanics`: the code, which keeps no path, knows
what it must of it.

**Only model-checked**: the liveness properties `Converges`, `EveryRunReturns` and
`HangsOnlyInWait`, which cannot be proved with this prover, nor can anything about
ENABLED or by induction over data. Every invariant and action property of the
passing runs, and both refinements, are proved. No module has a RECURSIVE operator.

**Hypotheses.** Beside the named ASSUMEs, four kinds of theorems have hypotheses:
those about runs in turn (`~Overlap`), `OthersNeverTouched` (`GitFirst`),
`OnlyEverItsOwnFiles` (`PathsApart`) and `PlainNamesApart` (names). The constants of
the passing runs satisfy them where the property is checked.


## 5. Assumptions and what is left out

* External code is modelled from its use: the plan engine (applies along the
  edges, one at a time, refuses two resources of one name), kubeadm, kubectl,
  git, docker, clientcmd's `ModifyConfig`, `filepath.Walk`, `ioutil.WriteFile`,
  `SetWeaveNetPodCIDRBlock`. What `CreateSeedNodeSetupPlan` builds is opaque: a
  plan for the seed node either is applied or is not. `machine.Parse` of the
  provider does not fill in versions. The provider has its own copies of
  `KubectlApply` and of the machine validation, which the commands and plans
  import; they are taken to be the functions of this repository.
* PlanResources: a manifest is rejected if its addon's earlier ones or the
  definitions are missing; `kubectl annotate` may refuse a value that is there.
* A fault leaves a command's effect there or not, and a write its beginning.
  Commands do not hang. The disk does not lose what was written.
* QJson: the first step of the query is a key that occurs in it once and `#` is
  no key. `CollectsMatches` and `NoPanic` hold for the inputs the properties name
  and not for every JSON text, see the comments there; manifests of addons are
  among them.
* Addons: no parameter of kind file, no list-images script and no OutputMode
  multiple, since no shipped addon has them; tags are abstracted, Jsonnet's
  evaluation is its list of images; Kubernetes Lists and init containers are left
  out; registry-sync-commands runs once.
* InitManifests: files change between runs only; names that match are of files;
  the namespace is not empty. The walk's branch for a missing pods block cannot
  be reached after validation.
* ProfileGit: the user does not stage while a command runs.
* Not modelled: `KubeadmInit.Undo` and its plan, which nothing in the repository
  calls; the generated names of machines (`UpdateWithGeneratedNames` has no
  caller); `GetKubernetesVersionFromManifest`; the construction of the kubeadm
  configuration; `CreateFile` and other small helpers; output (`addon`, the text
  of `plan view`, `version`, completions); generated and embedded code; test
  servers.


## 6. Plan

Done, in this order: KubeadmInit with PlanGraph (the most state on a remote node),
its proofs; ApplyCommand and its proofs; ProfileGit; Kubeconfig; QJson; Addons and
its proofs; SpecsValidation and InitManifests and their proofs; the abstract
SeedNode and ContextFile with the refinements; MachineManifests and plan view in
ApplyCommand; PlanResources and its proofs; the remaining invariants of
KubeadmInit and its refinement, proved; Kubeconfig and its refinement, proved;
`OthersUntouched`, ProfileGit and QJson, proved.

Next, the model: ApplyCommand composed with KubeadmInit, the seed node's plan as
the steps of the resource, so that an interrupted `apply` is rerun as a whole; the
merge of extra arguments in the kubeadm configuration.

Next, the proofs: the safety part of the liveness properties, that every step of a
run in turn brings it nearer to its end, and what the composition above needs.
