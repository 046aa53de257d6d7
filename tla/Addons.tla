--------------------------------- MODULE Addons ---------------------------------
(***************************************************************************)
(* Addons: wksctl apply-addons (cmd/wksctl/applyaddons), which builds the  *)
(* addons a cluster manifest names (pkg/addons) and gives them to kubectl, *)
(* and wksctl registry-sync-commands, which prints the docker commands     *)
(* that fill the registry those addons are to take their images from.      *)
(*                                                                         *)
(* The two commands meet in the names of images: one rewrites them with    *)
(* UpdateImage, the other parses them with registry.NewImage, and they     *)
(* find them in different ways.                                            *)
(***************************************************************************)
EXTENDS Integers, Sequences, FiniteSets

CONSTANTS
  Shipped,      \* the addons embedded in the program, by name
  Hosts,        \* the parts of image names with a "." or ":" in them
  Manifests,    \* the cluster manifests: addons (with parameters) and repository
  Dest,         \* --dest-registry and --dest-organization
  MaxRuns,      \* bound on the runs of apply-addons
  MaxFaults,    \* bound on faults and kills
  Nil           \* a map of parameters that is not there

\* An image is named by the parts between its slashes, the last with its tag.
Name(image) == image[Len(image)]

AllImages == UNION {Shipped[a].images : a \in DOMAIN Shipped}

\* What is true of the shipped addons: image names have up to three parts, no
\* two have the same last one, and an addon that knows imageRepository has a
\* parameter that is required.  (Their manifests are Lists with containers, but
\* no init containers, in Deployments and DaemonSets.)
ASSUME AddonsAssumption ==
  /\ \A a \in DOMAIN Shipped :
       /\ Shipped[a].kind \in {"yaml", "jsonnet"}
       /\ Shipped[a].required \subseteq Shipped[a].params
       /\ "imageRepository" \in Shipped[a].params => Shipped[a].required # {}
       /\ \A i \in Shipped[a].images : Len(i) \in 1 .. 3
  /\ \A i, j \in AllImages : Name(i) = Name(j) => i = j
  /\ \A m \in Manifests :
       m # Nil /\ Len(m.addons) \in Nat /\ DOMAIN m.addons = 1 .. Len(m.addons)
  /\ Len(Dest) = 2
  /\ MaxRuns \in Nat /\ MaxFaults \in Nat
  /\ \A A \in SUBSET DOMAIN Shipped : A # Nil
  /\ \A I \in SUBSET AllImages : I # Nil

VARIABLES
  pc,        \* where apply-addons is
  spec,      \* the manifest it has read and validated, or Nil
  next,      \* the addon it is at
  built,     \* the manifests in its temporary directory, or Nil
  outcome,   \* how its last run ended
  installed, \* the addons in the cluster
  unlisted,  \* the addons registry-sync-commands has yet to list, or Nil
  collected, \* the images it has collected
  commands,  \* the images whose commands are yet to be run, or Nil
  mirror,    \* the images in the registry, each with the one it was pulled as
  left,      \* how many temporary directories are left behind
  runs, faults

applying == <<pc, spec, next, built, outcome, installed>>
syncing == <<unlisted, collected, commands, mirror>>
vars == <<applying, syncing, left, runs, faults>>

--------------------------------------------------------------------------------
\* Names of images.

\* ReferenceRegexp: the first of several parts is captured as the domain, the
\* second of three as the organisation.
Captured(image) ==
  [domain       |-> IF Len(image) > 1 THEN <<image[1]>> ELSE <<>>,
   organisation |-> IF Len(image) = 3 THEN <<image[2]>> ELSE <<>>,
   name         |-> Name(image)]

\* parseImageReference, which takes the domain for the organisation if there is
\* none and the domain does not look like a host.
Parse(image) ==
  LET ref == Captured(image) IN
  IF ref.organisation = <<>> /\ \A host \in Hosts : ref.domain # <<host>>
  THEN [ref EXCEPT !.organisation = ref.domain, !.domain = <<>>]
  ELSE ref

RefString(ref) == ref.domain \o ref.organisation \o <<ref.name>>

UpdateImageKeepingOrganisation(image, repository) ==
  IF Len(repository) \in 1 .. 2
  THEN RefString([Parse(image) EXCEPT !.domain = <<repository[1]>>])
  ELSE image

\* UpdateImage, and withImageRepository, which leaves an image alone when the
\* repository has too many parts.
UpdateImage(image, repository) ==
  LET ref == [Parse(image) EXCEPT !.domain = <<repository[1]>>] IN
  CASE Len(repository) = 1 -> RefString(ref)
    [] Len(repository) = 2 -> RefString([ref EXCEPT !.organisation = <<repository[2]>>])
    [] OTHER -> image

\* NewImage, and the copy of it that registry-sync-commands pushes.
NewImage(image) ==
  [registry |-> IF Len(image) = 3 THEN <<image[1]>> ELSE <<>>,
   user     |-> IF Len(image) >= 2 THEN <<image[Len(image) - 1]>> ELSE <<>>,
   name     |-> Name(image)]
DestImage(image) ==
  LET dest == [NewImage(image) EXCEPT !.registry = <<Dest[1]>>, !.user = <<Dest[2]>>]
  IN  dest.registry \o dest.user \o <<dest.name>>

--------------------------------------------------------------------------------
\* Building an addon.

ValidOptionsUnlessRequired(entry) ==
  entry.params # Nil => DOMAIN entry.params \subseteq Shipped[entry.name].params

\* ValidateOptions: parameters the addon knows, and all it requires.
ValidOptions(entry) ==
  LET given == IF entry.params = Nil THEN {} ELSE DOMAIN entry.params IN
  /\ given \subseteq Shipped[entry.name].params
  /\ Shipped[entry.name].required \subseteq given

Valid(m) ==
  \A i \in DOMAIN m.addons :
    m.addons[i].name \in DOMAIN Shipped /\ ValidOptions(m.addons[i])

\* The parameters an addon in Jsonnet is evaluated with.
Overridden(entry, repository) ==
  repository # <<>> /\ "imageRepository" \in Shipped[entry.name].params
JsonnetParams(entry, repository) ==
  IF Overridden(entry, repository)
  THEN [p \in DOMAIN entry.params \union {"imageRepository"} |->
          IF p = "imageRepository" THEN repository ELSE entry.params[p]]
  ELSE entry.params

\* The images of the manifests built, each with the one the addon names.  The
\* images of an addon in Jsonnet stay as they are: the mixin for the repository
\* rewrites a field that the configuration of flux does not have.
Rewritten(a, repository) ==
  IF Shipped[a].kind = "yaml" /\ repository # <<>>
  THEN {[source |-> i, ref |-> UpdateImage(i, repository)] : i \in Shipped[a].images}
  ELSE {[source |-> i, ref |-> i] : i \in Shipped[a].images}

Built(entry, repository) ==
  [params |-> IF Shipped[entry.name].kind = "jsonnet"
              THEN JsonnetParams(entry, repository) ELSE Nil,
   images |-> Rewritten(entry.name, repository),
   repository |-> repository]

\* buildJsonnet writes into a map that is not there.
Panics(entry, repository) ==
  /\ Shipped[entry.name].kind = "jsonnet"
  /\ Overridden(entry, repository) /\ entry.params = Nil

--------------------------------------------------------------------------------
\* apply-addons.

Init ==
  /\ pc = "idle" /\ spec = Nil /\ next = 1 /\ built = Nil /\ outcome = "none"
  /\ installed = [a \in DOMAIN Shipped |-> Nil]
  /\ unlisted = Nil /\ collected = {} /\ commands = Nil
  /\ mirror = <<>>
  /\ left = 0 /\ runs = 0 /\ faults = 0

Fault == faults < MaxFaults /\ faults' = faults + 1

Entry == spec.addons[next]

MoreByOne == next <= Len(spec.addons) + 1
More == next <= Len(spec.addons)

Start ==
  /\ pc = "idle" /\ runs < MaxRuns
  /\ runs' = runs + 1

\* The manifest is read, whichever the operator has written, and validated, and
\* there is a kubeconfig.
Begin(manifest) ==
  /\ Start
  /\ Valid(manifest)
  /\ spec' = manifest
  /\ next' = 1
  /\ pc' = "addon" /\ outcome' = "none"
  /\ UNCHANGED <<built, installed, syncing, left, faults>>

\* The command ends with the temporary directory it has, if any.
Ends(how, dirs) ==
  /\ pc' = "idle" /\ outcome' = how
  /\ built' = Nil
  /\ left' = left + dirs

\* The manifest is invalid.
Refused(manifest) ==
  /\ Start
  /\ ~Valid(manifest)
  /\ Ends("refused", 0)
  /\ UNCHANGED <<spec, next, installed, syncing, faults>>

\* It cannot be read, kubectl is not there, or there is no kubeconfig.
BeginFails ==
  /\ Start
  /\ Fault
  /\ Ends("failed", 0)
  /\ UNCHANGED <<spec, next, installed, syncing>>

\* The next addon, which is found, and a directory for its manifests.
MakeTempDir ==
  /\ pc = "addon" /\ More
  /\ pc' = "build"
  /\ UNCHANGED <<spec, next, built, outcome, installed, syncing, left, runs, faults>>

MakeTempDirFails ==
  /\ pc = "addon" /\ More
  /\ Fault
  /\ Ends("failed", 0)
  /\ UNCHANGED <<spec, next, installed, syncing, runs>>

Build ==
  /\ pc = "build"
  /\ IF Panics(Entry, spec.repository)
     THEN Ends("panic", 1)
     ELSE /\ built' = Built(Entry, spec.repository)
          /\ pc' = "kubectl"
          /\ UNCHANGED <<outcome, left>>
  /\ UNCHANGED <<spec, next, installed, syncing, runs, faults>>

KubectlApplyIfAbsent ==
  /\ pc = "kubectl"
  /\ installed' = [installed EXCEPT ![Entry.name] = IF @ = Nil THEN built ELSE @]
  /\ pc' = "remove"
  /\ UNCHANGED <<spec, next, built, outcome, syncing, left, runs, faults>>

\* The objects of the addon are created or replaced.
KubectlApply ==
  /\ pc = "kubectl"
  /\ installed' = [installed EXCEPT ![Entry.name] = built]
  /\ pc' = "remove"
  /\ UNCHANGED <<spec, next, built, outcome, syncing, left, runs, faults>>

\* Building or applying fails, and nobody removes the directory.
AddonFails ==
  /\ pc \in {"build", "kubectl"}
  /\ Fault
  /\ Ends("failed", 1)
  /\ UNCHANGED <<spec, next, installed, syncing, runs>>

\* What is left of the directories once the manifests are removed.
DirsAfterKept == 1
DirsAfterRemoval == 0

RemoveTempDir ==
  /\ pc = "remove"
  /\ left' = left + DirsAfterRemoval
  /\ built' = Nil
  /\ next' = next + 1 /\ pc' = "addon"
  /\ UNCHANGED <<spec, outcome, installed, syncing, runs, faults>>

\* It cannot be removed, which is not noticed.
RemoveTempDirFails ==
  /\ pc = "remove"
  /\ Fault
  /\ left' = left + 1
  /\ built' = Nil
  /\ next' = next + 1 /\ pc' = "addon"
  /\ UNCHANGED <<spec, outcome, installed, syncing, runs>>

Finish ==
  /\ pc = "addon" /\ ~More
  /\ Ends("ok", 0)
  /\ UNCHANGED <<spec, next, installed, syncing, runs, faults>>

Kill ==
  /\ pc # "idle"
  /\ Fault
  /\ Ends("failed", IF pc = "addon" THEN 0 ELSE 1)
  /\ UNCHANGED <<spec, next, installed, syncing, runs>>

--------------------------------------------------------------------------------
\* registry-sync-commands, and the operator who runs what it prints.

BeginSync ==
  /\ unlisted = Nil /\ commands = Nil
  /\ unlisted' = DOMAIN Shipped /\ collected' = {}
  /\ UNCHANGED <<applying, commands, mirror, left, runs, faults>>

\* ListImages builds an addon, with a value for every parameter it requires and
\* without a repository, and collects the images of its containers.
ListImages(a) ==
  /\ unlisted # Nil /\ a \in unlisted
  /\ unlisted' = unlisted \ {a}
  /\ collected' = collected \union Shipped[a].images
  /\ UNCHANGED <<applying, commands, mirror, left, runs, faults>>

\* It fails, and the directory it has by then, if any, stays.
ListImagesFails ==
  /\ unlisted # Nil /\ unlisted # {}
  /\ Fault
  /\ \E dirs \in 0 .. 1 : left' = left + dirs
  /\ unlisted' = Nil
  /\ UNCHANGED <<applying, collected, commands, mirror, runs>>

PrintCommands ==
  /\ unlisted = {}
  /\ unlisted' = Nil
  /\ commands' = collected
  /\ UNCHANGED <<applying, collected, mirror, left, runs, faults>>

\* docker pull, tag and push of one image.
RunCommands(i) ==
  /\ commands # Nil /\ i \in commands
  /\ commands' = commands \ {i}
  /\ mirror' = [ref \in DOMAIN mirror \union {DestImage(i)} |->
                  IF ref = DestImage(i) THEN i ELSE mirror[ref]]
  /\ UNCHANGED <<applying, unlisted, collected, left, runs, faults>>

Idle ==
  /\ pc = "idle" /\ runs = MaxRuns
  /\ commands = {}
  /\ UNCHANGED vars

Next ==
  \/ \E manifest \in Manifests : Begin(manifest) \/ Refused(manifest)
  \/ BeginFails
  \/ MakeTempDir \/ MakeTempDirFails
  \/ Build \/ KubectlApply \/ AddonFails
  \/ RemoveTempDir \/ RemoveTempDirFails
  \/ Finish \/ Kill
  \/ BeginSync \/ PrintCommands \/ ListImagesFails
  \/ \E a \in DOMAIN Shipped : ListImages(a)
  \/ \E i \in AllImages : RunCommands(i)
  \/ Idle

Spec == Init /\ [][Next]_vars

--------------------------------------------------------------------------------
\* Properties.

\* Every variable has its type; manifests are built from a manifest read.
TypeOK ==
  /\ pc \in {"idle", "addon", "build", "kubectl", "remove"}
  /\ spec \in Manifests \union {Nil} /\ (pc # "idle" => spec # Nil /\ Valid(spec))
  /\ next \in Nat \ {0} /\ (pc \in {"build", "kubectl", "remove"} => next <= Len(spec.addons))
  /\ pc \in {"kubectl", "remove"} => built = Built(Entry, spec.repository)
  /\ outcome \in {"none", "ok", "refused", "failed", "panic"}
  /\ DOMAIN installed = DOMAIN Shipped
  /\ unlisted = Nil \/ unlisted \subseteq DOMAIN Shipped
  /\ collected \subseteq AllImages
  /\ commands = Nil \/ commands \subseteq AllImages
  /\ \A ref \in DOMAIN mirror : mirror[ref] \in AllImages
  /\ left \in Nat /\ runs \in 0 .. MaxRuns /\ faults \in 0 .. MaxFaults

\* Once the commands of registry-sync-commands have been run, every image of an
\* addon of YAML manifests that was built for that registry and organization is
\* in the registry, under the name the addon asks for, and is the very image
\* the addon is made for.
ImagesMirrored ==
  commands = {} =>
    \A a \in DOMAIN Shipped :
      installed[a] # Nil /\ installed[a].repository = Dest /\ Shipped[a].kind = "yaml" =>
        \A i \in installed[a].images :
          i.ref \in DOMAIN mirror /\ mirror[i.ref] = i.source

\* When apply-addons succeeds, every addon of the manifest is in the cluster as
\* the manifest asks for (the last time it names the addon), whatever earlier
\* runs, for other manifests, have done or left undone.
AppliesManifest ==
  pc = "idle" /\ outcome = "ok" =>
    \A i \in DOMAIN spec.addons :
      LET entry == spec.addons[i] IN
      (\A j \in DOMAIN spec.addons : j > i => spec.addons[j].name # entry.name) =>
        installed[entry.name] = Built(entry, spec.repository)

\* Manifests that pass validation are applied: without a fault no run fails
\* after it, and none panics, not even when an addon has no parameters.
ValidatedSucceeds ==
  outcome # "panic" /\ (outcome = "failed" => faults > 0)

\* Only a fault or a kill leaves a temporary directory behind, at most one each.
TempDirsOfFailures == left <= faults
================================================================================
