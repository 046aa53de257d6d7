----------------------------- MODULE Addons_proofs ------------------------------
(***************************************************************************)
(* The invariants of Addons, for any shipped addons, manifests, registries *)
(* and any number of runs and faults.  AddonsInv is inductive: it says     *)
(* what a run has applied so far, how every addon in the cluster was       *)
(* built, and how far registry-sync-commands has got with every image.     *)
(***************************************************************************)
EXTENDS Addons, TLAPS

\* The types of the variables of the two commands.
ApplyingTypeOK ==
  /\ pc \in {"idle", "addon", "build", "kubectl", "remove"}
  /\ spec \in Manifests \union {Nil} /\ (pc # "idle" => spec # Nil /\ Valid(spec))
  /\ next \in Nat \ {0} /\ (pc \in {"build", "kubectl", "remove"} => next <= Len(spec.addons))
  /\ pc \in {"kubectl", "remove"} => built = Built(Entry, spec.repository)
  /\ outcome \in {"none", "ok", "refused", "failed", "panic"}
  /\ DOMAIN installed = DOMAIN Shipped
SyncingTypeOK ==
  /\ unlisted = Nil \/ unlisted \subseteq DOMAIN Shipped
  /\ collected \subseteq AllImages
  /\ commands = Nil \/ commands \subseteq AllImages
  /\ \A ref \in DOMAIN mirror : mirror[ref] \in AllImages
CountsTypeOK ==
  left \in Nat /\ runs \in 0 .. MaxRuns /\ faults \in 0 .. MaxFaults

\* Together they are the type invariant.
LEMMA TypeParts == TypeOK <=> ApplyingTypeOK /\ SyncingTypeOK /\ CountsTypeOK
  BY DEF TypeOK, ApplyingTypeOK, SyncingTypeOK, CountsTypeOK

\* The first k addons of the manifest are in the cluster as it asks for, except
\* those that it names again.
Applied(k) ==
  \A i \in 1 .. k :
    (\A j \in 1 .. k : j > i => spec.addons[j].name # spec.addons[i].name) =>
      installed[spec.addons[i].name] = Built(spec.addons[i], spec.repository)

\* What a run that is on has done, and what one that succeeded has.
RunInv ==
  /\ pc # "idle" => next <= Len(spec.addons) + 1
  /\ pc \in {"addon", "build", "kubectl"} => Applied(next - 1)
  /\ pc = "remove" => Applied(next)
  /\ outcome = "ok" /\ pc = "idle" => spec \in Manifests /\ Applied(Len(spec.addons))

\* Every addon in the cluster has the images its repository makes of its own.
ClusterInv ==
  \A a \in DOMAIN Shipped :
    installed[a] # Nil =>
      installed[a].images = Rewritten(a, installed[a].repository)

\* The registry has images under the names registry-sync-commands gives them;
\* none is forgotten between listing, printing and running.
MirrorInv ==
  /\ \A ref \in DOMAIN mirror : ref = DestImage(mirror[ref])
  /\ unlisted # Nil => \A a \in DOMAIN Shipped \ unlisted : Shipped[a].images \subseteq collected
  /\ commands # Nil => \A i \in AllImages : i \in commands \/ DestImage(i) \in DOMAIN mirror

AddonsInv ==
  /\ ApplyingTypeOK /\ SyncingTypeOK /\ CountsTypeOK
  /\ RunInv
  /\ ClusterInv
  /\ MirrorInv
  /\ ValidatedSucceeds
  /\ TempDirsOfFailures

--------------------------------------------------------------------------------
\* Names of images: both commands give an image one name in the registry, and
\* different images different ones.

\* UpdateImage asks for the very name that registry-sync-commands pushes.
LEMMA OneName ==
  ASSUME NEW i \in AllImages
  PROVE  UpdateImage(i, Dest) = DestImage(i)
<1>1. /\ Parse(i) = [domain |-> Parse(i).domain, organisation |-> Parse(i).organisation,
                     name |-> Parse(i).name]
      /\ Parse(i).name = Name(i)
  BY DEF Parse, Captured
<1>2. UpdateImage(i, Dest) = <<Dest[1]>> \o <<Dest[2]>> \o <<Name(i)>>
  BY <1>1, AddonsAssumption DEF UpdateImage, RefString
<1>3. DestImage(i) = <<Dest[1]>> \o <<Dest[2]>> \o <<Name(i)>>
  BY DEF DestImage, NewImage
<1> QED
  BY <1>2, <1>3

\* No two images are pushed under one name.
LEMMA DestImageInjective ==
  ASSUME NEW i \in AllImages, NEW j \in AllImages, DestImage(i) = DestImage(j)
  PROVE  i = j
<1>1. \A a, b, c : (<<a>> \o <<b>> \o <<c>>)[3] = c
  <2> SUFFICES ASSUME NEW a, NEW b, NEW c
               PROVE  (<<a>> \o <<b>> \o <<c>>)[3] = c
    OBVIOUS
  <2>1. <<a>> \in Seq({a, b, c}) /\ <<b>> \in Seq({a, b, c}) /\ <<c>> \in Seq({a, b, c})
    OBVIOUS
  <2>2. <<a>> \o <<b>> \in Seq({a, b, c}) /\ Len(<<a>> \o <<b>>) = 2
    BY <2>1
  <2> QED
    BY <2>1, <2>2
<1>2. \A k : DestImage(k)[3] = Name(k)
  BY <1>1 DEF DestImage, NewImage
<1> QED
  BY <1>2, AddonsAssumption

\* A validated addon never makes buildJsonnet write into a missing map.
LEMMA ValidNeverPanics ==
  ASSUME NEW m \in Manifests, Valid(m), NEW i \in 1 .. Len(m.addons)
  PROVE  ~Panics(m.addons[i], m.repository) /\ m.addons[i].name \in DOMAIN Shipped
<1>1. m.addons[i].name \in DOMAIN Shipped /\ ValidOptions(m.addons[i])
  BY AddonsAssumption DEF Valid
<1> QED
  BY <1>1, AddonsAssumption DEF ValidOptions, Panics, Overridden

--------------------------------------------------------------------------------
\* The inductive invariant.

\* Before any run nothing is applied, listed or left behind.
LEMMA InitInv == Init => AddonsInv
<1> SUFFICES ASSUME Init PROVE AddonsInv
  OBVIOUS
<1> USE AddonsAssumption
<1>1. ApplyingTypeOK /\ SyncingTypeOK /\ CountsTypeOK
  BY DEF Init, ApplyingTypeOK, SyncingTypeOK, CountsTypeOK
<1>2. RunInv
  BY DEF Init, RunInv
<1>3. ClusterInv /\ MirrorInv
  BY DEF Init, ClusterInv, MirrorInv
<1>4. ValidatedSucceeds /\ TempDirsOfFailures
  BY DEF Init, ValidatedSucceeds, TempDirsOfFailures
<1> QED
  BY <1>1, <1>2, <1>3, <1>4 DEF AddonsInv

\* The steps of registry-sync-commands change nothing apply-addons has.
LEMMA SyncingInv ==
  ASSUME AddonsInv,
         BeginSync \/ PrintCommands \/ ListImagesFails
           \/ (\E a \in DOMAIN Shipped : ListImages(a))
           \/ (\E i \in AllImages : RunCommands(i))
  PROVE  AddonsInv'
<1> USE AddonsAssumption
<1>1. UNCHANGED applying
  BY DEF BeginSync, PrintCommands, ListImagesFails, ListImages, RunCommands
<1>2. ApplyingTypeOK' /\ RunInv' /\ ClusterInv'
  BY <1>1 DEF AddonsInv, ApplyingTypeOK, RunInv, ClusterInv, Applied, Entry, applying
<1>3. SyncingTypeOK'
  <2>1. CASE BeginSync
    BY <2>1 DEF AddonsInv, SyncingTypeOK, BeginSync
  <2>2. CASE PrintCommands
    BY <2>2 DEF AddonsInv, SyncingTypeOK, PrintCommands
  <2>3. CASE ListImagesFails
    BY <2>3 DEF AddonsInv, SyncingTypeOK, ListImagesFails
  <2>4. ASSUME NEW a \in DOMAIN Shipped, ListImages(a)
        PROVE  SyncingTypeOK'
    <3>1. Shipped[a].images \subseteq AllImages
      BY DEF AllImages
    <3> QED
      BY <2>4, <3>1 DEF AddonsInv, SyncingTypeOK, ListImages
  <2>5. ASSUME NEW i \in AllImages, RunCommands(i)
        PROVE  SyncingTypeOK'
    BY <2>5 DEF AddonsInv, SyncingTypeOK, RunCommands
  <2> QED
    BY <2>1, <2>2, <2>3, <2>4, <2>5
<1>5. CountsTypeOK' /\ ValidatedSucceeds' /\ TempDirsOfFailures'
  <2>1. CASE ListImagesFails
    BY <1>1, <2>1 DEF AddonsInv, CountsTypeOK, ValidatedSucceeds, TempDirsOfFailures, ListImagesFails, Fault, applying
  <2>2. CASE ~ListImagesFails
    <3>1. UNCHANGED <<left, runs, faults>>
      BY <2>2 DEF BeginSync, PrintCommands, ListImages, RunCommands
    <3> QED
      BY <1>1, <3>1 DEF AddonsInv, CountsTypeOK, ValidatedSucceeds, TempDirsOfFailures, applying
  <2> QED
    BY <2>1, <2>2
<1>4. MirrorInv'
  <2>1. CASE BeginSync
    BY <2>1 DEF AddonsInv, MirrorInv, BeginSync
  <2>2. CASE PrintCommands
    <3>1. unlisted # Nil
      BY <2>2 DEF PrintCommands
    <3>2. AllImages \subseteq collected
      BY <2>2, <3>1 DEF AddonsInv, MirrorInv, PrintCommands, AllImages
    <3> QED
      BY <2>2, <3>2 DEF AddonsInv, MirrorInv, PrintCommands
  <2>3. CASE ListImagesFails
    BY <2>3 DEF AddonsInv, MirrorInv, ListImagesFails
  <2>4. ASSUME NEW a \in DOMAIN Shipped, ListImages(a)
        PROVE  MirrorInv'
    BY <2>4 DEF AddonsInv, MirrorInv, ListImages
  <2>5. ASSUME NEW i \in AllImages, RunCommands(i)
        PROVE  MirrorInv'
    BY <2>5 DEF AddonsInv, MirrorInv, RunCommands
  <2> QED
    BY <2>1, <2>2, <2>3, <2>4, <2>5
<1> QED
  BY <1>2, <1>3, <1>4, <1>5 DEF AddonsInv

\* Steps that change no addon of the cluster and nothing of the registry.
LEMMA RunStepInv ==
  ASSUME AddonsInv,
         UNCHANGED <<installed, syncing>>,
         ApplyingTypeOK', RunInv', CountsTypeOK', ValidatedSucceeds', TempDirsOfFailures'
  PROVE  AddonsInv'
  BY DEF AddonsInv, SyncingTypeOK, ClusterInv, MirrorInv, syncing

\* The steps of apply-addons that end it.
LEMMA EndingInv ==
  ASSUME AddonsInv, NEW dirs \in 0 .. 1, NEW how \in {"failed", "refused"},
         Ends(how, dirs),
         UNCHANGED <<spec, next, installed, syncing>>,
         runs' \in 0 .. MaxRuns,
         Fault \/ (faults' = faults /\ how = "refused" /\ dirs = 0)
  PROVE  AddonsInv'
<1> USE AddonsAssumption DEF AddonsInv, Ends
<1>1. ApplyingTypeOK' /\ RunInv'
  BY DEF ApplyingTypeOK, RunInv
<1>2. CountsTypeOK' /\ ValidatedSucceeds' /\ TempDirsOfFailures'
  BY DEF CountsTypeOK, ValidatedSucceeds, TempDirsOfFailures, Fault
<1> QED
  BY <1>1, <1>2, RunStepInv

\* The steps of a run from one addon to the next.
LEMMA RunningInv ==
  ASSUME AddonsInv,
         MakeTempDir \/ Build \/ RemoveTempDir \/ RemoveTempDirFails \/ Finish
           \/ (\E manifest \in Manifests : Begin(manifest))
  PROVE  AddonsInv'
<1> USE AddonsAssumption
<1>1. ASSUME NEW manifest \in Manifests, Begin(manifest)
      PROVE  AddonsInv'
  <2> USE <1>1 DEF AddonsInv, Begin, Start
  <2>1. ApplyingTypeOK'
    BY DEF ApplyingTypeOK
  <2>2. RunInv'
    BY DEF RunInv, Applied
  <2>3. CountsTypeOK' /\ ValidatedSucceeds' /\ TempDirsOfFailures'
    BY DEF CountsTypeOK, ValidatedSucceeds, TempDirsOfFailures
  <2> QED
    BY <2>1, <2>2, <2>3, RunStepInv
<1>2. CASE MakeTempDir
  <2> USE <1>2 DEF AddonsInv, MakeTempDir, More
  <2>1. ApplyingTypeOK'
    BY DEF ApplyingTypeOK
  <2>2. RunInv'
    BY DEF RunInv, Applied
  <2>3. CountsTypeOK' /\ ValidatedSucceeds' /\ TempDirsOfFailures'
    BY DEF CountsTypeOK, ValidatedSucceeds, TempDirsOfFailures
  <2> QED
    BY <2>1, <2>2, <2>3, RunStepInv
<1>3. CASE Build
  <2> USE <1>3 DEF AddonsInv, Build
  <2>1. ~Panics(Entry, spec.repository)
    <3>1. spec \in Manifests /\ Valid(spec) /\ next \in 1 .. Len(spec.addons)
      BY DEF ApplyingTypeOK
    <3> QED
      BY <3>1, ValidNeverPanics DEF Entry
  <2>2. ApplyingTypeOK'
    BY <2>1 DEF ApplyingTypeOK, Entry
  <2>3. RunInv'
    BY <2>1 DEF RunInv, Applied
  <2>4. CountsTypeOK' /\ ValidatedSucceeds' /\ TempDirsOfFailures'
    BY <2>1 DEF CountsTypeOK, ValidatedSucceeds, TempDirsOfFailures
  <2> QED
    BY <2>1, <2>2, <2>3, <2>4, RunStepInv
<1>4. CASE RemoveTempDir \/ RemoveTempDirFails
  <2> USE <1>4 DEF AddonsInv, RemoveTempDir, RemoveTempDirFails
  <2>1. ApplyingTypeOK'
    BY DEF ApplyingTypeOK
  <2>2. next' - 1 = next /\ next' <= Len(spec.addons) + 1
    BY DEF ApplyingTypeOK
  <2>3. RunInv'
    BY <2>2 DEF RunInv, Applied, ApplyingTypeOK
  <2>4. CountsTypeOK' /\ ValidatedSucceeds' /\ TempDirsOfFailures'
    BY DEF CountsTypeOK, ValidatedSucceeds, TempDirsOfFailures, DirsAfterRemoval, Fault
  <2> QED
    BY <2>1, <2>3, <2>4, RunStepInv
<1>5. CASE Finish
  <2> USE <1>5 DEF AddonsInv, Finish, Ends
  <2>1. ApplyingTypeOK'
    BY DEF ApplyingTypeOK
  <2>2. next - 1 = Len(spec.addons)
    BY DEF RunInv, ApplyingTypeOK, More
  <2>3. RunInv'
    BY <2>2 DEF RunInv, Applied, ApplyingTypeOK
  <2>4. CountsTypeOK' /\ ValidatedSucceeds' /\ TempDirsOfFailures'
    BY DEF CountsTypeOK, ValidatedSucceeds, TempDirsOfFailures
  <2> QED
    BY <2>1, <2>3, <2>4, RunStepInv
<1> QED
  BY <1>1, <1>2, <1>3, <1>4, <1>5

\* The step that gives an addon to the cluster.
LEMMA KubectlApplyInv ==
  ASSUME AddonsInv, KubectlApply
  PROVE  AddonsInv'
<1> USE AddonsAssumption DEF AddonsInv, KubectlApply
<1>1. /\ Entry.name \in DOMAIN Shipped
      /\ built = Built(Entry, spec.repository)
      /\ next \in 1 .. Len(spec.addons)
  BY ValidNeverPanics DEF ApplyingTypeOK, Entry
<1>2. ApplyingTypeOK' /\ SyncingTypeOK'
  BY DEF ApplyingTypeOK, SyncingTypeOK, Entry, syncing
<1>3. Applied(next)'
  <2>1. ASSUME NEW i \in 1 .. next,
               \A j \in 1 .. next : j > i => spec.addons[j].name # spec.addons[i].name
        PROVE  installed'[spec.addons[i].name] = Built(spec.addons[i], spec.repository)
    <3>1. CASE i = next
      BY <1>1, <3>1 DEF Entry, ApplyingTypeOK
    <3>2. CASE i # next
      <4>1. i \in 1 .. next - 1 /\ spec.addons[i].name # Entry.name
        BY <1>1, <2>1, <3>2 DEF Entry
      <4>2. installed[spec.addons[i].name] = Built(spec.addons[i], spec.repository)
        BY <1>1, <2>1, <4>1 DEF RunInv, Applied
      <4>3. spec.addons[i].name \in DOMAIN Shipped
        BY <1>1, <4>1, ValidNeverPanics DEF ApplyingTypeOK
      <4> QED
        BY <4>1, <4>2, <4>3 DEF ApplyingTypeOK
    <3> QED
      BY <3>1, <3>2
  <2> QED
    BY <2>1 DEF Applied
<1>4. RunInv'
  BY <1>1, <1>3 DEF RunInv, ApplyingTypeOK
<1>5. ClusterInv'
  BY <1>1 DEF ClusterInv, ApplyingTypeOK, Built
<1>6. MirrorInv'
  BY DEF MirrorInv, syncing
<1>7. CountsTypeOK' /\ ValidatedSucceeds' /\ TempDirsOfFailures'
  BY DEF CountsTypeOK, ValidatedSucceeds, TempDirsOfFailures
<1> QED
  BY <1>2, <1>4, <1>5, <1>6, <1>7

\* Every step of either command preserves the invariant.
LEMMA NextInv ==
  ASSUME AddonsInv, [Next]_vars
  PROVE  AddonsInv'
<1> USE AddonsAssumption
<1>1. ASSUME NEW manifest \in Manifests, Refused(manifest)
      PROVE  AddonsInv'
  <2>1. runs' \in 0 .. MaxRuns
    BY <1>1 DEF Refused, Start, AddonsInv, CountsTypeOK
  <2> QED
    BY <1>1, <2>1, EndingInv DEF Refused
<1>2. CASE BeginFails \/ MakeTempDirFails \/ AddonFails \/ Kill
  <2>1. /\ runs' \in 0 .. MaxRuns
        /\ Fault /\ UNCHANGED <<spec, next, installed, syncing>>
    BY <1>2 DEF BeginFails, MakeTempDirFails, AddonFails, Kill, Start, AddonsInv, CountsTypeOK
  <2>2. Ends("failed", 0) \/ Ends("failed", 1)
    BY <1>2 DEF BeginFails, MakeTempDirFails, AddonFails, Kill
  <2> QED
    BY <2>1, <2>2, EndingInv
<1>3. CASE Idle \/ UNCHANGED vars
  <2>1. UNCHANGED <<applying, syncing, left, runs, faults>>
    BY <1>3 DEF Idle, vars
  <2> QED
    BY <2>1 DEF applying, syncing, AddonsInv, ApplyingTypeOK, SyncingTypeOK, CountsTypeOK, RunInv,
                Applied, ClusterInv, MirrorInv, ValidatedSucceeds, TempDirsOfFailures, Entry
<1>4. ASSUME NEW manifest \in Manifests, Begin(manifest)
      PROVE  AddonsInv'
  BY <1>4, RunningInv
<1>5. CASE MakeTempDir \/ Build \/ RemoveTempDir \/ RemoveTempDirFails \/ Finish
  BY <1>5, RunningInv
<1>6. CASE KubectlApply
  BY <1>6, KubectlApplyInv
<1>7. CASE BeginSync \/ PrintCommands \/ ListImagesFails
             \/ (\E a \in DOMAIN Shipped : ListImages(a))
             \/ (\E i \in AllImages : RunCommands(i))
  BY <1>7, SyncingInv
<1> QED
  BY <1>1, <1>2, <1>3, <1>4, <1>5, <1>6, <1>7 DEF Next

\* The inductive invariant holds whatever the bounds on runs and faults are.
THEOREM InvHolds == Spec => []AddonsInv
<1>1. Init => AddonsInv
  BY InitInv
<1>2. AddonsInv /\ [Next]_vars => AddonsInv'
  BY NextInv
<1> QED
  BY <1>1, <1>2, PTL DEF Spec

--------------------------------------------------------------------------------
\* What follows from it.

\* Every variable keeps its type.
THEOREM TypeCorrect == Spec => []TypeOK
<1>1. AddonsInv => TypeOK
  BY TypeParts DEF AddonsInv
<1> QED
  BY <1>1, InvHolds, PTL

\* A run that succeeds leaves every addon of its manifest in the cluster as the
\* manifest asks for, after any runs for any other manifests.
THEOREM AlwaysAppliesManifest == Spec => []AppliesManifest
<1>1. AddonsInv => AppliesManifest
  BY AddonsAssumption DEF AddonsInv, RunInv, Applied, AppliesManifest
<1> QED
  BY <1>1, InvHolds, PTL

\* Any addons that validation accepts are built and applied unless there is a
\* fault, for every set of addons and manifests.
THEOREM ValidatedAlwaysSucceeds == Spec => []ValidatedSucceeds
<1>1. AddonsInv => ValidatedSucceeds
  BY DEF AddonsInv
<1> QED
  BY <1>1, InvHolds, PTL

\* Faults leave one temporary directory each at most, and nothing else does.
THEOREM TempDirsAlwaysOfFailures == Spec => []TempDirsOfFailures
<1>1. AddonsInv => TempDirsOfFailures
  BY DEF AddonsInv
<1> QED
  BY <1>1, InvHolds, PTL

\* The images registry-sync-commands pushes are those the addons ask for, for
\* every set of images whose names have up to three parts and different ends.
THEOREM ImagesAlwaysMirrored == Spec => []ImagesMirrored
<1>1. AddonsInv => ImagesMirrored
  <2> SUFFICES ASSUME AddonsInv, commands = {},
                      NEW a \in DOMAIN Shipped,
                      installed[a] # Nil, installed[a].repository = Dest,
                      Shipped[a].kind = "yaml",
                      NEW image \in installed[a].images
               PROVE  image.ref \in DOMAIN mirror /\ mirror[image.ref] = image.source
    BY DEF ImagesMirrored
  <2>1. Dest # <<>>
    BY AddonsAssumption
  <2>2. PICK i \in Shipped[a].images : image = [source |-> i, ref |-> UpdateImage(i, Dest)]
    <3>1. image \in Rewritten(a, Dest)
      BY DEF AddonsInv, ClusterInv
    <3>2. Rewritten(a, Dest) = {[source |-> i, ref |-> UpdateImage(i, Dest)] : i \in Shipped[a].images}
      BY <2>1 DEF Rewritten
    <3> QED
      BY <3>1, <3>2
  <2>3. i \in AllImages
    BY DEF AllImages
  <2>4. image.ref = DestImage(i)
    BY <2>2, <2>3, OneName
  <2>5. commands # Nil
    BY AddonsAssumption
  <2>6. DestImage(i) \in DOMAIN mirror
    BY <2>3, <2>5 DEF AddonsInv, MirrorInv
  <2>7. mirror[DestImage(i)] \in AllImages /\ DestImage(mirror[DestImage(i)]) = DestImage(i)
    BY <2>6 DEF AddonsInv, MirrorInv, SyncingTypeOK
  <2>8. mirror[DestImage(i)] = i
    BY <2>3, <2>7, DestImageInjective
  <2> QED
    BY <2>2, <2>4, <2>6, <2>8
<1> QED
  BY <1>1, InvHolds, PTL
================================================================================
