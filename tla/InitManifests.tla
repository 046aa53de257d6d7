------------------------------ MODULE InitManifests -----------------------------
(***************************************************************************)
(* wksctl init (cmd/wksctl/init): it walks the local clone of the cluster's *)
(* repository and writes into its flux manifests where that repository is, *)
(* and into its weave-net manifests the network of the pods, which it      *)
(* takes from the cluster manifest once that is validated.                 *)
(*                                                                         *)
(* It may be run again: with other options, for another cluster manifest,  *)
(* or because the run before failed or was killed in the middle of a file. *)
(***************************************************************************)
EXTENDS SpecsValidation

CONSTANTS
  Entries,    \* the paths below the clone, in the order of the walk
  GitFiles,   \* those named .git that are files and not directories
  FluxNames,  \* the names of files that begin with flux and end in .yaml
  Fields,     \* the fields of a flux manifest that init writes
  Others,     \* those that none of its patterns matches: --memcached-hostname,
              \* which holds a namespace too, ...
  Values,     \* what may be written there
  Blank,      \* the value that is empty
  Options,    \* the flags: a value for every field
  Repository, \* what the files that match hold at first
  Manifests,  \* the contents of cluster.yaml with machines.yaml
  MaxRuns,    \* bound on the runs of init
  MaxFaults   \* bound on faults and kills

\* A path is a sequence of names.  The last selects the update for a file.
Base(path) == path[Len(path)]
Kind(path) ==
  CASE Base(path) = ".git" -> "git"
    [] Base(path) = "weave-net.yaml" -> "weave-net"
    [] Base(path) \in FluxNames -> "flux"
    [] OTHER -> "other"
Under(dir, path) == Len(dir) < Len(path) /\ SubSeq(path, 1, Len(dir)) = dir
Dir(path) == SubSeq(path, 1, Len(path) - 1)

Paths == {Entries[i] : i \in DOMAIN Entries}
Flux == {path \in Paths : Kind(path) = "flux"}
WeaveNet == {path \in Paths : Kind(path) = "weave-net"}

\* A manifest is a function from the fields it has, all it had or those a write
\* cut short has left, to what they hold.
Parts(content) ==
  {[f \in fields |-> content[f]] : fields \in SUBSET DOMAIN content}

ASSUME InitManifestsAssumption ==
  /\ Len(Entries) \in Nat /\ DOMAIN Entries = 1 .. Len(Entries)
  /\ \A i \in DOMAIN Entries : Entries[i] \in Seq(STRING)
  /\ \A i, j \in DOMAIN Entries : Entries[i] = Entries[j] => i = j
  /\ Options \subseteq [Fields -> Values]
  /\ Fields \intersect Others = {}
  /\ DOMAIN Repository = Flux \union WeaveNet
  /\ \A path \in Flux :
       DOMAIN Repository[path] \subseteq Fields \union Others
         /\ \A f \in DOMAIN Repository[path] : Repository[path][f] \in Values
  /\ \A m \in Manifests : m.cluster \in Clusters
  /\ MaxRuns \in Nat /\ MaxFaults \in Nat

VARIABLES
  pc,        \* where the run is
  at,        \* the entry the walk is at
  skipped,   \* the directories it does not go on with
  options,   \* the flags of the run, or of the last
  contents,  \* what is read of a file, then what is to be written
  found,     \* whether the walk has met a flux manifest
  outcome,   \* how the last run ended
  files,     \* the files that match
  manifests, \* the cluster and machines manifests
  cut,       \* the files that a write has left cut short, since the owner last
             \* got them from Git; no step reads it
  runs, faults

vars ==
  <<pc, at, skipped, options, contents, found, outcome, files, manifests, cut, runs, faults>>

Path == Entries[at]
Fault == faults < MaxFaults /\ faults' = faults + 1

Init ==
  /\ pc = "idle" /\ at = 1 /\ skipped = {}
  /\ options \in Options
  /\ contents = <<>> /\ found = FALSE /\ outcome = "none"
  /\ files = Repository
  /\ manifests \in Manifests
  /\ cut = {}
  /\ runs = 0 /\ faults = 0

--------------------------------------------------------------------------------
\* The repository, between runs of init: its owner edits the manifests or gets
\* the files back from Git.

Edit(m) ==
  /\ pc = "idle"
  /\ manifests' = m /\ outcome' = "none"
  /\ UNCHANGED <<pc, at, skipped, options, contents, found, files, cut, runs, faults>>

Checkout ==
  /\ pc = "idle"
  /\ files' = Repository /\ cut' = {} /\ outcome' = "none"
  /\ UNCHANGED <<pc, at, skipped, options, contents, found, manifests, runs, faults>>

--------------------------------------------------------------------------------
\* The walk.

Begin(flags) ==
  /\ pc = "idle" /\ runs < MaxRuns
  /\ options' = flags
  /\ pc' = "walk" /\ at' = 1 /\ skipped' = {}
  /\ found' = FALSE /\ outcome' = "none"
  /\ runs' = runs + 1
  /\ UNCHANGED <<contents, files, manifests, cut, faults>>

\* What does not go on after an entry named .git: SkipDir skips a directory, or
\* what is left of the directory that a file is in.
SkipDir(git) == IF git \in GitFiles THEN Dir(git) ELSE git

AfterGitReturned == skipped
AfterGit == skipped \union {SkipDir(Path)}

More == at <= Len(Entries)
Visited == pc = "walk" /\ More /\ \A dir \in skipped : ~Under(dir, Path)

\* An entry that no update selects.
Pass ==
  /\ Visited
  /\ Kind(Path) \in {"git", "other"}
  /\ skipped' = IF Kind(Path) = "git" THEN AfterGit ELSE skipped
  /\ at' = at + 1
  /\ UNCHANGED <<pc, options, contents, found, outcome, files, manifests, cut, runs, faults>>

\* An entry that is skipped.
Skip ==
  /\ pc = "walk" /\ More /\ ~Visited
  /\ at' = at + 1
  /\ UNCHANGED <<pc, skipped, options, contents, found, outcome, files, manifests, cut, runs, faults>>

\* The walk ends.  That there was no flux manifest is what is told in any case.
Ends(how, seen) ==
  /\ pc' = "idle"
  /\ found' = seen
  /\ outcome' = IF seen THEN how ELSE "missing"

Finish ==
  /\ pc = "walk" /\ ~More
  /\ Ends("ok", found)
  /\ UNCHANGED <<at, skipped, options, contents, files, manifests, cut, runs, faults>>

\* A directory cannot be read.
WalkFails ==
  /\ pc = "walk"
  /\ Fault
  /\ Ends("failed", found)
  /\ UNCHANGED <<at, skipped, options, contents, files, manifests, cut, runs>>

FoundBefore == found
Found == found \/ Kind(Path) = "flux"

ReadFile ==
  /\ Visited
  /\ Kind(Path) \in {"flux", "weave-net"}
  /\ found' = Found
  /\ contents' = files[Path]
  /\ pc' = "update"
  /\ UNCHANGED <<at, skipped, options, outcome, files, manifests, cut, runs, faults>>

ReadFails ==
  /\ Visited
  /\ Kind(Path) \in {"flux", "weave-net"}
  /\ Fault
  /\ Ends("failed", Found)
  /\ UNCHANGED <<at, skipped, options, contents, files, manifests, cut, runs>>

\* updateFluxManifests: the patterns match the fields that it writes, if their
\* value is not empty.
MatchedButURL(content) ==
  {f \in DOMAIN content \intersect Fields : content[f] # Blank} \ {"git_url"}
Matched(content) == {f \in DOMAIN content \intersect Fields : content[f] # Blank}
FluxUpdated(content) ==
  [f \in DOMAIN content |-> IF f \in Matched(content) THEN options[f] ELSE content[f]]

UpdateFlux ==
  /\ pc = "update" /\ Kind(Path) = "flux"
  /\ contents' = FluxUpdated(contents)
  /\ pc' = "open"
  /\ UNCHANGED <<at, skipped, options, found, outcome, files, manifests, cut, runs, faults>>

\* SetWeaveNetPodCIDRBlock gives the containers of the manifest the block as
\* their range, in place of the one they have, if any.
WeaveNetUpdated(content, block) ==
  [f \in DOMAIN content \union {"ipalloc_range"} |->
    IF f = "ipalloc_range" THEN block ELSE content[f]]
HasContainers(content) == "containers" \in DOMAIN content

\* updateWeaveNetManifests reads the manifests of the cluster, for every file.
\* Valid ones have one network for the pods.
UpdateWeaveNet ==
  /\ pc = "update" /\ Kind(Path) = "weave-net"
  /\ ValidManifests(manifests) /\ HasContainers(contents)
  /\ contents' = WeaveNetUpdated(contents, manifests.cluster.pods[1])
  /\ pc' = "open"
  /\ UNCHANGED <<at, skipped, options, found, outcome, files, manifests, cut, runs, faults>>

\* log.Fatal in NewFromPaths.
ValidateFatal ==
  /\ pc = "update" /\ Kind(Path) = "weave-net"
  /\ ~ValidManifests(manifests)
  /\ pc' = "idle" /\ outcome' = "fatal"
  /\ UNCHANGED <<at, skipped, options, contents, found, files, manifests, cut, runs, faults>>

\* A write cut short has left no containers.
UpdateRejected ==
  /\ pc = "update" /\ Kind(Path) = "weave-net"
  /\ ValidManifests(manifests) /\ ~HasContainers(contents)
  /\ Ends("failed", found)
  /\ UNCHANGED <<at, skipped, options, contents, files, manifests, cut, runs, faults>>

\* ioutil.WriteFile empties the file before it writes.
OpenFile ==
  /\ pc = "open"
  /\ files' = [files EXCEPT ![Path] = <<>>]
  /\ pc' = "write"
  /\ UNCHANGED <<at, skipped, options, contents, found, outcome, manifests, cut, runs, faults>>

OpenFails ==
  /\ pc = "open"
  /\ Fault
  /\ Ends("failed", found)
  /\ UNCHANGED <<at, skipped, options, contents, files, manifests, cut, runs>>

WriteFile ==
  /\ pc = "write"
  /\ files' = [files EXCEPT ![Path] = contents]
  /\ pc' = "walk" /\ at' = at + 1
  /\ UNCHANGED <<skipped, options, contents, found, outcome, manifests, cut, runs, faults>>

WriteFails ==
  /\ pc = "write"
  /\ Fault
  /\ \E part \in Parts(contents) : files' = [files EXCEPT ![Path] = part]
  /\ cut' = cut \union {Path}
  /\ Ends("failed", found)
  /\ UNCHANGED <<at, skipped, options, contents, manifests, runs>>

Kill ==
  /\ pc # "idle"
  /\ Fault
  /\ pc' = "idle" /\ outcome' = "killed"
  /\ cut' = IF pc = "write" THEN cut \union {Path} ELSE cut
  /\ UNCHANGED <<at, skipped, options, contents, found, files, manifests, runs>>

Next ==
  \/ \E m \in Manifests : Edit(m)
  \/ Checkout
  \/ \E flags \in Options : Begin(flags)
  \/ Pass \/ Skip \/ Finish \/ WalkFails
  \/ ReadFile \/ ReadFails
  \/ UpdateFlux \/ UpdateWeaveNet \/ UpdateRejected \/ ValidateFatal
  \/ OpenFile \/ OpenFails \/ WriteFile \/ WriteFails
  \/ Kill

Spec == Init /\ [][Next]_vars

--------------------------------------------------------------------------------
\* Properties.

\* The files of the repository itself: not below a directory named .git, nor in
\* a submodule, whose directory has a file of that name.
Own(path) ==
  \A git \in Paths : Kind(git) = "git" =>
    ~Under(IF git \in GitFiles THEN Dir(git) ELSE git, path)

\* Every variable has its type; a flux manifest that is read has been noticed.
TypeOK ==
  /\ pc \in {"idle", "walk", "update", "open", "write"}
  /\ at \in 1 .. Len(Entries) + 1
  /\ skipped \subseteq {SkipDir(git) : git \in Paths}
  /\ pc \in {"update", "open", "write"} => More /\ Path \in Flux \union WeaveNet
  /\ pc \in {"update", "open", "write"} /\ Path \in Flux => found
  /\ options \in Options
  /\ found \in BOOLEAN
  /\ outcome \in {"none", "ok", "failed", "missing", "fatal", "killed"}
  /\ DOMAIN files = Flux \union WeaveNet
  /\ \A path \in Flux :
       /\ DOMAIN files[path] \subseteq Fields \union Others
       /\ \A f \in DOMAIN files[path] : files[path][f] \in Values
  /\ manifests \in Manifests
  /\ cut \subseteq Flux \union WeaveNet
  /\ runs \in 0 .. MaxRuns /\ faults \in 0 .. MaxFaults

\* When init succeeds, every flux manifest of the repository has the options of
\* this run in the fields that init writes and none of an earlier run, but empty
\* ones; it has all its fields, unless a write of some run was cut short since the
\* owner got it from Git, and in those that init does not write what they had.  And
\* every weave-net manifest allocates from the pods' network in the cluster
\* manifest, whatever earlier runs have left half-done.
InitUpdatesAll ==
  pc = "idle" /\ outcome = "ok" =>
    /\ \A path \in Flux : Own(path) =>
         /\ \A f \in DOMAIN files[path] :
              files[path][f] \in IF f \in Fields THEN {options[f], Blank} ELSE {Repository[path][f]}
         /\ path \notin cut => DOMAIN files[path] = DOMAIN Repository[path]
    /\ \A path \in WeaveNet : Own(path) =>
         /\ "ipalloc_range" \in DOMAIN files[path]
         /\ files[path].ipalloc_range = manifests.cluster.pods[1]

\* When init succeeds and there is a weave-net manifest, the addresses it gives
\* to pods are apart from those of services.
PodNetworkApart ==
  pc = "idle" /\ outcome = "ok" =>
    \A path \in WeaveNet : Own(path) =>
      Addresses(files[path].ipalloc_range)
        \intersect Addresses(manifests.cluster.services[1]) = {}

\* No run changes a file of Git or of a submodule.
OthersUntouched ==
  [][pc # "idle" => \A path \in Flux \union WeaveNet :
       ~Own(path) => files'[path] = files[path]]_vars
================================================================================
