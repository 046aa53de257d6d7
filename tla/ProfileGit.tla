------------------------------ MODULE ProfileGit -------------------------------
(***************************************************************************)
(* "wksctl profile enable" and "wksctl profile disable"                    *)
(* (cmd/wksctl/profile) over the git commands of pkg/git.  Commands follow *)
(* one another in one clone; between two of them the user may stage or     *)
(* commit a change of his own.  A command is a sequence of git             *)
(* invocations; each succeeds, or fails: because of the state of the       *)
(* clone, or because of a fault (no network, a hook, a lock), after which  *)
(* its effect may or may not be there.  Some faults on the way to the      *)
(* files a profile ignores are not noticed.  A command may also be killed  *)
(* between two invocations.                                                *)
(*                                                                         *)
(* Of commits only the trees matter: head, the tree of HEAD, and remote,   *)
(* the tree of the branch it is pushed to.  Tracked files of the working   *)
(* directory are as in the index.  What git does is external.              *)
(***************************************************************************)
EXTENDS Integers, FiniteSets, Sequences, SequencesExt, FiniteSetsExt

CONSTANTS
  NumCommands, \* how many commands are run
  MaxFaults,   \* bound on faults and kills
  Profiles     \* the profile repositories, see Profile

\* A repository is named by a URL: a host, the directories of its path and its
\* last element, each a sequence of characters.  ignore says what its
\* .wksctlignore is: there is none, it lists files of the profile ("lists"),
\* a file the profile does not have ("missing"), or nothing but comments.
Chars == {".", "g", "i", "t", "a", "b", "o"}
Profile ==
  [valid : BOOLEAN, \* does it have a scheme and a host?
   host : {"h"}, dirs : Seq(Seq(Chars)), name : Seq(Chars),
   ignore : {"none", "lists", "missing", "comments"}]

ASSUME ProfileGitAssumption ==
  /\ NumCommands \in Nat
  /\ MaxFaults \in Nat
  /\ Profiles \subseteq Profile /\ Profiles # {}

VARIABLES
  head, index, remote, \* trees: sets of files, see File
  cmd,      \* the command that runs or ran last
  pc,       \* its stage
  faulted,  \* the stages in which it met a fault
  start,    \* the trees it started from
  commands, \* how many commands have begun
  faults

vars == <<head, index, remote, cmd, pc, faulted, start, commands, faults>>
trees == <<head, index, remote>>
bookkeeping == <<cmd, start, commands>>

--------------------------------------------------------------------------------
\* HostAndRepoPath: strings.TrimRight removes every trailing character that is
\* in the set ".git", not the suffix ".git".
TrimRight(s, cutset) ==
  SubSeq(s, 1, Max({i \in DOMAIN s : s[i] \notin cutset} \union {0}))

RepoName(p) == TrimRight(p.name, {".", "g", "i", "t"})

\* path.Join of the profile directory, the host and the path; an element that
\* is empty is left out.
ProfilePathOfDirs(p) == <<"profiles", p.host>> \o p.dirs
ProfilePath(p) ==
  <<"profiles", p.host>> \o p.dirs \o
    (IF RepoName(p) = <<>> THEN <<>> ELSE <<RepoName(p)>>)

\* A file, the directory it is in, and whose it is.
File(dir, name, of) == [dir |-> dir, name |-> name, of |-> of]
HelmFile == File(<<"base", "addons", "flux-helm-op">>, "helm", "wksctl")
UserFile == File(<<>>, "work", "user")

IgnoreFile == ".wksctlignore"
Listed == {"drop", "junk"} \* what .wksctlignore lists
FilesOf(p) ==
  {File(ProfilePath(p), n, p) :
     n \in {"keep"} \union Listed \union (IF p.ignore = "none" THEN {} ELSE {IgnoreFile})}

Under(path, tree) == {f \in tree : IsPrefix(path, f.dir)}

\* removePathsFromGit: what "git rm -r --" removes; it fails when it is given
\* no path, or one that matches no file.
Ignored(p) ==
  IF p.ignore = "lists" THEN {f \in index : f.dir = ProfilePath(p) /\ f.name \in Listed}
                        ELSE {}

--------------------------------------------------------------------------------
Commands ==
  [kind : {"enable"}, profile : Profiles, push : BOOLEAN, helm : BOOLEAN]
    \union [kind : {"disable"}, profile : Profiles, push : BOOLEAN]

Ends == {"ok", "error", "killed"}
Running == pc \notin Ends \union {"idle"}

Init ==
  /\ head = {} /\ index = {} /\ remote = {}
  /\ cmd = CHOOSE c \in Commands : TRUE
  /\ pc = "idle"
  /\ faulted = {}
  /\ start = [head |-> {}, index |-> {}]
  /\ commands = 0
  /\ faults = 0

Begin(c) ==
  /\ ~Running /\ commands < NumCommands
  /\ commands' = commands + 1
  /\ cmd' = c
  /\ pc' = IF c.kind = "disable" THEN "disable-url"
           ELSE IF c.helm THEN "helm-build" ELSE "enable-url"
  /\ faulted' = {}
  /\ start' = [head |-> head, index |-> index]
  /\ UNCHANGED <<trees, faults>>

\* The user stages a change of his own, or commits what is staged.
UserStages ==
  /\ ~Running
  /\ UserFile \notin index
  /\ index' = index \union {UserFile}
  /\ UNCHANGED <<head, remote, bookkeeping, pc, faulted, faults>>

UserCommits ==
  /\ ~Running
  /\ index # head
  /\ head' = index
  /\ UNCHANGED <<index, remote, bookkeeping, pc, faulted, faults>>

NoFault == UNCHANGED <<faulted, faults>>
Goto(from, to) == pc = from /\ pc' = to
Refuse(from) == Goto(from, "error") /\ NoFault /\ UNCHANGED <<trees, bookkeeping>>

\* HasNoStagedChanges: "git diff --quiet --staged".
Staged == index # head

\* "git add -A" of the addon's directory, not of all that is not tracked.
HelmStagedEverything == {HelmFile, File(<<>>, "untracked", "user")}
HelmStaged == {HelmFile}

\* addon.Build writes the files, AddAll stages them.
BuildHelm ==
  /\ Goto("helm-build", "helm-add")
  /\ NoFault
  /\ UNCHANGED <<trees, bookkeeping>>

AddHelm ==
  /\ Goto("helm-add", "helm-check")
  /\ index' = index \union HelmStaged
  /\ NoFault
  /\ UNCHANGED <<head, remote, bookkeeping>>

\* Commit only if something is staged; then check the URL.
AlwaysCommitHelm == "helm-commit"
AfterCheck == IF Staged THEN "helm-commit" ELSE "enable-url"
CheckHelm ==
  /\ Goto("helm-check", AfterCheck)
  /\ NoFault
  /\ UNCHANGED <<trees, bookkeeping>>

\* "git commit -m" commits all that is staged, and fails if nothing is.
Commit(from, to) ==
  /\ Goto(from, to)
  /\ Staged
  /\ head' = index
  /\ NoFault
  /\ UNCHANGED <<index, remote, bookkeeping>>
CommitNothing(from) == ~Staged /\ Refuse(from)

AfterPushFlag == IF cmd.push THEN "push" ELSE "ok"

CheckURL ==
  /\ \/ Goto("enable-url", "subtree")
     \/ Goto("disable-url", "stat")
  /\ cmd.profile.valid
  /\ NoFault
  /\ UNCHANGED <<trees, bookkeeping>>

BadURL ==
  /\ \E s \in {"enable-url", "disable-url"} : Refuse(s)
  /\ ~cmd.profile.valid

\* "git subtree add --squash --prefix" refuses a prefix that exists and a clone
\* with changes that are not committed; it commits.
SubtreeOK == Under(ProfilePath(cmd.profile), index) = {} /\ ~Staged
AfterSubtreePushFirst == AfterPushFlag
AfterSubtree == "ignore"
SubtreeAdd ==
  /\ Goto("subtree", AfterSubtree)
  /\ SubtreeOK
  /\ head' = head \union FilesOf(cmd.profile)
  /\ index' = index \union FilesOf(cmd.profile)
  /\ NoFault
  /\ UNCHANGED <<remote, bookkeeping>>

SubtreeRefused == ~SubtreeOK /\ Refuse("subtree")

\* doIgnoreFiles looks for the file, reads it and removes what it lists.
HasIgnoreFile == cmd.profile.ignore # "none"
NoIgnoreFile ==
  /\ Goto("ignore", AfterPushFlag)
  /\ ~HasIgnoreFile
  /\ NoFault
  /\ UNCHANGED <<trees, bookkeeping>>

RemoveIgnored ==
  /\ Goto("ignore", "ignore-commit")
  /\ HasIgnoreFile /\ Ignored(cmd.profile) # {}
  /\ index' = index \ Ignored(cmd.profile)
  /\ NoFault
  /\ UNCHANGED <<head, remote, bookkeeping>>

NothingToIgnore ==
  /\ HasIgnoreFile /\ Ignored(cmd.profile) = {}
  /\ Refuse("ignore")

\* disable: the profile's directory must exist and nothing be staged.
StatOK == Under(ProfilePath(cmd.profile), index) # {}
Stat ==
  /\ Goto("stat", "check")
  /\ StatOK
  /\ NoFault
  /\ UNCHANGED <<trees, bookkeeping>>

NoSuchProfile == ~StatOK /\ Refuse("stat")

RefuseIfStagedNever == FALSE
RefuseIfStaged == Staged
CheckDisable ==
  /\ Goto("check", "rm")
  /\ ~RefuseIfStaged
  /\ NoFault
  /\ UNCHANGED <<trees, bookkeeping>>

StagedChanges == RefuseIfStaged /\ Refuse("check")

RemoveProfile ==
  /\ Goto("rm", "disable-commit")
  /\ index' = index \ Under(ProfilePath(cmd.profile), index)
  /\ NoFault
  /\ UNCHANGED <<head, remote, bookkeeping>>

\* "git push origin HEAD" pushes every commit that is not pushed yet.
Push ==
  /\ Goto("push", "ok")
  /\ remote' = head
  /\ NoFault
  /\ UNCHANGED <<head, index, bookkeeping>>

Fault ==
  /\ faults < MaxFaults
  /\ faults' = faults + 1
  /\ faulted' = faulted \union {pc}

\* "git diff" fails for a reason of its own: the code takes it for changes.
CheckHelmFails ==
  /\ Goto("helm-check", "helm-commit")
  /\ Fault
  /\ UNCHANGED <<trees, bookkeeping>>

\* os.Stat reports another error than that there is no .wksctlignore: the code
\* takes it for that.
IgnoreFileUnseen ==
  /\ Goto("ignore", AfterPushFlag)
  /\ Fault
  /\ UNCHANGED <<trees, bookkeeping>>

\* Reading .wksctlignore ends early, and nobody asks scanner.Err why: what was
\* read is removed.  (If nothing was, "git rm" fails.)
RemoveSomeIgnored ==
  /\ Goto("ignore", "ignore-commit")
  /\ \E read \in SUBSET Ignored(cmd.profile) \ {{}, Ignored(cmd.profile)} :
       index' = index \ read
  /\ Fault
  /\ UNCHANGED <<head, remote, bookkeeping>>

\* An invocation reports an error; what it was to do may have been done.
InvocationFails ==
  /\ Running /\ pc # "helm-check"
  /\ pc' = "error"
  /\ Fault
  /\ \/ UNCHANGED trees
     \/ /\ pc = "helm-add" /\ index' = index \union HelmStaged
        /\ UNCHANGED <<head, remote>>
     \/ /\ pc \in {"helm-commit", "ignore-commit", "disable-commit"} /\ head' = index
        /\ UNCHANGED <<index, remote>>
     \/ /\ pc = "subtree" /\ SubtreeOK
        /\ head' = head \union FilesOf(cmd.profile)
        /\ index' = index \union FilesOf(cmd.profile)
        /\ UNCHANGED remote
     \/ /\ pc = "ignore" /\ HasIgnoreFile
        /\ index' = index \ Ignored(cmd.profile)
        /\ UNCHANGED <<head, remote>>
     \/ /\ pc = "rm"
        /\ index' = index \ Under(ProfilePath(cmd.profile), index)
        /\ UNCHANGED <<head, remote>>
     \/ /\ pc = "push" /\ remote' = head
        /\ UNCHANGED <<head, index>>
  /\ UNCHANGED bookkeeping

Kill ==
  /\ Running /\ pc' = "killed"
  /\ Fault
  /\ UNCHANGED <<trees, bookkeeping>>

Finished ==
  /\ ~Running /\ commands = NumCommands
  /\ UNCHANGED vars

Next ==
  \/ \E c \in Commands : Begin(c)
  \/ UserStages \/ UserCommits
  \/ BuildHelm \/ AddHelm \/ CheckHelm
  \/ Commit("helm-commit", "enable-url") \/ CommitNothing("helm-commit")
  \/ CheckURL \/ BadURL
  \/ SubtreeAdd \/ SubtreeRefused
  \/ NoIgnoreFile \/ RemoveIgnored \/ NothingToIgnore
  \/ Commit("ignore-commit", AfterPushFlag)
  \/ Stat \/ NoSuchProfile
  \/ CheckDisable \/ StagedChanges
  \/ RemoveProfile
  \/ Commit("disable-commit", AfterPushFlag)
  \/ Push
  \/ CheckHelmFails \/ IgnoreFileUnseen \/ RemoveSomeIgnored
  \/ InvocationFails \/ Kill
  \/ Finished

Spec == Init /\ [][Next]_vars

--------------------------------------------------------------------------------
\* Properties.

AllFiles == (UNION {FilesOf(p) : p \in Profiles}) \union {HelmFile, UserFile}

Stages ==
  {"helm-build", "helm-add", "helm-check", "helm-commit", "enable-url", "subtree",
   "ignore", "ignore-commit", "push", "disable-url", "stat", "check", "rm",
   "disable-commit"}

\* Every variable has its type.
TypeOK ==
  /\ head \subseteq AllFiles /\ index \subseteq AllFiles /\ remote \subseteq AllFiles
  /\ cmd \in Commands
  /\ pc \in Ends \union {"idle"} \union Stages
  /\ faulted \subseteq Stages
  /\ commands \in 0 .. NumCommands /\ faults \in 0 .. MaxFaults

\* A command that reports success did all of its work: the profile is committed
\* or is gone, nothing is left staged, and unless told not to the command pushed
\* it all, the commits that earlier commands made and could not push included.
\* The files a profile ignores are not in it, unless the command could not look
\* for .wksctlignore or read it to its end, which it does not report.
CommandsDeliver ==
  [][(pc' = "ok" /\ pc # "ok") =>
       /\ index' = head'
       /\ cmd.push => remote' = head'
       /\ cmd.kind = "enable" =>
            /\ File(ProfilePath(cmd.profile), "keep", cmd.profile) \in head'
            /\ cmd.profile.ignore = "lists" /\ "ignore" \notin faulted' =>
                 \A n \in Listed :
                   File(ProfilePath(cmd.profile), n, cmd.profile) \notin head'
       /\ cmd.kind = "disable" => Under(ProfilePath(cmd.profile), head') = {}]_vars

\* Whatever commands came before, and wherever they failed: if nothing was
\* staged, enabling a profile that is not there succeeds without a fault, also
\* after the Helm operator is installed, and so does disabling one that is there.
\* Only a profile whose .wksctlignore names none of its files, or nothing, cannot
\* be enabled: "git rm" has nothing to remove and fails.
GoodCommandSucceeds ==
  LET path == ProfilePath(cmd.profile)
      present == Under(path, start.index) # {}
      ignoresNothing == cmd.kind = "enable" /\ cmd.profile.ignore \in {"missing", "comments"}
  IN  /\ pc \in {"ok", "error"} /\ faulted = {}
      /\ start.index = start.head /\ cmd.profile.valid
      /\ cmd.kind = "enable" <=> ~present
      => (pc = "error" <=> ignoresNothing)

\* What the user has staged is not committed under a message about profiles:
\* only the commit of the Helm operator takes it along.
UserWorkOnlyInHelmCommit ==
  [][(Running /\ UserFile \in head' \ head) => pc = "helm-commit"]_vars

\* Disabling a profile removes files of that profile only.
OnlyItsOwnFiles ==
  [][pc = "rm" => \A f \in index \ index' : f.of = cmd.profile]_vars
================================================================================
