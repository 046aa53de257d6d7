--------------------------- MODULE ProfileGit_proofs ---------------------------
(***************************************************************************)
(* Theorems about ProfileGit, for every set of profile repositories and    *)
(* every number of commands and faults.                                    *)
(***************************************************************************)
EXTENDS ProfileGit, SequenceTheorems, TLAPS

Path == ProfilePath(cmd.profile)
Keep(p) == File(ProfilePath(p), "keep", p)
Dropped(p) == {File(ProfilePath(p), n, p) : n \in Listed}

--------------------------------------------------------------------------------
\* Files and directories.

\* The path of a profile begins with the profile directory, and is a prefix of
\* itself.
LEMMA PathProperties ==
  ASSUME NEW p \in Profiles
  PROVE  /\ Len(ProfilePath(p)) \in Nat /\ Len(ProfilePath(p)) >= 2
         /\ ProfilePath(p)[1] = "profiles"
         /\ IsPrefix(ProfilePath(p), ProfilePath(p))
<1> DEFINE S == {"profiles", p.host, RepoName(p)} \union Seq(Chars)
           begin == <<"profiles", p.host>>
           end == IF RepoName(p) = <<>> THEN <<>> ELSE <<RepoName(p)>>
<1>1. p.dirs \in Seq(Seq(Chars))
  BY ProfileGitAssumption DEF Profile
<1>2. p.dirs \in Seq(S)
  BY <1>1, SeqMonotonic
<1>3. begin \in Seq(S) /\ Len(begin) = 2 /\ begin[1] = "profiles"
  <2>1. "profiles" \in S /\ p.host \in S
    OBVIOUS
  <2> HIDE DEF S
  <2>2. QED
    BY <2>1
<1>4. end \in Seq(S) /\ Len(end) \in Nat
  <2>1. RepoName(p) \in S
    OBVIOUS
  <2> HIDE DEF S
  <2>2. QED
    BY <2>1
<1> HIDE DEF S, begin, end
<1>5. /\ begin \o p.dirs \in Seq(S) /\ Len(begin \o p.dirs) = 2 + Len(p.dirs)
      /\ (begin \o p.dirs)[1] = "profiles" /\ Len(p.dirs) \in Nat
  <2>1. Len(p.dirs) \in Nat /\ 1 \in 1 .. Len(begin) + Len(p.dirs) /\ 1 <= Len(begin)
    BY <1>2, <1>3, LenProperties
  <2>2. /\ begin \o p.dirs \in Seq(S) /\ Len(begin \o p.dirs) = Len(begin) + Len(p.dirs)
        /\ (begin \o p.dirs)[1] = begin[1]
    BY <1>2, <1>3, <2>1, ConcatProperties
  <2>3. QED
    BY <1>3, <2>1, <2>2
<1>6. /\ begin \o p.dirs \o end \in Seq(S)
      /\ Len(begin \o p.dirs \o end) = 2 + Len(p.dirs) + Len(end)
      /\ (begin \o p.dirs \o end)[1] = "profiles"
  <2> DEFINE front == begin \o p.dirs
  <2>1. /\ front \in Seq(S) /\ Len(front) = 2 + Len(p.dirs)
        /\ front[1] = "profiles" /\ Len(p.dirs) \in Nat
    BY <1>5
  <2> HIDE DEF front
  <2>2. 1 \in 1 .. Len(front) + Len(end) /\ 1 <= Len(front)
    BY <1>4, <2>1
  <2>3. /\ front \o end \in Seq(S) /\ Len(front \o end) = Len(front) + Len(end)
        /\ (front \o end)[1] = front[1]
    BY <1>4, <2>1, <2>2, ConcatProperties
  <2>4. QED
    BY <2>1, <2>3 DEF front
<1>7. ProfilePath(p) = begin \o p.dirs \o end
  BY Zenon DEF ProfilePath, begin, end
<1>8. Len(ProfilePath(p)) \in Nat /\ Len(ProfilePath(p)) >= 2 /\ ProfilePath(p)[1] = "profiles"
  BY <1>4, <1>5, <1>6, <1>7
<1>9. IsPrefix(ProfilePath(p), ProfilePath(p))
  BY <1>8 DEF IsPrefix
<1>10. QED
  BY <1>8, <1>9

\* Neither the Helm operator's file nor the user's is in a profile's directory.
LEMMA OtherFiles ==
  ASSUME NEW p \in Profiles
  PROVE  /\ ~IsPrefix(ProfilePath(p), HelmFile.dir) /\ ~IsPrefix(ProfilePath(p), UserFile.dir)
         /\ HelmFile \notin FilesOf(p) /\ UserFile \notin FilesOf(p) /\ HelmFile # UserFile
<1>1. HelmFile.dir = <<"base", "addons", "flux-helm-op">> /\ UserFile.dir = <<>>
      /\ HelmFile.name = "helm" /\ UserFile.name = "work"
  BY DEF HelmFile, UserFile, File
<1>2. ~IsPrefix(ProfilePath(p), UserFile.dir)
  BY <1>1, PathProperties DEF IsPrefix
<1>3. ~IsPrefix(ProfilePath(p), HelmFile.dir)
  <2> SUFFICES ASSUME IsPrefix(ProfilePath(p), HelmFile.dir) PROVE FALSE
    OBVIOUS
  <2> DEFINE l == Len(ProfilePath(p))
             s == ProfilePath(p)
             t == <<"base", "addons", "flux-helm-op">>
  <2>1. SubSeq(s, 1, l) = SubSeq(t, 1, l) /\ l \in Nat /\ l >= 2 /\ s[1] = "profiles"
    BY <1>1, PathProperties DEF IsPrefix
  <2>2. SubSeq(s, 1, l)[1] = s[1] /\ SubSeq(t, 1, l)[1] = t[1]
    BY <2>1
  <2>3. QED
    BY <2>1, <2>2
<1>4. HelmFile \notin FilesOf(p) /\ UserFile \notin FilesOf(p) /\ HelmFile # UserFile
  <2>1. \A f \in FilesOf(p) : f.name \in {"keep", IgnoreFile} \union Listed
    BY DEF FilesOf, File
  <2>2. "helm" \notin {"keep", IgnoreFile} \union Listed
        /\ "work" \notin {"keep", IgnoreFile} \union Listed
    BY DEF IgnoreFile, Listed
  <2>3. QED
    BY <1>1, <2>1, <2>2
<1>5. QED
  BY <1>2, <1>3, <1>4

\* What is below the directory of a profile is neither the user's nor helm's.
LEMMA UnderProperties ==
  ASSUME NEW p \in Profiles, NEW tree
  PROVE  /\ HelmFile \notin Under(ProfilePath(p), tree)
         /\ UserFile \notin Under(ProfilePath(p), tree)
         /\ FilesOf(p) \intersect tree \subseteq Under(ProfilePath(p), tree)
         /\ Under(ProfilePath(p), tree) \subseteq tree
<1>1. HelmFile \notin Under(ProfilePath(p), tree) /\ UserFile \notin Under(ProfilePath(p), tree)
  BY OtherFiles DEF Under
<1>2. \A f \in FilesOf(p) : f.dir = ProfilePath(p)
  BY DEF FilesOf, File
<1>3. QED
  BY <1>1, <1>2, PathProperties DEF Under

\* The files that a profile has are files with its path.
LEMMA ProfileFiles ==
  ASSUME NEW p \in Profiles
  PROVE  /\ FilesOf(p) \subseteq AllFiles
         /\ Keep(p) \in FilesOf(p) /\ Dropped(p) \subseteq FilesOf(p) /\ Dropped(p) # {}
         /\ Keep(p).name \notin Listed
         /\ \A f \in Dropped(p) : f.name \in Listed /\ f.dir = ProfilePath(p)
         /\ \A f \in FilesOf(p) : f.of = p
<1>1. FilesOf(p) \subseteq AllFiles
  BY DEF AllFiles
<1>2. \A f \in FilesOf(p) : f.of = p
  BY DEF FilesOf, File
<1>3. /\ Keep(p).name \notin Listed /\ Dropped(p) # {}
      /\ \A f \in Dropped(p) : f.name \in Listed /\ f.dir = ProfilePath(p)
  <2>1. Keep(p).name = "keep" /\ "keep" \notin Listed /\ "drop" \in Listed
    BY DEF Keep, File, Listed
  <2>2. \A n \in Listed : File(ProfilePath(p), n, p).name = n
                          /\ File(ProfilePath(p), n, p).dir = ProfilePath(p)
    BY DEF File
  <2>3. QED
    BY <2>1, <2>2 DEF Dropped
<1>4. Keep(p) \in FilesOf(p) /\ Dropped(p) \subseteq FilesOf(p)
  BY DEF Keep, Dropped, FilesOf
<1>5. QED
  BY <1>1, <1>2, <1>3, <1>4

\* What the fields of a command are.
LEMMA CommandType ==
  ASSUME NEW c \in Commands
  PROVE  c.kind \in {"enable", "disable"} /\ c.profile \in Profiles /\ c.push \in BOOLEAN
BY DEF Commands

--------------------------------------------------------------------------------
\* Types.  An invocation, with a fault or without, leaves files that exist.
LEMMA TreesStep ==
  ASSUME TypeOK, [Next]_vars
  PROVE  head' \subseteq AllFiles /\ index' \subseteq AllFiles /\ remote' \subseteq AllFiles
<1>1. /\ head \subseteq AllFiles /\ index \subseteq AllFiles /\ remote \subseteq AllFiles
      /\ FilesOf(cmd.profile) \subseteq AllFiles
      /\ HelmStaged \subseteq AllFiles /\ UserFile \in AllFiles
  <2>1. cmd.profile \in Profiles
    BY CommandType DEF TypeOK
  <2>2. HelmStaged \subseteq AllFiles /\ UserFile \in AllFiles
    <3>1. HelmFile \in AllFiles /\ UserFile \in AllFiles
      <4> DEFINE A == UNION {FilesOf(p) : p \in Profiles}
      <4>1. AllFiles = A \union {HelmFile, UserFile}
        BY Zenon DEF AllFiles
      <4> HIDE DEF A
      <4>2. QED
        BY <4>1
    <3>2. QED
      BY <3>1 DEF HelmStaged
  <2>3. QED
    BY <2>1, <2>2, ProfileFiles DEF TypeOK
<1>2. \/ UNCHANGED trees
      \/ index' = index \union {UserFile} /\ UNCHANGED <<head, remote>>
      \/ index' = index \union HelmStaged /\ UNCHANGED <<head, remote>>
      \/ head' = index /\ UNCHANGED <<index, remote>>
      \/ /\ head' = head \union FilesOf(cmd.profile)
         /\ index' = index \union FilesOf(cmd.profile) /\ UNCHANGED remote
      \/ index' \subseteq index /\ UNCHANGED <<head, remote>>
      \/ remote' = head /\ UNCHANGED <<head, index>>
  BY DEF Next, vars, trees, bookkeeping, Begin, UserStages, UserCommits, BuildHelm, AddHelm,
         CheckHelm, Commit, CommitNothing, CheckURL, BadURL, SubtreeAdd, SubtreeRefused,
         NoIgnoreFile, RemoveIgnored, NothingToIgnore, Stat, NoSuchProfile, CheckDisable,
         StagedChanges, RemoveProfile, Push, CheckHelmFails, IgnoreFileUnseen,
         RemoveSomeIgnored, InvocationFails, Kill, Finished,
         Refuse
<1>3. QED
  BY <1>1, <1>2 DEF trees

\* Every step keeps the types.
LEMMA TypeStep ==
  ASSUME TypeOK, [Next]_vars
  PROVE  TypeOK'
<1>1. \/ UNCHANGED <<cmd, commands>>
      \/ \E c \in Commands : Begin(c)
  BY DEF Next, vars, trees, bookkeeping, NoFault, Fault, Begin, UserStages, UserCommits,
         BuildHelm, AddHelm, CheckHelm, Commit, CommitNothing, CheckURL, BadURL, SubtreeAdd,
         SubtreeRefused, NoIgnoreFile, RemoveIgnored, NothingToIgnore, Stat, NoSuchProfile,
         CheckDisable, StagedChanges, RemoveProfile, Push, CheckHelmFails, IgnoreFileUnseen,
         RemoveSomeIgnored, InvocationFails,
         Kill, Finished, Refuse
<1>3. \/ UNCHANGED <<faulted, faults>>
      \/ \E c \in Commands : Begin(c)
      \/ Fault /\ pc \in Stages
  BY DEF TypeOK, Stages, Running, Ends, Goto, Next, vars, trees, bookkeeping, NoFault, Fault,
         Begin, UserStages, UserCommits,
         BuildHelm, AddHelm, CheckHelm, Commit, CommitNothing, CheckURL, BadURL, SubtreeAdd,
         SubtreeRefused, NoIgnoreFile, RemoveIgnored, NothingToIgnore, Stat, NoSuchProfile,
         CheckDisable, StagedChanges, RemoveProfile, Push, CheckHelmFails, IgnoreFileUnseen,
         RemoveSomeIgnored, InvocationFails,
         Kill, Finished, Refuse
<1>2. pc' \in Ends \union {"idle"} \union Stages
  BY DEF TypeOK, Ends, Stages, Next, vars, Goto, Begin, UserStages, UserCommits,
         BuildHelm, AddHelm, CheckHelm, AfterCheck, Commit, CommitNothing, CheckURL, BadURL,
         SubtreeAdd, AfterSubtree, SubtreeRefused, NoIgnoreFile, AfterPushFlag, RemoveIgnored,
         NothingToIgnore, Stat, NoSuchProfile, CheckDisable, StagedChanges, RemoveProfile, Push,
         CheckHelmFails, IgnoreFileUnseen, RemoveSomeIgnored, InvocationFails, Kill, Finished,
         Refuse
<1>4. /\ commands \in 0 .. NumCommands /\ faults \in 0 .. MaxFaults
      /\ cmd \in Commands /\ faulted \subseteq Stages
  BY DEF TypeOK
<1>5. commands' \in 0 .. NumCommands /\ cmd' \in Commands
  BY <1>1, <1>4, ProfileGitAssumption DEF Begin
<1>6. faults' \in 0 .. MaxFaults /\ faulted' \subseteq Stages
  <2>1. CASE UNCHANGED <<faulted, faults>>
    BY <1>4, <2>1
  <2>2. CASE \E c \in Commands : Begin(c)
    BY <1>4, <2>2 DEF Begin
  <2>3. CASE Fault /\ pc \in Stages
    BY <1>4, <2>3, ProfileGitAssumption DEF Fault
  <2>4. QED
    BY <1>3, <2>1, <2>2, <2>3
<1>7. QED
  BY <1>2, <1>5, <1>6, TreesStep DEF TypeOK

\* They hold at first.
LEMMA InitType == Init => TypeOK
<1>1. (CHOOSE c \in Commands : TRUE) \in Commands
  <2>1. PICK p \in Profiles : TRUE
    BY ProfileGitAssumption
  <2>2. [kind |-> "disable", profile |-> p, push |-> TRUE] \in Commands
    BY DEF Commands
  <2>3. QED
    BY <2>2, Zenon
<1>2. QED
  <2>1. 0 \in 0 .. NumCommands /\ 0 \in 0 .. MaxFaults
    BY ProfileGitAssumption
  <2>2. QED
    BY <1>1, <2>1, Zenon DEF Init, TypeOK

\* Every variable of ProfileGit keeps its type: whatever fails, the trees hold
\* nothing but files of the profiles, the Helm operator's and the user's.
THEOREM TypeCorrect == Spec => []TypeOK
BY InitType, TypeStep, PTL DEF Spec

--------------------------------------------------------------------------------
(***************************************************************************)
(* The user's work.  Once a command has looked whether something is        *)
(* staged, the next commit takes nothing of the user's along.              *)
(***************************************************************************)
Checked == {"rm", "disable-commit", "ignore", "ignore-commit"}
UserInv == pc \in Checked /\ UserFile \in index => UserFile \in head

\* What no step of a command does to the user's file.
LEMMA UserNotRemoved ==
  ASSUME TypeOK
  PROVE  UserFile \notin FilesOf(cmd.profile) /\ UserFile \notin HelmStaged
BY CommandType, OtherFiles DEF TypeOK, HelmStaged

\* Every step keeps UserInv.
LEMMA UserStep ==
  ASSUME TypeOK, UserInv, [Next]_vars
  PROVE  UserInv' /\ (Running /\ UserFile \in head' \ head => pc = "helm-commit")
<1> USE UserNotRemoved DEF UserInv, Checked, Goto, trees
<1>1. CASE \/ (\E c \in Commands : Begin(c)) \/ UserStages \/ UserCommits \/ Finished
           \/ UNCHANGED vars
  BY <1>1 DEF Begin, UserStages, UserCommits, Finished, vars, Running, Ends
<1>2. CASE BuildHelm \/ AddHelm \/ CheckHelm \/ CheckHelmFails
  BY <1>2 DEF BuildHelm, AddHelm, CheckHelm, CheckHelmFails, AfterCheck
<1>3. CASE Commit("helm-commit", "enable-url")
  BY <1>3 DEF Commit
<1>4. CASE Commit("ignore-commit", AfterPushFlag) \/ Commit("disable-commit", AfterPushFlag)
  BY <1>4 DEF Commit, AfterPushFlag
<1>5. CASE \/ CommitNothing("helm-commit") \/ BadURL \/ SubtreeRefused \/ NothingToIgnore
           \/ NoSuchProfile \/ StagedChanges \/ Kill
  BY <1>5 DEF CommitNothing, BadURL, SubtreeRefused, NothingToIgnore, NoSuchProfile,
              StagedChanges, Refuse, Kill
<1>6. CASE CheckURL \/ Stat \/ NoIgnoreFile \/ IgnoreFileUnseen \/ Push
  BY <1>6 DEF CheckURL, Stat, NoIgnoreFile, IgnoreFileUnseen, AfterPushFlag, Push
<1>7. CASE SubtreeAdd
  BY <1>7 DEF SubtreeAdd, AfterSubtree, SubtreeOK, Staged
<1>8. CASE RemoveIgnored \/ RemoveSomeIgnored \/ RemoveProfile
  BY <1>8 DEF RemoveIgnored, RemoveSomeIgnored, RemoveProfile
<1>9. CASE CheckDisable
  BY <1>9 DEF CheckDisable, RefuseIfStaged, Staged
<1>10. CASE InvocationFails
  BY <1>10 DEF InvocationFails
<1>11. QED
  BY <1>1, <1>2, <1>3, <1>4, <1>5, <1>6, <1>7, <1>8, <1>9, <1>10 DEF Next

\* What the user has staged is committed by no commit but the one that enables
\* the Helm operator, wherever commands fail or are killed: "git commit" takes
\* all that is staged, and only that commit is made without a look at it.
THEOREM UserWorkOnlyEverInHelmCommit == Spec => UserWorkOnlyInHelmCommit
<1>1. Init => UserInv
  BY DEF Init, UserInv
<1>2. TypeOK /\ UserInv /\ [Next]_vars => UserInv'
  BY UserStep
<1>3. TypeOK /\ UserInv /\ [Next]_vars
        => [(Running /\ UserFile \in head' \ head) => pc = "helm-commit"]_vars
  BY UserStep
<1>4. QED
  BY <1>1, <1>2, <1>3, TypeCorrect, PTL DEF Spec, UserWorkOnlyInHelmCommit

--------------------------------------------------------------------------------
(***************************************************************************)
(* Success.                                                                *)
(***************************************************************************)
EnableStages == {"helm-build", "helm-add", "helm-check", "helm-commit", "enable-url",
                 "subtree", "ignore", "ignore-commit"}
DisableStages == {"disable-url", "stat", "check", "rm", "disable-commit"}

\* What the command is to do to the tree it commits.
Delivered(tree) ==
  /\ cmd.kind = "enable" =>
       /\ Keep(cmd.profile) \in tree
       /\ cmd.profile.ignore = "lists" /\ "ignore" \notin faulted =>
            Dropped(cmd.profile) \intersect tree = {}
  /\ cmd.kind = "disable" => Under(Path, tree) = {}

DeliverInv ==
  /\ pc \in EnableStages => cmd.kind = "enable"
  /\ pc \in DisableStages => cmd.kind = "disable"
  /\ pc = "ignore" => head = index /\ Keep(cmd.profile) \in index
  /\ pc \in {"ignore-commit", "disable-commit"} => Delivered(index)
  /\ pc = "push" => head = index /\ Delivered(head) /\ cmd.push

\* The files that .wksctlignore lists are no longer staged.
LEMMA IgnoredGone ==
  ASSUME TypeOK, cmd.kind = "enable", Keep(cmd.profile) \in index, UNCHANGED cmd,
         \/ index' = index \ Ignored(cmd.profile) /\ Ignored(cmd.profile) # {}
         \/ /\ \E read \in SUBSET Ignored(cmd.profile) : index' = index \ read
            /\ "ignore" \in faulted'
  PROVE  Delivered(index)'
<1>1. cmd.profile \in Profiles
  BY CommandType DEF TypeOK
<1>2. \A f \in Ignored(cmd.profile) : f.name \in Listed
  BY DEF Ignored
<1>3. Keep(cmd.profile) \in index'
  BY <1>1, <1>2, ProfileFiles
<1>4. ASSUME "ignore" \notin faulted' PROVE Dropped(cmd.profile) \intersect index' = {}
  <2>1. Ignored(cmd.profile) =
          {f \in index : f.dir = ProfilePath(cmd.profile) /\ f.name \in Listed}
    BY <1>4 DEF Ignored
  <2>2. QED
    BY <1>1, <1>4, <2>1, ProfileFiles
<1>5. QED
  BY <1>3, <1>4 DEF Delivered

\* Every step keeps DeliverInv.
LEMMA DeliverStep ==
  ASSUME TypeOK, DeliverInv, [Next]_vars
  PROVE  /\ DeliverInv'
         /\ pc' = "ok" /\ pc # "ok" =>
              index' = head' /\ (cmd.push => remote' = head') /\ Delivered(head)' /\ cmd' = cmd
<1> USE DEF Goto, trees, bookkeeping, EnableStages, DisableStages
<1>1. CASE UserStages \/ UserCommits
  BY <1>1 DEF UserStages, UserCommits, Running, Ends, DeliverInv
<1>2. CASE Finished \/ UNCHANGED vars
  BY <1>2 DEF Finished, vars, DeliverInv, Delivered, Path
<1>3. ASSUME NEW c \in Commands, Begin(c)
      PROVE  DeliverInv' /\ pc' # "ok"
  <2>1. c.kind \in {"enable", "disable"}
    BY CommandType
  <2>2. QED
    BY <1>3, <2>1 DEF Begin, DeliverInv
<1>4. CASE BuildHelm \/ AddHelm \/ CheckHelm \/ CheckHelmFails \/ Commit("helm-commit",
"enable-url")
  BY <1>4 DEF BuildHelm, AddHelm, CheckHelm, CheckHelmFails, AfterCheck, Commit, DeliverInv
<1>5. CASE \/ CommitNothing("helm-commit") \/ BadURL \/ SubtreeRefused \/ NothingToIgnore
           \/ NoSuchProfile \/ StagedChanges \/ Kill \/ InvocationFails
  BY <1>5 DEF CommitNothing, BadURL, SubtreeRefused, NothingToIgnore, NoSuchProfile,
              StagedChanges, Refuse, Kill, InvocationFails, DeliverInv
<1>6. CASE CheckURL \/ Stat \/ CheckDisable
  BY <1>6 DEF CheckURL, Stat, CheckDisable, DeliverInv
<1>7. CASE SubtreeAdd
  <2>1. Keep(cmd.profile) \in FilesOf(cmd.profile)
    BY CommandType, ProfileFiles DEF TypeOK
  <2>2. QED
    BY <1>7, <2>1 DEF SubtreeAdd, AfterSubtree, SubtreeOK, Staged, DeliverInv
<1>8. CASE NoIgnoreFile \/ IgnoreFileUnseen
  BY <1>8 DEF NoIgnoreFile, IgnoreFileUnseen, Fault, HasIgnoreFile, AfterPushFlag, DeliverInv,
              Delivered
<1>9. CASE RemoveIgnored \/ RemoveSomeIgnored
  BY <1>9, IgnoredGone DEF RemoveIgnored, RemoveSomeIgnored, Fault, DeliverInv
<1>10. CASE RemoveProfile
  <2>1. Under(Path, index)' = {}
    BY <1>10 DEF RemoveProfile, Path, Under
  <2>2. QED
    BY <1>10, <2>1 DEF RemoveProfile, DeliverInv, Delivered
<1>11. CASE Commit("ignore-commit", AfterPushFlag) \/ Commit("disable-commit", AfterPushFlag)
  <2>1. Delivered(index) /\ head' = index /\ UNCHANGED <<index, cmd, faulted>>
        /\ pc' = AfterPushFlag
    BY <1>11 DEF Commit, NoFault, DeliverInv
  <2>2. Delivered(head)'
    BY <2>1 DEF Delivered, Path, Under
  <2>3. QED
    BY <2>1, <2>2 DEF AfterPushFlag, DeliverInv
<1>12. CASE Push
  BY <1>12 DEF Push, NoFault, DeliverInv, Delivered, Path, Under
<1>13. QED
  BY <1>1, <1>2, <1>3, <1>4, <1>5, <1>6, <1>7, <1>8, <1>9, <1>10, <1>11, <1>12 DEF Next

\* A command that reports success has committed all it was to do, but for files to
\* ignore that it could not read of, and nothing is left staged; unless told not
\* to, it has pushed every commit there was.
THEOREM CommandsAlwaysDeliver == Spec => CommandsDeliver
<1>1. Init => DeliverInv
  BY DEF Init, DeliverInv, EnableStages, DisableStages
<1>2. TypeOK /\ DeliverInv /\ [Next]_vars => DeliverInv'
  BY DeliverStep
<1>3. TypeOK /\ DeliverInv /\ [Next]_vars =>
        [(pc' = "ok" /\ pc # "ok") =>
           /\ index' = head'
           /\ cmd.push => remote' = head'
           /\ cmd.kind = "enable" =>
                /\ File(ProfilePath(cmd.profile), "keep", cmd.profile) \in head'
                /\ cmd.profile.ignore = "lists" /\ "ignore" \notin faulted' =>
                     \A n \in Listed :
                       File(ProfilePath(cmd.profile), n, cmd.profile) \notin head'
           /\ cmd.kind = "disable" => Under(ProfilePath(cmd.profile), head') = {}]_vars
  BY DeliverStep DEF Delivered, Keep, Dropped, Path
<1>4. QED
  BY <1>1, <1>2, <1>3, TypeCorrect, PTL DEF Spec, CommandsDeliver

--------------------------------------------------------------------------------
(***************************************************************************)
(* A command that can succeed does, unless it meets a fault: nothing was   *)
(* staged when it began, and enable finds no profile there, disable one.   *)
(***************************************************************************)
Clean ==
  /\ start.index = start.head /\ cmd.profile.valid
  /\ cmd.kind = "enable" => Under(Path, start.index) = {}
  /\ cmd.kind = "disable" => Under(Path, start.index) # {}

\* The profile's .wksctlignore names none of its files, or nothing.
IgnoresNothing == cmd.kind = "enable" /\ cmd.profile.ignore \in {"missing", "comments"}

Good == Clean /\ ~IgnoresNothing

\* What the trees are in each stage, of those that follow from the stages before.
GoodInv ==
  faulted = {} /\ Good =>
    /\ pc # "error"
    /\ pc \in {"helm-build", "helm-add"} => head = index /\ index = start.index
    /\ pc \in {"helm-check", "helm-commit"} => index = start.index \union {HelmFile}
    /\ pc = "helm-commit" => Staged
    /\ pc \in {"enable-url", "subtree"} =>
         head = index /\ index \subseteq start.index \union {HelmFile}
    /\ pc = "ignore" => head = index /\ FilesOf(cmd.profile) \subseteq index
    /\ pc = "ignore-commit" => Staged
    /\ pc \in {"disable-url", "stat", "check", "rm"} => head = index /\ index = start.index
    /\ pc = "disable-commit" => Staged

\* A command that is to ignore nothing gets past that step only on a fault.
NothingInv ==
  faulted = {} /\ IgnoresNothing => pc \notin {"ignore-commit", "push", "ok"}

\* A command does not look at the trees that another one started from.
LEMMA BeginGood ==
  ASSUME TypeOK, NEW c \in Commands, Begin(c)
  PROVE  GoodInv'
<1>1. /\ cmd' = c /\ UNCHANGED trees /\ start' = [head |-> head, index |-> index]
      /\ pc' \in {"helm-build", "enable-url", "disable-url"}
  BY DEF Begin
<1>2. start'.head = head /\ start'.index = index
  BY <1>1
<1>3. QED
  BY <1>1, <1>2 DEF GoodInv, Good, Clean, IgnoresNothing, trees, Staged

\* Nothing of the profile is there when "git subtree add" is to add it.
LEMMA SubtreeGood ==
  ASSUME TypeOK, DeliverInv, GoodInv, faulted = {}, Good, pc = "subtree"
  PROVE  SubtreeOK
<1>1. cmd.kind = "enable" /\ cmd.profile \in Profiles
  BY CommandType DEF TypeOK, DeliverInv, EnableStages
<1>2. head = index /\ index \subseteq start.index \union {HelmFile}
  BY DEF GoodInv
<1>3. Under(Path, start.index) = {} /\ HelmFile \notin Under(Path, index)
  BY <1>1, UnderProperties DEF Good, Clean, Path
<1>4. Under(Path, index) = {}
  BY <1>2, <1>3 DEF Under
<1>5. QED
  BY <1>2, <1>4 DEF SubtreeOK, Staged, Path

\* The file that .wksctlignore lists has been added.
LEMMA IgnoreGood ==
  ASSUME TypeOK, DeliverInv, GoodInv, faulted = {}, Good, pc = "ignore", HasIgnoreFile
  PROVE  Ignored(cmd.profile) # {} /\ Ignored(cmd.profile) \subseteq index /\ index = head
<1>1. cmd.kind = "enable" /\ cmd.profile \in Profiles
  BY CommandType DEF TypeOK, DeliverInv, EnableStages
<1>2. cmd.profile.ignore = "lists"
  <2>1. cmd.profile.ignore \in {"none", "lists", "missing", "comments"}
    BY <1>1, ProfileGitAssumption DEF Profile
  <2>2. QED
    BY <1>1, <2>1 DEF Good, IgnoresNothing, HasIgnoreFile
<1>3. Dropped(cmd.profile) \subseteq index /\ Dropped(cmd.profile) # {} /\ head = index
  BY <1>1, ProfileFiles DEF GoodInv
<1>4. QED
  BY <1>1, <1>2, <1>3, ProfileFiles DEF Ignored

\* Every step keeps GoodInv.
LEMMA GoodStep ==
  ASSUME TypeOK, DeliverInv, GoodInv, [Next]_vars
  PROVE  GoodInv'
<1> USE DEF Goto, trees, bookkeeping, NoFault
<1>1. CASE \E c \in Commands : Begin(c)
  BY <1>1, BeginGood
<1>2. CASE CheckHelmFails \/ IgnoreFileUnseen \/ RemoveSomeIgnored \/ InvocationFails \/ Kill
  BY <1>2 DEF CheckHelmFails, IgnoreFileUnseen, RemoveSomeIgnored, InvocationFails, Kill, Fault,
              GoodInv
<1>3. CASE Finished \/ UNCHANGED vars
  BY <1>3 DEF Finished, vars, GoodInv, Good, Clean, IgnoresNothing, Path, Staged
<1>4. CASE UserStages \/ UserCommits
  BY <1>4 DEF UserStages, UserCommits, Running, Ends, GoodInv, Good, Clean, IgnoresNothing,
              Path
<1>5. CASE ~((\E c \in Commands : Begin(c)) \/ CheckHelmFails \/ IgnoreFileUnseen
              \/ RemoveSomeIgnored \/ InvocationFails \/ Kill \/ Finished
              \/ UNCHANGED vars \/ UserStages \/ UserCommits)
  <2>1. \/ BuildHelm \/ AddHelm \/ CheckHelm
        \/ Commit("helm-commit", "enable-url") \/ CommitNothing("helm-commit")
        \/ CheckURL \/ BadURL \/ SubtreeAdd \/ SubtreeRefused
        \/ NoIgnoreFile \/ RemoveIgnored \/ NothingToIgnore
        \/ Commit("ignore-commit", AfterPushFlag)
        \/ Stat \/ NoSuchProfile \/ CheckDisable \/ StagedChanges \/ RemoveProfile
        \/ Commit("disable-commit", AfterPushFlag) \/ Push
    BY <1>5 DEF Next
  <2>2. UNCHANGED <<cmd, start, faulted>>
    BY <2>1 DEF BuildHelm, AddHelm, CheckHelm, Commit, CommitNothing, CheckURL, BadURL,
         SubtreeAdd, SubtreeRefused, NoIgnoreFile, RemoveIgnored, NothingToIgnore, Stat,
         NoSuchProfile, CheckDisable, StagedChanges, RemoveProfile, Push, Refuse
  <2> SUFFICES ASSUME faulted = {}, Good
               PROVE  GoodInv'
    BY <2>2 DEF GoodInv, Good, Clean, IgnoresNothing, Path
  <2>3. CASE BuildHelm \/ AddHelm
    BY <2>2, <2>3 DEF BuildHelm, AddHelm, HelmStaged, GoodInv
  <2>4. CASE CheckHelm
    BY <2>2, <2>4 DEF CheckHelm, AfterCheck, Staged, GoodInv
  <2>5. CASE Commit("helm-commit", "enable-url") \/ CommitNothing("helm-commit")
    BY <2>2, <2>5 DEF Commit, CommitNothing, Refuse, GoodInv
  <2>6. CASE CheckURL \/ BadURL
    BY <2>2, <2>6 DEF CheckURL, BadURL, Good, Clean, GoodInv
  <2>7. CASE SubtreeAdd \/ SubtreeRefused
    BY <2>2, <2>7, SubtreeGood DEF SubtreeAdd, AfterSubtree, SubtreeRefused, SubtreeOK, Staged,
                                   Refuse, GoodInv
  <2>8. CASE NoIgnoreFile \/ Push \/ Commit("ignore-commit", AfterPushFlag)
             \/ Commit("disable-commit", AfterPushFlag)
    BY <2>2, <2>8 DEF NoIgnoreFile, Push, Commit, AfterPushFlag, GoodInv
  <2>9. CASE RemoveIgnored \/ NothingToIgnore
    BY <2>2, <2>9, IgnoreGood DEF RemoveIgnored, NothingToIgnore, Refuse, GoodInv, Staged
  <2>10. CASE Stat \/ NoSuchProfile
    <3>1. pc = "stat" /\ cmd.kind = "disable"
      BY <2>10 DEF Stat, NoSuchProfile, Refuse, DeliverInv, DisableStages
    <3>2. StatOK /\ head = index /\ index = start.index
      BY <3>1 DEF StatOK, Good, Clean, GoodInv, Path
    <3>3. QED
      BY <2>2, <2>10, <3>1, <3>2 DEF Stat, NoSuchProfile, GoodInv
  <2>11. CASE CheckDisable \/ StagedChanges
    BY <2>2, <2>11 DEF CheckDisable, StagedChanges, RefuseIfStaged, Staged, Refuse, GoodInv
  <2>12. CASE RemoveProfile
    <3>1. pc = "rm" /\ cmd.kind = "disable" /\ cmd.profile \in Profiles
      BY <2>12, CommandType DEF RemoveProfile, DeliverInv, DisableStages, TypeOK
    <3>2. Under(Path, index) # {} /\ head = index
      BY <3>1 DEF Good, Clean, GoodInv
    <3>3. index' # head'
      BY <2>12, <3>1, <3>2, UnderProperties DEF RemoveProfile, Path
    <3>4. QED
      BY <2>2, <2>12, <3>3 DEF RemoveProfile, GoodInv, Staged
  <2>13. QED
    BY <2>1, <2>3, <2>4, <2>5, <2>6, <2>7, <2>8, <2>9, <2>10, <2>11, <2>12
<1>6. QED
  BY <1>1, <1>2, <1>3, <1>4, <1>5

\* Every step keeps NothingInv.
LEMMA NothingStep ==
  ASSUME TypeOK, DeliverInv, NothingInv, [Next]_vars
  PROVE  NothingInv'
<1> USE DEF Goto, bookkeeping, NoFault, NothingInv, IgnoresNothing
<1>1. CASE (\E c \in Commands : Begin(c)) \/ UserStages \/ UserCommits \/ Finished \/ UNCHANGED vars
  BY <1>1 DEF Begin, UserStages, UserCommits, Finished, vars
<1>2. CASE CheckHelmFails \/ IgnoreFileUnseen \/ RemoveSomeIgnored \/ InvocationFails \/ Kill
  BY <1>2 DEF CheckHelmFails, IgnoreFileUnseen, RemoveSomeIgnored, InvocationFails, Kill, Fault
<1>3. CASE \/ BuildHelm \/ AddHelm \/ CheckHelm \/ CommitNothing("helm-commit")
           \/ Commit("helm-commit", "enable-url") \/ CheckURL \/ BadURL \/ SubtreeAdd
           \/ SubtreeRefused \/ NothingToIgnore \/ Stat \/ NoSuchProfile \/ CheckDisable
           \/ StagedChanges \/ RemoveProfile
  BY <1>3 DEF BuildHelm, AddHelm, CheckHelm, AfterCheck, Commit, CommitNothing, CheckURL,
         BadURL,
         SubtreeAdd, AfterSubtree, SubtreeRefused, NothingToIgnore, Stat, NoSuchProfile,
         CheckDisable, StagedChanges, RemoveProfile, Refuse
<1>4. CASE NoIgnoreFile \/ RemoveIgnored
  BY <1>4 DEF NoIgnoreFile, RemoveIgnored, HasIgnoreFile, Ignored
<1>5. CASE Commit("ignore-commit", AfterPushFlag) \/ Push
  BY <1>5 DEF Commit, Push
<1>6. CASE Commit("disable-commit", AfterPushFlag)
  BY <1>6 DEF Commit, DeliverInv, DisableStages
<1>7. QED
  BY <1>1, <1>2, <1>3, <1>4, <1>5, <1>6 DEF Next

\* Whatever earlier commands have left behind, on a fault or killed: if nothing was
\* staged, a command without a fault fails exactly if it is to enable a profile
\* whose .wksctlignore names none of its files, when enable finds no profile
\* there and disable one.
THEOREM GoodCommandAlwaysSucceeds == Spec => []GoodCommandSucceeds
<1>1. Init => DeliverInv /\ GoodInv /\ NothingInv
  BY DEF Init, DeliverInv, EnableStages, DisableStages, GoodInv, NothingInv
<1>2. TypeOK /\ DeliverInv /\ GoodInv /\ NothingInv /\ [Next]_vars
        => DeliverInv' /\ GoodInv' /\ NothingInv'
  BY DeliverStep, GoodStep, NothingStep
<1>3. TypeOK /\ GoodInv /\ NothingInv => GoodCommandSucceeds
  <2>1. TypeOK => cmd.kind \in {"enable", "disable"}
    BY CommandType DEF TypeOK
  <2>2. QED
    BY <2>1 DEF GoodInv, NothingInv, Good, Clean, IgnoresNothing, GoodCommandSucceeds, Path
<1>4. QED
  BY <1>1, <1>2, <1>3, TypeCorrect, PTL DEF Spec

--------------------------------------------------------------------------------
(***************************************************************************)
(* Whose files "git rm -r" removes.                                        *)
(***************************************************************************)

\* No profile is in the directory of another.  TrimRight may break this for
\* repositories whose names differ.
PathsApart ==
  \A p, q \in Profiles : IsPrefix(ProfilePath(p), ProfilePath(q)) => p = q

\* If repositories have directories of their own, disabling a profile removes
\* files of that profile only, whatever failed before.
THEOREM OnlyEverItsOwnFiles == ASSUME PathsApart PROVE Spec => OnlyItsOwnFiles
<1>1. TypeOK /\ [Next]_vars => [pc = "rm" => \A f \in index \ index' : f.of = cmd.profile]_vars
  <2> SUFFICES ASSUME TypeOK, Next, pc = "rm", NEW f \in index \ index'
               PROVE  f.of = cmd.profile
    OBVIOUS
  <2>1. f \in Under(Path, index)
    BY DEF Next, Begin, UserStages, UserCommits, BuildHelm, AddHelm, CheckHelm, Commit,
           CommitNothing, CheckURL, BadURL, SubtreeAdd, SubtreeRefused, NoIgnoreFile,
           RemoveIgnored, NothingToIgnore, Stat, NoSuchProfile, CheckDisable, StagedChanges,
           RemoveProfile, Push, CheckHelmFails, IgnoreFileUnseen, RemoveSomeIgnored,
           InvocationFails, Kill, Finished, Refuse, Goto,
           Running, Ends, trees, vars, Path
  <2>2. cmd.profile \in Profiles /\ f \in AllFiles /\ IsPrefix(Path, f.dir)
    BY <2>1, CommandType DEF TypeOK, Under
  <2>3. f # HelmFile /\ f # UserFile
    BY <2>1, <2>2, UnderProperties DEF Path
  <2>4. PICK p \in Profiles : f \in FilesOf(p)
    BY <2>2, <2>3 DEF AllFiles
  <2>5. f.dir = ProfilePath(p) /\ f.of = p
    BY <2>4 DEF FilesOf, File
  <2>6. QED
    BY <2>2, <2>5 DEF PathsApart, Path
<1>2. QED
  BY <1>1, TypeCorrect, PTL DEF Spec, OnlyItsOwnFiles

\* The set of characters that HostAndRepoPath removes.
DotGit == {".", "g", "i", "t"}

\* TrimRight keeps a sequence up to the last character that is not to be removed.
LEMMA TrimRightKeeps ==
  ASSUME NEW S, NEW s \in Seq(S), NEW cutset, NEW n \in 1 .. Len(s), s[n] \notin cutset,
         \A i \in n + 1 .. Len(s) : s[i] \in cutset
  PROVE  TrimRight(s, cutset) = SubSeq(s, 1, n)
<1> DEFINE K == {i \in DOMAIN s : s[i] \notin cutset} \union {0}
<1>1. Len(s) \in Nat /\ DOMAIN s = 1 .. Len(s)
  BY LenProperties
<1>2. n \in K /\ \A i \in K : n >= i /\ i \in Nat
  BY <1>1
<1>3. \A m \in K : (\A i \in K : m >= i) => m = n
  BY <1>2
<1> HIDE DEF K
<1>4. Max(K) = n
  BY <1>2, <1>3 DEF Max
<1>5. QED
  BY <1>4 DEF TrimRight, K

\* The name of a repository as users give it, with ".git" or without.
GivenAs(p, base) ==
  /\ base \in Seq(Chars) /\ base # <<>> /\ base[Len(base)] \notin DotGit
  /\ p.name \in {base, base \o <<".", "g", "i", "t">>}

\* Such a name is what RepoName makes of it.
LEMMA NameKept ==
  ASSUME NEW p \in Profiles, NEW base, GivenAs(p, base)
  PROVE  RepoName(p) = base
<1> DEFINE n == Len(base)
           s == p.name
<1>1. base \in Seq(Chars) /\ n \in Nat \ {0} /\ base[n] \notin DotGit
  BY EmptySeq, LenProperties DEF GivenAs
<1>2. CASE s = base
  <2>1. s \in Seq(Chars) /\ n \in 1 .. Len(s) /\ s[n] \notin DotGit
        /\ \A i \in n + 1 .. Len(s) : s[i] \in DotGit
    BY <1>1, <1>2
  <2>2. RepoName(p) = SubSeq(base, 1, n)
    BY <1>2, <2>1, TrimRightKeeps DEF RepoName, DotGit
  <2>3. SubSeq(base, 1, n) = base
    BY <1>1
  <2>4. QED
    BY <2>2, <2>3
<1>3. CASE s = base \o <<".", "g", "i", "t">>
  <2> DEFINE end == <<".", "g", "i", "t">>
  <2>1. end \in Seq(Chars) /\ Len(end) = 4 /\ \A i \in 1 .. 4 : end[i] \in DotGit
    BY DEF Chars, DotGit
  <2> HIDE DEF end
  <2>2. /\ s \in Seq(Chars) /\ Len(s) = n + 4
        /\ \A i \in 1 .. n + 4 : s[i] = IF i <= n THEN base[i] ELSE end[i - n]
    BY <1>1, <1>3, <2>1, ConcatProperties DEF end
  <2>3. n \in 1 .. Len(s) /\ s[n] \notin DotGit
    BY <1>1, <2>2
  <2>4. \A i \in n + 1 .. Len(s) : s[i] \in DotGit
    BY <1>1, <2>1, <2>2
  <2>5. RepoName(p) = SubSeq(s, 1, n)
    BY <2>2, <2>3, <2>4, TrimRightKeeps DEF RepoName, DotGit
  <2>6. SubSeq(s, 1, n) = base
    BY <1>1, <2>2
  <2>7. QED
    BY <2>5, <2>6
<1>4. QED
  BY <1>2, <1>3 DEF GivenAs

Join(host, dirs, base) == <<"profiles", host>> \o dirs \o <<base>>

\* path, a sequence over S, has the given parts in their places.
HasParts(path, h, dirs, b, S) ==
  /\ path \in Seq(S) /\ Len(path) = Len(dirs) + 3
  /\ path[2] = h /\ path[Len(dirs) + 3] = b
  /\ \A i \in 1 .. Len(dirs) : path[i + 2] = dirs[i]

\* The parts of a joined path are in their places.
LEMMA JoinHolds ==
  ASSUME NEW S, "profiles" \in S, NEW h \in S, NEW dirs \in Seq(S), NEW b \in S
  PROVE  HasParts(Join(h, dirs, b), h, dirs, b, S)
<1> DEFINE d == Len(dirs)
           begin == <<"profiles", h>>
           end == <<b>>
           front == begin \o dirs
           path == front \o end
<1>0. d \in Nat /\ Len(dirs) = d
  BY LenProperties
<1>1. /\ begin \in Seq(S) /\ Len(begin) = 2 /\ begin[2] = h
      /\ end \in Seq(S) /\ Len(end) = 1 /\ end[1] = b
  OBVIOUS
<1>2. path = Join(h, dirs, b)
  BY Zenon DEF Join
<1> HIDE DEF begin, end, d
<1>3. /\ front \in Seq(S) /\ Len(front) = Len(begin) + Len(dirs)
      /\ \A i \in 1 .. Len(begin) + Len(dirs) :
           front[i] = IF i <= Len(begin) THEN begin[i] ELSE dirs[i - Len(begin)]
  BY <1>1, ConcatProperties, Zenon
<1> HIDE DEF front
<1>4. /\ front \in Seq(S) /\ Len(front) = d + 2
      /\ \A i \in 1 .. d + 2 : front[i] = IF i <= 2 THEN begin[i] ELSE dirs[i - 2]
  <2>1. Len(begin) = 2 /\ Len(begin) + Len(dirs) = d + 2
    BY <1>0, <1>1
  <2>2. QED
    BY <1>3, <2>1, Zenon
<1>5. /\ path \in Seq(S) /\ Len(path) = Len(front) + Len(end)
      /\ \A i \in 1 .. Len(front) + Len(end) :
           path[i] = IF i <= Len(front) THEN front[i] ELSE end[i - Len(front)]
  <2>1. front \in Seq(S) /\ end \in Seq(S)
    BY <1>1, <1>3
  <2>2. QED
    BY <2>1, ConcatProperties, Zenon
<1> HIDE DEF path
<1>6. /\ path \in Seq(S) /\ Len(path) = d + 3
      /\ \A i \in 1 .. d + 3 : path[i] = IF i <= d + 2 THEN front[i] ELSE end[i - (d + 2)]
  <2>1. Len(front) = d + 2 /\ Len(front) + Len(end) = d + 3
    BY <1>0, <1>1, <1>4
  <2>2. QED
    BY <1>5, <2>1, Zenon
<1>7. path[2] = h
  <2>1. 2 \in 1 .. d + 3 /\ 2 <= d + 2 /\ 2 \in 1 .. d + 2
    BY <1>0
  <2>2. path[2] = front[2] /\ front[2] = begin[2]
    BY <1>4, <1>6, <2>1
  <2>3. QED
    BY <1>1, <2>2
<1>8. path[d + 3] = b
  <2> SUFFICES ASSUME NEW last, last = d + 3
               PROVE  path[last] = b
    OBVIOUS
  <2>1. last \in 1 .. d + 3 /\ ~(last <= d + 2) /\ last - (d + 2) = 1
    BY <1>0
  <2>2. path[last] = end[last - (d + 2)]
    BY <1>6, <2>1, Zenon
  <2>3. QED
    BY <1>1, <2>1, <2>2, Zenon
<1>9. \A i \in 1 .. d : path[i + 2] = dirs[i]
  <2> TAKE i \in 1 .. d
  <2>1. /\ i + 2 \in 1 .. d + 3 /\ i + 2 <= d + 2 /\ i + 2 \in 1 .. d + 2
        /\ ~(i + 2 <= 2) /\ i + 2 - 2 = i
    BY <1>0
  <2>2. path[i + 2] = front[i + 2] /\ front[i + 2] = dirs[i + 2 - 2]
    BY <1>4, <1>6, <2>1
  <2>3. QED
    BY <2>1, <2>2
<1>10. QED
  <2>1. HasParts(path, h, dirs, b, S)
    BY <1>6, <1>7, <1>8, <1>9 DEF HasParts, d
  <2>2. QED
    BY <1>2, <2>1, Zenon

\* What the path of a profile holds, when its name is kept.
LEMMA PathOfGiven ==
  ASSUME NEW p \in Profiles, NEW base, GivenAs(p, base)
  PROVE  ProfilePath(p) = Join(p.host, p.dirs, base)
<1>1. RepoName(p) = base /\ base # <<>>
  BY NameKept DEF GivenAs
<1>2. QED
  BY <1>1, Zenon DEF ProfilePath, Join

\* Repositories in directories of one depth, such as those of owners on a host,
\* with names that do not end in one of the characters ".", "g", "i" and "t", have
\* profiles in directories of their own, whether or not ".git" is added.
THEOREM PlainNamesApart ==
  ASSUME NEW base,
         \A p \in Profiles : GivenAs(p, base[p]),
         \A p, q \in Profiles : Len(p.dirs) = Len(q.dirs),
         \A p, q \in Profiles :
           p.host = q.host /\ p.dirs = q.dirs /\ base[p] = base[q] => p = q
  PROVE  PathsApart
<1> SUFFICES ASSUME NEW p \in Profiles, NEW q \in Profiles,
                    IsPrefix(ProfilePath(p), ProfilePath(q))
             PROVE  p.host = q.host /\ p.dirs = q.dirs /\ base[p] = base[q]
  BY DEF PathsApart
<1> DEFINE S == {"profiles", p.host, q.host, base[p], base[q]} \union Seq(Chars)
           d == Len(p.dirs)
<1>1. p.dirs \in Seq(S) /\ q.dirs \in Seq(S) /\ d \in Nat /\ Len(q.dirs) = d
  <2>1. p.dirs \in Seq(Seq(Chars)) /\ q.dirs \in Seq(Seq(Chars))
    BY ProfileGitAssumption DEF Profile
  <2>2. p.dirs \in Seq(S) /\ q.dirs \in Seq(S)
    BY <2>1, SeqMonotonic
  <2>3. QED
    BY <2>2, LenProperties
<1>2. /\ "profiles" \in S /\ p.host \in S /\ q.host \in S /\ base[p] \in S /\ base[q] \in S
  OBVIOUS
<1> HIDE DEF S, d
<1> DEFINE P == ProfilePath(p)
           Q == ProfilePath(q)
<1>3. /\ P \in Seq(S) /\ Len(P) = d + 3 /\ P[2] = p.host /\ P[d + 3] = base[p]
      /\ \A i \in 1 .. d : P[i + 2] = p.dirs[i]
  <2>1. P = Join(p.host, p.dirs, base[p])
    BY PathOfGiven
  <2> HIDE DEF P
  <2>2. HasParts(P, p.host, p.dirs, base[p], S)
    BY <1>1, <1>2, <2>1, JoinHolds, Zenon
  <2>3. QED
    BY <1>1, <2>2, Zenon DEF HasParts, d
<1>4. /\ Q \in Seq(S) /\ Len(Q) = d + 3 /\ Q[2] = q.host /\ Q[d + 3] = base[q]
      /\ \A i \in 1 .. d : Q[i + 2] = q.dirs[i]
  <2>1. Q = Join(q.host, q.dirs, base[q])
    BY PathOfGiven
  <2> HIDE DEF Q
  <2>2. HasParts(Q, q.host, q.dirs, base[q], S)
    BY <1>1, <1>2, <2>1, JoinHolds, Zenon
  <2>3. QED
    BY <1>1, <2>2, Zenon DEF HasParts, d
<1>5. P = Q
  <2>1. SubSeq(P, 1, Len(P)) = SubSeq(Q, 1, Len(P))
    BY DEF IsPrefix
  <2> HIDE DEF P, Q
  <2>2. SubSeq(P, 1, Len(P)) = P /\ SubSeq(Q, 1, Len(Q)) = Q
    BY <1>3, <1>4
  <2>3. QED
    BY <1>3, <1>4, <2>1, <2>2
<1> HIDE DEF P, Q
<1>6. p.dirs = q.dirs
  <2>1. \A i \in 1 .. d : p.dirs[i] = q.dirs[i]
    BY <1>3, <1>4, <1>5
  <2>2. Len(p.dirs) = d
    BY DEF d
  <2>3. QED
    BY <1>1, <2>1, <2>2, SeqEqual
<1>7. QED
  BY <1>3, <1>4, <1>5, <1>6
================================================================================
