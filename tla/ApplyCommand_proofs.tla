-------------------------- MODULE ApplyCommand_proofs --------------------------
(***************************************************************************)
(* What ApplyCommand promises of the seed node, for every set of           *)
(* manifests, flags and secrets and any number of runs, edits and faults.  *)
(* The inductive invariant ApplyInv says what a run has at hand in each    *)
(* stage: the properties are consequences of its last two parts.           *)
(***************************************************************************)
EXTENDS ApplyCommand, TLAPS

--------------------------------------------------------------------------------
\* The order of the stages.

StageSet ==
  {"mkdir", "abs", "clone", "paths", "specs", "ssh", "identify", "token",
   "namespaces", "image", "read-cluster", "read-machines", "parse",
   "version", "unparse", "sealed-secret", "secret-plan", "pool",
   "seed-plan", "apply"}

\* Each stage is followed by the one after it in Stages (initiateCluster).
LEMMA StageOrder ==
  /\ Range(Stages) = StageSet
  /\ NextStage("mkdir") = "abs" /\ NextStage("abs") = "clone" /\ NextStage("clone") = "paths"
  /\ NextStage("paths") = "specs" /\ NextStage("specs") = "ssh"
  /\ NextStage("ssh") = "identify" /\ NextStage("identify") = "token"
  /\ NextStage("token") = "namespaces" /\ NextStage("namespaces") = "image"
  /\ NextStage("image") = "read-cluster"
  /\ NextStage("read-cluster") = "read-machines"
  /\ NextStage("read-machines") = "parse" /\ NextStage("parse") = "version"
  /\ NextStage("version") = "unparse"
  /\ NextStage("unparse") = "sealed-secret"
  /\ NextStage("sealed-secret") = "secret-plan"
  /\ NextStage("secret-plan") = "pool" /\ NextStage("pool") = "seed-plan"
  /\ NextStage("seed-plan") = "apply"
<1>1. ASSUME NEW n \in 1 .. 19
      PROVE  NextStage(Stages[n]) = Stages[n + 1]
  <2>1. \A i, j \in DOMAIN Stages : Stages[i] = Stages[j] => i = j
    BY SMTT(60) DEF Stages
  <2>2. n \in DOMAIN Stages
    BY DEF Stages
  <2>3. (CHOOSE i \in DOMAIN Stages : Stages[i] = Stages[n]) = n
    BY <2>1, <2>2
  <2> QED BY <2>3 DEF NextStage
<1>2. /\ Stages[1] = "mkdir" /\ Stages[2] = "abs" /\ Stages[3] = "clone"
      /\ Stages[4] = "paths" /\ Stages[5] = "specs" /\ Stages[6] = "ssh"
      /\ Stages[7] = "identify" /\ Stages[8] = "token" /\ Stages[9] = "namespaces"
      /\ Stages[10] = "image" /\ Stages[11] = "read-cluster" /\ Stages[12] = "read-machines"
      /\ Stages[13] = "parse" /\ Stages[14] = "version" /\ Stages[15] = "unparse"
      /\ Stages[16] = "sealed-secret" /\ Stages[17] = "secret-plan" /\ Stages[18] = "pool"
      /\ Stages[19] = "seed-plan" /\ Stages[20] = "apply" /\ DOMAIN Stages = 1 .. 20
  BY DEF Stages
<1>3. Range(Stages) = StageSet
  <2>1. Range(Stages) = {Stages[n] : n \in 1 .. 20}
    BY <1>2 DEF Range
  <2> QED BY <2>1, <1>2, SMTT(60) DEF StageSet
<1> QED BY <1>1, <1>2, <1>3

--------------------------------------------------------------------------------
\* The inductive invariant.

FromReadMachines ==
  {"read-machines", "parse", "version", "unparse", "sealed-secret",
   "secret-plan", "pool", "seed-plan", "apply"}
FromParse == FromReadMachines \ {"read-machines"}
FromUnparse == FromParse \ {"parse", "version"}
FromSeedPlan == {"seed-plan", "apply"}
FromSSH ==
  {"ssh", "identify", "token", "namespaces", "image", "read-cluster"}
    \union FromReadMachines

\* The cluster the run works on is the one it read.
ClusterRead(r) ==
  [version |-> r.cluster.version, sshKeyPath |-> None,
   authn |-> r.cluster.authn, authz |-> r.cluster.authz]
ClusterWithVersion(r) ==
  [version |-> PickVersion(ClusterRead(r), r.machines), sshKeyPath |-> None,
   authn |-> r.cluster.authn, authz |-> r.cluster.authz]

\* What the seed node's plan of the n-th run, with flags p, is built from.
RunsPlan(r, p, n) ==
  [spec |-> r.spec, eic |-> ClusterWithVersion(r), manifest |-> ClusterWithVersion(r),
   token |-> n, flags |-> FlagsOf(p),
   hosts |-> Len(r.machines.infra), key |-> p.sshKeyPath, auth |-> Auth(ClusterWithVersion(r))]

\* The parameters before the secrets and the pool of machines are added.
FirstSeed ==
  [NoSeed EXCEPT !.spec = read.spec, !.eic = eic, !.manifest = eic,
                 !.token = runs, !.flags = FlagsOf(params)]

WithPath(e, k) == [e EXCEPT !.sshKeyPath = k]

\* What a run has at hand in each stage.
StageInv ==
  /\ pc \in (StageSet \union ViewStages) \ {"apply"} => applied = {} /\ ~seeded
  /\ pc \in FromReadMachines => read.cluster \in Clusters
  /\ pc \in FromParse => read.machines \in Machines
  /\ pc = "version" => eic = ClusterRead(read)
  /\ pc \in FromUnparse => ClusterWithVersion(read).version \in Versions
  /\ pc = "unparse" => eic = ClusterWithVersion(read)
  /\ pc \in {"sealed-secret", "secret-plan"} =>
       /\ eic = WithPath(ClusterWithVersion(read), params.sshKeyPath)
       /\ seed = FirstSeed
  /\ pc = "pool" =>
       /\ eic = WithPath(ClusterWithVersion(read), params.sshKeyPath)
       /\ seed = [FirstSeed EXCEPT !.auth = Auth(ClusterWithVersion(read))]
  /\ pc \in FromSeedPlan => seed = RunsPlan(read, params, runs)

\* The run has returned without an error, or is about to.
Succeeding == pc = "ok" \/ (pc = "return" /\ result = "ok")

\* What the node has is what the resources applied so far put there.
NodeInv ==
  /\ PemFilesPrivate
  /\ SetPerms \in applied => node.pemDir = "private"
  /\ applied \intersect Installs(seed.eic) \subseteq node.files
  /\ seeded => /\ node.seed = seed /\ node.from = read
               /\ seed = RunsPlan(read, params, runs)
  /\ Succeeding /\ ~params.view => seeded /\ SupportDone
  /\ node.seed # None =>
       /\ \E p \in Flags, n \in 0 .. NumRuns : node.seed = RunsPlan(node.from, p, n)
       /\ ClusterWithVersion(node.from).version \in Versions

\* The manifests of a run from a Git repository do not change while it runs, so
\* those it has validated are those it reads.
GitInv ==
  params.git =>
    /\ pc \in FromSSH => read.spec = sources /\ BothValid(cluster, machines)
    /\ pc \in FromReadMachines => read.cluster = cluster
    /\ pc \in FromParse => read.machines = machines
    /\ seeded => /\ read.spec = <<read.cluster, read.machines>>
                 /\ BothValid(read.cluster, read.machines)

\* What a run holds outside of its memory some call has been deferred to give
\* back, unless that is not done yet or failed, and only plan view goes its own
\* way.
EndInv ==
  /\ ~Running => ~ssh
  /\ ssh => "ssh" \in deferred
  /\ clone /\ ~abandoned /\ pc \notin {"abs", "clone", "fatal", "killed"} =>
       "clone" \in deferred
  /\ pc \in Results => deferred = {}
  /\ pc \in ViewStages => params.view

HeldType ==
  /\ clone \in BOOLEAN /\ ssh \in BOOLEAN /\ abandoned \in BOOLEAN
  /\ deferred \subseteq {"clone", "ssh"} /\ result \in Results

ApplyInv == TypeOK /\ StageInv /\ NodeInv /\ GitInv /\ EndInv

--------------------------------------------------------------------------------
\* The steps that only lead to the next stage, or open the connection or make
\* the directory of the clone.
LEMMA PassKeepsInv ==
  ASSUME ApplyInv,
         NEW s \in Quiet \union {"mkdir", "clone", "ssh"}, Pass(s),
         UNCHANGED <<sources, counters, local, node>>,
         HeldType', EndInv'
  PROVE  ApplyInv'
<1>1. pc = s /\ pc' = NextStage(s) /\ s # "apply" /\ pc' \in StageSet
  BY StageOrder DEF Pass, Quiet, StageSet
<1>2. TypeOK'
  BY <1>1, StageOrder DEF ApplyInv, TypeOK, HeldType, sources, counters, local
<1>3. StageInv'
  BY <1>1, StageOrder DEF ApplyInv, StageInv, FirstSeed, counters, local, Quiet, StageSet,
     FromReadMachines, FromParse, FromUnparse, FromSeedPlan
<1>4. NodeInv'
  BY <1>1 DEF ApplyInv, NodeInv, PemFilesPrivate, SupportDone, Succeeding, counters, local,
     StageSet
<1>5. GitInv'
  BY <1>1, StageOrder DEF ApplyInv, StageInv, GitInv, sources, local, Quiet, StageSet,
     FromSSH, FromReadMachines, FromParse
<1> QED BY <1>2, <1>3, <1>4, <1>5 DEF ApplyInv

\* They hold what a call is deferred for, or is about to be.
LEMMA PassHolds ==
  ASSUME ApplyInv, (\E s \in Range(Stages) : PassQuiet(s)) \/ MakeCloneDir \/ Clone \/ Connect
  PROVE  HeldType' /\ EndInv'
<1>1. pc \in StageSet /\ pc' \in StageSet /\ HeldType
  BY StageOrder DEF PassQuiet, MakeCloneDir, Clone, Connect, Pass, Quiet, StageSet, ApplyInv,
     TypeOK, HeldType
<1>2. CASE \E s \in Range(Stages) : PassQuiet(s)
  <2>1. UNCHANGED held /\ (pc \in {"abs", "clone"} => pc' \in {"abs", "clone"})
    BY <1>2, StageOrder DEF PassQuiet, Pass, Quiet
  <2> QED BY <1>1, <2>1 DEF ApplyInv, EndInv, HeldType, held, StageSet, ViewStages, Running,
             Ends, Results
<1>3. CASE MakeCloneDir
  BY <1>1, <1>3, StageOrder DEF MakeCloneDir, Pass, ApplyInv, EndInv, HeldType, ViewStages,
     Running, Ends, Results
<1>4. CASE Clone
  BY <1>1, <1>4, StageOrder DEF Clone, Pass, ApplyInv, EndInv, HeldType, ViewStages, Running,
     Ends, Results
<1>5. CASE Connect
  BY <1>1, <1>5, StageOrder DEF Connect, Pass, ApplyInv, EndInv, HeldType, ViewStages, Running,
     Ends, Results
<1> QED BY <1>2, <1>3, <1>4, <1>5

\* The manifests are validated.
LEMMA ValidateKeepsInv ==
  ASSUME ApplyInv, Validate
  PROVE  ApplyInv'
<1>1. /\ pc = "specs" /\ pc' = "ssh" /\ BothValid(cluster, machines)
      /\ read' = [read EXCEPT !.spec = sources]
      /\ UNCHANGED <<sources, counters, params, eic, seed, applied, seeded, held, node>>
  BY StageOrder DEF Validate, Pass, sources
<1>2. read' \in ReadType /\ read'.spec = sources
  BY <1>1 DEF ApplyInv, TypeOK, ReadType, Specs, sources
<1>3. TypeOK'
  BY <1>1, <1>2, StageOrder DEF ApplyInv, TypeOK, held, sources, counters, StageSet
<1>4. applied = {} /\ ~seeded
  BY <1>1 DEF ApplyInv, StageInv, StageSet
<1>5. StageInv'
  BY <1>1, <1>4 DEF StageInv, ViewStages, FromReadMachines, FromParse, FromUnparse, FromSeedPlan
<1>6. NodeInv' /\ EndInv'
  BY <1>1, <1>4 DEF ApplyInv, NodeInv, EndInv, ViewStages, PemFilesPrivate, Succeeding, held, Running, Ends, Results
<1>7. GitInv'
  BY <1>1, <1>2, <1>4 DEF GitInv, sources, FromReadMachines, FromParse
<1> QED BY <1>3, <1>5, <1>6, <1>7 DEF ApplyInv

\* The steps that end a run before its plan is complete, or lead to its end.
LEMMA EndKeepsInv ==
  ASSUME ApplyInv, pc' \in {"return", "fatal", "killed"},
         pc' = "return" => result' # "ok",
         UNCHANGED <<sources, runs, edits, local, node>>,
         faults' \in 0 .. MaxFaults, HeldType', EndInv'
  PROVE  ApplyInv'
<1>1. TypeOK'
  BY DEF ApplyInv, TypeOK, HeldType, sources, counters, local, Ends
<1>2. StageInv'
  BY DEF StageInv, StageSet, ViewStages, FromReadMachines, FromParse, FromUnparse,
     FromSeedPlan
<1>3. NodeInv'
  BY DEF ApplyInv, NodeInv, PemFilesPrivate, SupportDone, Succeeding, local
<1>4. GitInv'
  BY DEF ApplyInv, GitInv, local, FromSSH, FromReadMachines, FromParse
<1> QED BY <1>1, <1>2, <1>3, <1>4 DEF ApplyInv

\* What a run holds when it returns has a call deferred for it, or is lost.
LEMMA ReturnHolds ==
  ASSUME ApplyInv, NEW s \in StageSet \union ViewStages, NEW end \in Results, Return(s, end)
  PROVE  HeldType' /\ EndInv' /\ pc' = "return" /\ result' = end
<1>1. HeldType'
  BY DEF Return, Undoes, ApplyInv, TypeOK, HeldType
<1>2. pc = s /\ pc' = "return" /\ result' = end /\ UNCHANGED <<clone, ssh>>
      /\ deferred \subseteq deferred' /\ (s = "clone" => "clone" \in deferred')
      /\ (abandoned => abandoned') /\ (s = "abs" => abandoned')
  BY DEF Return, Undoes, ApplyInv, TypeOK
<1>3. s \notin {"fatal", "killed"}
  BY DEF StageSet, ViewStages
<1>4. EndInv'
  BY <1>2, <1>3 DEF ApplyInv, EndInv, Running, Ends, Results, ViewStages
<1> QED BY <1>1, <1>2, <1>4

\* A failure of a stage, or of the program, is the end of the run.
LEMMA FaultsInRange == ASSUME TypeOK, Fault PROVE faults' \in 0 .. MaxFaults
BY ApplyCommandAssumption DEF TypeOK, Fault

\* The deferred calls, and the end.
LEMMA DeferredKeepsInv ==
  ASSUME ApplyInv, CloseSSH \/ RemoveClone \/ RemoveCloneFails \/ Returned
  PROVE  ApplyInv'
<1>0. /\ faults \in 0 .. MaxFaults /\ result \in Results
      /\ deferred \subseteq {"clone", "ssh"}
  BY DEF ApplyInv, TypeOK
<1>1. /\ pc = "return" /\ (pc' = "return" \/ pc' = result)
      /\ UNCHANGED <<sources, runs, edits, local, result, node>>
      /\ deferred' \subseteq {"clone", "ssh"}
      /\ ssh' \in {ssh, FALSE} /\ clone' \in {clone, FALSE} /\ abandoned' \in {abandoned, TRUE}
  BY <1>0 DEF CloseSSH, RemoveClone, RemoveCloneFails, Returned, counters, held
<1>7. HeldType' /\ faults' \in 0 .. MaxFaults
  <2>1. HeldType'
    BY <1>0, <1>1 DEF HeldType, ApplyInv, TypeOK
  <2>2. faults' = faults \/ Fault
    BY DEF CloseSSH, RemoveClone, RemoveCloneFails, Returned, counters
  <2> QED BY <1>0, <2>1, <2>2, FaultsInRange DEF ApplyInv
<1>2. TypeOK'
  BY <1>0, <1>1, <1>7 DEF ApplyInv, TypeOK, HeldType, sources, local, Ends
<1>3. StageInv'
  BY <1>0, <1>1 DEF StageInv, StageSet, ViewStages, Results, FromReadMachines, FromParse,
     FromUnparse, FromSeedPlan
<1>4. NodeInv'
  BY <1>0, <1>1 DEF ApplyInv, NodeInv, PemFilesPrivate, SupportDone, Succeeding, local, Results
<1>5. GitInv'
  BY <1>0, <1>1 DEF ApplyInv, GitInv, local, Results, FromSSH, FromReadMachines, FromParse
<1>6. EndInv'
  <2>1. /\ ssh => "ssh" \in deferred
        /\ clone /\ ~abandoned => "clone" \in deferred
    BY <1>1 DEF ApplyInv, EndInv
  <2>2. /\ ssh' => "ssh" \in deferred'
        /\ clone' /\ ~abandoned' => "clone" \in deferred'
        /\ pc' # "return" => deferred' = {}
    BY <1>0, <1>1, <2>1 DEF CloseSSH, RemoveClone, RemoveCloneFails, Returned, held, Results
  <2> QED BY <1>0, <1>1, <2>2 DEF EndInv, Running, Ends, Results, ViewStages
<1> QED BY <1>2, <1>3, <1>4, <1>5, <1>6 DEF ApplyInv

\* A plan view has nothing at hand but the connection and the clone.
LEMMA ViewKeepsInv ==
  ASSUME ApplyInv, (\E s : PassView(s)) \/ ViewDone
  PROVE  ApplyInv'
<1>1. /\ pc' \in ViewStages \union {"return"} /\ pc \in {"identify"} \union ViewStages
      /\ UNCHANGED <<sources, counters, local, node>>
  BY DEF PassView, ViewDone, Return, NextViewStage, ViewStages
<1>2. params.view
  BY DEF ApplyInv, EndInv, PassView, ViewDone, Return, ViewStages
<1>0. HeldType' /\ EndInv'
  <2>1. CASE \E s : PassView(s)
    BY <1>1, <1>2, <2>1 DEF PassView, NextViewStage, ApplyInv, TypeOK, HeldType, EndInv, held,
       local, ViewStages, Running, Ends, Results
  <2>2. CASE ViewDone
    BY <2>2, ReturnHolds DEF ViewDone, ViewStages, Results
  <2> QED BY <2>1, <2>2
<1>3. TypeOK'
  BY <1>0, <1>1 DEF ApplyInv, TypeOK, HeldType, sources, counters, local
<1>4. applied = {} /\ ~seeded
  BY <1>1 DEF ApplyInv, StageInv, StageSet, ViewStages
<1>5. StageInv'
  BY <1>1, <1>4 DEF StageInv, local, StageSet, ViewStages,
     FromReadMachines, FromParse, FromUnparse, FromSeedPlan
<1>6. NodeInv'
  BY <1>1, <1>2, <1>4 DEF ApplyInv, NodeInv, PemFilesPrivate, local
<1>7. GitInv'
  BY <1>1, <1>4 DEF GitInv, local, ViewStages, FromSSH, FromReadMachines, FromParse
<1> QED BY <1>0, <1>3, <1>5, <1>6, <1>7 DEF ApplyInv

\* A run begins with nothing at hand; the node is as the runs before left it.
LEMMA BeginKeepsInv ==
  ASSUME ApplyInv, NEW p \in Flags, Begin(p)
  PROVE  ApplyInv'
<1>1. /\ pc' \in {"mkdir", "specs"} /\ params' = p /\ runs' = runs + 1
      /\ eic' = NoSeed.eic /\ seed' = NoSeed
      /\ read' = NotRead
      /\ applied' = {} /\ seeded' = FALSE /\ clone' = FALSE
      /\ deferred' = {} /\ result' = "ok" /\ abandoned' = FALSE
      /\ UNCHANGED <<sources, edits, faults, ssh, node>>
  BY DEF Begin
<1>2. TypeOK'
  <2>1. NoSeed \in SeedParams /\ NoSeed.eic \in EIC
    BY ApplyCommandAssumption DEF NoSeed, SeedParams, Specs, EIC
  <2>2. runs' \in 0 .. NumRuns
    BY ApplyCommandAssumption DEF Begin, ApplyInv, TypeOK
  <2> QED BY <1>1, <2>1, <2>2, StageOrder DEF ApplyInv, TypeOK, Results, sources, ReadType,
             NotRead, Specs, StageSet
<1>3. StageInv'
  BY <1>1 DEF StageInv, StageSet, ViewStages, FromReadMachines, FromParse, FromUnparse, FromSeedPlan
<1>4. NodeInv'
  BY <1>1 DEF ApplyInv, NodeInv, PemFilesPrivate, Succeeding
<1>5. ~ssh'
  BY <1>1 DEF Begin, ApplyInv, EndInv
<1>6. GitInv' /\ EndInv'
  BY <1>1, <1>5 DEF GitInv, EndInv, ViewStages, Running, Results, FromSSH, FromReadMachines,
     FromParse
<1> QED BY <1>2, <1>3, <1>4, <1>6 DEF ApplyInv

\* An edit changes the manifests, not what a run has read of them.
LEMMA EditKeepsInv ==
  ASSUME ApplyInv, NEW c \in Clusters, NEW m \in Machines, Edit(c, m)
  PROVE  ApplyInv'
<1>1. TypeOK'
  BY ApplyCommandAssumption DEF Edit, ApplyInv, TypeOK, local, held
<1>2. StageInv' /\ EndInv'
  BY DEF Edit, ApplyInv, StageInv, FirstSeed, EndInv, Running, local, held
<1>3. NodeInv'
  BY DEF Edit, ApplyInv, NodeInv, PemFilesPrivate, SupportDone, Succeeding, local, held
<1>4. GitInv'
  <2>1. CASE ~params.git
    BY <2>1 DEF Edit, GitInv, local
  <2>2. CASE ~Running
    BY <2>2 DEF Edit, Running, Ends, Results, ApplyInv, GitInv, local, FromSSH, FromReadMachines,
       FromParse
  <2> QED BY <2>1, <2>2 DEF Edit
<1> QED BY <1>1, <1>2, <1>3, <1>4 DEF ApplyInv

\* Reading and parsing the manifests.
LEMMA ReadKeepsInv ==
  ASSUME ApplyInv, ReadCluster \/ ReadMachines \/ Parse \/ Version
  PROVE  ApplyInv'
<1>1. /\ pc' \in {"read-machines", "parse", "version", "unparse"}
      /\ pc \in {"read-cluster", "read-machines", "parse", "version"}
      /\ applied = {} /\ ~seeded
      /\ UNCHANGED <<sources, counters, params, seed, applied, seeded, held, node>>
  BY StageOrder DEF ReadCluster, ReadMachines, Parse, Version, Pass, ApplyInv, StageInv, StageSet
<1>2. pc' \in {"parse", "version", "unparse"} => read'.machines \in Machines
  BY StageOrder DEF ReadCluster, ReadMachines, Parse, Version, Pass, ApplyInv, TypeOK,
     ReadType, StageInv, FromParse, FromReadMachines
<1>3. read'.cluster \in Clusters
  BY DEF ReadCluster, ReadMachines, Parse, Version, Pass, ApplyInv, TypeOK,
     ReadType, StageInv, FromReadMachines
<1>4. read' \in ReadType
  BY DEF ReadCluster, ReadMachines, Parse, Version, ApplyInv, TypeOK, ReadType
<1>0. GitInv'
  BY <1>1, StageOrder DEF ReadCluster, ReadMachines, Parse, Version, Pass, ApplyInv, TypeOK,
     ReadType, GitInv, sources, FromSSH, FromReadMachines, FromParse
<1>5. CASE ReadCluster \/ ReadMachines
  <2>1. pc' \in {"read-machines", "parse"} /\ UNCHANGED eic
    BY <1>5, StageOrder DEF ReadCluster, ReadMachines, Pass
  <2>2. TypeOK'
    BY <1>1, <1>4, <2>1, StageOrder DEF ApplyInv, TypeOK, held, sources, counters, StageSet
  <2>3. StageInv'
    BY <1>1, <1>2, <1>3, <2>1 DEF StageInv, StageSet, ViewStages, FromReadMachines, FromParse, FromUnparse, FromSeedPlan
  <2>4. NodeInv' /\ EndInv'
    BY <1>1 DEF ApplyInv, NodeInv, EndInv, ViewStages, PemFilesPrivate, Succeeding, held, Running, Ends, Results
  <2> QED BY <1>0, <2>2, <2>3, <2>4 DEF ApplyInv
<1>6. CASE Parse
  <2>1. pc' = "version" /\ UNCHANGED read /\ eic' = ClusterRead(read)
    BY <1>6, StageOrder DEF Parse, Pass, ClusterRead
  <2>2. eic' \in EIC
    BY <1>3, <2>1, ApplyCommandAssumption DEF ClusterRead, ClusterManifest, EIC
  <2>3. TypeOK'
    BY <1>1, <1>4, <2>1, <2>2, StageOrder DEF ApplyInv, TypeOK, held, sources, counters, StageSet
  <2>4. StageInv'
    BY <1>1, <1>2, <1>3, <2>1 DEF StageInv, StageSet, ViewStages, FromReadMachines, FromParse, FromUnparse,
       FromSeedPlan, ClusterRead
  <2>5. NodeInv' /\ EndInv'
    BY <1>1 DEF ApplyInv, NodeInv, EndInv, ViewStages, PemFilesPrivate, Succeeding, held, Running, Ends, Results
  <2> QED BY <1>0, <2>3, <2>4, <2>5 DEF ApplyInv
<1>7. CASE Version
  <2>1. pc = "version" /\ pc' = "unparse" /\ UNCHANGED read
    BY <1>7, StageOrder DEF Version, Pass
  <2>2. eic' = ClusterWithVersion(read)
    BY <1>7, <2>1 DEF Version, ApplyInv, StageInv, ClusterWithVersion, ClusterRead, PickVersion
  <2>3. ClusterWithVersion(read).version \in Versions
    <3>1. CASE read.cluster.version = None
      <4>1. /\ read.machines.list \in Seq(Machine) /\ NamesVersion(read.machines)
        BY <1>2, <1>3, <1>7, <2>1, <3>1, ApplyCommandAssumption
           DEF Version, ApplyInv, StageInv, ClusterRead, MachinesManifest
      <4>2. read.machines.list[1] \in Machine
        BY <4>1 DEF NamesVersion
      <4> QED BY <3>1, <4>1, <4>2 DEF ClusterWithVersion, ClusterRead, PickVersion,
                 NamesVersion, Machine
    <3>2. CASE read.cluster.version # None
      BY <1>3, <2>1, <3>2, ApplyCommandAssumption
         DEF ClusterWithVersion, ClusterRead, PickVersion, ClusterManifest
    <3> QED BY <3>1, <3>2
  <2>4. eic' \in EIC
    BY <1>3, <2>1, <2>2, <2>3, ApplyCommandAssumption DEF ClusterWithVersion, ClusterManifest, EIC
  <2>5. TypeOK'
    BY <1>1, <1>4, <2>1, <2>4, StageOrder DEF ApplyInv, TypeOK, held, sources, counters, StageSet
  <2>6. StageInv'
    BY <1>1, <1>2, <1>3, <2>1, <2>2, <2>3 DEF StageInv, StageSet, ViewStages, FromReadMachines, FromParse,
       FromUnparse, FromSeedPlan
  <2>7. NodeInv' /\ EndInv'
    BY <1>1 DEF ApplyInv, NodeInv, EndInv, ViewStages, PemFilesPrivate, Succeeding, held, Running, Ends, Results
  <2> QED BY <1>0, <2>5, <2>6, <2>7 DEF ApplyInv
<1> QED BY <1>5, <1>6, <1>7

\* Making the parameters of the seed node's plan.
LEMMA SeedKeepsInv ==
  ASSUME ApplyInv, Unparse \/ CreateSecretPlan \/ CreateMachinePool
  PROVE  ApplyInv'
<1> DEFINE C == ClusterWithVersion(read)
<1>1. /\ pc' \in {"sealed-secret", "pool", "seed-plan"}
      /\ pc \in {"unparse", "secret-plan", "pool"}
      /\ applied = {} /\ ~seeded
      /\ UNCHANGED <<sources, counters, params, read, applied, seeded, held, node>>
  BY StageOrder DEF Unparse, CreateSecretPlan, CreateMachinePool, Pass, ApplyInv, StageInv, StageSet
<1>2. /\ read.cluster \in Clusters /\ read.machines \in Machines
      /\ params.sshKeyPath \in KeyPaths
      /\ C \in EIC /\ C.version \in Versions /\ C.sshKeyPath = None
  <2>1. /\ read.cluster \in Clusters /\ read.machines \in Machines
        /\ C.version \in Versions
    BY <1>1 DEF ApplyInv, StageInv, FromReadMachines, FromParse, FromUnparse
  <2>2. C \in EIC /\ C.sshKeyPath = None
    BY <2>1, ApplyCommandAssumption DEF ClusterWithVersion, ClusterManifest, EIC
  <2>3. params.sshKeyPath \in KeyPaths
    BY ApplyCommandAssumption DEF ApplyInv, TypeOK, Params
  <2> QED BY <2>1, <2>2, <2>3
<1>3. Auth(C) \subseteq Secrets /\ Auth(C) = Auth(WithPath(C, params.sshKeyPath))
  BY <1>2 DEF Auth, EIC, WithPath
<1>4. Len(read.machines.infra) \in Nat
  BY <1>2, ApplyCommandAssumption DEF MachinesManifest
<1>5. WithPath(C, params.sshKeyPath) \in EIC /\ WithPath(WithPath(C, params.sshKeyPath), None) = C
  BY <1>2 DEF WithPath, EIC
<1>0. GitInv'
  BY <1>1 DEF ApplyInv, GitInv, sources, FromSSH, FromReadMachines, FromParse
<1> DEFINE First(e) == [NoSeed EXCEPT !.spec = read.spec, !.eic = e, !.manifest = e,
                                      !.token = runs, !.flags = FlagsOf(params)]
<1>9. /\ FlagsOf(params) \in {FlagsOf(p) : p \in Flags} /\ runs \in 0 .. NumRuns
      /\ read.spec \in Specs
      /\ UNCHANGED runs
  BY <1>1 DEF ApplyInv, TypeOK, ReadType, counters
<1>10. ASSUME NEW e \in EIC PROVE First(e) \in SeedParams
  BY <1>9 DEF NoSeed, SeedParams
<1>6. CASE Unparse
  <2>1. /\ pc' = "sealed-secret"
        /\ eic' = WithPath(C, params.sshKeyPath)
        /\ seed' = First(eic')
    BY <1>6, StageOrder DEF Unparse, Pass, ApplyInv, StageInv, WithPath
  <2>2. seed' \in SeedParams
    BY <1>5, <1>10, <2>1
  <2>3. TypeOK'
    BY <1>1, <1>5, <2>1, <2>2, StageOrder DEF ApplyInv, TypeOK, held, sources, counters, StageSet
  <2>4. StageInv'
    BY <1>1, <1>2, <1>9, <2>1 DEF StageInv, FirstSeed, StageSet, ViewStages, FromReadMachines,
       FromParse, FromUnparse, FromSeedPlan
  <2>5. NodeInv' /\ EndInv'
    BY <1>1, <2>1 DEF ApplyInv, NodeInv, EndInv, ViewStages, PemFilesPrivate, Succeeding, held, Running, Ends, Results
  <2> QED BY <1>0, <2>3, <2>4, <2>5 DEF ApplyInv
<1>7. CASE CreateSecretPlan
  <2>1. /\ pc' = "pool" /\ UNCHANGED eic
        /\ eic = WithPath(C, params.sshKeyPath)
        /\ seed' = [First(eic) EXCEPT !.auth = Auth(C)]
    BY <1>3, <1>7, StageOrder DEF CreateSecretPlan, Pass, ApplyInv, StageInv, FirstSeed
  <2>2. seed' \in SeedParams
    BY <1>3, <1>5, <1>10, <2>1 DEF SeedParams
  <2>3. TypeOK'
    BY <1>1, <2>1, <2>2, StageOrder DEF ApplyInv, TypeOK, held, sources, counters, StageSet
  <2>4. StageInv'
    BY <1>1, <1>2, <1>9, <2>1 DEF StageInv, FirstSeed, StageSet, ViewStages, FromReadMachines,
       FromParse, FromUnparse, FromSeedPlan
  <2>5. NodeInv' /\ EndInv'
    BY <1>1, <2>1 DEF ApplyInv, NodeInv, EndInv, ViewStages, PemFilesPrivate, Succeeding, held, Running, Ends, Results
  <2> QED BY <1>0, <2>3, <2>4, <2>5 DEF ApplyInv
<1>8. CASE CreateMachinePool
  <2>1. pc = "pool" /\ pc' = "seed-plan" /\ UNCHANGED eic /\ seed' = Pool(seed, params)
    BY <1>8, StageOrder DEF CreateMachinePool, Pass
  <2>2. seed = [First(WithPath(C, params.sshKeyPath)) EXCEPT !.auth = Auth(C)]
    BY <2>1 DEF ApplyInv, StageInv, FirstSeed
  <2>3. seed' = [spec |-> read.spec, eic |-> C, manifest |-> C,
                 token |-> runs, flags |-> FlagsOf(params),
                 hosts |-> Len(read.machines.infra), key |-> params.sshKeyPath, auth |-> Auth(C)]
    BY <1>2, <1>5, <2>1, <2>2 DEF Pool, NoSeed, WithPath, EIC
  <2>4. seed' \in SeedParams
    BY <1>2, <1>3, <1>4, <1>9, <2>3 DEF SeedParams
  <2>8. seed' = RunsPlan(read, params, runs)
    BY <2>3 DEF RunsPlan
  <2>5. TypeOK'
    BY <1>1, <2>1, <2>4, StageOrder DEF ApplyInv, TypeOK, held, sources, counters, StageSet
  <2>6. StageInv'
    BY <1>1, <1>2, <1>9, <2>1, <2>8 DEF StageInv, StageSet, ViewStages, FromReadMachines,
       FromParse, FromUnparse, FromSeedPlan
  <2>7. NodeInv' /\ EndInv'
    BY <1>1, <2>1 DEF ApplyInv, NodeInv, EndInv, ViewStages, PemFilesPrivate, Succeeding, held, Running, Ends, Results
  <2> QED BY <1>0, <2>5, <2>6, <2>7 DEF ApplyInv
<1> QED BY <1>6, <1>7, <1>8

\* What a ready resource of the secret plan does to the node: a file is
\* written only after the permissions of its directory are set.
LEMMA SecretResource ==
  ASSUME ApplyInv, NEW r, r \in Ready(SecretPlan(seed.eic), applied)
  PROVE  /\ r \in {CreateDir, SetPerms} \union Installs(seed.eic)
         /\ NodeAfter(r) \in NodeType
         /\ NodeAfter(r).files # {} => NodeAfter(r).pemDir = "private"
         /\ r = SetPerms \/ SetPerms \in applied => NodeAfter(r).pemDir = "private"
         /\ node.files \subseteq NodeAfter(r).files
         /\ r \in Installs(seed.eic) => r \in NodeAfter(r).files
         /\ NodeAfter(r).seed = node.seed /\ NodeAfter(r).from = node.from
<1> DEFINE I == Installs(seed.eic)
<1>1. r \in {CreateDir, SetPerms} \union I
  BY DEF Ready, SecretPlan
<1>2. I \subseteq Secrets \X (PemKeys \union {"config"})
  BY DEF Installs, Auth, ApplyInv, TypeOK, SeedParams, EIC
<1>3. CreateDir \notin I /\ SetPerms \notin I /\ CreateDir # SetPerms
  BY <1>2, ApplyCommandAssumption DEF CreateDir, SetPerms
<1>4. /\ node \in NodeType
      /\ node.files # {} => node.pemDir = "private"
      /\ SetPerms \in applied => node.pemDir = "private"
  BY DEF ApplyInv, TypeOK, NodeInv, PemFilesPrivate
<1>5. CASE r = CreateDir
  BY <1>1, <1>3, <1>4, <1>5 DEF NodeAfter, NodeType
<1>6. CASE r = SetPerms
  BY <1>1, <1>3, <1>4, <1>6 DEF NodeAfter, NodeType
<1>7. CASE r \in I
  <2>1. SetPerms \in applied
    BY <1>3, <1>7 DEF Ready, SecretPlan
  <2>2. NodeAfter(r) = [node EXCEPT !.files = @ \union {r}]
    BY <1>3, <1>7 DEF NodeAfter
  <2> QED BY <1>1, <1>2, <1>3, <1>4, <1>7, <2>1, <2>2 DEF NodeType
<1> QED BY <1>1, <1>5, <1>6, <1>7

\* The parameters the seed node is installed with are well formed, and what
\* the manifests alone determine of them.
LEMMA SeedNode ==
  ASSUME ApplyInv, pc = "apply"
  PROVE  /\ NodeSeeded \in NodeType
         /\ seed = RunsPlan(read, params, runs)
         /\ params.sshKeyPath \in KeyPaths
         /\ ClusterWithVersion(read).version \in Versions
<1>1. NodeSeeded \in NodeType
  BY DEF NodeSeeded, NodeType, ApplyInv, TypeOK
<1>2. params.sshKeyPath \in KeyPaths
  BY ApplyCommandAssumption DEF ApplyInv, TypeOK, Params
<1> QED BY <1>1, <1>2 DEF ApplyInv, StageInv, FromSeedPlan, FromUnparse, FromParse, FromReadMachines

\* A resource of the plan is applied, or the plan is complete.
LEMMA PlanKeepsInv ==
  ASSUME ApplyInv, (\E r : ApplySecretResource(r)) \/ ApplySeedNode \/ ApplyDone
  PROVE  ApplyInv'
<1>1. CASE \E r : ApplySecretResource(r)
  <2>1. PICK r : ApplySecretResource(r)
    BY <1>1
  <2>2. /\ pc = "apply" /\ r \in Ready(SecretPlan(seed.eic), applied)
        /\ node' = NodeAfter(r) /\ applied' = applied \union {r}
        /\ UNCHANGED <<sources, counters, params, read, eic, seed, seeded, pc, held>>
    BY <2>1 DEF ApplySecretResource
  <2>3. TypeOK'
    BY <2>2, SecretResource DEF ApplyInv, TypeOK, held, sources, counters
  <2>4. StageInv' /\ EndInv'
    BY <2>2 DEF ApplyInv, StageInv, FirstSeed, counters, EndInv, held, Running
  <2>7. ~Succeeding'
    BY <2>2 DEF Succeeding
  <2>5. NodeInv'
    BY <2>2, <2>7, SecretResource DEF ApplyInv, NodeInv, PemFilesPrivate, counters
  <2>6. GitInv'
    BY <2>2 DEF ApplyInv, GitInv, sources
  <2> QED BY <2>3, <2>4, <2>5, <2>6 DEF ApplyInv
<1>2. CASE ApplySeedNode
  <2>1. /\ pc = "apply" /\ node' = NodeSeeded /\ seeded' = TRUE
        /\ UNCHANGED <<sources, counters, params, read, eic, seed, applied, pc, held>>
    BY <1>2 DEF ApplySeedNode
  <2>2. TypeOK'
    BY <2>1, SeedNode DEF ApplyInv, TypeOK, held, sources, counters
  <2>3. StageInv' /\ EndInv'
    BY <2>1 DEF ApplyInv, StageInv, EndInv, held, counters, Running, StageSet, ViewStages,
       FromReadMachines, FromParse, FromUnparse, FromSeedPlan
  <2>7. ~Succeeding'
    BY <2>1 DEF Succeeding
  <2>4. /\ node'.seed = seed /\ node'.from = read
        /\ node'.files = node.files /\ node'.pemDir = node.pemDir
    BY <2>1 DEF NodeSeeded, ApplyInv, TypeOK, NodeType
  <2>5. NodeInv'
    <3>1. params \in Flags /\ runs \in 0 .. NumRuns /\ UNCHANGED runs
      BY <2>1 DEF ApplyInv, TypeOK, counters
    <3> QED BY <2>1, <2>4, <2>7, <3>1, SeedNode DEF ApplyInv, NodeInv, PemFilesPrivate
  <2>6. GitInv'
    BY <2>1 DEF ApplyInv, GitInv, sources, FromSSH, FromReadMachines, FromParse
  <2> QED BY <2>2, <2>3, <2>5, <2>6 DEF ApplyInv
<1>3. CASE ApplyDone
  <2>1. /\ pc' = "return" /\ SupportDone /\ seeded
        /\ UNCHANGED <<sources, counters, local, node>>
        /\ HeldType' /\ EndInv'
    BY <1>3, ReturnHolds DEF ApplyDone, StageSet, Results, Return
  <2>2. TypeOK'
    BY <2>1 DEF ApplyInv, TypeOK, HeldType, sources, counters, local
  <2>3. StageInv'
    BY <2>1 DEF StageInv, StageSet, ViewStages, FromReadMachines, FromParse, FromUnparse,
       FromSeedPlan
  <2>4. NodeInv'
    BY <2>1 DEF ApplyInv, NodeInv, PemFilesPrivate, SupportDone, local, counters
  <2>5. GitInv'
    BY <2>1 DEF ApplyInv, GitInv, local, FromSSH, FromReadMachines, FromParse
  <2> QED BY <2>1, <2>2, <2>3, <2>4, <2>5 DEF ApplyInv
<1> QED BY <1>1, <1>2, <1>3

\* A resource fails, having changed the node or not.
LEMMA FailureKeepsInv ==
  ASSUME ApplyInv, ApplyFails
  PROVE  ApplyInv'
<1>1. /\ pc = "apply" /\ pc' = "return" /\ result' = "error"
      /\ faults' = faults + 1 /\ faults < MaxFaults
      /\ UNCHANGED <<sources, runs, edits, local>>
      /\ HeldType' /\ EndInv'
  BY ReturnHolds DEF ApplyFails, Return, Fault, StageSet, Results
<1>2. \/ node' = node
      \/ \E r \in Ready(SecretPlan(seed.eic), applied) : node' = NodeAfter(r)
      \/ ~seeded /\ node' = NodeSeeded
  BY DEF ApplyFails
<1>3. node' \in NodeType
  BY <1>1, <1>2, SecretResource, SeedNode DEF ApplyInv, TypeOK
<1>4. TypeOK'
  <2>1. faults' \in 0 .. MaxFaults
    BY <1>1, ApplyCommandAssumption DEF ApplyInv, TypeOK
  <2> QED BY <1>1, <1>3, <2>1 DEF ApplyInv, TypeOK, HeldType, sources, local
<1>5. StageInv' /\ ~Succeeding'
  BY <1>1 DEF StageInv, Succeeding, StageSet, ViewStages, FromReadMachines, FromParse,
     FromUnparse, FromSeedPlan
<1>6. NodeInv'
  <2>1. CASE node' = node
    BY <1>1, <1>5, <2>1 DEF ApplyInv, NodeInv, PemFilesPrivate, local
  <2>2. CASE \E r \in Ready(SecretPlan(seed.eic), applied) : node' = NodeAfter(r)
    <3>1. PICK r \in Ready(SecretPlan(seed.eic), applied) : node' = NodeAfter(r)
      BY <2>2
    <3>2. /\ node'.files # {} => node'.pemDir = "private"
          /\ SetPerms \in applied => node'.pemDir = "private"
          /\ node.files \subseteq node'.files
          /\ node'.seed = node.seed /\ node'.from = node.from
      BY <3>1, SecretResource
    <3> QED BY <1>1, <1>5, <3>2 DEF ApplyInv, NodeInv, PemFilesPrivate, local
  <2>3. CASE ~seeded /\ node' = NodeSeeded
    <3>1. /\ node'.seed = seed /\ node'.from = read
          /\ node'.files = node.files /\ node'.pemDir = node.pemDir
      BY <2>3 DEF NodeSeeded, ApplyInv, TypeOK, NodeType
    <3>2. params \in Flags /\ runs \in 0 .. NumRuns
      BY DEF ApplyInv, TypeOK
    <3> QED BY <1>1, <1>5, <2>3, <3>1, <3>2, SeedNode DEF ApplyInv, NodeInv, PemFilesPrivate, local
  <2> QED BY <1>2, <2>1, <2>2, <2>3
<1>7. GitInv'
  BY <1>1 DEF ApplyInv, GitInv, local, FromSSH, FromReadMachines, FromParse
<1> QED BY <1>1, <1>4, <1>5, <1>6, <1>7 DEF ApplyInv

--------------------------------------------------------------------------------
\* Putting the steps together.

\* Before the first run nothing is read, planned or on the node.
LEMMA InvInit == Init => ApplyInv
<1> SUFFICES ASSUME Init PROVE ApplyInv
  OBVIOUS
<1>1. NoSeed \in SeedParams /\ NoSeed.eic \in EIC
  BY ApplyCommandAssumption DEF NoSeed, SeedParams, Specs, EIC
<1>2. TypeOK
  <2>1. params \in Flags
    BY ApplyCommandAssumption DEF Init
  <2>2. read \in ReadType /\ node \in NodeType
    BY DEF Init, ReadType, NodeType, NotRead, Specs
  <2>3. runs \in 0 .. NumRuns /\ edits \in 0 .. MaxEdits /\ faults \in 0 .. MaxFaults
    BY ApplyCommandAssumption DEF Init
  <2> QED BY <1>1, <2>1, <2>2, <2>3 DEF Init, TypeOK, Results
<1>3. StageInv /\ NodeInv /\ GitInv /\ EndInv
  BY DEF Init, StageInv, NodeInv, GitInv, EndInv, ViewStages, PemFilesPrivate, Succeeding,
     Results, StageSet, FromSSH, FromReadMachines, FromParse, FromUnparse, FromSeedPlan
<1> QED BY <1>2, <1>3 DEF ApplyInv

\* Every step of a run, of the operator or of a fault preserves the invariant.
LEMMA InvStep ==
  ASSUME ApplyInv, [Next]_vars
  PROVE  ApplyInv'
<1>1. ASSUME NEW p \in Flags, Begin(p) PROVE ApplyInv'
  BY <1>1, BeginKeepsInv
<1>2. ASSUME NEW c \in Clusters, NEW m \in Machines, Edit(c, m) PROVE ApplyInv'
  BY <1>2, EditKeepsInv
<1>3. ASSUME NEW s \in Range(Stages), PassQuiet(s) PROVE ApplyInv'
  BY <1>3, PassKeepsInv, PassHolds DEF PassQuiet
<1>4. CASE MakeCloneDir \/ Clone \/ Connect
  BY <1>4, PassKeepsInv, PassHolds DEF MakeCloneDir, Clone, Connect
<1>5. ASSUME NEW s \in StageSet \union ViewStages, StageFails(s) \/ FileExistsPanics(s)
      PROVE  ApplyInv'
  <2>1. faults' \in 0 .. MaxFaults
    BY <1>5, FaultsInRange DEF StageFails, FileExistsPanics, ApplyInv
  <2>2. HeldType' /\ EndInv' /\ pc' = "return" /\ result' \in {"error", "panic"}
    BY <1>5, ReturnHolds DEF StageFails, FileExistsPanics, Results
  <2> QED BY <1>5, <2>1, <2>2, EndKeepsInv DEF StageFails, FileExistsPanics
<1>6. CASE \/ ParseFails \/ VersionFails \/ VersionPanics
           \/ SecretPlanRefused \/ MachinePoolFails
  <2>1. HeldType' /\ EndInv' /\ pc' = "return" /\ result' \in {"error", "panic"}
    BY <1>6, ReturnHolds DEF ParseFails, VersionFails, VersionPanics, SecretPlanRefused,
       MachinePoolFails, Results, StageSet
  <2>2. UNCHANGED <<sources, counters, local, node>> /\ faults \in 0 .. MaxFaults
    BY <1>6 DEF ParseFails, VersionFails, VersionPanics, SecretPlanRefused, MachinePoolFails,
       ApplyInv, TypeOK
  <2> QED BY <2>1, <2>2, EndKeepsInv DEF counters
<1>7. CASE Kill \/ ValidateFatal
  <2>1. /\ pc' \in {"fatal", "killed"} /\ ssh' = FALSE
        /\ UNCHANGED <<sources, runs, edits, local, clone, deferred, result, abandoned, node>>
    BY <1>7 DEF Kill, ValidateFatal, counters
  <2>2. faults' \in 0 .. MaxFaults
    BY <1>7, FaultsInRange DEF Kill, ValidateFatal, counters, ApplyInv, TypeOK
  <2>3. HeldType' /\ EndInv'
    BY <2>1 DEF ApplyInv, TypeOK, HeldType, EndInv, Running, Ends, Results, ViewStages
  <2> QED BY <2>1, <2>2, <2>3, EndKeepsInv
<1>8. CASE ReadCluster \/ ReadMachines \/ Parse \/ Version
  BY <1>8, ReadKeepsInv
<1>9. CASE Unparse \/ CreateSecretPlan \/ CreateMachinePool
  BY <1>9, SeedKeepsInv
<1>10. CASE (\E r : ApplySecretResource(r)) \/ ApplySeedNode \/ ApplyDone
  BY <1>10, PlanKeepsInv
<1>11. CASE ApplyFails
  BY <1>11, FailureKeepsInv
<1>12. CASE UNCHANGED vars
  <2>1. UNCHANGED <<cluster, machines, runs, edits, faults, params, read, eic, seed, applied,
                    seeded, pc, clone, ssh, deferred, result, abandoned, node>>
    BY <1>12 DEF vars, sources, counters, local, held
  <2>2. TypeOK' /\ StageInv'
    BY <2>1 DEF ApplyInv, TypeOK, StageInv, FirstSeed
  <2>3. NodeInv' /\ GitInv' /\ EndInv'
    BY <2>1 DEF ApplyInv, NodeInv, Succeeding, PemFilesPrivate, SupportDone, GitInv, sources,
       EndInv, Running
  <2> QED BY <2>2, <2>3 DEF ApplyInv
<1>13. CASE Validate
  BY <1>13, ValidateKeepsInv
<1>14. ASSUME NEW s, PassView(s) \/ ViewDone PROVE ApplyInv'
  BY <1>14, ViewKeepsInv
<1>15. CASE CloseSSH \/ RemoveClone \/ RemoveCloneFails \/ Returned
  BY <1>15, DeferredKeepsInv
<1> QED BY StageOrder, <1>1, <1>2, <1>3, <1>4, <1>5, <1>6, <1>7, <1>8, <1>9, <1>10, <1>11, <1>12,
           <1>13, <1>14, <1>15
        DEF Next, Finished

\* The inductive invariant holds in every behaviour of wksctl apply.
THEOREM InvHolds == Spec => []ApplyInv
BY InvInit, InvStep, PTL DEF Spec

\* Every variable keeps its type.
THEOREM TypeCorrect == Spec => []TypeOK
<1>1. ApplyInv => TypeOK
  BY DEF ApplyInv
<1> QED BY <1>1, InvHolds, PTL

\* No PEM file is ever on the node outside of a private directory, however
\* many runs have failed before and wherever.
THEOREM PemFilesAlwaysPrivate == Spec => []PemFilesPrivate
<1>1. ApplyInv => PemFilesPrivate
  BY DEF ApplyInv, NodeInv
<1> QED BY <1>1, InvHolds, PTL

\* When the command returns or panics, wherever, the connection is closed, and a
\* clone stays only if a call to remove it failed or nothing was left to make one.
THEOREM NothingEverLeftByReturn == Spec => []NothingLeftByReturn
<1>1. ApplyInv => NothingLeftByReturn
  BY DEF ApplyInv, EndInv, NothingLeftByReturn, Running, Ends, Results
<1> QED BY <1>1, InvHolds, PTL

\* The key and the version of what is installed are those asked for, and a
\* successful apply has installed every file of every secret.
THEOREM AlwaysInstalledAsAsked == Spec => []InstalledAsAsked
<1>1. ASSUME ApplyInv PROVE InstalledAsAsked
  <2>1. seeded => /\ node.seed.key = params.sshKeyPath
                  /\ node.seed.eic.sshKeyPath = None /\ node.seed.manifest.sshKeyPath = None
    <3>1. seeded => node.seed = RunsPlan(read, params, runs)
      BY <1>1 DEF ApplyInv, NodeInv
    <3> QED BY <3>1 DEF RunsPlan, ClusterWithVersion
  <2>2. node.seed # None => /\ node.seed.eic.version \in Versions
                            /\ node.seed.eic.version = node.seed.manifest.version
    <3>1. ASSUME node.seed # None
          PROVE  \E p, n : node.seed = RunsPlan(node.from, p, n)
      BY <1>1, <3>1 DEF ApplyInv, NodeInv
    <3>2. node.seed # None => ClusterWithVersion(node.from).version \in Versions
      BY <1>1 DEF ApplyInv, NodeInv
    <3>3. ASSUME NEW p, NEW n, node.seed = RunsPlan(node.from, p, n)
          PROVE  /\ node.seed.eic = ClusterWithVersion(node.from)
                 /\ node.seed.manifest = ClusterWithVersion(node.from)
      BY <3>3 DEF RunsPlan
    <3> QED BY <3>1, <3>2, <3>3
  <2>3. ASSUME pc = "ok", ~params.view,
               NEW s \in {node.seed.manifest.authn, node.seed.manifest.authz} \ {None}
        PROVE  {s} \X (PemKeys \union {"config"}) \subseteq node.files
    <3>1. node.seed = seed /\ seed = RunsPlan(read, params, runs) /\ SupportDone
      BY <1>1, <2>3 DEF ApplyInv, NodeInv, Succeeding
    <3>2. s \in Auth(seed.eic)
      BY <2>3, <3>1 DEF RunsPlan, Auth
    <3>3. Installs(seed.eic) \subseteq applied
      BY <3>1, <3>2 DEF SupportDone, SecretPlan
    <3>4. {s} \X (PemKeys \union {"config"}) \subseteq Installs(seed.eic)
      BY <3>2 DEF Installs
    <3> QED BY <1>1, <3>3, <3>4 DEF ApplyInv, NodeInv
  <2> QED BY <2>1, <2>2, <2>3 DEF InstalledAsAsked
<1> QED BY <1>1, InvHolds, PTL

\* A run from a Git repository installs what it has validated.
THEOREM AlwaysInstalledAsValidated == Spec => []InstalledAsValidated
<1>1. ASSUME ApplyInv, params.git, seeded PROVE InstalledAsValidated
  <2>0. node.seed = RunsPlan(node.from, params, runs)
    BY <1>1 DEF ApplyInv, NodeInv
  <2>1. /\ node.from.spec = <<node.from.cluster, node.from.machines>>
        /\ node.seed.spec = node.from.spec
        /\ node.from.cluster.form = "valid" /\ ValidMachines(node.from.machines)
    BY <1>1, <2>0 DEF ApplyInv, NodeInv, GitInv, RunsPlan, BothValid
  <2>2. node.seed.eic.version = PickVersion(ClusterRead(node.from), node.from.machines)
    BY <2>0 DEF RunsPlan, ClusterWithVersion
  <2>3. node.from.cluster.version = None =>
          node.seed.eic.version = node.from.machines.list[1].version
    BY <2>2 DEF PickVersion, ClusterRead
  <2> QED BY <2>1, <2>3 DEF InstalledAsValidated, ValidMachines, SameVersions
<1>2. ApplyInv => InstalledAsValidated
  BY <1>1 DEF InstalledAsValidated
<1> QED BY <1>2, InvHolds, PTL

\* The manifests and the flags determine what is installed, but for the token
\* and the key: where the key is kept and what the runs before did does not.
THEOREM SameManifestsAlwaysSamePlan == Spec => SameManifestsSamePlan
<1> DEFINE Same == (/\ node.seed # None /\ node'.from = node.from
                    /\ node'.seed.flags = node.seed.flags) =>
                     \A f \in DOMAIN node.seed \ {"key", "token"} :
                       node'.seed[f] = node.seed[f]
<1>1. ASSUME ApplyInv, ApplyInv', [Next]_vars PROVE [Same]_vars
  <2> SUFFICES ASSUME node.seed # None, node'.from = node.from,
                      node'.seed.flags = node.seed.flags
               PROVE  \A f \in DOMAIN node.seed \ {"key", "token"} :
                        node'.seed[f] = node.seed[f]
    OBVIOUS
  <2>1. PICK p \in Flags, n \in 0 .. NumRuns : node.seed = RunsPlan(node.from, p, n)
    BY <1>1 DEF ApplyInv, NodeInv
  <2>2. node'.seed = node.seed \/ (pc = "apply" /\ node' = NodeSeeded)
    <3>1. node' = node \/ (pc = "apply" /\ node' = NodeSeeded)
          \/ \E r \in Ready(SecretPlan(seed.eic), applied) : node' = NodeAfter(r)
      BY <1>1 DEF Next, vars, Begin, Edit, PassQuiet, PassView, ViewDone, CloseSSH, RemoveClone,
         RemoveCloneFails, Returned, StageFails, FileExistsPanics, MakeCloneDir, Clone, Validate,
         ValidateFatal, Connect, ReadCluster, ReadMachines, Parse, ParseFails, Version,
         VersionFails, VersionPanics, Unparse, CreateSecretPlan, SecretPlanRefused,
         CreateMachinePool, MachinePoolFails, ApplySecretResource, ApplySeedNode, ApplyFails,
         ApplyDone, Return, Kill, Finished
    <3> QED BY <1>1, <3>1, SecretResource
  <2>3. CASE pc = "apply" /\ node' = NodeSeeded
    <3>1. node'.seed = seed /\ node'.from = read
      BY <1>1, <2>3 DEF NodeSeeded, ApplyInv, TypeOK, NodeType
    <3>2. node'.seed = RunsPlan(node.from, params, runs)
      BY <1>1, <2>3, <3>1, SeedNode
    <3> QED BY <2>1, <3>2 DEF RunsPlan
  <2>4. CASE node'.seed = node.seed
    BY <2>4
  <2> QED BY <2>2, <2>3, <2>4
<1> QED BY <1>1, InvHolds, PTL DEF Spec, SameManifestsSamePlan
================================================================================
