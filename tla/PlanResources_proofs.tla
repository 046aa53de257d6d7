------------------------- MODULE PlanResources_proofs --------------------------
(***************************************************************************)
(* Theorems about PlanResources, for all config maps, addons and nodes and *)
(* every number of runs and faults.                                        *)
(***************************************************************************)
EXTENDS PlanResources, FiniteSetTheorems, TLAPS

\* What it means for a resource that it has been applied.
Done(r) ==
  /\ r \in Applies => r \in objects
  /\ r = CRDs => established
  /\ r = Wait => workload = "ready"
  /\ r = Annotate => annotated # {}

\* What a run is about, in each stage.
StageInv ==
  /\ Running => run \in 1 .. NumRuns
  /\ pc \in {"content", "apply", "await"} => current \in Applies
  /\ pc \in {"put", "rm"} => current \in Applies \union {Annotate}
  /\ pc \in {"list", "annotate"} => current = Annotate
  /\ pc \in {"get", "wait"} => current = Wait
  /\ pc = "await" => current \in objects
  /\ pc = "ok" => applied = Resources

\* What is applied is done, and what is about to be applied has all it needs.
DoneInv ==
  /\ \A r \in applied : Done(r)
  /\ pc = "rm" /\ ~err => Done(current)
  /\ current # None => Plan[current] \subseteq applied

\* The manifests of an addon reach the cluster in order.
OrderInv ==
  \A r \in objects \intersect AddonResources : \A j \in 1 .. (r[2][2] - 1) :
    <<"addon", <<r[2][1], j>>>> \in objects

\* Errors have reasons.
ReasonInv ==
  /\ err \/ pc = "failed" => reasons # {}
  /\ lost => "fault" \in reasons

\* A run that met no fault has at most the file of its current resource.
FilesInv ==
  /\ \A f \in tmp : f[1] <= run
  /\ "fault" \notin reasons /\ pc # "killed" =>
       \A f \in tmp : f[1] = run =>
         f = MyFile /\ pc \in {"apply", "await", "annotate", "rm"}

\* The seed node is the first, and the only one a run has gone on with.
NodesInv ==
  /\ IsFiniteSet(nodes)
  /\ nodes # {} => Seed \in nodes
  /\ listed \subseteq {Seed}
  /\ annotated \subseteq {Seed}

PlanInv ==
  /\ TypeOK /\ StageInv /\ DoneInv /\ OrderInv /\ ReasonInv /\ FilesInv /\ NodesInv

--------------------------------------------------------------------------------
\* The plan has an edge from every manifest to the custom resource definitions,
\* and from every manifest of an addon to the one before.
LEMMA PlanFacts ==
  /\ DOMAIN Plan = Resources
  /\ \A r \in Applies \ {CRDs} : CRDs \in Plan[r]
  /\ \A r \in AddonResources :
       /\ r[2][2] \in Nat \ {0}
       /\ r[2][2] # 1 =>
            /\ <<"addon", <<r[2][1], r[2][2] - 1>>>> \in AddonResources
            /\ <<"addon", <<r[2][1], r[2][2] - 1>>>> \in Plan[r]
  /\ \A r \in Resources : r[1] = "addon" => r \in AddonResources
<1> USE PlanResourcesAssumption DEF CRDs, Wait, Annotate
<1>1. DOMAIN AddonPlan = AddonResources
  BY DEF AddonPlan
<1>2. DOMAIN Plan = Resources
  BY <1>1 DEF Plan, Resources
<1>3. ASSUME NEW r \in AddonResources
      PROVE  /\ r = <<"addon", r[2]>>
             /\ r[2][1] \in Addons /\ r[2][2] \in 1 .. Manifests[r[2][1]]
             /\ r[2][2] \in Nat \ {0}
  <2>1. PICK a \in Addons : r \in {"addon"} \X {<<a, i>> : i \in 1 .. Manifests[a]}
    BY <1>3 DEF AddonResources
  <2>2. PICK i \in 1 .. Manifests[a] : r = <<"addon", <<a, i>>>>
    BY <2>1
  <2>3. Manifests[a] \in Nat
    OBVIOUS
  <2>4. QED
    BY <2>2, <2>3
<1>4. \A a \in Addons : \A i \in 1 .. Manifests[a] : <<"addon", <<a, i>>>> \in AddonResources
  BY DEF AddonResources
<1>5. ASSUME NEW r \in DOMAIN ConfigMapPlan
      PROVE  r[1] = "config-map"
  BY DEF ConfigMapPlan
<1>6. ASSUME NEW r \in AddonResources
      PROVE  Plan[r] = {CRDs} \union AddonPlan[r]
  <2>1. r \notin DOMAIN ConfigMapPlan
    BY <1>3, <1>5
  <2>2. r # CRDs /\ r # Wait /\ r # Annotate
    BY <1>3
  <2>3. r \in DOMAIN Plan
    BY <1>2 DEF Resources
  <2>4. QED
    BY <2>1, <2>2, <2>3 DEF Plan
<1>7. ASSUME NEW r \in DOMAIN ConfigMapPlan
      PROVE  Plan[r] = {CRDs} \union ConfigMapPlan[r]
  <2>1. r # CRDs /\ r # Wait /\ r # Annotate
    BY <1>5
  <2>2. r \in DOMAIN Plan
    BY <1>2 DEF Resources
  <2>3. QED
    BY <2>1, <2>2 DEF Plan
<1>8. \A r \in Applies \ {CRDs} : CRDs \in Plan[r]
  BY <1>6, <1>7 DEF Applies, Resources
<1>9. ASSUME NEW r \in AddonResources, r[2][2] # 1
      PROVE  /\ <<"addon", <<r[2][1], r[2][2] - 1>>>> \in AddonResources
             /\ <<"addon", <<r[2][1], r[2][2] - 1>>>> \in Plan[r]
  <2>1. Manifests[r[2][1]] \in Nat
    BY <1>3
  <2>2. r[2][2] - 1 \in 1 .. Manifests[r[2][1]]
    BY <1>3, <1>9, <2>1
  <2>3. <<"addon", <<r[2][1], r[2][2] - 1>>>> \in AddonPlan[r]
    BY <1>9 DEF AddonPlan
  <2>4. QED
    BY <1>3, <1>4, <1>6, <2>2, <2>3
<1>10. \A r \in Resources : r[1] = "addon" => r \in AddonResources
  BY <1>5 DEF Resources
<1>11. QED
  BY <1>2, <1>3, <1>8, <1>9, <1>10

--------------------------------------------------------------------------------
\* The cluster takes every manifest a run applies: those it needs are there.
LEMMA CurrentAccepted ==
  ASSUME TypeOK, StageInv, DoneInv, OrderInv, pc = "apply"
  PROVE  Accepts(current)
<1>1. current \in Applies /\ current \in Resources /\ current # None
  BY DEF StageInv, Applies, Resources, None, CRDs, Wait, Annotate, ConfigMapPlan,
         AddonResources
<1>2. Plan[current] \subseteq applied
  BY <1>1 DEF DoneInv
<1>3. current # CRDs => established
  BY <1>1, <1>2, PlanFacts DEF DoneInv, Done
<1>4. ASSUME current[1] = "addon",
             NEW i \in 1 .. (current[2][2] - 1)
      PROVE  <<"addon", <<current[2][1], i>>>> \in objects
  <2> DEFINE previous == <<"addon", <<current[2][1], current[2][2] - 1>>>>
  <2>1. current \in AddonResources /\ current[2][2] \in Nat \ {0}
    BY <1>1, <1>4, PlanFacts
  <2>2. previous \in AddonResources /\ previous \in applied
    BY <1>2, <1>4, <2>1, PlanFacts
  <2>3. previous \in objects
    BY <2>2 DEF DoneInv, Done, Applies, Resources, Wait, Annotate, AddonResources
  <2>4. CASE i = current[2][2] - 1
    BY <2>3, <2>4
  <2>5. CASE i # current[2][2] - 1
    <3>1. i \in 1 .. (previous[2][2] - 1)
      BY <2>1, <2>5
    <3>2. QED
      BY <2>2, <2>3, <3>1 DEF OrderInv
  <2>6. QED
    BY <2>4, <2>5
<1>5. QED
  BY <1>3, <1>4 DEF Accepts

\* What the failures may have done.
LEMMA EffectCases ==
  ASSUME NEW s, Effect(s)
  PROVE  \/ UNCHANGED cluster
         \/ /\ s = "apply" /\ Accepts(current)
            /\ objects' = objects \union {current}
            /\ UNCHANGED <<established, workload, nodes, annotated>>
         \/ /\ s = "annotate" /\ Annotatable(NodeName(listed))
            /\ annotated' = annotated \union {NodeName(listed)}
            /\ UNCHANGED <<objects, established, workload, nodes>>
BY DEF Effect, cluster

--------------------------------------------------------------------------------
\* Types, stage by stage.
LEMMA TypeStep ==
  ASSUME TypeOK, StageInv, [Next]_vars
  PROVE  TypeOK'
<1> USE PlanResourcesAssumption DEF Goto, Fault, Running, Ends, local, cluster, Error, Applied
<1>1. CASE Begin
  <2>1. run' \in 0 .. NumRuns /\ faults' \in 0 .. MaxFaults
    BY <1>1 DEF Begin, TypeOK
  <2>2. QED
    BY <1>1, <2>1 DEF Begin, TypeOK
<1>2. ASSUME NEW r \in DOMAIN Plan, Choose(r)
      PROVE  TypeOK'
  BY <1>2, PlanFacts DEF Choose, TypeOK
<1>3. CASE Finish \/ Content
  BY <1>3 DEF Finish, Content, TypeOK
<1>4. CASE Put
  <2>1. MyFile \in (1 .. NumRuns) \X (Applies \union {Annotate})
    BY <1>4 DEF Put, StageInv, MyFile
  <2>2. QED
    BY <1>4, <2>1 DEF Put, TypeOK
<1>5. CASE KubectlApply
  BY <1>5 DEF KubectlApply, AfterApply, StageInv, TypeOK
<1>6. CASE Established \/ NotEstablished
  BY <1>6 DEF Established, NotEstablished, TypeOK
<1>7. CASE Rm \/ LostRm
  <2>1. current \in Resources
    BY <1>7 DEF Rm, LostRm, StageInv, Applies, Resources
  <2>2. QED
    BY <1>7, <2>1 DEF Rm, LostRm, AfterRm, FilesWithout, TypeOK
<1>8. CASE Get \/ AskAgain \/ WaitTimesOut
  BY <1>8 DEF Get, AskAgain, WaitTimesOut, AfterTimeout, TypeOK, vars
<1>9. CASE Waited
  <2>1. current \in Resources
    BY <1>9 DEF Waited, StageInv, Resources
  <2>2. QED
    BY <1>9, <2>1 DEF Waited, TypeOK
<1>10. CASE List \/ SeveralNodes
  BY <1>10 DEF List, SeveralNodes, TypeOK
<1>11. CASE KubectlAnnotate
  BY <1>11 DEF KubectlAnnotate, Annotatable, TypeOK
<1>12. CASE KubectlAnnotateRejects
  BY <1>12 DEF KubectlAnnotateRejects, TypeOK
<1>13. ASSUME NEW s, CommandFails(s)
       PROVE  TypeOK'
  <2>1. tmp' \subseteq (1 .. NumRuns) \X (Applies \union {Annotate})
    <3>1. s = "put" => MyFile \in (1 .. NumRuns) \X (Applies \union {Annotate})
      BY <1>13 DEF CommandFails, StageInv, MyFile
    <3>2. QED
      BY <1>13, <3>1 DEF CommandFails, TypeOK
  <2>2. /\ objects' \subseteq Applies /\ established' \in BOOLEAN
        /\ workload' \in {"absent", "started", "ready"}
        /\ nodes' \subseteq Nodes /\ annotated' \subseteq Nodes
    BY <1>13, EffectCases DEF CommandFails, StageInv, TypeOK, Annotatable
  <2>3. QED
    BY <1>13, <2>1, <2>2 DEF CommandFails, AfterError, TypeOK
<1>14. CASE RmFails
  <2>1. current \in Resources
    BY <1>14 DEF RmFails, StageInv, Applies, Resources
  <2>2. faults' \in 0 .. MaxFaults
    BY <1>14 DEF RmFails, TypeOK
  <2>3. applied' \subseteq Resources /\ current' \in Resources \union {None}
    BY <1>14, <2>1 DEF RmFails, TypeOK
  <2>4. QED
    BY <1>14, <2>2, <2>3 DEF RmFails, AfterRm, TypeOK
<1>15. CASE Lose \/ Kill
  <2>1. faults' \in 0 .. MaxFaults
    BY <1>15 DEF Lose, Kill, TypeOK
  <2>2. QED
    BY <1>15, <2>1 DEF Lose, Kill, TypeOK
<1>16. ASSUME NEW s, LostCommand(s)
       PROVE  TypeOK'
  BY <1>16 DEF LostCommand, AfterError, TypeOK
<1>17. ASSUME NEW n \in Nodes, Join(n)
       PROVE  TypeOK'
  BY <1>17 DEF Join, TypeOK
<1>18. CASE Establish \/ Start \/ GetReady
  BY <1>18 DEF Establish, Start, GetReady, TypeOK
<1>19. CASE Finished \/ UNCHANGED vars
  BY <1>19 DEF Finished, TypeOK, vars
<1>20. QED
  BY <1>1, <1>2, <1>3, <1>4, <1>5, <1>6, <1>7, <1>8, <1>9, <1>10, <1>11, <1>12,
     <1>13, <1>14, <1>15, <1>16, <1>17, <1>18, <1>19 DEF Next, Progress

\* The stages.
LEMMA StageStep ==
  ASSUME TypeOK, StageInv, [Next]_vars
  PROVE  StageInv'
<1> USE PlanResourcesAssumption DEF Goto, Running, Ends, local, cluster, Error, Applied
<1>1. CASE Begin
  BY <1>1 DEF Begin, StageInv, TypeOK
<1>2. ASSUME NEW r \in DOMAIN Plan, Choose(r)
      PROVE  StageInv'
  <2>1. r \in Resources
    BY PlanFacts
  <2>2. CASE r = Wait
    BY <1>2, <2>2 DEF Choose, StageInv, Wait, Annotate
  <2>3. CASE r = Annotate
    BY <1>2, <2>3 DEF Choose, StageInv, Wait, Annotate
  <2>4. CASE r \in Applies
    BY <1>2, <2>4 DEF Choose, StageInv, Applies
  <2>5. QED
    BY <2>1, <2>2, <2>3, <2>4 DEF Applies
<1>3. CASE Finish
  BY <1>3, PlanFacts DEF Finish, StageInv
<1>4. CASE Content \/ Established \/ NotEstablished
  BY <1>4 DEF Content, Established, NotEstablished, StageInv
<1>5. CASE Put
  BY <1>5 DEF Put, StageInv
<1>6. CASE KubectlApply
  BY <1>6 DEF KubectlApply, AfterApply, StageInv
<1>7. CASE Rm \/ LostRm \/ RmFails
  BY <1>7 DEF Rm, LostRm, RmFails, AfterRm, StageInv
<1>8. CASE Get \/ Waited \/ WaitTimesOut
  BY <1>8 DEF Get, Waited, WaitTimesOut, AfterTimeout, StageInv
<1>9. CASE List \/ SeveralNodes
  BY <1>9 DEF List, SeveralNodes, StageInv
<1>10. CASE KubectlAnnotate \/ KubectlAnnotateRejects
  BY <1>10 DEF KubectlAnnotate, KubectlAnnotateRejects, StageInv
<1>11. ASSUME NEW s, CommandFails(s) \/ LostCommand(s)
       PROVE  StageInv'
  BY <1>11 DEF CommandFails, LostCommand, AfterError, StageInv
<1>12. CASE Lose \/ Kill
  BY <1>12 DEF Lose, Kill, StageInv
<1>13. CASE AskAgain \/ Finished \/ UNCHANGED vars
  BY <1>13 DEF AskAgain, Finished, StageInv, vars
<1>14. ASSUME NEW n \in Nodes, Join(n)
       PROVE  StageInv'
  BY <1>14 DEF Join, StageInv
<1>15. CASE Establish \/ Start \/ GetReady
  BY <1>15 DEF Establish, Start, GetReady, StageInv
<1>16. QED
  BY <1>1, <1>2, <1>3, <1>4, <1>5, <1>6, <1>7, <1>8, <1>9, <1>10, <1>11, <1>12,
     <1>13, <1>14, <1>15 DEF Next, Progress

\* Nothing the cluster has got is ever lost.
LEMMA DoneStays ==
  ASSUME TypeOK, [Next]_vars, NEW r, Done(r)
  PROVE  Done(r)'
<1> USE DEF Goto, local, cluster, Error, Applied
<1>1. /\ objects \subseteq objects'
      /\ established => established'
      /\ workload = "ready" => workload' = "ready"
      /\ annotated \subseteq annotated'
  <2>1. CASE \/ Begin \/ Finish \/ Content \/ Put \/ Established \/ NotEstablished
             \/ Rm \/ LostRm \/ RmFails \/ Get \/ Waited \/ WaitTimesOut
    BY <2>1 DEF Begin, Finish, Content, Put, Established, NotEstablished, Rm, LostRm,
                RmFails, Get, Waited, WaitTimesOut
  <2>2. CASE \/ List \/ SeveralNodes \/ KubectlAnnotateRejects \/ Lose \/ Kill
             \/ AskAgain \/ Finished \/ UNCHANGED vars
    BY <2>2 DEF List, SeveralNodes, KubectlAnnotateRejects, Lose, Kill,
                AskAgain, Finished, vars
  <2>3. CASE KubectlApply \/ KubectlAnnotate
    BY <2>3 DEF KubectlApply, KubectlAnnotate
  <2>4. ASSUME NEW q \in DOMAIN Plan, Choose(q)
        PROVE  UNCHANGED cluster
    BY <2>4 DEF Choose
  <2>5. ASSUME NEW s, CommandFails(s)
        PROVE  /\ objects \subseteq objects' /\ annotated \subseteq annotated'
               /\ UNCHANGED <<established, workload>>
    BY <2>5, EffectCases DEF CommandFails
  <2>6. ASSUME NEW s, LostCommand(s)
        PROVE  UNCHANGED cluster
    BY <2>6 DEF LostCommand
  <2>7. ASSUME NEW n \in Nodes, Join(n)
        PROVE  UNCHANGED <<objects, established, workload, annotated>>
    BY <2>7 DEF Join
  <2>8. CASE Establish \/ Start \/ GetReady
    BY <2>8 DEF Establish, Start, GetReady
  <2>9. QED
    BY <2>1, <2>2, <2>3, <2>4, <2>5, <2>6, <2>7, <2>8 DEF Next, Progress
<1>2. QED
  BY <1>1 DEF Done

\* What is applied stays done, and no resource is applied before it is.
LEMMA DoneStep ==
  ASSUME TypeOK, StageInv, DoneInv, OrderInv, [Next]_vars
  PROVE  DoneInv'
<1> USE DEF Goto, local, cluster, Error, Applied
<1>1. \A r : Done(r) => Done(r)'
  BY DoneStays
<1>2. \A r \in applied : Done(r)'
  BY <1>1 DEF DoneInv
<1>3. CASE Begin
  BY <1>3 DEF Begin, DoneInv, None
<1>4. ASSUME NEW r \in DOMAIN Plan, Choose(r)
      PROVE  DoneInv'
  BY <1>2, <1>4 DEF Choose, Ready, DoneInv
<1>5. CASE \/ Finish \/ Content \/ Put \/ Get \/ List \/ SeveralNodes \/ WaitTimesOut
  BY <1>2, <1>5 DEF Finish, Content, Put, Get, List, SeveralNodes, WaitTimesOut,
                    AfterTimeout, DoneInv
<1>6. CASE KubectlApply
  <2>1. Accepts(current)
    BY <1>6, CurrentAccepted DEF KubectlApply
  <2>2. pc' = "rm" => Done(current)'
    <3>1. current' \in objects' /\ current' # Wait /\ current' # Annotate
      BY <1>6, <2>1 DEF KubectlApply, StageInv, Applies
    <3>2. pc' = "rm" => current' # CRDs
      BY <1>6, <2>1 DEF KubectlApply, AfterApply, HasWaitCondition
    <3>3. QED
      BY <3>1, <3>2 DEF Done
  <2>3. QED
    BY <1>2, <1>6, <2>1, <2>2 DEF KubectlApply, DoneInv
<1>7. CASE Established
  <2>1. Done(current)
    BY <1>7 DEF Established, StageInv, Done, Applies
  <2>2. QED
    BY <1>1, <1>2, <1>7, <2>1 DEF Established, DoneInv
<1>8. CASE NotEstablished \/ KubectlAnnotateRejects
  BY <1>2, <1>8 DEF NotEstablished, KubectlAnnotateRejects, DoneInv
<1>9. CASE KubectlAnnotate
  <2>1. Done(current)'
    BY <1>9 DEF KubectlAnnotate, StageInv, Done, Applies, Annotate, Wait, CRDs
  <2>2. QED
    BY <1>2, <1>9, <2>1 DEF KubectlAnnotate, DoneInv
<1>10. CASE Rm \/ LostRm \/ RmFails
  <2>1. \A r : r = current /\ ~err => Done(r)'
    BY <1>1, <1>10 DEF Rm, LostRm, RmFails, DoneInv
  <2>2. pc' # "rm"
    BY <1>10 DEF Rm, LostRm, RmFails, AfterRm
  <2>3. CASE err
    BY <1>2, <1>10, <2>2, <2>3 DEF Rm, LostRm, RmFails, DoneInv
  <2>4. CASE ~err
    BY <1>2, <1>10, <2>1, <2>2, <2>4 DEF Rm, LostRm, RmFails, DoneInv
  <2>5. QED
    BY <2>3, <2>4
<1>11. CASE Waited
  <2>1. Done(current)
    BY <1>11 DEF Waited, StageInv, Done, Applies, Wait, Annotate, CRDs
  <2>2. QED
    BY <1>1, <1>2, <1>11, <2>1 DEF Waited, DoneInv
<1>12. ASSUME NEW s, CommandFails(s) \/ LostCommand(s)
       PROVE  DoneInv'
  BY <1>2, <1>12 DEF CommandFails, LostCommand, AfterError, DoneInv
<1>13. CASE Lose \/ Kill
  BY <1>1, <1>2, <1>13 DEF Lose, Kill, DoneInv
<1>14. CASE AskAgain \/ Finished \/ UNCHANGED vars
  BY <1>1, <1>2, <1>14 DEF AskAgain, Finished, DoneInv, vars
<1>15. ASSUME NEW n \in Nodes, Join(n)
       PROVE  DoneInv'
  BY <1>1, <1>2, <1>15 DEF Join, DoneInv
<1>16. CASE Establish \/ Start \/ GetReady
  BY <1>1, <1>2, <1>16 DEF Establish, Start, GetReady, DoneInv
<1>17. QED
  BY <1>3, <1>4, <1>5, <1>6, <1>7, <1>8, <1>9, <1>10, <1>11, <1>12, <1>13, <1>14,
     <1>15, <1>16 DEF Next, Progress

\* The cluster never takes a manifest before those it needs.
LEMMA OrderStep ==
  ASSUME TypeOK, StageInv, OrderInv, [Next]_vars
  PROVE  OrderInv'
<1> USE DEF Goto, local, cluster, Error, Applied
<1>1. \/ UNCHANGED objects
      \/ Accepts(current) /\ objects' = objects \union {current}
  <2>1. CASE \/ Begin \/ Finish \/ Content \/ Put \/ Established \/ NotEstablished
             \/ Rm \/ LostRm \/ RmFails \/ Get \/ Waited \/ WaitTimesOut
    BY <2>1 DEF Begin, Finish, Content, Put, Established, NotEstablished, Rm, LostRm,
                RmFails, Get, Waited, WaitTimesOut
  <2>2. CASE \/ List \/ SeveralNodes \/ KubectlAnnotate \/ KubectlAnnotateRejects
             \/ Lose \/ Kill \/ AskAgain \/ Finished \/ UNCHANGED vars
    BY <2>2 DEF List, SeveralNodes, KubectlAnnotate, KubectlAnnotateRejects,
                Lose, Kill, AskAgain, Finished, vars
  <2>3. CASE KubectlApply
    BY <2>3 DEF KubectlApply
  <2>4. ASSUME NEW q \in DOMAIN Plan, Choose(q)
        PROVE  UNCHANGED objects
    BY <2>4 DEF Choose
  <2>5. ASSUME NEW s, CommandFails(s)
        PROVE  \/ UNCHANGED objects
               \/ Accepts(current) /\ objects' = objects \union {current}
    BY <2>5, EffectCases DEF CommandFails
  <2>6. ASSUME NEW s, LostCommand(s)
        PROVE  UNCHANGED objects
    BY <2>6 DEF LostCommand
  <2>7. ASSUME NEW n \in Nodes, Join(n)
        PROVE  UNCHANGED objects
    BY <2>7 DEF Join
  <2>8. CASE Establish \/ Start \/ GetReady
    BY <2>8 DEF Establish, Start, GetReady
  <2>9. QED
    BY <2>1, <2>2, <2>3, <2>4, <2>5, <2>6, <2>7, <2>8 DEF Next, Progress
<1>2. ASSUME Accepts(current), current \in AddonResources
      PROVE  \A j \in 1 .. (current[2][2] - 1) : <<"addon", <<current[2][1], j>>>> \in objects
  <2>1. current[1] = "addon"
    BY <1>2 DEF AddonResources
  <2>2. QED
    BY <1>2, <2>1 DEF Accepts
<1>3. QED
  <2>1. CASE UNCHANGED objects
    BY <2>1 DEF OrderInv
  <2>2. CASE Accepts(current) /\ objects' = objects \union {current}
    <3>1. ASSUME NEW r \in objects' \intersect AddonResources, NEW j \in 1 .. (r[2][2] - 1)
          PROVE  <<"addon", <<r[2][1], j>>>> \in objects
      BY <1>2, <2>2, <3>1 DEF OrderInv
    <3>2. QED
      BY <2>2, <3>1 DEF OrderInv
  <2>3. QED
    BY <1>1, <2>1, <2>2

\* Errors have reasons.
LEMMA ReasonStep ==
  ASSUME TypeOK, StageInv, DoneInv, OrderInv, ReasonInv, [Next]_vars
  PROVE  ReasonInv'
<1> USE DEF Goto, local, cluster, Error, Applied, Running, Ends
<1>1. CASE KubectlApply
  BY <1>1, CurrentAccepted DEF KubectlApply, ReasonInv, AfterApply
<1>2. CASE \/ Begin \/ Finish \/ Content \/ Put \/ Established \/ NotEstablished
  BY <1>2 DEF Begin, Finish, Content, Put, Established, NotEstablished, ReasonInv
<1>3. CASE Rm \/ LostRm \/ RmFails
  BY <1>3 DEF Rm, LostRm, RmFails, AfterRm, ReasonInv
<1>4. CASE Get \/ Waited \/ WaitTimesOut \/ List \/ SeveralNodes
  BY <1>4 DEF Get, Waited, WaitTimesOut, List, SeveralNodes, ReasonInv
<1>5. CASE KubectlAnnotate \/ KubectlAnnotateRejects
  BY <1>5 DEF KubectlAnnotate, KubectlAnnotateRejects, ReasonInv
<1>6. CASE Lose \/ Kill
  BY <1>6 DEF Lose, Kill, ReasonInv
<1>7. CASE AskAgain \/ Finished \/ UNCHANGED vars
  BY <1>7 DEF AskAgain, Finished, ReasonInv, vars
<1>8. ASSUME NEW r \in DOMAIN Plan, Choose(r)
      PROVE  ReasonInv'
  BY <1>8 DEF Choose, ReasonInv
<1>9. ASSUME NEW s, CommandFails(s) \/ LostCommand(s)
      PROVE  ReasonInv'
  BY <1>9 DEF CommandFails, LostCommand, ReasonInv
<1>10. ASSUME NEW n \in Nodes, Join(n)
       PROVE  ReasonInv'
  BY <1>10 DEF Join, ReasonInv
<1>11. CASE Establish \/ Start \/ GetReady
  BY <1>11 DEF Establish, Start, GetReady, ReasonInv
<1>12. QED
  BY <1>1, <1>2, <1>3, <1>4, <1>5, <1>6, <1>7, <1>8, <1>9, <1>10, <1>11
     DEF Next, Progress

\* The files of a run, which has put its own there and nobody else's.
LEMMA FilesStep ==
  ASSUME TypeOK, StageInv, ReasonInv, FilesInv, [Next]_vars
  PROVE  FilesInv'
<1> USE DEF Goto, local, cluster, Error, Applied, MyFile
<1>1. run \in Nat /\ \A f \in tmp : f[1] \in Nat
  BY PlanResourcesAssumption DEF TypeOK
<1>2. CASE Begin
  <2>1. \A f \in tmp : f[1] <= run' /\ f[1] # run'
    BY <1>1, <1>2 DEF Begin, FilesInv
  <2>2. QED
    BY <1>2, <2>1 DEF Begin, FilesInv
<1>3. CASE Content \/ Finish \/ KubectlApply \/ Established \/ NotEstablished
  BY <1>3 DEF Content, Finish, KubectlApply, AfterApply, Established, NotEstablished, FilesInv
<1>4. CASE Put
  BY <1>1, <1>4 DEF Put, FilesInv
<1>5. CASE Rm
  BY <1>5 DEF Rm, AfterRm, FilesWithout, FilesInv
<1>6. CASE LostRm \/ RmFails
  BY <1>6 DEF LostRm, RmFails, ReasonInv, FilesInv
<1>7. CASE Get \/ Waited \/ WaitTimesOut \/ List \/ SeveralNodes
  BY <1>7 DEF Get, Waited, WaitTimesOut, AfterTimeout, List, SeveralNodes, FilesInv
<1>8. CASE KubectlAnnotate \/ KubectlAnnotateRejects
  BY <1>8 DEF KubectlAnnotate, KubectlAnnotateRejects, FilesInv
<1>9. CASE Lose \/ Kill
  BY <1>9 DEF Lose, Kill, FilesInv
<1>10. CASE AskAgain \/ Finished \/ UNCHANGED vars
  BY <1>10 DEF AskAgain, Finished, FilesInv, vars
<1>11. ASSUME NEW r \in DOMAIN Plan, Choose(r)
       PROVE  FilesInv'
  BY <1>11 DEF Choose, FilesInv
<1>12. ASSUME NEW s, CommandFails(s)
       PROVE  FilesInv'
  BY <1>1, <1>12 DEF CommandFails, FilesInv
<1>13. ASSUME NEW s, LostCommand(s)
       PROVE  FilesInv'
  BY <1>13 DEF LostCommand, ReasonInv, FilesInv
<1>14. ASSUME NEW n \in Nodes, Join(n)
       PROVE  FilesInv'
  BY <1>14 DEF Join, FilesInv
<1>15. CASE Establish \/ Start \/ GetReady
  BY <1>15 DEF Establish, Start, GetReady, FilesInv
<1>16. QED
  BY <1>2, <1>3, <1>4, <1>5, <1>6, <1>7, <1>8, <1>9, <1>10, <1>11, <1>12, <1>13,
     <1>14, <1>15 DEF Next, Progress

\* A single name is that of the seed node.
LEMMA SingleName ==
  ASSUME TypeOK, NodesInv
  PROVE  /\ NodeName(nodes) # "several" => nodes \subseteq {Seed}
         /\ Annotatable(NodeName(listed)) => NodeName(listed) = Seed
<1>1. ASSUME NodeName(nodes) # "several", NEW n \in nodes
      PROVE  n = Seed
  <2>1. Seed \in nodes /\ IsFiniteSet(nodes)
    BY <1>1 DEF NodesInv
  <2>2. ~(Cardinality(nodes) > 1)
    BY <1>1 DEF NodeName
  <2>3. SUFFICES ASSUME n # Seed
                 PROVE  FALSE
    OBVIOUS
  <2>4. Cardinality({n, Seed}) = 2
    <3>1. IsFiniteSet({Seed}) /\ Cardinality({Seed}) = 1
      BY FS_Singleton
    <3>2. {n, Seed} = {Seed} \union {n}
      OBVIOUS
    <3>3. QED
      BY <2>3, <3>1, <3>2, FS_AddElement
  <2>5. Cardinality({n, Seed}) <= Cardinality(nodes)
    BY <1>1, <2>1, FS_Subset
  <2>6. Cardinality(nodes) \in Nat
    BY <2>1, FS_CardinalityType
  <2>7. QED
    BY <2>2, <2>4, <2>5, <2>6
<1>2. ASSUME Annotatable(NodeName(listed))
      PROVE  NodeName(listed) = Seed
  <2>1. CASE listed = {}
    BY <1>2, <2>1, PlanResourcesAssumption DEF NodeName, Annotatable, TypeOK
  <2>2. CASE listed = {Seed}
    BY <2>2, FS_Singleton DEF NodeName
  <2>3. QED
    BY <2>1, <2>2 DEF NodesInv
<1>3. QED
  BY <1>1, <1>2

\* Only the seed node is ever listed alone.
LEMMA NodesStep ==
  ASSUME TypeOK, NodesInv, [Next]_vars
  PROVE  NodesInv'
<1> USE DEF Goto, local, cluster, Error, Applied
<1>1. CASE \/ Begin \/ Finish \/ Content \/ Put \/ KubectlApply \/ Established
           \/ NotEstablished \/ Rm \/ LostRm \/ RmFails
  BY <1>1 DEF Begin, Finish, Content, Put, KubectlApply, Established, NotEstablished,
              Rm, LostRm, RmFails, NodesInv
<1>2. CASE Get \/ Waited \/ WaitTimesOut \/ SeveralNodes \/ KubectlAnnotateRejects
  BY <1>2 DEF Get, Waited, WaitTimesOut, SeveralNodes, KubectlAnnotateRejects, NodesInv
<1>3. CASE List
  BY <1>3, SingleName DEF List, NodesInv
<1>4. CASE KubectlAnnotate
  BY <1>4, SingleName DEF KubectlAnnotate, NodesInv
<1>5. CASE Lose \/ Kill \/ AskAgain \/ Finished \/ UNCHANGED vars
  BY <1>5 DEF Lose, Kill, AskAgain, Finished, NodesInv, vars
<1>6. ASSUME NEW r \in DOMAIN Plan, Choose(r)
      PROVE  NodesInv'
  BY <1>6 DEF Choose, NodesInv
<1>7. ASSUME NEW s, CommandFails(s)
      PROVE  NodesInv'
  BY <1>7, EffectCases, SingleName DEF CommandFails, NodesInv
<1>8. ASSUME NEW s, LostCommand(s)
      PROVE  NodesInv'
  BY <1>8 DEF LostCommand, NodesInv
<1>9. ASSUME NEW n \in Nodes, Join(n)
      PROVE  NodesInv'
  <2>1. IsFiniteSet(nodes')
    BY <1>9, FS_AddElement DEF Join, NodesInv
  <2>2. QED
    BY <1>9, <2>1 DEF Join, NodesInv
<1>10. CASE Establish \/ Start \/ GetReady
  BY <1>10 DEF Establish, Start, GetReady, NodesInv
<1>11. QED
  BY <1>1, <1>2, <1>3, <1>4, <1>5, <1>6, <1>7, <1>8, <1>9, <1>10 DEF Next, Progress

--------------------------------------------------------------------------------
\* The inductive invariant holds in every state.
THEOREM InvHolds == Spec => []PlanInv
<1>1. Init => PlanInv
  <2>1. Init => TypeOK /\ StageInv
    <3>1. Init => TypeOK
      <4>1. 0 \in 0 .. NumRuns /\ 0 \in 0 .. MaxFaults
        BY PlanResourcesAssumption
      <4>2. QED
        BY <4>1 DEF Init, TypeOK, Ends
    <3>2. Init => StageInv
      BY DEF Init, StageInv, Running, Ends
    <3>3. QED
      BY <3>1, <3>2
  <2>2. Init => DoneInv /\ OrderInv /\ ReasonInv /\ FilesInv
    BY DEF Init, DoneInv, OrderInv, ReasonInv, FilesInv
  <2>3. Init => NodesInv
    BY FS_EmptySet DEF Init, NodesInv
  <2>4. QED
    BY <2>1, <2>2, <2>3 DEF PlanInv
<1>2. PlanInv /\ [Next]_vars => PlanInv'
  BY TypeStep, StageStep, DoneStep, OrderStep, ReasonStep, FilesStep, NodesStep
     DEF PlanInv
<1>3. QED
  BY <1>1, <1>2, PTL DEF Spec

\* Every variable of PlanResources keeps its type, for any config maps, addons
\* and nodes and any number of runs and faults (kubectl_apply.go, kubectl_wait.go,
\* kubectl_annotate.go).
THEOREM TypeCorrect == Spec => []TypeOK
<1>1. PlanInv => TypeOK
  BY DEF PlanInv
<1>2. QED
  BY <1>1, InvHolds, PTL

\* Whatever nodes join and whenever, before, between and after the commands of
\* any number of runs, the annotation is on the seed node only.
THEOREM OnlySeedEverAnnotated == Spec => []OnlySeedAnnotated
<1>1. PlanInv => OnlySeedAnnotated
  BY DEF PlanInv, NodesInv, OnlySeedAnnotated
<1>2. QED
  BY <1>1, InvHolds, PTL

\* Success means that all is applied and ready, an error has a reason outside
\* the plans, and without a failed command no file is left, for any config maps
\* and any number of manifests of any addons, in every order their edges allow.
THEOREM AlwaysReturnsForAReason == Spec => []ReturnsForAReason
<1>1. PlanInv => ReturnsForAReason
  <2>1. ASSUME PlanInv, pc = "ok"
        PROVE  objects = Applies /\ workload = "ready" /\ annotated # {}
    <3>1. \A r \in Resources : Done(r)
      BY <2>1 DEF PlanInv, StageInv, DoneInv
    <3>2. Applies \subseteq Resources /\ Wait \in Resources /\ Annotate \in Resources
      BY DEF Applies, Resources
    <3>3. QED
      BY <2>1, <3>1, <3>2 DEF Done, PlanInv, TypeOK
  <2>2. PlanInv => (pc = "failed" => reasons # {})
    BY DEF PlanInv, ReasonInv
  <2>3. ASSUME PlanInv, pc \in {"ok", "failed"}, "fault" \notin reasons
        PROVE  \A f \in tmp : f[1] # run
    BY <2>3 DEF PlanInv, FilesInv
  <2>4. QED
    BY <2>1, <2>2, <2>3 DEF ReturnsForAReason
<1>2. QED
  BY <1>1, InvHolds, PTL
================================================================================
