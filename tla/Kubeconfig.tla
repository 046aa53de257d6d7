------------------------------ MODULE Kubeconfig -------------------------------
(***************************************************************************)
(* "wksctl kubeconfig": writeKubeconfig (cmd/wksctl/kubeconfig) with       *)
(* GetRemoteKubeconfig, Sanitize, RenameConfig, Merge and Write            *)
(* (pkg/kubernetes/config).                                                *)
(*                                                                         *)
(* Each run fetches /etc/kubernetes/admin.conf of one cluster, renames its *)
(* entries, and merges them into a local file that other runs and the user *)
(* change too.  Meanwhile "wksctl apply" may install a cluster again, with *)
(* new certificates.  clientcmd's ModifyConfig is external: under a lock   *)
(* it makes the file hold what it is given, and so also deletes the        *)
(* entries of the file that it is not given.                               *)
(***************************************************************************)
EXTENDS Integers, FiniteSets, Sequences

CONSTANTS
  Clusters,     \* names of the clusters, as in cluster.yaml
  NumRuns,      \* how many times the command is run
  Overlap,      \* may runs overlap each other and the user's changes?
  MaxInstalls,  \* how often a cluster is installed again
  MaxFaults,    \* bound on the runs that fail or are killed
  None,         \* an entry that is not there
  Endpoints     \* what ControlPlaneEndpoint may be: lists of ports

\* Entries of a kubeconfig are named "wks-<cluster>", for which the cluster
\* stands, or as kubeadm names them: "kubernetes", "kubernetes-admin",
\* "kubernetes-admin@kubernetes" among the clusters, users and contexts; all
\* three are "default".  The user's own cluster, outside of Clusters, is named
\* like that.
Names == Clusters \union {"default"}

Owners == Clusters \union {"own"}
Certs == [of : Owners, gen : 0 .. MaxInstalls]
\* The ports in the authority of a server's URL; there is one at least.
Ports == Seq(Nat) \ {<<>>}
ClusterEntry == [ca : Certs, ports : Ports]
ContextEntry == [cluster : Names, user : Names]

ASSUME KubeconfigAssumption ==
  /\ "default" \notin Clusters /\ "own" \notin Clusters
  /\ None \notin Names \union Certs \union ClusterEntry \union ContextEntry
  /\ NumRuns \in Nat /\ MaxInstalls \in Nat /\ MaxFaults \in Nat
  /\ Overlap \in BOOLEAN
  /\ Endpoints \subseteq Seq(Nat)

Runs == 1 .. NumRuns

VARIABLES
  gen,      \* gen[c]: how often cluster c has been installed again
  endpoint, \* endpoint[c]: the ports in its ControlPlaneEndpoint, if any
  file,     \* the local kubeconfig
  pc, target, useContext, \* of each run: stage, cluster, --use-context
  fetched,  \* fetched[p]: the configuration it got, sanitized and renamed
  existing, \* existing[p]: the local configuration it has read
  faults

inputs == <<endpoint, target, useContext>>
vars == <<gen, inputs, file, pc, fetched, existing, faults>>

--------------------------------------------------------------------------------
Config ==
  [clusters : [Names -> ClusterEntry \union {None}],
   users : [Names -> Certs \union {None}],
   contexts : [Names -> ContextEntry \union {None}],
   current : Names \union {None}]

Only(name, value) == [n \in Names |-> IF n = name THEN value ELSE None]

Empty == [clusters |-> Only("default", None), users |-> Only("default", None),
          contexts |-> Only("default", None), current |-> None]

\* The port the API server of a cluster listens on, and its admin.conf.
ApiPort == 6443
AdminConf(certs) ==
  [clusters |-> Only("default", [ca |-> certs, ports |-> <<ApiPort>>]),
   users |-> Only("default", certs),
   contexts |-> Only("default", [cluster |-> "default", user |-> "default"]),
   current |-> "default"]

UserConf == AdminConf([of |-> "own", gen |-> 0])

\* Sanitize replaces the host of the server by the control plane endpoint, or
\* the address of the master if there is none, and appends the port.
SanitizeNoPort(config, ports) ==
  [config EXCEPT !.clusters["default"].ports = ports]
Sanitize(config, ports) ==
  [config EXCEPT !.clusters["default"].ports = ports \o @]

\* RenameConfig.
RenameConfig(config, name) ==
  [clusters |-> Only(name, config.clusters["default"]),
   users |-> Only(name, config.users["default"]),
   contexts |-> Only(name, [cluster |-> name, user |-> name]),
   current |-> name]

Over(new, old) == [n \in Names |-> IF new[n] # None THEN new[n] ELSE old[n]]

\* Merge: entries of tomerge replace those of the same name.
MergeReplacing(old, tomerge) == tomerge
MergeKeepingUsers(old, tomerge) ==
  [clusters |-> Over(tomerge.clusters, old.clusters),
   users |-> Over(old.users, tomerge.users),
   contexts |-> Over(tomerge.contexts, old.contexts),
   current |-> old.current]
Merge(old, tomerge) ==
  [clusters |-> Over(tomerge.clusters, old.clusters),
   users |-> Over(tomerge.users, old.users),
   contexts |-> Over(tomerge.contexts, old.contexts),
   current |-> old.current]

\* Write makes the context that of the new configuration, if asked to.
Written(old, new, setContext) ==
  [Merge(old, new) EXCEPT !.current = IF setContext THEN new.current ELSE @]

--------------------------------------------------------------------------------
Init ==
  /\ gen = [c \in Clusters |-> 0]
  /\ endpoint \in [Clusters -> Endpoints]
  /\ file \in {Empty, UserConf}
  /\ pc = [p \in Runs |-> "idle"]
  /\ target \in [Runs -> Clusters]
  /\ useContext \in [Runs -> BOOLEAN]
  /\ fetched = [p \in Runs |-> Empty]
  /\ existing = [p \in Runs |-> Empty]
  /\ faults = 0

Stages == {"fetch", "read", "modify"}
Ends == {"ok", "failed"}
Busy == \E p \in Runs : pc[p] \in Stages

Begin(p) ==
  /\ pc[p] = "idle"
  /\ \A q \in 1 .. (p - 1) : pc[q] # "idle"
  /\ Busy => Overlap
  /\ pc' = [pc EXCEPT ![p] = "fetch"]
  /\ UNCHANGED <<gen, inputs, file, fetched, existing, faults>>

\* GetRemoteKubeconfig, clientcmd.Load and RenameConfig.
Fetch(p) ==
  LET c == target[p]
      remote == AdminConf([of |-> c, gen |-> gen[c]])
  IN  /\ pc[p] = "fetch"
      /\ pc' = [pc EXCEPT ![p] = "read"]
      /\ fetched' = [fetched EXCEPT ![p] = RenameConfig(Sanitize(remote, endpoint[c]), c)]
      /\ UNCHANGED <<gen, inputs, file, existing, faults>>

\* Write reads the local file, without the lock, ...
ReadExisting(p) ==
  /\ pc[p] = "read"
  /\ pc' = [pc EXCEPT ![p] = "modify"]
  /\ existing' = [existing EXCEPT ![p] = file]
  /\ UNCHANGED <<gen, inputs, file, fetched, faults>>

\* The variables of a run that is over.
Forget(p) ==
  /\ fetched' = [fetched EXCEPT ![p] = Empty]
  /\ existing' = [existing EXCEPT ![p] = Empty]

\* ... and has ModifyConfig make it what it has merged.
Modify(p) ==
  /\ pc[p] = "modify"
  /\ pc' = [pc EXCEPT ![p] = "ok"]
  /\ file' = Written(existing[p], fetched[p], useContext[p])
  /\ Forget(p)
  /\ UNCHANGED <<gen, inputs, faults>>

\* A run fails, or is killed, before it has changed the file.
Fail(p) ==
  /\ pc[p] \in Stages
  /\ pc' = [pc EXCEPT ![p] = "failed"]
  /\ faults < MaxFaults
  /\ faults' = faults + 1
  /\ Forget(p)
  /\ UNCHANGED <<gen, inputs, file>>

\* "wksctl apply" installs cluster c again.
Reinstall(c) ==
  /\ gen[c] < MaxInstalls
  /\ gen' = [gen EXCEPT ![c] = @ + 1]
  /\ UNCHANGED <<inputs, file, pc, fetched, existing, faults>>

\* The user selects another context, or deletes one: kubectl then keeps the
\* current context, with a warning, if it is the deleted one.
UserChanges ==
  /\ Busy => Overlap
  /\ \E n \in Names :
       /\ file.contexts[n] # None
       /\ \/ file' = [file EXCEPT !.current = n]
          \/ file' = [file EXCEPT !.contexts[n] = None]
  /\ UNCHANGED <<gen, inputs, pc, fetched, existing, faults>>

Finished ==
  /\ \A p \in Runs : pc[p] \in Ends
  /\ UNCHANGED vars

Next ==
  \/ \E p \in Runs :
       Begin(p) \/ Fetch(p) \/ ReadExisting(p) \/ Modify(p) \/ Fail(p)
  \/ \E c \in Clusters : Reinstall(c)
  \/ UserChanges
  \/ Finished

Spec == Init /\ [][Next]_vars

--------------------------------------------------------------------------------
\* Properties.

\* Every variable has its type.
TypeOK ==
  /\ gen \in [Clusters -> 0 .. MaxInstalls]
  /\ endpoint \in [Clusters -> Endpoints]
  /\ file \in Config
  /\ fetched \in [Runs -> Config]
  /\ existing \in [Runs -> Config]
  /\ pc \in [Runs -> {"idle"} \union Stages \union Ends]
  /\ target \in [Runs -> Clusters]
  /\ useContext \in [Runs -> BOOLEAN]
  /\ faults \in 0 .. MaxFaults

\* Every context of the file joins a cluster with the credentials of that same
\* cluster, and of the same installation of it, however often clusters are
\* installed again and whatever they and the user's own are called (Merge,
\* RenameConfig).  Nothing is said of the current context, which the user's own
\* deletion leaves without its entry, until a run that sets it.
ContextsCoherent ==
  \A n \in Names : file.contexts[n] # None =>
    LET context == file.contexts[n]
    IN  /\ file.clusters[context.cluster] # None
        /\ file.users[context.user] = file.clusters[context.cluster].ca

\* The installations a context leads kubectl to: the one whose certificate it
\* checks and the one whose credentials it presents.
LeadsTo(n) ==
  LET context == file.contexts[n]
  IN  IF context = None THEN {}
      ELSE {file.clusters[context.cluster].ca, file.users[context.user]}

ContextFile == INSTANCE ContextFile WITH
  contexts <- [n \in Names |-> LeadsTo(n)],
  current <- file.current,
  done <- {p \in Runs : pc[p] \in Ends}

\* Runs that take turns behave as if each changed the file in one step: they
\* replace what their own cluster's context leads to, never by an older
\* installation, and leave everything else, and without --use-context the
\* current context too, as the user and the other runs have made it.
ImplementsContextFile == ContextFile!Spec

\* A run adds or replaces the entries of its own cluster; everything else that
\* is in the file at that moment stays as it is, the entries of the user's own
\* cluster and of the clusters of other runs included, and, without
\* --use-context, the current context too.
MergedWithExistingFile ==
  [][\A p \in Runs : (pc[p] = "modify" /\ pc'[p] = "ok") =>
       /\ \A n \in Names \ {target[p]} :
            /\ file'.clusters[n] = file.clusters[n]
            /\ file'.users[n] = file.users[n]
            /\ file'.contexts[n] = file.contexts[n]
       /\ file'.current = IF useContext[p] THEN target[p] ELSE file.current]_vars
================================================================================
