--------------------------- MODULE Kubeconfig_proofs ----------------------------
(***************************************************************************)
(* Theorems about Kubeconfig, for all clusters and endpoints and every     *)
(* number of runs, installations and failures.                             *)
(***************************************************************************)
EXTENDS Kubeconfig, TLAPS

\* What run p has fetched, if its cluster was then installed for the g-th time.
Fetched(p, g) ==
  LET c == target[p]
  IN  RenameConfig(Sanitize(AdminConf([of |-> c, gen |-> g]), endpoint[c]), c)

\* The entry of its cluster in that.
EntryOf(p, g) ==
  [ca |-> [of |-> target[p], gen |-> g], ports |-> endpoint[target[p]] \o <<ApiPort>>]

\* The names of entries: one for each cluster, and that of Sanitize.
LEMMA NamesOfClusters == Clusters \subseteq Names /\ "default" \in Names
BY DEF Names

\* An absent entry is none of those that are there.
LEMMA NoneIsNoEntry ==
  /\ \A e \in ClusterEntry \union Certs \union ContextEntry \union Names : e # None
  /\ None \notin Clusters
BY KubeconfigAssumption DEF Names

\* The ports of an entry, and those put before them.
LEMMA EntryWithPorts ==
  ASSUME NEW e, NEW a, NEW x, NEW y, e = [ca |-> a, ports |-> x]
  PROVE  [e EXCEPT !.ports = y] = [ca |-> a, ports |-> y] /\ e.ports = x
OBVIOUS

\* An entry after ports are put before its own.
LEMMA EntryWithPortsBefore ==
  ASSUME NEW e, NEW a, NEW x, NEW ports, e = [ca |-> a, ports |-> x],
         NEW ported, ported = [e EXCEPT !.ports = ports \o e.ports]
  PROVE  ported = [ca |-> a, ports |-> ports \o x]
<1> DEFINE sum == ports \o e.ports
<1>1. sum = ports \o x
  BY EntryWithPorts
<1>2. \A y : [e EXCEPT !.ports = y] = [ca |-> a, ports |-> y]
  BY EntryWithPorts
<1> HIDE DEF sum
<1>3. [e EXCEPT !.ports = sum] = [ca |-> a, ports |-> sum]
  BY <1>2
<1>4. [e EXCEPT !.ports = sum] = [ca |-> a, ports |-> ports \o x]
  BY <1>3, <1>1, Zenon
<1>5. QED
  BY <1>4, Zenon DEF sum

\* What admin.conf, made the entries of a cluster, is.
LEMMA RenamedIs ==
  ASSUME NEW c \in Clusters, NEW certs \in Certs, NEW ports \in Seq(Nat)
  PROVE  RenameConfig(Sanitize(AdminConf(certs), ports), c) =
           [clusters |-> Only(c, [ca |-> certs, ports |-> ports \o <<ApiPort>>]),
            users |-> Only(c, certs),
            contexts |-> Only(c, [cluster |-> c, user |-> c]),
            current |-> c]
<1>1. PICK entry : entry = [ca |-> certs, ports |-> <<ApiPort>>]
  OBVIOUS
<1>2. PICK ported : ported = [entry EXCEPT !.ports = ports \o entry.ports]
  BY Zenon
<1>3. ported = [ca |-> certs, ports |-> ports \o <<ApiPort>>]
  BY <1>1, <1>2, EntryWithPortsBefore, Zenon
<1> DEFINE cs == Only("default", entry)
<1> DEFINE us == Only("default", certs)
<1> DEFINE ct == Only("default", [cluster |-> "default", user |-> "default"])
<1> DEFINE admin == AdminConf(certs)
<1> DEFINE sane == Sanitize(admin, ports)
<1>4. /\ cs["default"] = entry /\ us["default"] = certs
      /\ "default" \in DOMAIN cs
  BY NamesOfClusters DEF Only
<1>5. admin = [clusters |-> cs, users |-> us, contexts |-> ct, current |-> "default"]
  BY <1>1, Zenon DEF AdminConf
<1> HIDE DEF cs, us, ct, admin
<1>6. sane.clusters = [cs EXCEPT !["default"] = ported] /\ sane.users = us
  BY <1>2, <1>4, <1>5 DEF Sanitize
<1> HIDE DEF sane
<1>7. sane.clusters["default"] = ported /\ sane.users["default"] = certs
  BY <1>4, <1>6
<1>8. RenameConfig(sane, c) =
        [clusters |-> Only(c, ported), users |-> Only(c, certs),
         contexts |-> Only(c, [cluster |-> c, user |-> c]), current |-> c]
  BY <1>7 DEF RenameConfig
<1>9. RenameConfig(sane, c) =
        [clusters |-> Only(c, [ca |-> certs, ports |-> ports \o <<ApiPort>>]),
         users |-> Only(c, certs),
         contexts |-> Only(c, [cluster |-> c, user |-> c]), current |-> c]
  BY <1>3, <1>8, Zenon
<1>10. QED
  BY <1>9, Zenon DEF sane, admin

\* Three tables and a cluster make a configuration.
LEMMA ConfigOf ==
  ASSUME NEW cs \in [Names -> ClusterEntry \union {None}],
         NEW us \in [Names -> Certs \union {None}],
         NEW ct \in [Names -> ContextEntry \union {None}], NEW c \in Clusters
  PROVE  [clusters |-> cs, users |-> us, contexts |-> ct, current |-> c] \in Config
BY NamesOfClusters DEF Config

\* What a run makes of admin.conf: one entry in each table, of its cluster.
LEMMA FetchedIs ==
  ASSUME NEW p \in Runs, target[p] \in Clusters, endpoint[target[p]] \in Seq(Nat),
         NEW g \in 0 .. MaxInstalls
  PROVE  /\ EntryOf(p, g) \in ClusterEntry
         /\ EntryOf(p, g).ca = [of |-> target[p], gen |-> g]
         /\ Fetched(p, g) \in Config
         /\ Fetched(p, g).clusters = Only(target[p], EntryOf(p, g))
         /\ Fetched(p, g).users = Only(target[p], EntryOf(p, g).ca)
         /\ Fetched(p, g).contexts =
              Only(target[p], [cluster |-> target[p], user |-> target[p]])
         /\ Fetched(p, g).current = target[p]
<1> DEFINE c == target[p]
<1> DEFINE ports == endpoint[c]
<1> DEFINE entry == EntryOf(p, g)
<1> DEFINE new == Fetched(p, g)
<1>c. c \in Clusters /\ ports \in Seq(Nat)
  OBVIOUS
<1> DEFINE certs == [of |-> c, gen |-> g]
<1>1. certs \in Certs
  BY DEF Certs, Owners
<1>2. new = RenameConfig(Sanitize(AdminConf(certs), ports), c)
  BY Zenon DEF Fetched
<1>3. entry = [ca |-> certs, ports |-> ports \o <<ApiPort>>]
  BY Zenon DEF EntryOf
<1> HIDE DEF certs, c, ports, entry, new
<1>4. ports \o <<ApiPort>> \in Ports
  BY <1>c DEF Ports, ApiPort
<1>5. entry \in ClusterEntry /\ entry.ca = certs
  BY <1>1, <1>3, <1>4 DEF ClusterEntry
<1>6. new = [clusters |-> Only(c, entry), users |-> Only(c, certs),
             contexts |-> Only(c, [cluster |-> c, user |-> c]), current |-> c]
  <2>1. new = [clusters |-> Only(c, [ca |-> certs, ports |-> ports \o <<ApiPort>>]),
               users |-> Only(c, certs),
               contexts |-> Only(c, [cluster |-> c, user |-> c]), current |-> c]
    BY <1>c, <1>1, <1>2, RenamedIs, Zenon
  <2>2. QED
    BY <2>1, <1>3, Zenon
<1>7. [cluster |-> c, user |-> c] \in ContextEntry
  BY <1>c, NamesOfClusters DEF ContextEntry
<1>8. /\ Only(c, entry) \in [Names -> ClusterEntry \union {None}]
      /\ Only(c, certs) \in [Names -> Certs \union {None}]
      /\ Only(c, [cluster |-> c, user |-> c]) \in [Names -> ContextEntry \union {None}]
  BY <1>1, <1>5, <1>7 DEF Only
<1>9. new \in Config
  <2> DEFINE cs == Only(c, entry)
  <2> DEFINE us == Only(c, certs)
  <2> DEFINE ct == Only(c, [cluster |-> c, user |-> c])
  <2>1. [clusters |-> cs, users |-> us, contexts |-> ct, current |-> c] \in Config
    <3> HIDE DEF cs, us, ct
    <3>1. /\ cs \in [Names -> ClusterEntry \union {None}]
          /\ us \in [Names -> Certs \union {None}]
          /\ ct \in [Names -> ContextEntry \union {None}]
      BY <1>8, Zenon DEF cs, us, ct
    <3>2. QED
      BY <3>1, <1>c, ConfigOf, Zenon
  <2>2. QED
    BY <1>6, <2>1, Zenon
<1>10. QED
  <2>1. /\ entry \in ClusterEntry /\ entry.ca = certs /\ new \in Config
        /\ new.clusters = Only(c, entry) /\ new.users = Only(c, entry.ca)
        /\ new.contexts = Only(c, [cluster |-> c, user |-> c]) /\ new.current = c
    BY <1>5, <1>6, <1>9
  <2>2. QED
    BY <2>1, Zenon DEF certs, c, entry, new

\* Merging configurations gives a configuration.
LEMMA WrittenType ==
  ASSUME NEW old \in Config, NEW new \in Config, NEW b \in BOOLEAN
  PROVE  /\ Written(old, new, b) \in Config
         /\ Written(old, new, b).clusters = Over(new.clusters, old.clusters)
         /\ Written(old, new, b).users = Over(new.users, old.users)
         /\ Written(old, new, b).contexts = Over(new.contexts, old.contexts)
         /\ Written(old, new, b).current = IF b THEN new.current ELSE old.current
BY DEF Written, Merge, Over, Config

\* The configuration when there is no file.
LEMMA EmptyType ==
  /\ Empty \in Config
  /\ Empty.current = None
  /\ \A n \in Names :
       Empty.clusters[n] = None /\ Empty.users[n] = None /\ Empty.contexts[n] = None
BY DEF Empty, Config, Only

\* Deleting a context.
LEMMA UserDeletes ==
  ASSUME NEW old \in Config, NEW n \in Names, NEW new,
         new = [old EXCEPT !.contexts[n] = None]
  PROVE  /\ new \in Config
         /\ new.clusters = old.clusters /\ new.users = old.users
         /\ new.contexts = [old.contexts EXCEPT ![n] = None]
         /\ new.current = old.current
<1>1. /\ new.clusters = old.clusters /\ new.users = old.users
      /\ new.contexts = [old.contexts EXCEPT ![n] = None]
      /\ new.current = old.current
  BY DEF Config
<1>2. new = [clusters |-> new.clusters, users |-> new.users,
             contexts |-> new.contexts, current |-> new.current]
  BY DEF Config
<1>3. QED
  BY <1>1, <1>2 DEF Config

--------------------------------------------------------------------------------
\* The configuration in the beginning.
LEMMA UserConfType == UserConf \in Config
<1>1. [of |-> "own", gen |-> 0] \in Certs
  BY KubeconfigAssumption DEF Certs, Owners
<1>2. <<ApiPort>> \in Ports
  BY DEF Ports, ApiPort
<1>3. QED
  BY <1>1, <1>2, NamesOfClusters
     DEF UserConf, AdminConf, Only, Config, ClusterEntry, ContextEntry

\* The types hold at first.
LEMMA TypeInit == Init => TypeOK
BY KubeconfigAssumption, UserConfType, EmptyType DEF Init, TypeOK, Stages, Ends

\* Every step preserves the types, of runs that overlap too.
LEMMA TypeStep == ASSUME TypeOK, [Next]_vars PROVE TypeOK'
<1> USE DEF inputs
<1>1. ASSUME NEW p \in Runs, Begin(p) PROVE TypeOK'
  BY <1>1 DEF TypeOK, Begin, Stages
<1>2. ASSUME NEW p \in Runs, Fetch(p) PROVE TypeOK'
  <2>1. target[p] \in Clusters /\ gen[target[p]] \in 0 .. MaxInstalls
        /\ endpoint[target[p]] \in Seq(Nat)
    BY KubeconfigAssumption DEF TypeOK
  <2>2. fetched' \in [Runs -> Config]
    <3> DEFINE new == Fetched(p, gen[target[p]])
    <3>1. new \in Config
      BY <2>1, FetchedIs, Zenon
    <3>2. fetched' = [fetched EXCEPT ![p] = new]
      BY <1>2 DEF Fetch, Fetched
    <3> HIDE DEF new
    <3>3. QED
      BY <3>1, <3>2 DEF TypeOK
  <2>3. QED
    BY <1>2, <2>2 DEF TypeOK, Fetch, Stages
<1>3. ASSUME NEW p \in Runs, ReadExisting(p) PROVE TypeOK'
  BY <1>3 DEF TypeOK, ReadExisting, Stages
<1>4. ASSUME NEW p \in Runs, Modify(p) PROVE TypeOK'
  BY <1>4, WrittenType, EmptyType DEF TypeOK, Modify, Forget, Ends
<1>5. ASSUME NEW p \in Runs, Fail(p) PROVE TypeOK'
  BY <1>5, EmptyType, KubeconfigAssumption DEF TypeOK, Fail, Forget, Ends
<1>6. ASSUME NEW c \in Clusters, Reinstall(c) PROVE TypeOK'
  BY <1>6, KubeconfigAssumption DEF TypeOK, Reinstall
<1>7. CASE UserChanges
  <2>1. file' \in Config
    <3>1. PICK n \in Names :
            \/ file' = [file EXCEPT !.current = n]
            \/ file' = [file EXCEPT !.contexts[n] = None]
      BY <1>7 DEF UserChanges
    <3>2. CASE file' = [file EXCEPT !.current = n]
      BY <3>2 DEF TypeOK, Config
    <3>3. CASE file' = [file EXCEPT !.contexts[n] = None]
      BY <3>3, UserDeletes DEF TypeOK
    <3>4. QED
      BY <3>1, <3>2, <3>3
  <2>2. QED
    BY <1>7, <2>1 DEF UserChanges, TypeOK
<1>8. CASE UNCHANGED vars
  BY <1>8 DEF TypeOK, vars
<1>9. QED
  BY <1>1, <1>2, <1>3, <1>4, <1>5, <1>6, <1>7, <1>8 DEF Next, Finished

\* Every variable keeps its type in every behaviour of the specification.
THEOREM TypeCorrect == Spec => []TypeOK
<1>1. TypeOK /\ [Next]_vars => TypeOK'
  BY TypeStep
<1>2. QED
  BY <1>1, TypeInit, PTL DEF Spec

--------------------------------------------------------------------------------
\* Coherence of the file, which holds of runs that overlap as well: a run writes
\* back what it has read, which may be stale, but never half of it.

\* The entries of name n in a configuration: the context, if it is there, is
\* that of the cluster and the user of the same name, and the cluster, if it is
\* there, has a user of the same certificates.
WholeEntries(config, n) ==
  /\ config.contexts[n] # None =>
       /\ config.contexts[n] = [cluster |-> n, user |-> n]
       /\ config.clusters[n] # None
  /\ config.clusters[n] # None => config.users[n] = config.clusters[n].ca

Coherent(config) == \A n \in Names : WholeEntries(config, n)

\* A configuration of nothing but cluster c, with the given entry.
Joins(config, c, entry) ==
  /\ config.clusters = Only(c, entry)
  /\ config.users = Only(c, entry.ca)
  /\ config.contexts = Only(c, [cluster |-> c, user |-> c])
  /\ config.current = c

\* Run p has fetched what an installation of its cluster, of now or of before,
\* had to give.
HasFetched(p) == \E g \in 0 .. gen[target[p]] : Joins(fetched[p], target[p], EntryOf(p, g))

CoherenceInv ==
  /\ Coherent(file)
  /\ \A p \in Runs : Coherent(existing[p])
  /\ \A p \in Runs : pc[p] \in {"read", "modify"} => HasFetched(p)

\* No file is coherent.
LEMMA EmptyCoherent == Coherent(Empty)
BY EmptyType DEF Coherent, WholeEntries

\* So is the file of a user who has another cluster.
LEMMA UserConfCoherent == Coherent(UserConf)
<1> DEFINE certs == [of |-> "own", gen |-> 0]
<1>1. PICK entry : entry = [ca |-> certs, ports |-> <<ApiPort>>]
  OBVIOUS
<1>2. entry.ca = certs
  BY <1>1
<1> HIDE DEF certs
<1>3. /\ UserConf.clusters = Only("default", entry)
      /\ UserConf.users = Only("default", certs)
      /\ UserConf.contexts = Only("default", [cluster |-> "default", user |-> "default"])
      /\ UserConf.current = "default"
  BY <1>1 DEF UserConf, AdminConf, certs
<1>4. entry # None /\ [cluster |-> "default", user |-> "default"] # None
  <2>1. [cluster |-> "default", user |-> "default"] \in ContextEntry
    BY NamesOfClusters DEF ContextEntry
  <2>2. certs \in Certs
    BY KubeconfigAssumption DEF Certs, Owners, certs
  <2>3. <<ApiPort>> \in Ports
    BY DEF Ports, ApiPort
  <2>4. entry \in ClusterEntry
    BY <1>1, <2>2, <2>3 DEF ClusterEntry
  <2>5. QED
    BY <2>1, <2>4, NoneIsNoEntry
<1>5. QED
  BY <1>2, <1>3, <1>4, NamesOfClusters DEF Only, Coherent, WholeEntries

\* The property from the part of the invariant about the file.
LEMMA CoherentGivesContextsCoherent ==
  ASSUME file \in Config, Coherent(file)
  PROVE  ContextsCoherent
<1>1. ASSUME NEW n \in Names, file.contexts[n] # None
      PROVE  /\ file.contexts[n].cluster = n /\ file.contexts[n].user = n
             /\ file.clusters[n] # None /\ file.users[n] = file.clusters[n].ca
  <2>1. file.contexts[n] = [cluster |-> n, user |-> n]
    BY <1>1 DEF Coherent, WholeEntries
  <2>2. file.contexts[n].cluster = n /\ file.contexts[n].user = n
    BY <2>1
  <2>3. QED
    BY <1>1, <2>2 DEF Coherent, WholeEntries
<1>2. QED
  BY <1>1, Zenon DEF Coherent, ContextsCoherent

\* What each name has after a merge.
LEMMA MergedEntries ==
  ASSUME NEW old \in Config, NEW new \in Config, NEW b \in BOOLEAN,
         NEW c \in Clusters, NEW entry \in ClusterEntry, Joins(new, c, entry)
  PROVE  LET merged == Written(old, new, b) IN
         /\ merged.clusters[c] = entry /\ merged.users[c] = entry.ca
         /\ merged.contexts[c] = [cluster |-> c, user |-> c]
         /\ \A n \in Names \ {c} :
              /\ merged.clusters[n] = old.clusters[n]
              /\ merged.users[n] = old.users[n]
              /\ merged.contexts[n] = old.contexts[n]
         /\ merged.current = IF b THEN c ELSE old.current
<1> DEFINE merged == Written(old, new, b)
<1>1. /\ merged.clusters = Over(new.clusters, old.clusters)
      /\ merged.users = Over(new.users, old.users)
      /\ merged.contexts = Over(new.contexts, old.contexts)
      /\ merged.current = IF b THEN new.current ELSE old.current
  BY WrittenType
<1> HIDE DEF merged
<1>2. entry # None /\ entry.ca # None /\ [cluster |-> c, user |-> c] # None
  <2>1. entry.ca \in Certs /\ [cluster |-> c, user |-> c] \in ContextEntry
    BY NamesOfClusters DEF ClusterEntry, ContextEntry
  <2>2. QED
    BY <2>1, NoneIsNoEntry
<1>3. \A n \in Names :
        /\ new.clusters[n] = IF n = c THEN entry ELSE None
        /\ new.users[n] = IF n = c THEN entry.ca ELSE None
        /\ new.contexts[n] = IF n = c THEN [cluster |-> c, user |-> c] ELSE None
  BY DEF Joins, Only
<1>4. \A n \in Names :
        /\ merged.clusters[n] = IF n = c THEN entry ELSE old.clusters[n]
        /\ merged.users[n] = IF n = c THEN entry.ca ELSE old.users[n]
        /\ merged.contexts[n] =
             IF n = c THEN [cluster |-> c, user |-> c] ELSE old.contexts[n]
  BY <1>1, <1>2, <1>3 DEF Over
<1>5. merged.current = IF b THEN c ELSE old.current
  BY <1>1 DEF Joins
<1>6. QED
  BY <1>4, <1>5, NamesOfClusters DEF merged

\* Merging the entries of one cluster into a coherent file leaves it coherent.
LEMMA MergedCoherent ==
  ASSUME NEW old \in Config, NEW new \in Config, NEW b \in BOOLEAN,
         NEW c \in Clusters, NEW entry \in ClusterEntry, Joins(new, c, entry),
         Coherent(old)
  PROVE  Coherent(Written(old, new, b))
<1> DEFINE merged == Written(old, new, b)
<1>1. /\ merged.clusters[c] = entry /\ merged.users[c] = entry.ca
      /\ merged.contexts[c] = [cluster |-> c, user |-> c]
      /\ \A n \in Names \ {c} :
           /\ merged.clusters[n] = old.clusters[n]
           /\ merged.users[n] = old.users[n]
           /\ merged.contexts[n] = old.contexts[n]
      /\ merged.current = IF b THEN c ELSE old.current
  BY MergedEntries
<1> HIDE DEF merged
<1>2. entry # None /\ [cluster |-> c, user |-> c] # None
  <2>1. [cluster |-> c, user |-> c] \in ContextEntry
    BY NamesOfClusters DEF ContextEntry
  <2>2. QED
    BY <2>1, NoneIsNoEntry
<1>3. \A n \in Names : WholeEntries(merged, n)
  BY <1>1, <1>2 DEF Coherent, WholeEntries
<1>4. QED
  BY <1>3 DEF Coherent, merged

\* CoherenceInv holds at first.
LEMMA CoherenceInit == Init => CoherenceInv
BY EmptyCoherent, UserConfCoherent DEF Init, CoherenceInv

\* Every step keeps CoherenceInv.
LEMMA CoherenceStep ==
  ASSUME TypeOK, CoherenceInv, [Next]_vars
  PROVE  CoherenceInv'
<1> USE DEF inputs
<1>a. \A p \in Runs : HasFetched(p) /\ UNCHANGED <<gen, inputs, fetched>> => HasFetched(p)'
  BY DEF HasFetched, EntryOf
<1>1. ASSUME NEW p \in Runs, Begin(p) PROVE CoherenceInv'
  BY <1>1, <1>a DEF TypeOK, Begin, CoherenceInv
<1>2. ASSUME NEW p \in Runs, Fetch(p) PROVE CoherenceInv'
  <2>1. /\ target[p] \in Clusters /\ gen[target[p]] \in 0 .. MaxInstalls
        /\ endpoint[target[p]] \in Seq(Nat)
    BY KubeconfigAssumption DEF TypeOK
  <2>2. fetched' = [fetched EXCEPT ![p] = Fetched(p, gen[target[p]])]
    BY <1>2, Zenon DEF Fetch, Fetched
  <2>3. fetched'[p] = Fetched(p, gen[target[p]])
    BY <2>2 DEF TypeOK
  <2>4. Joins(fetched'[p], target[p], EntryOf(p, gen[target[p]]))
    <3> DEFINE g == gen[target[p]]
    <3>1. /\ Fetched(p, g).clusters = Only(target[p], EntryOf(p, g))
          /\ Fetched(p, g).users = Only(target[p], EntryOf(p, g).ca)
          /\ Fetched(p, g).contexts =
               Only(target[p], [cluster |-> target[p], user |-> target[p]])
          /\ Fetched(p, g).current = target[p]
      <4> HIDE DEF g
      <4>1. g \in 0 .. MaxInstalls
        BY <2>1 DEF g
      <4>2. QED
        BY <2>1, <4>1, FetchedIs, Zenon
    <3>2. QED
      BY <2>3, <3>1, Zenon DEF Joins
  <2>5. HasFetched(p)'
    <3>1. gen[target[p]] \in 0 .. gen[target[p]] /\ EntryOf(p, gen[target[p]])' = EntryOf(p, gen[target[p]])
      BY <1>2, <2>1 DEF Fetch, EntryOf
    <3>2. QED
      BY <1>2, <2>4, <3>1, Zenon DEF Fetch, HasFetched, EntryOf
  <2>6. ASSUME NEW q \in Runs \ {p}, HasFetched(q) PROVE HasFetched(q)'
    BY <1>2, <2>2, <2>6 DEF Fetch, HasFetched, EntryOf, TypeOK
  <2>7. QED
    BY <1>2, <2>5, <2>6 DEF TypeOK, Fetch, CoherenceInv
<1>3. ASSUME NEW p \in Runs, ReadExisting(p) PROVE CoherenceInv'
  BY <1>3, <1>a DEF TypeOK, ReadExisting, CoherenceInv
<1>4. ASSUME NEW p \in Runs, Modify(p) PROVE CoherenceInv'
  <2>1. Coherent(file')
    <3>1. PICK g \in 0 .. gen[target[p]] : Joins(fetched[p], target[p], EntryOf(p, g))
      BY <1>4 DEF Modify, CoherenceInv, HasFetched
    <3>2. EntryOf(p, g) \in ClusterEntry
      <4>1. /\ target[p] \in Clusters /\ g \in 0 .. MaxInstalls
            /\ endpoint[target[p]] \in Seq(Nat)
        BY <3>1, KubeconfigAssumption DEF TypeOK
      <4>2. QED
        BY <4>1, FetchedIs
    <3>3. QED
      BY <1>4, <3>1, <3>2, MergedCoherent DEF Modify, CoherenceInv, TypeOK
  <2>2. ASSUME NEW q \in Runs \ {p}, HasFetched(q) PROVE HasFetched(q)'
    BY <1>4, <2>2 DEF Modify, Forget, HasFetched, EntryOf, TypeOK
  <2>3. QED
    BY <1>4, <2>1, <2>2, EmptyCoherent DEF TypeOK, Modify, Forget, CoherenceInv
<1>5. ASSUME NEW p \in Runs, Fail(p) PROVE CoherenceInv'
  <2>1. ASSUME NEW q \in Runs \ {p}, HasFetched(q) PROVE HasFetched(q)'
    BY <1>5, <2>1 DEF Fail, Forget, HasFetched, EntryOf, TypeOK
  <2>2. QED
    BY <1>5, <2>1, EmptyCoherent DEF TypeOK, Fail, Forget, CoherenceInv
<1>6. ASSUME NEW c \in Clusters, Reinstall(c) PROVE CoherenceInv'
  <2>1. ASSUME NEW q \in Runs, HasFetched(q) PROVE HasFetched(q)'
    <3>1. PICK g \in 0 .. gen[target[q]] : Joins(fetched[q], target[q], EntryOf(q, g))
      BY <2>1 DEF HasFetched
    <3>2. gen[target[q]] \in Nat /\ gen'[target[q]] \in Nat
          /\ gen[target[q]] <= gen'[target[q]]
      BY <1>6 DEF Reinstall, TypeOK
    <3>3. g \in 0 .. gen'[target[q]] /\ UNCHANGED <<fetched, target, endpoint>>
      BY <1>6, <3>1, <3>2 DEF Reinstall
    <3>4. QED
      BY <3>1, <3>3, Zenon DEF HasFetched, EntryOf
  <2>2. QED
    BY <1>6, <2>1 DEF Reinstall, CoherenceInv
<1>7. CASE UserChanges
  <2>1. Coherent(file')
    <3>1. PICK n \in Names :
            /\ file.contexts[n] # None
            /\ \/ file' = [file EXCEPT !.current = n]
               \/ file' = [file EXCEPT !.contexts[n] = None]
      BY <1>7 DEF UserChanges
    <3>2. CASE file' = [file EXCEPT !.current = n]
      BY <3>1, <3>2 DEF TypeOK, Config, CoherenceInv, Coherent, WholeEntries
    <3>3. CASE file' = [file EXCEPT !.contexts[n] = None]
      <4>1. /\ file'.clusters = file.clusters /\ file'.users = file.users
            /\ file'.contexts = [file.contexts EXCEPT ![n] = None]
            /\ file'.current = file.current
        BY <3>3 DEF TypeOK, Config
      <4>2. ASSUME NEW m \in Names PROVE WholeEntries(file', m)
        <5>1. WholeEntries(file, m)
          BY DEF CoherenceInv, Coherent
        <5>2. file'.contexts[m] = IF m = n THEN None ELSE file.contexts[m]
          BY <4>1 DEF TypeOK, Config
        <5>3. QED
          BY <4>1, <5>1, <5>2, Zenon DEF WholeEntries
      <4>3. QED
        BY <4>2, Zenon DEF Coherent
    <3>4. QED
      BY <3>1, <3>2, <3>3
  <2>2. QED
    BY <1>7, <1>a, <2>1 DEF UserChanges, CoherenceInv
<1>8. CASE UNCHANGED vars
  BY <1>8, <1>a DEF CoherenceInv, vars
<1>9. QED
  BY <1>1, <1>2, <1>3, <1>4, <1>5, <1>6, <1>7, <1>8 DEF Next, Finished

\* Every context of the file joins a cluster with credentials of the same
\* installation of it, in every behaviour: of runs that overlap each other and
\* the user's changes too.
THEOREM ContextsAlwaysCoherent == Spec => []ContextsCoherent
<1>1. TypeOK /\ CoherenceInv /\ [Next]_vars => CoherenceInv'
  BY CoherenceStep
<1>2. TypeOK /\ CoherenceInv => ContextsCoherent
  BY CoherentGivesContextsCoherent DEF TypeOK, CoherenceInv
<1>3. QED
  BY <1>1, <1>2, CoherenceInit, TypeCorrect, PTL DEF Spec

--------------------------------------------------------------------------------
\* Kubeconfig implements ContextFile, when runs and the user take turns.

\* The certificate of an entry, whose age is that of the installation.
Age(entry) == entry.ca.gen

\* One run at a time is under way, and what it has read is still what the file
\* holds; no entry is of an installation that has not been made, nor newer than
\* what a run has fetched and is about to put there.
TurnInv ==
  /\ \A p, q \in Runs : pc[p] \in Stages /\ pc[q] \in Stages => p = q
  /\ \A p \in Runs : pc[p] = "modify" => existing[p] = file
  /\ \A c \in Clusters : file.clusters[c] # None => Age(file.clusters[c]) <= gen[c]
  /\ \A p \in Runs : pc[p] \in {"read", "modify"} /\ file.clusters[target[p]] # None
       => Age(file.clusters[target[p]]) <= Age(fetched[p].clusters[target[p]])

\* TurnInv holds at first.
LEMMA TurnInit == Init => TurnInv
<1> SUFFICES ASSUME Init PROVE TurnInv
  OBVIOUS
<1>1. ASSUME NEW c \in Clusters PROVE file.clusters[c] = None
  <2>1. c \in Names /\ c # "default"
    BY KubeconfigAssumption DEF Names
  <2>2. QED
    BY <2>1, EmptyType DEF Init, UserConf, AdminConf, Only
<1>2. QED
  BY <1>1 DEF Init, TurnInv, Stages

\* What a run that merges its cluster into the file does to it.
LEMMA ModifyPuts ==
  ASSUME TypeOK, CoherenceInv, TurnInv, NEW p \in Runs, Modify(p)
  PROVE  \E g \in 0 .. gen[target[p]] :
           LET c == target[p] IN
           /\ file'.clusters[c].ca = [of |-> c, gen |-> g]
           /\ file'.clusters[c] \in ClusterEntry
           /\ fetched[p].clusters[c] = file'.clusters[c]
           /\ file'.contexts[c] # None
           /\ \A n \in Names \ {c} : /\ file'.clusters[n] = file.clusters[n]
                                     /\ file'.contexts[n] = file.contexts[n]
           /\ file'.current = IF useContext[p] THEN c ELSE file.current
<1> DEFINE c == target[p]
<1>1. PICK g \in 0 .. gen[c] : Joins(fetched[p], c, EntryOf(p, g))
  BY DEF Modify, CoherenceInv, HasFetched
<1>2. c \in Clusters /\ g \in 0 .. MaxInstalls /\ endpoint[c] \in Seq(Nat)
  BY <1>1, KubeconfigAssumption DEF TypeOK
<1>3. EntryOf(p, g) \in ClusterEntry /\ EntryOf(p, g).ca = [of |-> c, gen |-> g]
  BY <1>2, FetchedIs
<1>4. file' = Written(file, fetched[p], useContext[p])
  BY DEF Modify, TurnInv
<1>5. /\ file'.clusters[c] = EntryOf(p, g)
      /\ file'.contexts[c] = [cluster |-> c, user |-> c]
      /\ \A n \in Names \ {c} : /\ file'.clusters[n] = file.clusters[n]
                                /\ file'.contexts[n] = file.contexts[n]
      /\ file'.current = IF useContext[p] THEN c ELSE file.current
  <2> HIDE DEF c
  <2>1. /\ file \in Config /\ fetched[p] \in Config /\ useContext[p] \in BOOLEAN
        /\ c \in Clusters
    BY <1>2 DEF TypeOK
  <2>2. QED
    BY <1>1, <1>3, <1>4, <2>1, MergedEntries
<1>6. fetched[p].clusters[c] = EntryOf(p, g)
  BY <1>1, <1>2, NamesOfClusters DEF Joins, Only
<1>7. file'.contexts[c] # None
  <2>1. [cluster |-> c, user |-> c] \in ContextEntry
    BY <1>2, NamesOfClusters DEF ContextEntry
  <2>2. QED
    BY <1>5, <2>1, NoneIsNoEntry
<1>8. QED
  BY <1>1, <1>3, <1>5, <1>6, <1>7

\* Every step of runs in turn keeps TurnInv.
LEMMA TurnStep ==
  ASSUME TypeOK, ~Overlap, CoherenceInv, TurnInv, [Next]_vars
  PROVE  TurnInv'
<1> USE DEF inputs
<1>1. ASSUME NEW p \in Runs, Begin(p) PROVE TurnInv'
  BY <1>1 DEF TypeOK, Begin, Busy, Stages, TurnInv
<1>2. ASSUME NEW p \in Runs, Fetch(p) PROVE TurnInv'
  <2> DEFINE c == target[p]
  <2>1. /\ c \in Clusters /\ gen[c] \in 0 .. MaxInstalls /\ endpoint[c] \in Seq(Nat)
    BY KubeconfigAssumption DEF TypeOK
  <2>2. fetched' = [fetched EXCEPT ![p] = Fetched(p, gen[c])]
    BY <1>2, Zenon DEF Fetch, Fetched
  <2>3. fetched'[p] = Fetched(p, gen[c])
    BY <2>2 DEF TypeOK
  <2>4. /\ EntryOf(p, gen[c]).ca = [of |-> c, gen |-> gen[c]]
        /\ Fetched(p, gen[c]).clusters = Only(c, EntryOf(p, gen[c]))
    BY <2>1, FetchedIs
  <2>5. Age(fetched'[p].clusters[c]) = gen[c]
    BY <2>1, <2>3, <2>4, NamesOfClusters DEF Age, Only
  <2>6. \A q \in Runs \ {p} : pc'[q] \notin Stages
    BY <1>2 DEF Fetch, TurnInv, TypeOK, Stages
  <2>7. pc'[p] = "read" /\ UNCHANGED <<gen, inputs, file, existing>>
    BY <1>2 DEF Fetch, TypeOK
  <2>8. QED
    BY <2>1, <2>5, <2>6, <2>7 DEF TurnInv, Stages
<1>3. ASSUME NEW p \in Runs, ReadExisting(p) PROVE TurnInv'
  BY <1>3 DEF TypeOK, ReadExisting, TurnInv, Stages
<1>4. ASSUME NEW p \in Runs, Modify(p) PROVE TurnInv'
  <2> DEFINE c == target[p]
  <2>1. PICK g \in 0 .. gen[c] :
          /\ file'.clusters[c].ca = [of |-> c, gen |-> g]
          /\ \A n \in Names \ {c} : file'.clusters[n] = file.clusters[n]
    BY <1>4, ModifyPuts
  <2>2. Age(file'.clusters[c]) = g
    BY <2>1 DEF Age
  <2>3. \A q \in Runs : pc'[q] \notin Stages
    BY <1>4 DEF Modify, TurnInv, TypeOK, Stages, Ends
  <2>4. \A d \in Clusters : file'.clusters[d] # None => Age(file'.clusters[d]) <= gen[d]
    BY <2>1, <2>2, NamesOfClusters DEF TurnInv, TypeOK
  <2>5. QED
    BY <1>4, <2>3, <2>4 DEF Modify, TurnInv, Stages
<1>5. ASSUME NEW p \in Runs, Fail(p) PROVE TurnInv'
  <2>1. \A q \in Runs : pc'[q] \notin Stages
    BY <1>5 DEF Fail, TurnInv, TypeOK, Stages, Ends
  <2>2. QED
    BY <1>5, <2>1 DEF Fail, TurnInv, Stages
<1>6. ASSUME NEW c \in Clusters, Reinstall(c) PROVE TurnInv'
  <2>1. ASSUME NEW d \in Clusters, file.clusters[d] # None
        PROVE  Age(file.clusters[d]) <= gen'[d]
    <3>1. Age(file.clusters[d]) \in Nat
      BY <2>1, NamesOfClusters, KubeconfigAssumption
         DEF TypeOK, Config, ClusterEntry, Certs, Age
    <3>2. gen[d] \in Nat /\ gen'[d] \in Nat /\ gen[d] <= gen'[d]
      BY <1>6 DEF Reinstall, TypeOK
    <3>3. QED
      BY <2>1, <3>1, <3>2 DEF TurnInv
  <2>2. QED
    BY <1>6, <2>1 DEF Reinstall, TurnInv
<1>7. CASE UserChanges
  <2>1. \A q \in Runs : pc[q] \notin Stages
    BY <1>7 DEF UserChanges, Busy
  <2>2. file'.clusters = file.clusters
    BY <1>7 DEF UserChanges, TypeOK, Config
  <2>3. QED
    BY <1>7, <2>1, <2>2 DEF UserChanges, TurnInv, Stages
<1>8. CASE UNCHANGED vars
  BY <1>8 DEF TurnInv, vars
<1>9. QED
  BY <1>1, <1>2, <1>3, <1>4, <1>5, <1>6, <1>7, <1>8 DEF Next, Finished

\* The refinement mapping: what contexts lead to, and the runs that are over.
Leads == [n \in Names |-> LeadsTo(n)]
Done == {p \in Runs : pc[p] \in Ends}

\* A context of a coherent file leads to one control plane.
LEMMA LeadsToOne ==
  ASSUME Coherent(file), NEW n \in Names
  PROVE  Leads[n] = IF file.contexts[n] = None THEN {} ELSE {file.clusters[n].ca}
<1>1. CASE file.contexts[n] = None
  BY <1>1, Zenon DEF Leads, LeadsTo
<1>2. CASE file.contexts[n] # None
  <2>1. /\ file.contexts[n].cluster = n /\ file.contexts[n].user = n
    <3>1. file.contexts[n] = [cluster |-> n, user |-> n]
      BY <1>2 DEF Coherent, WholeEntries
    <3>2. QED
      BY <3>1
  <2>2. file.users[n] = file.clusters[n].ca
    BY <1>2 DEF Coherent, WholeEntries
  <2>3. Leads[n] = {file.clusters[n].ca, file.users[n]}
    BY <1>2, <2>1, Zenon DEF Leads, LeadsTo
  <2>4. QED
    BY <1>2, <2>2, <2>3
<1>3. QED
  BY <1>1, <1>2

\* So do all.
LEMMA LeadsToAll ==
  Coherent(file) =>
    \A n \in Names :
      Leads[n] = IF file.contexts[n] = None THEN {} ELSE {file.clusters[n].ca}
BY LeadsToOne

\* A step that changes neither the file, the installations nor the runs that are
\* over is no step of ContextFile.
LEMMA SameFile ==
  ASSUME UNCHANGED <<gen, inputs, file>>, Done' = Done
  PROVE  UNCHANGED (ContextFile!vars)
BY DEF ContextFile!vars, Leads, LeadsTo, Done, inputs

\* A run that ends is over.
LEMMA DoneGrows ==
  ASSUME TypeOK, NEW p \in Runs, NEW x \in {"ok", "failed"}, pc[p] \notin Ends,
         pc' = [pc EXCEPT ![p] = x]
  PROVE  p \notin Done /\ Done' = Done \union {p}
BY DEF TypeOK, Done, Ends

\* ModifyConfig is a step of ContextFile.
LEMMA ModifyRefines ==
  ASSUME TypeOK, CoherenceInv, CoherenceInv', TurnInv, NEW p \in Runs, Modify(p)
  PROVE  ContextFile!Next
<1> DEFINE c == target[p]
<1>1. PICK g \in 0 .. gen[c] :
        /\ file'.clusters[c].ca = [of |-> c, gen |-> g]
        /\ fetched[p].clusters[c] = file'.clusters[c]
        /\ file'.contexts[c] # None
        /\ \A n \in Names \ {c} : /\ file'.clusters[n] = file.clusters[n]
                                  /\ file'.contexts[n] = file.contexts[n]
        /\ file'.current = IF useContext[p] THEN c ELSE file.current
  BY ModifyPuts
<1>2. c \in Clusters /\ c \in Names
  BY NamesOfClusters DEF TypeOK
<1>3. /\ \A n \in Names :
           Leads[n] = IF file.contexts[n] = None THEN {} ELSE {file.clusters[n].ca}
      /\ \A n \in Names :
           Leads'[n] = IF file'.contexts[n] = None THEN {} ELSE {file'.clusters[n].ca}
  <2>1. Coherent(file) /\ Coherent(file')
    BY DEF CoherenceInv
  <2>2. (Coherent(file) =>
           \A n \in Names :
             Leads[n] = IF file.contexts[n] = None THEN {} ELSE {file.clusters[n].ca})'
    BY LeadsToAll, PTL
  <2>3. QED
    BY <2>1, <2>2, LeadsToAll
<1>4. Leads' = [Leads EXCEPT ![c] = {[of |-> c, gen |-> g]}]
  <2>1. \A n \in Names :
          Leads'[n] = IF n = c THEN {[of |-> c, gen |-> g]} ELSE Leads[n]
    <3>1. Leads'[c] = {[of |-> c, gen |-> g]}
      BY <1>1, <1>2, <1>3, Zenon
    <3>2. \A n \in Names \ {c} : Leads'[n] = Leads[n]
      <4>1. ASSUME NEW n \in Names \ {c} PROVE Leads'[n] = Leads[n]
        <5>1. n \in Names /\ file'.clusters[n] = file.clusters[n]
              /\ file'.contexts[n] = file.contexts[n]
          BY <1>1
        <5>2. QED
          BY <5>1, <1>3
      <4>2. QED
        BY <4>1
    <3>3. QED
      BY <3>1, <3>2, Zenon
  <2>2. Leads = [n \in Names |-> Leads[n]] /\ Leads' = [n \in Names |-> Leads'[n]]
    BY Zenon DEF Leads
  <2>3. QED
    BY <2>1, <2>2
<1>5. \A i \in Leads[c] : i.gen <= g
  <2>1. CASE file.contexts[c] = None
    BY <1>2, <1>3, <2>1
  <2>2. CASE file.contexts[c] # None
    <3>1. file.clusters[c] # None
      BY <1>2, <2>2 DEF CoherenceInv, Coherent, WholeEntries
    <3>2. Age(file.clusters[c]) <= Age(fetched[p].clusters[c])
      BY <3>1 DEF Modify, TurnInv
    <3>3. file.clusters[c].ca.gen <= g
      BY <1>1, <3>2 DEF Age
    <3>4. QED
      BY <1>2, <1>3, <2>2, <3>3
  <2>3. QED
    BY <2>1, <2>2
<1>6. p \notin Done /\ Done' = Done \union {p}
  BY DoneGrows DEF Modify, Ends
<1>7. ContextFile!Put(p, g)
  <2>1. g <= gen[c] /\ UNCHANGED <<gen, target, useContext>>
    BY <1>1, <1>2 DEF Modify, inputs, TypeOK
  <2>2. QED
    BY <1>1, <1>4, <1>5, <1>6, <2>1
       DEF ContextFile!Put, ContextFile!Installation, Leads, Done
<1>8. QED
  BY <1>7 DEF ContextFile!Next

\* So is what the user does to the file.
LEMMA UserRefines ==
  ASSUME TypeOK, CoherenceInv, CoherenceInv', UserChanges
  PROVE  ContextFile!Next
<1>1. PICK n \in Names :
        /\ file.contexts[n] # None
        /\ \/ file' = [file EXCEPT !.current = n]
           \/ file' = [file EXCEPT !.contexts[n] = None]
  BY DEF UserChanges
<1>2. UNCHANGED <<gen, target, useContext>> /\ Done' = Done
  BY DEF UserChanges, inputs, Done
<1>3. CASE file' = [file EXCEPT !.current = n]
  <2>1. /\ file'.contexts = file.contexts /\ file'.clusters = file.clusters
        /\ file'.users = file.users /\ file'.current = n
    BY <1>3 DEF TypeOK, Config
  <2>2. Leads' = Leads
    BY <2>1 DEF Leads, LeadsTo
  <2>3. Leads[n] # {}
    BY <1>1, LeadsToOne DEF CoherenceInv
  <2>4. ContextFile!Use(n)
    BY <1>2, <2>1, <2>2, <2>3 DEF ContextFile!Use, Leads, Done
  <2>5. QED
    BY <2>4 DEF ContextFile!Next, ContextFile!Names, Names
<1>4. CASE file' = [file EXCEPT !.contexts[n] = None]
  <2>1. /\ file'.contexts = [file.contexts EXCEPT ![n] = None]
        /\ file'.clusters = file.clusters /\ file'.users = file.users
        /\ file'.current = file.current
    BY <1>4 DEF TypeOK, Config
  <2>2. Leads' = [Leads EXCEPT ![n] = {}]
    <3>1. \A m \in Names :
            file'.contexts[m] = IF m = n THEN None ELSE file.contexts[m]
      BY <2>1 DEF TypeOK, Config
    <3>2. \A m \in Names : LeadsTo(m)' = IF m = n THEN {} ELSE LeadsTo(m)
      BY <2>1, <3>1, Zenon DEF LeadsTo
    <3>3. QED
      BY <3>2 DEF Leads
  <2>3. ContextFile!Delete(n)
    BY <1>2, <2>1, <2>2 DEF ContextFile!Delete, Leads, Done
  <2>4. QED
    BY <2>3 DEF ContextFile!Next, ContextFile!Names, Names
<1>5. QED
  BY <1>1, <1>3, <1>4

\* Every step of Kubeconfig is one of ContextFile or changes nothing it sees.
LEMMA StepRefines ==
  ASSUME TypeOK, CoherenceInv, CoherenceInv', TurnInv, [Next]_vars
  PROVE  [ContextFile!Next]_(ContextFile!vars)
<1>1. ASSUME NEW p \in Runs, Begin(p) \/ Fetch(p) \/ ReadExisting(p)
      PROVE  UNCHANGED (ContextFile!vars)
  <2>1. Done' = Done /\ UNCHANGED <<gen, inputs, file>>
    BY <1>1 DEF Begin, Fetch, ReadExisting, Done, Ends, TypeOK
  <2>2. QED
    BY <2>1, SameFile
<1>2. ASSUME NEW p \in Runs, Modify(p) PROVE ContextFile!Next
  BY <1>2, ModifyRefines
<1>3. ASSUME NEW p \in Runs, Fail(p) PROVE ContextFile!Next
  <2>1. p \notin Done /\ Done' = Done \union {p}
    BY <1>3, DoneGrows DEF Fail, Stages, Ends
  <2>2. UNCHANGED <<gen, target, useContext, file>>
    BY <1>3 DEF Fail, inputs
  <2>3. Leads' = Leads
    BY <2>2 DEF Leads, LeadsTo
  <2>4. ContextFile!GiveUp(p)
    BY <2>1, <2>2, <2>3 DEF ContextFile!GiveUp, Leads, Done
  <2>5. QED
    BY <2>4 DEF ContextFile!Next
<1>4. ASSUME NEW c \in Clusters, Reinstall(c) PROVE ContextFile!Next
  <2>1. UNCHANGED <<target, useContext, file>> /\ Done' = Done
    BY <1>4 DEF Reinstall, inputs, Done
  <2>2. Leads' = Leads
    BY <2>1 DEF Leads, LeadsTo
  <2>3. ContextFile!Reinstall(c)
    BY <1>4, <2>1, <2>2 DEF Reinstall, ContextFile!Reinstall, Leads, Done
  <2>4. QED
    BY <2>3 DEF ContextFile!Next
<1>5. CASE UserChanges
  BY <1>5, UserRefines
<1>6. CASE UNCHANGED vars
  BY <1>6, SameFile DEF vars, Done
<1>7. QED
  BY <1>1, <1>2, <1>3, <1>4, <1>5, <1>6 DEF Next, Finished

\* The file is empty or the user's own in the beginning.
LEMMA InitRefines == Init => ContextFile!Init
<1> SUFFICES ASSUME Init PROVE ContextFile!Init
  OBVIOUS
<1>1. Coherent(file)
  BY EmptyCoherent, UserConfCoherent DEF Init
<1>2. \A n \in Names :
        Leads[n] = IF file.contexts[n] = None THEN {} ELSE {file.clusters[n].ca}
  BY <1>1, LeadsToOne
<1>3. Done = {}
  BY DEF Init, Done, Ends
<1>4. CASE file = Empty
  <2>1. Leads = [n \in Names |-> {}] /\ file.current = None
    <3>1. \A n \in Names : Leads[n] = {}
      BY <1>2, <1>4, EmptyType
    <3>2. QED
      BY <1>4, <3>1, EmptyType, Zenon DEF Leads
  <2>2. QED
    BY <1>3, <2>1 DEF Init, ContextFile!Init, ContextFile!Names, Names, Leads, Done
<1>5. CASE file = UserConf
  <2> DEFINE own == [of |-> "own", gen |-> 0]
  <2>1. /\ file.clusters["default"].ca = own
        /\ \A n \in Names : file.contexts[n] =
             IF n = "default" THEN [cluster |-> "default", user |-> "default"] ELSE None
        /\ file.current = "default"
    <3>1. PICK entry : entry = [ca |-> own, ports |-> <<ApiPort>>]
      OBVIOUS
    <3>2. entry.ca = own
      BY <3>1
    <3> HIDE DEF own
    <3>3. /\ file.clusters = Only("default", entry)
          /\ file.contexts =
               Only("default", [cluster |-> "default", user |-> "default"])
          /\ file.current = "default"
      BY <1>5, <3>1 DEF UserConf, AdminConf, own
    <3>4. QED
      BY <3>2, <3>3, NamesOfClusters DEF Only
  <2>2. [cluster |-> "default", user |-> "default"] # None
    <3>1. [cluster |-> "default", user |-> "default"] \in ContextEntry
      BY NamesOfClusters DEF ContextEntry
    <3>2. QED
      BY <3>1, NoneIsNoEntry
  <2>3. \A n \in Names : Leads[n] = IF n = "default" THEN {own} ELSE {}
    BY <1>2, <2>1, <2>2
  <2>4. Leads = [n \in Names |-> IF n = "default" THEN {own} ELSE {}]
    BY <2>3 DEF Leads
  <2>5. QED
    BY <1>3, <2>1, <2>4
       DEF Init, ContextFile!Init, ContextFile!Names, ContextFile!Own, Names, Leads, Done
<1>6. QED
  BY <1>4, <1>5 DEF Init

\* Kubeconfig implements ContextFile when runs take turns with each other and
\* with the user, whatever is installed again and whichever runs fail.
THEOREM AlwaysImplementsContextFile ==
  ASSUME ~Overlap
  PROVE  Spec => ImplementsContextFile
<1>1. TypeOK /\ CoherenceInv /\ [Next]_vars => CoherenceInv'
  BY CoherenceStep
<1>2. TypeOK /\ CoherenceInv /\ TurnInv /\ [Next]_vars => TurnInv'
  BY TurnStep
<1>3. TypeOK /\ CoherenceInv /\ CoherenceInv' /\ TurnInv /\ [Next]_vars
        => [ContextFile!Next]_(ContextFile!vars)
  BY StepRefines
<1>4. QED
  BY <1>1, <1>2, <1>3, CoherenceInit, TurnInit, InitRefines, TypeCorrect, PTL
     DEF Spec, ImplementsContextFile, ContextFile!Spec
================================================================================
