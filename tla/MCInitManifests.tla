----------------------------- MODULE MCInitManifests ----------------------------
(***************************************************************************)
(* An instance of InitManifests for TLC: a clone with a Git directory and  *)
(* a submodule, both with manifests of their own, and cluster manifests    *)
(* whose networks stand in every relation to each other.                   *)
(***************************************************************************)
EXTENDS InitManifests

MCEntries ==
  << <<".git">>, <<".git", "flux.yaml">>,
     <<"flux.yaml">>,
     <<"lib">>, <<"lib", ".git">>, <<"lib", "weave-net.yaml">>,
     <<"setup">>, <<"setup", "flux-helm.yaml">>, <<"setup", "weave-net.yaml">> >>
MCGitFiles == {<<"lib", ".git">>}
MCFluxNames == {"flux.yaml", "flux-helm.yaml"}

MCFields == {"namespace", "git_url", "git_path"}
MCOthers == {"memcached_hostname"}
MCValues == {"a", "b", "old", ""}
Flags(v, path) == [namespace |-> v, git_url |-> v, git_path |-> path]
MCOptions == {Flags("a", "a"), Flags("b", "b"), Flags("b", "")}

MCRepository ==
  [path \in Flux \union WeaveNet |->
    CASE path \in WeaveNet -> [containers |-> "weave"]
      [] path = <<"setup", "flux-helm.yaml">> -> [namespace |-> "old", memcached_hostname |-> "old"]
      [] OTHER -> Flags("old", "old")]

Block(family, ip, size) == [family |-> family, ip |-> ip, size |-> size]
MCSizes == {1, 2, 4, 8}

Cluster(services, pods) ==
  [services |-> services, pods |-> pods,
   serviceDomain |-> "", sshKeyPath |-> "", addonsValid |-> TRUE]
Files(cluster) == [cluster |-> cluster, parses |-> TRUE, machinesValid |-> TRUE]
Small == Block("ipv4", 4, 2)
Good == Cluster(<<Small>>, <<Block("ipv4", 8, 4)>>)

\* Networks apart, within each other both ways, the same, of hosts, of two
\* families, none or two; and every other way to be invalid.
MCManifests ==
  {Files(Cluster(<<Small>>, <<pods>>)) :
     pods \in {Block("ipv4", 0, 4), Block("ipv4", 0, 8), Block("ipv4", 5, 1),
               Block("ipv4", 4, 2), Block("ipv4", 6, 4), Block("ipv6", 4, 2), Malformed}}
  \union
  {Files(Cluster(<<>>, <<Small>>)), Files(Cluster(<<Small>>, <<Small, Small>>)),
   Files([Good EXCEPT !.serviceDomain = "cluster.local"]),
   Files([Good EXCEPT !.serviceDomain = "example.com"]),
   Files([Good EXCEPT !.sshKeyPath = "key"]),
   Files([Good EXCEPT !.addonsValid = FALSE]),
   [Files(Good) EXCEPT !.parses = FALSE],
   [Files(Good) EXCEPT !.machinesValid = FALSE]}
================================================================================
