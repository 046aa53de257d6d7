-------------------------------- MODULE MCAddons --------------------------------
(***************************************************************************)
(* Instances of Addons for TLC: the addons that are shipped, with their    *)
(* images, and cluster manifests that ask for them.                        *)
(***************************************************************************)
EXTENDS Addons

MCShipped ==
  [flux |-> [kind |-> "jsonnet",
             params |-> {"gitURL", "namespace", "imageRepository"}, required |-> {"gitURL"},
             images |-> {<<"fluxcd", "flux">>, <<"memcached">>}],
   fluxHelmOp |-> [kind |-> "yaml", params |-> {}, required |-> {},
                   images |-> {<<"gcr.io", "kubernetes-helm", "tiller">>,
                               <<"docker.io", "fluxcd", "helm-operator">>}],
   weaveNet |-> [kind |-> "yaml", params |-> {}, required |-> {},
                 images |-> {<<"docker.io", "weaveworks", "weave-kube">>,
                             <<"docker.io", "weaveworks", "weave-npc">>}]]

MCHosts == {"gcr.io", "docker.io", "registry:5000"}
MCDest == <<"registry:5000", "wks">>

Plain(a) == [name |-> a, params |-> Nil]
Flux(url) == [name |-> "flux", params |-> [gitURL |-> url]]
Asks(addons, repository) == [addons |-> addons, repository |-> repository]

\* Manifests with a repository or none, without a parameter that is required,
\* with one the addon does not know, with an unknown addon and with two.
MCManifests ==
  { Asks(<<Flux("a"), Plain("weaveNet")>>, <<>>),
    Asks(<<Flux("b"), Plain("fluxHelmOp")>>, MCDest),
    Asks(<<Plain("weaveNet"), Flux("a"), Flux("b")>>, <<"registry:5000">>),
    Asks(<<Plain("weaveNet")>>, <<"registry:5000", "wks", "x">>),
    Asks(<<Plain("weaveNet")>>, MCDest),
    Asks(<<Plain("flux")>>, MCDest),
    Asks(<<[name |-> "weaveNet", params |-> [gitURL |-> "a"]]>>, <<>>),
    Asks(<<Plain("other")>>, <<>>) }
================================================================================
