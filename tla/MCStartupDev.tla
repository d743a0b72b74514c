------------------------------ MODULE MCStartupDev ------------------------------
(* startup.dev.py for TLC.  The lifecycle of the cluster: commands with all    *)
(* tools, or without one of them, as under sudo's secure_path or without       *)
(* cached sudo credentials.  And the steps: small worlds, each with the        *)
(* command lines that matter in it.  The two models share no variable, so that *)
(* TLC looks at one while the other is at rest.                                *)
EXTENDS StartupDev, SetupSteps, TLC

CONSTANTS controlplane, worker

MCPaths == {Tools, Tools \ {"docker"}, Tools \ {"sudo"}}
Symmetry == Permutations({controlplane, worker})

Startup(mode, storage, select) ==
    [prog |-> "startup", mode |-> mode, storage |-> storage, select |-> select]
Apply(select) == Startup("apply", "local-path", select)
ByHand(script) == [prog |-> script, mode |-> "apply", storage |-> "local-path", select |-> << >>]
AllModes(select) == {Startup(mode, "local-path", select) : mode \in Modes}

World(right, toggles, provider, firewalld, jobs) ==
    [right |-> right, toggles |-> toggles, provider |-> provider, firewalld |-> firewalld,
     jobs |-> jobs]

Core == {"CILIUM", "HUBBLE", "SPEGEL", "GIT_MIRROR"}
Everything == Core \cup {"MTLS", "ENVOY_GATEWAY", "KARGO", "ARGOCD", "CASDOOR", "GRAFANA",
                         "CASBIN", "VICTORIA_METRICS", "OTEL"}

MCEnvironments == {
    \* the network and its encryption
    World(CheckedFiles, {"CILIUM", "MTLS"}, "docker", FALSE,
          {Apply(<<"2">>), Apply(<<"3">>), Apply(<<"4", "3">>), Apply(<<"4">>), Apply(<<"5">>),
           Startup("dry_run", "local-path", <<"4">>), ByHand("install_cilium_online")}),
    \* kind, and the tools of the delivery pipeline
    World(CheckedFiles, {"CILIUM", "ARGOCD", "KARGO", "GIT_MIRROR"}, "kind", FALSE,
          {Apply(<<"2">>), Apply(<<"9", "12">>), Apply(<<"11-install-kargo-dev">>),
           Apply(<<"13">>), Startup("dry_run", "local-path", <<"12">>),
           ByHand("initialize_components"), ByHand("install_cilium_online")}),
    \* the edge
    World(CheckedFiles, {"CILIUM", "ENVOY_GATEWAY"}, "docker", FALSE,
          {Apply(<<"2", "3">>), Apply(<<"04-install-envoy-gateway-dev">>), Apply(<<"6">>),
           Apply(<<"4", "40">>), Startup("check", "local-path", <<"4">>)}),
    \* the other storage
    World(CheckedFiles, {"CILIUM", "STAGING"}, "qemu", FALSE,
          {Apply(<<"2", "3">>), Apply(<<"5">>), Startup("apply", "rook-ceph", <<"5">>),
           Startup("dry_run", "rook-ceph", <<"5", "9">>)}),
    \* everything, in all modes; a file that is wrong; a checkout without images
    World(CheckedFiles, Core, "kind", FALSE, AllModes(<< >>)),
    World(CheckedFiles, Everything, "docker", FALSE, AllModes(<< >>) \cup {Apply(<<"7">>)}),
    World(CheckedFiles \ {"platform-scaffold"}, Core, "kind", FALSE, AllModes(<< >>)),
    World(CheckedFiles \ {"spegel-marker", "argocd-marker"}, Core, "kind", FALSE, AllModes(<< >>)),
    \* a checkout without L2 documents, a host without helm
    World(CheckedFiles \ {"l2-documents"}, {"CILIUM"}, "kind", FALSE,
          {Apply(<<"2">>), Apply(<<"3">>), ByHand("install_cilium_online")}),
    World(CheckedFiles \ {"helm"}, {"CILIUM", "MTLS"}, "docker", FALSE,
          {Apply(<<"2">>), Apply(<<"3">>), Apply(<<"4">>), ByHand("install_cilium_online")}),
    \* the firewall
    World(CheckedFiles, Core, "qemu", TRUE, AllModes(<<"1.5">>)) }

\* The machine and the cluster at rest, of which one each is enough.
FreshMachine == pc = "shell" /\ link = "absent" /\ kube = [f \in Files |-> Absent] /\ Init
SomeWorld == CHOOSE e \in Environments : TRUE
NoSteps == outcome = "none" /\ cmdline = None /\ env = SomeWorld /\ SetupInit

DevInit == Init /\ SetupInit /\ (NoSteps \/ FreshMachine)
DevNext ==
    \/ NoSteps /\ Next /\ UNCHANGED setupVars
    \/ FreshMachine /\ SetupNext /\ UNCHANGED vars

DevSpec == DevInit /\ [][DevNext]_<<vars, setupVars>>
================================================================================
