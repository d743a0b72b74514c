------------------------------ MODULE Installers -------------------------------
(***************************************************************************)
(* What the installers of scripts/gitops do to the cluster, as sequences   *)
(* of commands: each kubectl, helm, openssl or git call that changes       *)
(* something or that may stop the installer.                               *)
(*                                                                         *)
(* A command needs files and objects of the cluster, without which it      *)
(* fails; it adds objects and it may take some away.  "must" says whether  *)
(* its failure ends the program (check=True, a raised RuntimeError or a    *)
(* return 1); without what is "given" there is nothing for it to do, and   *)
(* it is passed over in silence.                                           *)
(*                                                                         *)
(* Abstracted: what an object holds, so that an object that is applied     *)
(* again is the same; waits in a row, which are one wait; empty            *)
(* directories; namespaces that are labelled; kubectl, curl, the helm      *)
(* repositories and the downloads, whose absence is a failure like any     *)
(* other.  Whether there is helm is part of the environment: one installer *)
(* does without.                                                           *)
(***************************************************************************)
EXTENDS Gates, Sequences

Replace(needs, adds, drops) ==
    [needs |-> needs, adds |-> adds, drops |-> drops, must |-> TRUE, given |-> {}]
Do(needs, adds) == Replace(needs, adds, {})
Wait(needs) == Do(needs, {})
Try(needs, adds) == [Do(needs, adds) EXCEPT !.must = FALSE]
IfAny(given, needs, adds) == [Do(needs, adds) EXCEPT !.given = given]

\* What a cluster that is replaced takes with it.
ClusterObjects ==
    {"cluster", "cilium", "hubble", "l2", "kube-proxy", "auth", "spire", "spire-serving",
     "local-path", "rook-operator", "ceph-cluster", "rook-classes",
     "local-path-default", "rook-ceph-default",
     "edge-namespace", "edge-tls", "gateway-crds", "gateway-certs", "gateway",
     "hubble-route", "argocd-namespace", "argocd", "argocd-repositories",
     "cert-manager", "kargo-namespace", "kargo", "monitoring-namespace",
     "victoria-metrics", "grafana"}

\* What stays on the host.
HostObjects == {"scaffold", "talosconfig", "qemu-state", "bare-mirror", "mirror-served",
                "edge-cert"}

\* The scaffold of directories and placeholder files; a file that exists is left alone.
bootstrap_dev == <<Do({}, {"scaffold"})>>

\* The L2 documents among those of rendered/dev.yaml, if there are any.
l2_documents == IfAny({"l2-documents"}, {"cilium"}, {"l2"})

delete_kube_proxy == Replace({"kube-proxy"}, {}, {"kube-proxy"})

\* Step 02 on kind: a new cluster, and Cilium at once, for it has no other CNI.
bootstrap_kind_dev ==
    << Replace({"helm"}, {"cluster", "kube-proxy"}, ClusterObjects),
       Do({"cluster"}, {"cilium"}),
       Wait({"cilium"}),
       delete_kube_proxy,
       Wait({"cilium-dev.yaml"}),
       l2_documents,
       Wait({"cluster"}) >>

\* Step 02 on Talos, in docker or in QEMU: a cluster without CNI and kube-proxy.
bootstrap_talos_dev(provider) ==
    << Replace({}, {"cluster", "talosconfig"}
                   \cup (IF provider = "qemu" THEN {"qemu-state"} ELSE {}),
               ClusterObjects) >>

\* helm is given all values anew: a release that has mutual authentication loses it.  That
\* there are no L2 documents is an error here.
cilium_dev ==
    << Wait({"helm", "cluster"}),
       Replace({"cluster"}, {"cilium", "hubble"}, {"auth"}),
       Wait({"cilium"}),
       Do({"cilium", "cilium-dev.yaml", "l2-documents"}, {"l2"}) >>

\* Run by hand, without --offline.  These values have no Hubble.  It fails where kube-proxy
\* is gone, as it is on every cluster of step 02 that was completed.
cilium_with_helm ==
    << Replace({"cluster"}, {"cilium"}, {"hubble", "auth"}),
       Wait({"cilium"}),
       delete_kube_proxy,
       Wait({"cilium-dev.yaml"}),
       l2_documents,
       Wait({"cilium"}) >>

\* The fallback: Cilium's own manifest, which takes nothing away that it does not name.
\* kube-proxy stays, and the L2 documents are not looked at.
cilium_with_kubectl == << Do({"cluster"}, {"cilium"}), Wait({"cilium"}) >>

cilium_online(helm) == IF helm THEN cilium_with_helm ELSE cilium_with_kubectl

\* Mutated form of cilium_mtls: the rollout of SPIRE is not required (check=False).
cilium_mtls_tolerant ==
    << Do({"helm", "cluster"} \cup cilium_mtls_manifests, {"spire"}),
       Try({"spire", "cilium", "local-path"}, {"spire-serving"}),
       Do({"cluster"}, {"cilium", "auth"}),
       Wait({"cilium", "auth", "spire"}) >>

\* The SPIRE server asks for a volume of class local-path; it must be serving before the
\* agents restart with authentication.
cilium_mtls ==
    << Do({"helm", "cluster"} \cup cilium_mtls_manifests, {"spire"}),
       Do({"spire", "cilium", "local-path"}, {"spire-serving"}),
       Do({"cluster"}, {"cilium", "auth"}),
       Wait({"cilium", "auth", "spire"}) >>

\* The nodes are ready once they have a CNI.
local_path_provisioner ==
    << Wait({"cilium"}),
       Do({"cluster"}, {"local-path"}),
       Wait({"local-path", "cilium"}),
       Do({"local-path"}, {"local-path-default"}) >>

\* The other backend's class stays a default class, too.
rook_ceph ==
    << Wait({"cilium"}),
       Do({"cluster"}, {"rook-operator"}),
       Wait({"rook-operator", "cilium"}),
       Do({"rook-operator"}, {"ceph-cluster"}),
       Wait({"ceph-cluster", "cilium"}),
       Do({"ceph-cluster"}, {"rook-classes"}),
       Do({"rook-classes"}, {"rook-ceph-default"}) >>

rook_ceph_staging ==
    << Do({"cluster", "vendored-rook-manifests"} \cup rook_ceph_manifests,
          {"rook-operator", "ceph-cluster", "rook-classes"}),
       Try({"rook-operator"}, {}),
       Wait({"rook-operator", "cilium"}),
       Wait({"rook-classes"}) >>

\* gen-edge-cert.py --apply: a certificate on disk if there is none, the namespace, and a
\* Secret of it.  Module GatewayCerts has it in detail.
gen_edge_cert ==
    << Do({}, {"edge-cert"}),
       Do({"cluster"}, {"edge-namespace"}),
       Do({"edge-cert", "edge-namespace"}, {"edge-tls"}) >>

\* The Secrets go to a namespace that is in the manifest applied after them: without the
\* one gen-edge-cert makes they could not be created.
envoy_gateway ==
    << Do({"cluster", "gateway-crds.yaml"}, {"gateway-crds"}),
       Do({"edge-namespace"}, {"gateway-certs"}),
       Do({"gateway-crds", "envoy-gateway.yaml"}, {"gateway", "edge-namespace"}),
       Try({"gateway"}, {}) >>

\* Step 06: the route, and a browser that looks at it through the gateway.
expose_hubble_ui ==
    << Do({"gateway-crds", "edge-namespace"} \cup hubble_route_files, {"hubble-route"}),
       Try({"gateway"}, {}),
       Wait({"hubble-route", "hubble", "l2", "gateway", "gateway-certs", "edge-tls"}
            \cup e2e_files) >>

\* That Argo CD could be pointed at the mirror is not required: the mirror comes first.
provision_local_git_mirror ==
    << Do({}, {"bare-mirror"}),
       Do({"bare-mirror"}, {"mirror-served"}),
       Try({"argocd"}, {"argocd-repositories"}) >>

argocd ==
    << Try({"cluster"}, {"argocd-namespace"}),
       Do({"argocd-namespace"}, {"argocd"}),
       Wait({"argocd", "cilium"}),
       Do({"argocd"}, {"argocd-repositories"}),
       Wait({"argocd"}) >>

kargo ==
    << Do({"helm", "cluster"}, {"cert-manager"}),
       Wait({"cert-manager", "cilium"}),
       Do({"cert-manager"}, {"kargo", "kargo-namespace"}),
       Wait({"kargo", "cilium"}) >>

\* initialize_components.py, run by hand: the same tools from their public charts, without
\* cert-manager, and a monitoring stack.
initialize_kargo ==
    << Try({"cluster"}, {"kargo-namespace"}),
       Do({"helm", "kargo-namespace", "cert-manager"}, {"kargo"}) >>

initialize_argocd ==
    << Try({"cluster"}, {"argocd-namespace"}),
       Do({"helm", "argocd-namespace"}, {"argocd"}) >>

initialize_victoria_metrics ==
    << Try({"cluster"}, {"monitoring-namespace"}),
       Do({"helm", "monitoring-namespace"}, {"victoria-metrics"}) >>

initialize_grafana ==
    << Try({"cluster"}, {"monitoring-namespace"}),
       Do({"helm", "monitoring-namespace"}, {"grafana"}) >>
================================================================================
