--------------------------------- MODULE Gates ---------------------------------
(***************************************************************************)
(* The validators of scripts/gitops: programs that look at files of the    *)
(* checkout and change nothing, under --apply neither.  Every one of them  *)
(* exits with 0 in the three modes if the files it names exist and hold    *)
(* what it looks for, with the versions .env resolves to, and with 1 if    *)
(* not.  What is wrong with a file makes no difference: a gate is the set  *)
(* of files that must be right.                                            *)
(*                                                                         *)
(* A "footprint" is an entry of output/provisioned.yaml, which nothing     *)
(* writes; a "marker" is the file image-preflight.py leaves for an image   *)
(* of that version.                                                        *)
(***************************************************************************)

a2a == {"a2a.yaml", "agent-engine-overlay", "platform-scaffold"}

api_key_auth == {"api-key-authn-footprint", "api-key-authn-doc", "api-key-authn.yaml",
                 "telemetry-http-api-key-authn.yaml", "security-overlay"}

backstage == {"backstage-footprint", "backstage-doc", "backstage.yaml", "backstage-overlay"}

casbin == {"casbin-rbac-footprint", "casbin-rbac-doc", "casbin-rbac.yaml", "casbin-overlay"}

casbin_rebac ==
    {"casbin-rebac-footprint", "casbin-rebac-doc", "casbin-rebac.yaml", "casbin-overlay"}

casbin_abac == {"casbin-abac-footprint", "casbin-abac-doc", "casbin-abac.yaml", "casbin-overlay"}

casdoor == {"casdoor-footprint", "casdoor-doc", "casdoor.yaml", "casdoor-overlay"}

clustermesh == {"clustermesh.yaml", "clustermesh-overlay", "platform-scaffold"}

entity_store == {"entity-store.yaml", "entity-store-overlay", "platform-scaffold"}

grafana_alertmanager == {"grafana-dashboards.json", "alertmanager.yaml", "platform-scaffold"}

grafana_hubble_routes ==
    {"grafana-hubble-routes.yaml", "observability-overlay", "platform-scaffold"}

infisical == {"infisical-footprint", "infisical-doc", "infisical.yaml", "infisical-overlay"}

mcp_tools == {"mcp-tools.yaml", "agent-engine-overlay", "platform-scaffold"}

observability_ui ==
    {"observability-ui-footprint", "observability-ui-doc", "observability-ui-routes.yaml",
     "envoy-ui-routes.yaml", "observability-overlay"}

openapi == {"openapi-footprint", "openapi-doc", "openapi.yaml", "openapi-overlay",
            "hpdc-edge-api.yaml"}

otel_collector == {"otel-collector.yaml", "victoria-metrics-overlay", "platform-scaffold"}

regional_hub == {"regional-hub.yaml", "regional-hub-overlay", "platform-scaffold"}

regional_sovereignty ==
    {"regional-sovereignty.yaml", "regional-sovereignty-overlay", "platform-scaffold"}

telemetry_ingestion ==
    {"telemetry-ingestion-footprint", "telemetry-ingestion-doc", "telemetry-ingestion.yaml",
     "telemetry-ingestion-overlay", "envoy-gateway.yaml", "api-key-authn.yaml"}

tool_ui == {"tool-ui-footprint", "tool-ui-doc", "tool-ui-routes.yaml", "tool-ui-overlay"}

victoria_metrics == {"victoria-metrics.yaml", "victoria-metrics-overlay", "platform-scaffold"}

vmlogs == {"vmlogs.yaml", "victoria-metrics-overlay"}

argo_rollouts == {"argo-rollouts-footprint", "argo-rollouts-marker", "argorollouts.yaml",
                  "argo-rollouts-overlay"}

argo_events == {"argo-events-footprint", "argo-events-marker", "argoevents.yaml",
                "argo-events-overlay"}

spegel == {"spegel-marker", "spegel.yaml", "spegel-overlay"}

\* The whole platform: a scaffold and an overlay for every stage.
platform_dev == {"platform-scaffold", "platform-dev-overlay", "platform-staging-overlay",
                 "platform-prod-overlay"}

\* The offline delivery pipeline as a whole, whatever part of it is enabled: each tool's
\* manifest, marker and footprint, the footprint with the version .env resolves to.
offline_gitops_pipeline ==
    {"git-mirror.yaml", "spegel.yaml", "kargo.yaml", "argocd.yaml", "argorollouts.yaml",
     "argoevents.yaml", "registry.yaml",
     "spegel-marker", "argocd-marker", "kargo-marker", "argo-rollouts-marker",
     "argo-events-marker",
     "git-mirror-footprint", "kargo-footprint", "argocd-footprint",
     "argo-rollouts-footprint", "argo-events-footprint"}

\* The files the installers look at before they touch the cluster.
cilium_files == {"startup.dev.py", "cilium-dev.yaml"}
cilium_mtls_manifests == {"cilium-mtls.yaml", "cilium-mtls-test.yaml", "mesh-overlay"}
mtls_markers == {"cilium-marker", "spire-agent-marker", "spire-server-marker"}
rook_ceph_manifests == {"rook-ceph.yaml", "storageclasses.yaml", "rook-ceph-overlay"}
kargo_files == {"kargo-footprint", "kargo-marker", "kargo.yaml", "kargo-overlay"}
argocd_files == {"argocd-footprint", "argocd-marker", "argocd.yaml", "argocd-overlay"}
git_mirror_files == {"git-mirror-footprint", "git-mirror.yaml", "git-mirror-overlay"}
edge_cert_files == {"envoy-gateway-footprint", "envoy-gateway.yaml"}
envoy_gateway_files ==
    {"envoy-gateway-footprint", "envoy-gateway-doc", "gateway-crds.yaml",
     "envoy-gateway.yaml", "envoy-gateway-overlay"}
hubble_route_files == {"grafana-hubble-routes.yaml"}
e2e_files == {"hubble-ui.spec.ts", "playwright.config.ts"}
simulator_files == {"telemetry-simulator-config.yaml"}

\* Every file that a program of this directory looks at; the L2 documents in cilium-dev.yaml;
\* and the program helm, which some look for.
CheckedFiles ==
    UNION {a2a, api_key_auth, backstage, casbin, casbin_rebac, casbin_abac, casdoor,
           clustermesh, entity_store, grafana_alertmanager, grafana_hubble_routes, infisical,
           mcp_tools, observability_ui, openapi, otel_collector, regional_hub,
           regional_sovereignty, telemetry_ingestion, tool_ui, victoria_metrics, vmlogs,
           argo_rollouts, argo_events, spegel, platform_dev, offline_gitops_pipeline,
           cilium_files, cilium_mtls_manifests, mtls_markers, rook_ceph_manifests,
           kargo_files, argocd_files, git_mirror_files, edge_cert_files,
           envoy_gateway_files, hubble_route_files, e2e_files, simulator_files,
           {"rook-marker", "cilium-mtls-doc", "rook-ceph-doc", "rook-image-in-the-registry",
            "vendored-rook-manifests", "l2-documents", "helm"}}
================================================================================
