--------------------------------- MODULE Steps ---------------------------------
(***************************************************************************)
(* The files of scripts/steps: what each runs in each mode, and when it is *)
(* enabled.  Some hand their mode on to an installer; the validators of    *)
(* the applications are run with --dry-run whatever the mode; a few know   *)
(* less modes than startup.dev.py has, and exit with 2.                    *)
(*                                                                         *)
(* Abstracted: programs that print their help or that need nothing, which  *)
(* exit with 0; the simulator's dry run, which needs its configuration.    *)
(***************************************************************************)
EXTENDS Installers

Modes == {"check", "dry_run", "apply"}
ClusterKinds == {"kind", "docker", "qemu"}
Backends == {"local-path", "rook-ceph"}

Run(needs, commands) == [needs |-> needs, commands |-> commands]
Passes == Run({}, << >>)
\* A mode the program's parser refuses: nothing satisfies it.
Refuses == Run({"another-mode"}, << >>)
Validator(files) == [mode \in Modes |-> Run(files, << >>)]
Installer(check, dry_run, files, commands) ==
    [check |-> Run(check, << >>), dry_run |-> Run(dry_run, << >>),
     apply |-> Run(files, commands)]

Step(name, number, toggles, program) ==
    [name |-> name, number |-> number, toggles |-> toggles, program |-> program]
Always == {}

Step01 == Step("01-bootstrap-dev", "1", Always,
    [check |-> Run({"scaffold"}, << >>), dry_run |-> Run({}, bootstrap_dev),
     apply |-> Run({}, bootstrap_dev)])

\* What it does to the firewall is module Firewalld.
Step01_5 == Step("01.5-configure-firewalld-talos", "1.5", Always, Validator({}))

Step02(provider) == Step("02-bootstrap-talos-dev", "2", Always,
    Installer({}, {}, {}, IF provider = "kind" THEN bootstrap_kind_dev
                          ELSE bootstrap_talos_dev(provider)))

\* Its dry run asks the cluster for an address.
Step03 == Step("03-install-cilium-dev", "3", {"CILIUM"},
    Installer(cilium_files, {"cluster"}, {}, cilium_dev))

\* startup.dev.py hands --offline to every step, with which it does nothing.
Step03Online == Step("03-install-cilium-online", "3", {"CILIUM"}, Validator({}))

mtls_needs == mtls_markers \cup cilium_mtls_manifests \cup {"talosconfig", "rook-marker"}

Step04Mtls == Step("04-install-cilium-mtls-dev", "4", {"MTLS", "SPIRE"},
    Installer({"startup.dev.py", "cilium-mtls-doc"} \cup cilium_mtls_manifests,
              mtls_needs, mtls_needs, cilium_mtls))

\* The certificate first; the files of the second program are looked at only after it.
Step04Envoy == Step("04-install-envoy-gateway-dev", "4", {"ENVOY_GATEWAY"},
    Installer(edge_cert_files \cup envoy_gateway_files, {}, edge_cert_files,
              gen_edge_cert \o << Wait(envoy_gateway_files) >> \o envoy_gateway))

\* --check asks the cluster for the gateway; --apply is not one of its modes.
Step04Validate == Step("04-validate-envoy-gateway-dev", "4", {"ENVOY_GATEWAY"},
    [check |-> Run({"gateway", "gateway-certs", "edge-tls", "hubble", "cilium", "l2"}, << >>),
     dry_run |-> Passes, apply |-> Refuses])

rook_needs == {"rook-image-in-the-registry", "talosconfig", "cilium", "qemu-state"}
                  \cup rook_ceph_manifests

\* Enabled for a staging cluster with that backend only: see Enabled.
Step05Rook == Step("05-install-rook-ceph-staging", "5", {"STORAGE_BACKEND"},
    Installer({"startup.dev.py", "rook-ceph-doc"} \cup rook_ceph_manifests,
              rook_needs, rook_needs, rook_ceph_staging))

Step05Storage(storage) == Step("05-install-storage-dev", "5", Always,
    IF storage = "rook-ceph"
    THEN Installer({"talosconfig"}, {"talosconfig"}, {"talosconfig"}, rook_ceph)
    ELSE Installer({}, {}, {}, local_path_provisioner))

Step06 == Step("06-expose-hubble-ui-dev", "6", {"ENVOY_GATEWAY"},
    Installer(hubble_route_files \cup {"hubble-ui.spec.ts"}, {}, {}, expose_hubble_ui))

\* The manifest has a volume of class local-path, which has to be the backend.
git_mirror_needs(storage) ==
    git_mirror_files \cup (IF storage = "local-path" THEN {} ELSE {"another-backend"})
Step09(storage) == Step("09-provision-local-git-mirror", "9", {"GIT_MIRROR"},
    Installer(git_mirror_needs(storage), git_mirror_needs(storage),
              git_mirror_needs(storage), provision_local_git_mirror))

Step10 == Step("10-install-spegel-dev", "10", {"SPEGEL"}, Validator(spegel))
Step11 == Step("11-install-kargo-dev", "11", {"KARGO"},
    Installer(kargo_files, kargo_files, kargo_files, kargo))
Step12 == Step("12-install-argocd-dev", "12", {"ARGOCD"},
    Installer(argocd_files, argocd_files, argocd_files, argocd))
Step13 == Step("13-install-argorollouts-dev", "13", {"ARGO_ROLLOUTS"}, Validator(argo_rollouts))
Step14 == Step("14-install-argoevents-dev", "14", {"ARGO_EVENTS"}, Validator(argo_events))
Step15 == Step("15-validate-offline-gitops-pipeline", "15", Always,
    Validator(offline_gitops_pipeline))
Step16 == Step("16-simulate-telemetry-dev", "16", Always, Validator(simulator_files))
Step17 == Step("17-install-telemetry-ingestion-dev", "17", Always, Validator(telemetry_ingestion))
Step18 == Step("18-install-api-key-auth-dev", "18", {"API_KEY_AUTH"}, Validator(api_key_auth))
Step19 == Step("19-install-casdoor-dev", "19", {"CASDOOR"}, Validator(casdoor))
Step19Kafka == Step("19-kafka-alert-ingestion", "19", Always, Validator({}))
Step20Human == Step("20-alert-human-handling", "20", Always, Validator({}))
Step20 == Step("20-install-casbin-dev", "20",
    {"CASBIN", "CASBIN_RBAC", "CASBIN_REBAC", "CASBIN_ABAC"}, Validator(casbin))
Step21 == Step("21-install-casbin-rebac-dev", "21", {"CASBIN_REBAC"}, Validator(casbin_rebac))
Step21Llm == Step("21-llm-decision-support", "21", Always, Validator({}))
Step22 == Step("22-install-casbin-abac-dev", "22", {"CASBIN_ABAC"}, Validator(casbin_abac))
Step23 == Step("23-install-infisical-dev", "23", {"INFISICAL"}, Validator(infisical))
\* The mesh again, as a dry run.
Step24 == Step("24-install-cilium-mtls-dev", "24", {"MTLS", "SPIRE"}, Validator(mtls_needs))
Step25 == Step("25-install-openapi-dev", "25", {"SWAGGER_UI"}, Validator(openapi))
Step26 == Step("26-install-backstage-dev", "26", {"BACKSTAGE"}, Validator(backstage))
Step27 == Step("27-install-tool-ui-routes-dev", "27", Always, Validator(tool_ui))
Step28 == Step("28-install-observability-ui-routes-dev", "28", {"GRAFANA"},
    Validator(observability_ui))
Step29 == Step("29-install-platform-dev", "29", Always, Validator(platform_dev))
Step30 == Step("30-validate-platform-dev", "30", Always, Validator(platform_dev))
Step31 == Step("31-install-entity-store-dev", "31", Always, Validator(entity_store))
Step32 == Step("32-entity-crud", "32", Always, Validator({}))
Step33 == Step("33-entity-change-feed", "33", Always, Validator({}))
Step34 == Step("34-graphql-gateway", "34", Always, Validator({}))
Step35 == Step("35-install-victoria-metrics-dev", "35", {"VICTORIA_METRICS"},
    Validator(victoria_metrics))
Step36 == Step("36-install-vmlogs-dev", "36", {"VICTORIA_METRICS"}, Validator(vmlogs))
Step37 == Step("37-install-otel-collector-dev", "37", {"OTEL"}, Validator(otel_collector))
Step38 == Step("38-install-grafana-alertmanager-dev", "38", {"GRAFANA", "ALERTMANAGER"},
    Validator(grafana_alertmanager))
Step39 == Step("39-install-grafana-hubble-routes-dev", "39", {"GRAFANA"},
    Validator(grafana_hubble_routes))
Step40 == Step("40-install-clustermesh-dev", "40", Always, Validator(clustermesh))
\* A browser, in all modes.
Step40Test == Step("40-test-hubble-ui-e2e", "40", Always,
    Validator({"hubble-route", "hubble", "l2", "gateway", "gateway-certs", "edge-tls"}
              \cup e2e_files))
Step41 == Step("41-install-regional-sovereignty-dev", "41", Always, Validator(regional_sovereignty))
Step42 == Step("42-install-regional-hub-dev", "42", Always, Validator(regional_hub))
Step43 == Step("43-install-mcp-tools-dev", "43", Always, Validator(mcp_tools))
Step44 == Step("44-install-a2a-dev", "44", Always, Validator(a2a))

\* In the order of their numbers, and of their names where two have the same one.
discover_steps ==
    [provider \in ClusterKinds |-> [storage \in Backends |->
        << Step01, Step01_5, Step02(provider), Step03, Step03Online, Step04Mtls, Step04Envoy,
           Step04Validate, Step05Rook, Step05Storage(storage), Step06, Step09(storage), Step10,
           Step11, Step12, Step13, Step14, Step15, Step16, Step17, Step18, Step19, Step19Kafka,
           Step20Human, Step20, Step21, Step21Llm, Step22, Step23, Step24, Step25, Step26,
           Step27, Step28, Step29, Step30, Step31, Step32, Step33, Step34, Step35, Step36,
           Step37, Step38, Step39, Step40, Step40Test, Step41, Step42, Step43, Step44 >>]]

\* The programs somebody runs without startup.dev.py; initialize_components.py goes on
\* with the next tool where one fails, as the steps do.
cilium_online_by_hand(helm) ==
    << Step("install_cilium_online", "", Always, Installer({}, {}, {}, cilium_online(helm))) >>

initialize_components ==
    << Step("kargo", "", Always, Installer({}, {}, {}, initialize_kargo)),
       Step("argocd", "", Always, Installer({}, {}, {}, initialize_argocd)),
       Step("victoria-metrics", "", Always, Installer({}, {}, {}, initialize_victoria_metrics)),
       Step("grafana", "", Always, Installer({}, {}, {}, initialize_grafana)) >>

step_matches(step, selection) == selection \in {step.name, step.number}

\* Storage is special: Rook is for staging clusters.  The toggles are those that are on.
is_step_enabled(step, toggles, storage) ==
    IF step.name = "05-install-rook-ceph-staging"
    THEN storage = "rook-ceph" /\ "STAGING" \in toggles
    ELSE step.toggles = Always \/ step.toggles \cap toggles # {}

\* Mutated form of step_mode_args: the bootstrap of the cluster is taken for that of files.
step_mode_args_both(step, mode) ==
    IF step.number \in {"1", "2"} /\ mode = "dry_run" THEN "apply" ELSE mode

\* The mode a step gets from startup.dev.py: the one of the command line, but the scaffold
\* and the cluster have no word for --apply and take no word for it.
step_mode_args(step, mode) ==
    IF step.name = "01-bootstrap-dev" /\ mode = "dry_run" THEN "apply" ELSE mode
================================================================================
