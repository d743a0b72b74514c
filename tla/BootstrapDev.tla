------------------------------ MODULE BootstrapDev ------------------------------
(***************************************************************************)
(* Step 02 of startup.dev.py, which runs in its process: the bootstrap of  *)
(* a kind cluster (bootstrap_kind_dev.py) or of a Talos cluster on docker  *)
(* or QEMU (bootstrap_talos_dev.py).  An exception fails the step.         *)
(*                                                                         *)
(* Abstracted: sizes, images, patches and addresses of the cluster; the    *)
(* installation of Cilium in a kind cluster, of which only success or      *)
(* failure counts; seeded assets and file modes; legacy state directories; *)
(* talosconfigs.                                                           *)
(***************************************************************************)
EXTENDS StopDev

\* The step is over; startup goes on with the steps after it, whatever happened.
StepEnds(result) ==
    /\ step02' = result
    /\ cfg' = Absent
    /\ Goto("others")
    /\ UNCHANGED <<job, found>>

Continue(label) == Goto(label) /\ UNCHANGED prog

-----------------------------------------------------------------------------
(* kind                                                                    *)

\* kind delete cluster; if it fails, the containers are removed by their names.
DestroyExistingKind ==
    /\ pc = "kind_destroy"
    /\ \/ /\ {"kind", "docker"} \subseteq job.path
          /\ kind' \in {"absent", kind}
          /\ Continue("kind_create")
       \/ StepEnds("failed") /\ UNCHANGED kind
    /\ UNCHANGED <<containers, vms, link, stateDir, registry, creds>>

\* kind create cluster refuses a name that is in use.  What follows may fail.
ProvisionKind ==
    /\ pc = "kind_create"
    /\ \/ kind = "absent" /\ kind' = "up" /\ StepEnds("ok")
       \/ /\ kind' \in IF kind = "absent" THEN {"absent", "partial", "up"} ELSE {kind}
          /\ StepEnds("failed")
    /\ UNCHANGED <<containers, vms, link, stateDir, registry, creds>>

-----------------------------------------------------------------------------
(* Talos                                                                   *)

ValidateRuntime ==
    /\ pc = "talos_validate"
    /\ \/ Has("talosctl") /\ (job.provider = "qemu" \/ Has("docker")) /\ Continue("purge_talos")
       \/ StepEnds("failed")
    /\ UNCHANGED <<host, creds>>

\* Stale entries are dropped from one file after the other, root's with sudo.
Purge(label, file, next) ==
    /\ pc = label
    /\ kube' = IF kube[file].form = "absent" \/ (file = "root" /\ ~Has("sudo")) THEN kube
               ELSE [kube EXCEPT ![file] = prune(@)]
    /\ Continue(next)
    /\ UNCHANGED <<host, live>>

purge_stale_cluster_state ==
    \/ Purge("purge_talos", "talos", "purge_user")
    \/ Purge("purge_user", "user", "purge_root")
    \/ Purge("purge_root", "root", "talos_destroy")

\* Containers are removed; talosctl is called if there are any, or if the target of
\* the link holds state; then QEMU processes are killed.
DestroyExistingTalos ==
    /\ pc = "talos_destroy"
    /\ IF containers \/ stateDir THEN TalosctlDestroy
       ELSE kill_cluster_qemu /\ UNCHANGED <<containers, stateDir, link>>
    /\ Continue("relink")
    /\ UNCHANGED <<kind, registry, creds>>

\* talos-state is removed, if that is possible, and made again as a symlink, unless
\* it is one; a directory that is still there is in the way.
ensure_dirs ==
    /\ pc = "relink"
    /\ IF link \in {"dir", "state"} /\ ~Has("sudo")
       THEN StepEnds("failed") /\ UNCHANGED link
       ELSE Continue("talos_create") /\ link' = "symlink"
    /\ UNCHANGED <<kind, containers, vms, stateDir, registry, creds>>

\* talosctl cluster create.  Its return code is ignored, since it waits in vain for
\* nodes without a network: any part of the cluster may have come up, and the
\* credentials may have been merged, half merged or not.
CreateTalos ==
    /\ pc = "talos_create"
    /\ live' \in BOOLEAN
    /\ IF job.provider = "docker"
       THEN containers' = TRUE /\ UNCHANGED <<vms, stateDir>>
       ELSE /\ \E mark \in {"link", "target"} : \E started \in SUBSET VMs :
                  vms' = vms \cup (started \X {mark})
            /\ stateDir' = TRUE
            /\ UNCHANGED containers
    /\ LET aged == [f \in Files |-> Aged(kube[f])]
       IN \E merged \in {aged["talos"], Config("null"), Config("torn"), Merged(aged["talos"])} :
             kube' = [aged EXCEPT !["talos"] = merged]
    /\ Continue("sync")
    /\ UNCHANGED <<kind, link, registry>>

\* The command fails before it does anything.
CreateTalosFails ==
    /\ pc = "talos_create"
    /\ Continue("sync")
    /\ UNCHANGED <<host, creds>>

\* The credentials are looked for where talosctl merges them now, where it did so
\* earlier, and in the user's file.
Candidate ==
    IF kube["talos"].form # "absent" THEN kube["talos"]
    ELSE IF Has("sudo") /\ kube["root"].form # "absent" THEN kube["root"]
    ELSE kube["user"]

\* What is going to be written, or nothing if an exception ends the bootstrap: the file
\* does not parse, has no list of contexts, or there is none.  Without a context of a
\* cluster of ours the node is asked for one; if it gives none, the file is taken as it is.
CollectCredentials ==
    /\ pc = "sync"
    /\ LET c == Candidate
           fetched == IF Has("sudo") /\ ApiUp THEN {Single("fresh")} ELSE {}
           usable == IF c.form = "map" /\ \E n \in c.names : ours(n) THEN {c}
                     ELSE IF c.form \in {"torn", "null"} THEN {}
                     ELSE fetched \cup IF c.form = "absent" THEN {} ELSE {c}
       IN \/ /\ \E u \in usable : cfg' = patch_servers(u)
             /\ Goto("write_repo") /\ UNCHANGED <<job, found, step02>>
          \/ (usable = {} \/ job.provider = "docker") /\ StepEnds("failed")
    /\ UNCHANGED <<host, creds>>

WriteConfig(label, file, next) ==
    /\ pc = label
    /\ kube' = IF file = "root" /\ ~Has("sudo") THEN kube ELSE [kube EXCEPT ![file] = cfg]
    /\ Continue(next)
    /\ UNCHANGED <<host, live>>

sync_kubeconfigs ==
    \/ CollectCredentials
    \/ WriteConfig("write_repo", "repo", "write_user")
    \/ WriteConfig("write_user", "user", "write_root")
    \/ WriteConfig("write_root", "root", "verify_api")

\* kubectl get nodes, with the user's file, decides whether the cluster came up.
VerifyApi ==
    /\ pc = "verify_api"
    /\ \/ Reaches(kube["user"], ApiUp) /\ StepEnds("ok")
       \/ StepEnds("failed")
    /\ UNCHANGED <<host, creds>>

BootstrapNext ==
    \/ DestroyExistingKind \/ ProvisionKind
    \/ ValidateRuntime \/ purge_stale_cluster_state \/ DestroyExistingTalos
    \/ ensure_dirs \/ CreateTalos \/ CreateTalosFails
    \/ sync_kubeconfigs \/ VerifyApi
================================================================================
