------------------------------- MODULE StartupDev -------------------------------
(***************************************************************************)
(* scripts/startup.dev.py --apply: the image registry, the teardown of a   *)
(* cluster that is there, and the selected steps.  The dry run and the     *)
(* check do none of the first two and provision nothing.                   *)
(*                                                                         *)
(* Abstracted: the steps other than 02, of which only the exit code        *)
(* counts, are one; the rendering of the app-of-apps, whose result is      *)
(* ignored here (module AppOfApps); the log and the status report.         *)
(***************************************************************************)
EXTENDS BootstrapDev

\* A command is typed.  A startup with step 02 or 05 ensures the registry first.
Type ==
    /\ pc = "shell"
    /\ \E path \in Paths :
          \/ /\ job' = [NoJob EXCEPT !.prog = "stop", !.path = path]
             /\ Goto("stop")
          \/ \E p \in Providers : \E provision \in BOOLEAN :
                /\ job' = [prog |-> "startup", provider |-> p, path |-> path,
                           provision |-> provision]
                /\ pc' \in {"registry"} \cup IF provision THEN {} ELSE {"others"}
    /\ UNCHANGED <<host, creds, found, step02, cfg>>

\* Running, started again, or made; a registry that does not answer ends the startup.
ensure_registry ==
    /\ pc = "registry"
    /\ \/ /\ Has("docker")
          /\ registry' = "running"
          /\ Continue(IF job.provision THEN "check" ELSE "others")
       \/ registry' \in {registry} \cup (IF Has("docker") THEN {"running"} ELSE {}) /\ Exit
    /\ UNCHANGED <<kind, containers, vms, link, stateDir, creds>>

\* Where step 02 begins; other providers than kind have Talos in common.
Provision == IF job.provider = "kind" THEN "kind_destroy" ELSE "talos_validate"

teardown_existing_cluster ==
    /\ pc = "check"
    /\ Continue(IF Found(job.path) = {} THEN Provision ELSE "stop")
    /\ UNCHANGED <<host, creds>>

\* Mutated form of VerifyTeardown: a teardown that was called has succeeded.
VerifyTeardownNever ==
    /\ pc = "verify"
    /\ Continue(Provision)
    /\ UNCHANGED <<host, creds>>

\* What stop.dev.py finds afterwards decides, not how it ended.
VerifyTeardown ==
    /\ pc = "verify"
    /\ IF Found(job.path) = {} THEN Continue(Provision) ELSE Exit
    /\ UNCHANGED <<host, creds>>

\* The other steps run also if step 02 failed.
RunOtherSteps ==
    /\ pc = "others"
    /\ Exit
    /\ UNCHANGED <<host, creds>>

StartupNext ==
    \/ Type \/ ensure_registry \/ teardown_existing_cluster \/ VerifyTeardown \/ RunOtherSteps

Next ==
    \/ StartupNext \/ StopNext \/ BootstrapNext
    \/ QemuExits \/ Interrupt \/ Reboot

Spec == Init /\ [][Next]_vars

-----------------------------------------------------------------------------
(* Properties                                                              *)

Labels ==
    {"shell", "stop", "delete_kind", "destroy", "remove_containers", "remove_state", "sweep",
     "registry", "check", "verify", "kind_destroy", "kind_create", "talos_validate",
     "purge_talos", "purge_user", "purge_root", "talos_destroy", "relink", "talos_create", "sync",
     "write_repo", "write_user", "write_root", "verify_api", "others"}

\* Host, files and program have the shapes the scripts give them; the current context
\* of a kubeconfig is one of its contexts, and only startup provisions.
TypeOK ==
    /\ kind \in {"absent", "partial", "up"} /\ containers \in BOOLEAN
    /\ vms \subseteq Processes
    /\ link \in {"absent", "symlink", "dir", "state"} /\ stateDir \in BOOLEAN
    /\ registry \in {"absent", "stopped", "running"}
    /\ kube \in [Files -> Configs] /\ cfg \in Configs
    /\ \A c \in {kube[f] : f \in Files} \cup {cfg} : c.current \in c.names \cup {"none"}
    /\ live \in BOOLEAN
    /\ pc \in Labels /\ job \in Jobs
    /\ found \subseteq {"kind", "talos"} /\ step02 \in {"none", "ok", "failed"}
    /\ (pc = "shell") = (job.prog = "none") /\ (step02 # "none" => job.provision)

\* When step 02 of a startup that saw all tools went well, there is no cluster of
\* another kind that stop.dev.py would find, whatever was interrupted before.
OneKindOfCluster ==
    step02 = "ok" /\ job.path = Tools
        => Found(Tools) \subseteq {IF job.provider = "kind" THEN "kind" ELSE "talos"}

\* When step 02 has reported a Talos cluster, kubectl talks to the cluster that was made
\* last with the user's file and with the repository's, never to a foreign cluster or
\* an earlier one whose context was in one of the files, and both say the same.
KubectlMeansThisCluster ==
    step02 = "ok" /\ job.provider # "kind"
        => kube["repo"] = kube["user"] /\ kube["repo"].current = "fresh"
================================================================================
