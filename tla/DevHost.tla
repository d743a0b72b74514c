-------------------------------- MODULE DevHost --------------------------------
(***************************************************************************)
(* The developer's machine: what kind, docker, talosctl and QEMU keep on   *)
(* it of a dev cluster, and the one terminal in which the programs run.    *)
(*                                                                         *)
(* The tools are not part of the repository.  Each call of one may have    *)
(* its whole effect, a part of it or none, whatever it returns.  QEMU      *)
(* processes may end at any time, also long after they were signalled, and *)
(* need not end when they are.                                             *)
(***************************************************************************)
EXTENDS Kubeconfigs

CONSTANTS
    VMs,       \* the machines of a Talos cluster on QEMU
    Paths,     \* the sets of programs that a command may find on its PATH
    Providers  \* values of HPDC_PROVIDER

Tools == {"docker", "kind", "talosctl", "sudo"}

\* A QEMU process names the state directory by the link or by its target.
Processes == VMs \X {"link", "target"}

ASSUME HostAssumption ==
    /\ Paths \subseteq SUBSET Tools /\ Paths # {}
    /\ Providers \subseteq {"kind", "docker", "qemu"} /\ Providers # {}

VARIABLES
    kind,        \* containers of the kind cluster: "absent", "partial" or "up"
    containers,  \* whether there are containers of a Talos cluster
    vms,         \* the QEMU processes of Talos clusters
    link,        \* talos-state: "absent", a "symlink", a "dir", or one with the cluster's "state"
    stateDir,    \* whether the target of the symlink holds the cluster's state
    registry,    \* the container of the image registry: "absent", "stopped" or "running"
    kube,        \* the kubeconfig files
    live,        \* whether the API server of the fresh cluster came up
    pc,          \* where the program in the terminal stands, "shell" if none runs
    job,         \* its command
    found,       \* stop.dev.py: the kinds of cluster it found
    step02,      \* startup.dev.py: what became of the provisioning
    cfg          \* sync_kubeconfigs: what it is going to write

host == <<kind, containers, vms, link, stateDir, registry>>
creds == <<kube, live>>
prog == <<job, found, step02, cfg>>
vars == <<host, creds, pc, prog>>

Files == {"talos", "user", "repo", "root"}  \* in resources/talos/home, ~, the repository, /root

Jobs == [prog : {"none", "stop", "startup"}, provider : Providers, path : Paths,
         provision : BOOLEAN]
NoJob == [prog |-> "none", provider |-> CHOOSE p \in Providers : TRUE,
          path |-> CHOOSE p \in Paths : TRUE, provision |-> FALSE]

Has(tool) == tool \in job.path
Goto(label) == pc' = label

Exit ==
    /\ pc' = "shell"
    /\ job' = NoJob /\ found' = {} /\ step02' = "none" /\ cfg' = Absent

Init ==
    /\ kind = "absent" /\ containers = FALSE /\ vms = {}
    /\ link \in {"absent", "dir", "state"} /\ stateDir = FALSE
    /\ registry = "absent"
    /\ kube \in [Files -> {Absent, Single("foreign"), Config("torn")}]
    /\ kube["talos"] = Absent /\ kube["repo"] = Absent
    /\ kube["root"] \in {Absent, kube["user"]}
    /\ live = FALSE
    /\ pc = "shell" /\ job = NoJob /\ found = {} /\ step02 = "none" /\ cfg = Absent

ApiUp == live /\ (vms # {} \/ containers)

-----------------------------------------------------------------------------
(* What happens to the machine on its own.                                 *)

QemuExits ==
    /\ \E v \in vms : vms' = vms \ {v}
    /\ UNCHANGED <<kind, containers, link, stateDir, registry, creds, pc, prog>>

\* The terminal is interrupted, and with it the program and what it called.
Interrupt ==
    /\ pc # "shell"
    /\ Exit
    /\ UNCHANGED <<host, creds>>

\* The machine is restarted: no process survives; containers may be started again.
Reboot ==
    /\ Exit
    /\ vms' = {} /\ live' = FALSE
    /\ registry' \in IF registry = "absent" THEN {"absent"} ELSE {"stopped", "running"}
    /\ UNCHANGED <<kind, containers, link, stateDir, kube>>

-----------------------------------------------------------------------------
(* What the programs see of the clusters, and what their tools do.         *)

kind_cluster_exists(path) == "kind" \in path /\ kind # "absent"

\* Both layouts of the state directory, containers, and QEMU processes that name
\* the link.
talos_cluster_exists(path) ==
    /\ "talosctl" \in path
    /\ \/ stateDir
       \/ link = "state"
       \/ "docker" \in path /\ containers
       \/ \E v \in vms : v[2] = "link"

Found(path) == (IF kind_cluster_exists(path) THEN {"kind"} ELSE {})
               \cup (IF talos_cluster_exists(path) THEN {"talos"} ELSE {})

\* Processes of both layouts are signalled and awaited; without sudo they are not.
kill_cluster_qemu == IF Has("sudo") THEN vms' \in SUBSET vms ELSE UNCHANGED vms

\* talosctl cluster destroy ends processes and removes containers and state, or not.
TalosctlDestroy ==
    /\ vms' \in SUBSET vms
    /\ containers' \in {FALSE, containers}
    /\ stateDir' \in {FALSE, stateDir}
    /\ link' \in IF link = "state" THEN {"dir", link} ELSE {link}
================================================================================
