-------------------------------- MODULE StopDev --------------------------------
(***************************************************************************)
(* scripts/stop.dev.py --apply, called from the shell or from startup.     *)
(* --check and --dry-run change nothing: they are the operator Found.      *)
(*                                                                         *)
(* Abstracted: Docker networks and leftover disk images, which nothing     *)
(* else looks at; the exit code, which startup ignores; the sweep of QEMU  *)
(* processes where no cluster was found, which is the one at the end.      *)
(***************************************************************************)
EXTENDS DevHost

\* Back to startup, which asks what is there now.
StopEnds ==
    IF job.prog = "startup"
    THEN Goto("verify") /\ found' = {} /\ UNCHANGED <<job, step02, cfg>>
    ELSE Exit

\* The clusters are looked for once, at the start.
Detect ==
    /\ pc = "stop"
    /\ found' = Found(job.path)
    /\ Goto(IF "kind" \in found' THEN "delete_kind"
            ELSE IF "talos" \in found' THEN "destroy" ELSE "sweep")
    /\ UNCHANGED <<host, creds, job, step02, cfg>>

\* If it fails, the teardown goes on all the same.
DeleteKind ==
    /\ pc = "delete_kind"
    /\ kind' \in {"absent", "partial", kind}
    /\ Goto(IF "talos" \in found THEN "destroy" ELSE "sweep")
    /\ UNCHANGED <<containers, vms, link, stateDir, registry, creds, prog>>

\* talosctl cluster destroy; its return code does not matter.  If it fails without a
\* message, its last line is asked for, and an exception ends the program.  Without
\* docker the teardown ends here, successfully.
talos_destroy ==
    /\ pc = "destroy"
    /\ TalosctlDestroy
    /\ \/ Goto(IF Has("docker") THEN "remove_containers" ELSE "sweep") /\ UNCHANGED prog
       \/ StopEnds
    /\ UNCHANGED <<kind, registry, creds>>

\* Then the QEMU processes are killed.  If all survive, the teardown fails and leaves
\* the state; if some do, it goes on.
RemoveContainers ==
    /\ pc = "remove_containers"
    /\ containers' \in {FALSE, containers}
    /\ kill_cluster_qemu
    /\ Goto(IF vms # {} /\ vms' = vms THEN "sweep" ELSE "remove_state")
    /\ UNCHANGED <<kind, link, stateDir, registry, creds, prog>>

\* Both layouts are removed with sudo; that one could not be is a warning.
RemoveState ==
    /\ pc = "remove_state"
    /\ \E gone \in IF ~Has("sudo") THEN {FALSE} ELSE IF vms = {} THEN {TRUE} ELSE BOOLEAN :
          /\ stateDir' = (stateDir /\ ~gone)
          /\ link' = IF link = "state" /\ gone THEN "dir" ELSE link
    /\ Goto("sweep")
    /\ UNCHANGED <<kind, containers, vms, registry, creds, prog>>

Sweep ==
    /\ pc = "sweep"
    /\ kill_cluster_qemu
    /\ StopEnds
    /\ UNCHANGED <<kind, containers, link, stateDir, registry, creds>>

StopNext ==
    Detect \/ DeleteKind \/ talos_destroy \/ RemoveContainers \/ RemoveState \/ Sweep
================================================================================
