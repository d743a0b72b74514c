------------------------------ MODULE SetupSteps -------------------------------
(***************************************************************************)
(* The run of the setup steps by scripts/startup.dev.py, over the files of *)
(* a checkout, a dev cluster and a firewall: which steps are selected and  *)
(* enabled, what each does in which mode, what is left where a command of  *)
(* it fails or the user interrupts, and what the exit code of the whole    *)
(* says.  Two more programs that are run by hand change the same cluster.  *)
(*                                                                         *)
(* Abstracted: one command line at a time; the teardown before step 02 and *)
(* the replacement of a cluster are one step each (module StartupDev has   *)
(* them in detail); the app-of-apps rendering at the start (module         *)
(* AppOfApps); the log.                                                    *)
(***************************************************************************)
EXTENDS Steps, Firewalld, SequencesExt

CONSTANTS
    Environments,   \* [right: what is as it must be (CheckedFiles), toggles: those that are on,
                    \*  provider, firewalld: is it active, jobs: the command lines tried]
    MaxFaults       \* bound on failed commands and interrupts

Programs == {"startup", "install_cilium_online", "initialize_components"}

ASSUME SetupAssumption ==
    /\ MaxFaults \in Nat
    /\ \A env \in Environments :
          /\ env.right \subseteq CheckedFiles /\ env.provider \in ClusterKinds
          /\ env.firewalld \in BOOLEAN
          /\ \A j \in env.jobs :
                /\ j.prog \in Programs /\ j.mode \in Modes /\ j.storage \in Backends
                /\ j.select \in Seq(STRING)

VARIABLES
    env,            \* the environment, which stays
    objects,        \* what there is in the cluster and on the host
    cmdline,        \* the last command line, [prog, mode, storage, select]
    steps,          \* the positions of the steps it selected
    at,             \* the one that runs; 0: the program has ended
    line,           \* its command; 0: it has not started
    failed,         \* some step failed
    outcome,        \* how the program ended: "none", "ok", "failed", "cut"
    faults

program == <<env, cmdline, steps, faults>>
setupVars == <<env, objects, cmdline, steps, at, line, failed, outcome, faults, firewall>>

None == [prog |-> "none", mode |-> "check", storage |-> "local-path", select |-> << >>]

SetupInit ==
    /\ env \in Environments
    /\ objects = {} /\ FirewallInit
    /\ cmdline = None /\ steps = << >> /\ at = 0 /\ line = 0
    /\ failed = FALSE /\ outcome = "none" /\ faults = 0

Here == objects \cup env.right
Idle == at = 0

-----------------------------------------------------------------------------
(* The command line. *)

\* The steps of a program, and those the command line asks for, by their positions: in its
\* order, once for every time they are named.
Steps_of(j) ==
    CASE j.prog = "startup" -> discover_steps[env.provider][j.storage]
      [] j.prog = "install_cilium_online" -> cilium_online_by_hand("helm" \in env.right)
      [] j.prog = "initialize_components" -> initialize_components

Matching(all, selection) ==
    FlattenSeq([i \in DOMAIN all |-> IF step_matches(all[i], selection) THEN <<i>> ELSE << >>])

selected_steps(all, selections) ==
    IF selections = << >> THEN [i \in DOMAIN all |-> i]
    ELSE FlattenSeq([k \in DOMAIN selections |-> Matching(all, selections[k])])

\* A step that is not known ends the program before anything is done.
CommandLine ==
    /\ Idle
    /\ \E j \in env.jobs :
          /\ cmdline' = j
          /\ IF \E k \in DOMAIN j.select : Matching(Steps_of(j), j.select[k]) = << >>
             THEN steps' = << >> /\ outcome' = "failed" /\ UNCHANGED at
             ELSE steps' = selected_steps(Steps_of(j), j.select) /\ outcome' = "none" /\ at' = 1
    /\ line' = 0 /\ failed' = FALSE
    /\ UNCHANGED <<env, objects, faults, firewall>>

Selected(i) == Steps_of(cmdline)[steps[i]]
Numbered(numbers) == \E i \in DOMAIN steps : Selected(i).number \in numbers
Starting == at = 1 /\ line = 0 /\ ~failed /\ cmdline.mode = "apply"
NeedsRegistry == cmdline.prog = "startup" /\ Numbered({"2", "5"})
NeedsTeardown == cmdline.prog = "startup" /\ Numbered({"2"})
NeedsNodes == cmdline.prog = "initialize_components" /\ "cilium" \notin objects

End(how) ==
    /\ at' = 0 /\ line' = 0 /\ outcome' = how
    /\ UNCHANGED <<failed, firewall>>

\* Before the first step: the image registry, and a teardown of the old cluster.  If one
\* of them fails the steps are not run; the cluster may be gone all the same.
Aborts ==
    /\ Starting /\ faults < MaxFaults
    /\ \/ NeedsRegistry /\ UNCHANGED objects
       \/ NeedsTeardown /\ objects' = objects \ ClusterObjects
    /\ faults' = faults + 1
    /\ End("failed")
    /\ UNCHANGED <<env, cmdline, steps>>

NodesNotReady ==
    Starting /\ NeedsNodes /\ End("failed") /\ UNCHANGED <<env, cmdline, steps, faults, objects>>

-----------------------------------------------------------------------------
(* One step after the other. *)

Current == Selected(at)
Mode == step_mode_args(Current, cmdline.mode)
Task == Current.program[Mode]
Command == Task.commands[line]

Enabled(step) == cmdline.prog # "startup" \/ is_step_enabled(step, env.toggles, cmdline.storage)
Firewall == Current.number = "1.5" /\ env.firewalld

Running == ~Idle /\ at <= Len(steps)

\* Mutated form of StepDone: the code of the last step is that of the run.
StepDoneForgets(ok) ==
    at' = at + 1 /\ line' = 0 /\ failed' = ~ok /\ UNCHANGED outcome

\* Mutated form of StepDone: the step after is passed over.
StepDoneTwice(ok) ==
    at' = at + 2 /\ line' = 0 /\ failed' = (failed \/ ~ok) /\ UNCHANGED outcome

StepDone(ok) ==
    /\ at' = at + 1 /\ line' = 0
    /\ failed' = (failed \/ ~ok)
    /\ UNCHANGED outcome

Skip ==
    /\ Running /\ line = 0 /\ ~Enabled(Current)
    /\ at' = at + 1
    /\ UNCHANGED <<program, objects, line, failed, outcome, firewall>>

\* The step looks at what it needs before it does anything.
run_step ==
    /\ Running /\ line = 0 /\ Enabled(Current)
    /\ ~NeedsNodes
    /\ ~Firewall
    /\ IF Task.needs \subseteq Here
       THEN line' = 1 /\ UNCHANGED <<at, failed, outcome>>
       ELSE StepDone(FALSE)
    /\ UNCHANGED <<program, objects, firewall>>

AtLine == Running /\ line \in 1..Len(Task.commands) /\ ~Firewall
AtCommand == AtLine /\ Command.given \subseteq env.right

NothingToDo ==
    /\ AtLine /\ ~(Command.given \subseteq env.right)
    /\ line' = line + 1
    /\ UNCHANGED <<program, objects, at, failed, outcome, firewall>>

Effect == (objects \ Command.drops) \cup Command.adds

CommandSucceeds ==
    /\ AtCommand
    /\ Command.needs \subseteq Here
    /\ objects' = Effect
    /\ line' = line + 1
    /\ UNCHANGED <<program, at, failed, outcome, firewall>>

\* It may have had its effect all the same.
CommandFails ==
    /\ AtCommand
    /\ IF Command.needs \subseteq Here
       THEN /\ faults < MaxFaults /\ faults' = faults + 1
            /\ objects' \in {objects, Effect}
       ELSE UNCHANGED <<faults, objects>>
    /\ IF Command.must THEN StepDone(FALSE) ELSE line' = line + 1 /\ UNCHANGED <<at, failed, outcome>>
    /\ UNCHANGED <<env, cmdline, steps, firewall>>

CommandsDone ==
    /\ Running /\ line > Len(Task.commands) /\ ~Firewall
    /\ StepDone(TRUE)
    /\ UNCHANGED <<program, objects, firewall>>

\* The exit code is that of all steps together.
Summarise ==
    /\ ~Idle /\ at > Len(steps)
    /\ End(IF failed THEN "failed" ELSE "ok")
    /\ UNCHANGED <<program, objects>>

-----------------------------------------------------------------------------
(* The firewall step; its lines are the parts, and then the reload. *)

AtFirewall == Running /\ Firewall
FirewallDone(ok) ==
    /\ StepDone(ok)
    /\ changed' = FALSE
    /\ late' = (late \/ (changed /\ permanent # running))

FirewallReads ==
    /\ AtFirewall /\ line = 0
    /\ IF Mode = "apply" THEN line' = 1 /\ UNCHANGED <<at, failed, outcome>>
       ELSE StepDone(Mode = "check" => check_passes)
    /\ UNCHANGED <<program, objects, firewall>>

FirewallPart ==
    /\ AtFirewall /\ line \in DOMAIN Parts
    /\ PassOver(Parts[line]) \/ Change(Parts[line])
    /\ line' = line + 1
    /\ UNCHANGED <<program, objects, at, failed, outcome>>

FirewallPartRefused ==
    /\ AtFirewall /\ line \in DOMAIN Parts
    /\ Refused(Parts[line])
    /\ IF CanSet(Parts[line]) THEN faults < MaxFaults /\ faults' = faults + 1
                              ELSE UNCHANGED faults
    /\ IF Required(Parts[line])
       THEN StepDone(FALSE) /\ changed' = FALSE /\ late' = (late \/ permanent # running)
       ELSE line' = line + 1 /\ UNCHANGED <<at, failed, outcome, changed, late>>
    /\ UNCHANGED <<env, cmdline, steps, objects>>

FirewallReload ==
    /\ AtFirewall /\ line = Len(Parts) + 1
    /\ IF changed THEN reload ELSE UNCHANGED firewall
    /\ line' = line + 1
    /\ UNCHANGED <<program, objects, at, failed, outcome>>

FirewallReloadFails ==
    /\ AtFirewall /\ line = Len(Parts) + 1 /\ changed
    /\ faults < MaxFaults /\ faults' = faults + 1
    /\ FirewallDone(FALSE)
    /\ UNCHANGED <<env, cmdline, steps, objects, permanent, running>>

FirewallVerifies ==
    /\ AtFirewall /\ line = Len(Parts) + 2
    /\ FirewallDone(verified)
    /\ UNCHANGED <<program, objects, permanent, running>>

\* Reloaded by the administrator, by another service or by the next boot.
FirewallReloaded ==
    /\ env.firewalld /\ ReloadElsewhere
    /\ UNCHANGED <<program, objects, at, line, failed, outcome>>

-----------------------------------------------------------------------------
\* A KeyboardInterrupt is no Exception: it ends the run, not the step alone.
KeyboardInterrupt ==
    /\ ~Idle /\ faults < MaxFaults
    /\ at' = 0 /\ line' = 0 /\ outcome' = "cut" /\ faults' = faults + 1
    /\ changed' = FALSE
    /\ late' = (late \/ (AtFirewall /\ line > 0 /\ permanent # running))
    /\ UNCHANGED <<env, objects, cmdline, steps, failed, permanent, running>>

SetupNext ==
    \/ CommandLine \/ Aborts \/ NodesNotReady \/ Skip \/ run_step
    \/ NothingToDo \/ CommandSucceeds \/ CommandFails \/ CommandsDone \/ Summarise
    \/ FirewallReads \/ FirewallPart \/ FirewallPartRefused
    \/ FirewallReload \/ FirewallReloadFails \/ FirewallVerifies \/ FirewallReloaded
    \/ KeyboardInterrupt

SetupSpec == SetupInit /\ [][SetupNext]_setupVars

-----------------------------------------------------------------------------
(* Properties. *)

\* The shape of the state: objects are those of the cluster and the host, the step that
\* runs is one of the selected.
SetupTypeOK ==
    /\ env \in Environments
    /\ objects \subseteq ClusterObjects \cup HostObjects
    /\ FirewallTypeOK
    /\ cmdline \in env.jobs \cup {None}
    /\ at \in 0..(Len(steps) + 1) /\ line \in Nat
    /\ failed \in BOOLEAN /\ outcome \in {"none", "ok", "failed", "cut"}
    /\ faults \in 0..MaxFaults

\* What somebody who reads "HPDC dev setup completed." relies on, step by step.
Promise(name) ==
    CASE name = "01-bootstrap-dev" -> {"scaffold"}
      [] name = "02-bootstrap-talos-dev" -> {"cluster"}
      [] name = "03-install-cilium-dev" -> {"cilium", "hubble", "l2"}
      [] name = "04-install-cilium-mtls-dev" -> {"spire-serving", "auth"}
      [] name = "04-install-envoy-gateway-dev" -> {"edge-tls", "gateway-certs", "gateway"}
      [] name = "05-install-rook-ceph-staging" -> {"rook-operator", "rook-classes"}
      [] name = "05-install-storage-dev" ->
            IF cmdline.storage = "rook-ceph" THEN {"ceph-cluster", "rook-ceph-default"}
            ELSE {"local-path", "local-path-default"}
      [] name = "06-expose-hubble-ui-dev" -> {"hubble-route", "gateway"}
      [] name = "09-provision-local-git-mirror" -> {"bare-mirror", "mirror-served"}
      [] name = "11-install-kargo-dev" -> {"cert-manager", "kargo"}
      [] name = "12-install-argocd-dev" -> {"argocd", "argocd-repositories"}
      [] name = "install_cilium_online" -> {"cilium"}
      [] name = "kargo" -> {"kargo"}
      [] name = "argocd" -> {"argocd"}
      [] name = "victoria-metrics" -> {"victoria-metrics"}
      [] name = "grafana" -> {"grafana"}
      [] OTHER -> {}

\* What the steps after the i-th take away again: the cluster, the authentication.
TakenAfter(i) ==
    UNION {command.drops : command \in
              UNION {ToSet(Selected(j).program.apply.commands) : j \in i + 1..Len(steps)}}

\* An --apply that ends with exit code 0 leaves everything its enabled steps stand for,
\* whatever failed before it, was interrupted or was only half done, but for what a later
\* one of its steps takes away.
SuccessMeansInstalled ==
    outcome = "ok" /\ cmdline.mode = "apply" =>
        \A i \in DOMAIN steps :
            Enabled(Selected(i)) => Promise(Selected(i).name) \ TakenAfter(i) \subseteq objects

\* Cilium is never told to authenticate before SPIRE has been seen serving: the agents
\* would restart and drop all traffic ("SPIRE server must be serving before Cilium agents
\* restart with auth enabled").
AuthNeedsSpire == "auth" \in objects => "spire-serving" \in objects

\* --check changes nothing, --dry-run nothing but the scaffold, in whatever state they
\* find the cluster and the firewall.
ReadOnlyModesChangeNothing ==
    [][~Idle /\ cmdline.mode # "apply" =>
          /\ objects' \in {objects, objects \cup {"scaffold"}}
          /\ cmdline.mode = "check" => objects' = objects
          /\ permanent' = permanent]_setupVars

\* If the firewall step has ended with success the zone is in force, and not only on disk,
\* unless an earlier run of it ended between a change and its reload and nobody has
\* reloaded firewalld since.
FirewallInForce ==
    outcome = "ok" /\ cmdline.mode = "apply" /\ env.firewalld /\ Numbered({"1.5"}) /\ ~late =>
        {"zone", "target", "source"} \subseteq running
================================================================================
