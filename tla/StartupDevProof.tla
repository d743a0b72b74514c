---------------------------- MODULE StartupDevProof ----------------------------
(***************************************************************************)
(* Theorems about startup.dev.py: its dev cluster, for any machines, any   *)
(* sets of programs on the PATH and any providers, and its setup steps,    *)
(* for any environments and any number of failures and interrupts.         *)
(*                                                                         *)
(* Each program may be interrupted after any step and none remembers what  *)
(* it did, so what holds at the end of a startup must follow from what its *)
(* own steps looked at.  PlaceInv says which steps belong to which program *)
(* and provider; HostInv what the search after the teardown has ruled out; *)
(* SyncInv what the files say while the credentials are being written.     *)
(*                                                                         *)
(* Of the steps StepInv says what holds of their programs, whatever there  *)
(* is: what each leaves when no required command of it fails, and that the *)
(* mesh authenticates right after it has seen SPIRE.  The rest is about    *)
(* the run over them: MeshInv, InstalledSoFar, ReloadInv, FirewallSoFar.   *)
(***************************************************************************)
EXTENDS StartupDev, SetupSteps, WellFoundedInduction, TLAPS

StopPlaces == {"stop", "delete_kind", "destroy", "remove_containers", "remove_state", "sweep"}
KindPlaces == {"kind_destroy", "kind_create"}
WritePlaces == {"write_repo", "write_user", "write_root", "verify_api"}
TalosPlaces ==
    WritePlaces \cup {"talos_validate", "purge_talos", "purge_user", "purge_root",
                      "talos_destroy", "relink", "talos_create", "sync"}

\* The current context of a kubeconfig is one of its contexts.
Sound(c) == c \in Configs /\ c.current \in c.names \cup {"none"}

HostType ==
    /\ kind \in {"absent", "partial", "up"} /\ containers \in BOOLEAN
    /\ vms \subseteq Processes
    /\ link \in {"absent", "symlink", "dir", "state"} /\ stateDir \in BOOLEAN
    /\ registry \in {"absent", "stopped", "running"}

FilesType ==
    /\ kube \in [Files -> Configs] /\ \A f \in Files : Sound(kube[f])
    /\ Sound(cfg)
    /\ live \in BOOLEAN

ProgType ==
    /\ pc \in Labels /\ job \in Jobs
    /\ found \subseteq {"kind", "talos"} /\ step02 \in {"none", "ok", "failed"}

\* A place is reached by one program only, but for those of stop.dev.py, which startup
\* calls if it provisions; the provider decides between the places of the bootstrap.
PlaceInv ==
    /\ pc = "shell" <=> job.prog = "none"
    /\ job.prog = "stop" => pc \in StopPlaces
    /\ job.prog = "startup" /\ pc \notin {"registry", "others"} => job.provision
    /\ pc \in KindPlaces => job.provider = "kind"
    /\ pc \in TalosPlaces => job.provider # "kind"
    /\ step02 # "none" => pc = "others" /\ job.provision

\* Between the search after the teardown and the end of step 02, a startup that saw all
\* tools has no cluster of the kind it does not make.
HostInv ==
    job.path = Tools =>
        /\ pc \in KindPlaces => ~talos_cluster_exists(Tools)
        /\ pc \in TalosPlaces => ~kind_cluster_exists(Tools)

\* What is to be written names the new API server wherever it names a context, and the
\* files written so far hold it.
SyncInv ==
    /\ pc \in WritePlaces => (cfg.names # {} => cfg.server = "fresh")
    /\ pc \in {"write_user", "write_root", "verify_api"} => kube["repo"] = cfg
    /\ pc \in {"write_root", "verify_api"} => kube["user"] = cfg

Inv ==
    /\ HostType /\ FilesType /\ ProgType /\ PlaceInv
    /\ HostInv /\ SyncInv /\ OneKindOfCluster /\ KubectlMeansThisCluster

-----------------------------------------------------------------------------
(* What the operators on kubeconfigs preserve.                             *)

LEMMA ConfigSound ==
    /\ \A form \in {"absent", "torn", "null", "map"} : Sound(Config(form))
    /\ \A name \in Contexts : Sound(Single(name))
BY DEF Sound, Config, Single, Configs, Contexts

LEMMA AgedSound ==
    ASSUME NEW c, Sound(c)
    PROVE  Sound(Aged(c))
<1> DEFINE d == Aged(c)
<1>1. c \in Configs /\ c.current \in c.names \cup {"none"}
    BY DEF Sound
<1>2. PICK x : x = {Old(n) : n \in c.names}
    OBVIOUS
<1>3. /\ d = [c EXCEPT !.names = x, !.current = Old(c.current), !.server = Old(c.server)]
    BY <1>2, Zenon DEF Aged
<1>4. Old(c.current) \in {Old(n) : n \in c.names} \cup {"none"}
    BY <1>1 DEF Old
<1>5. x \subseteq Contexts
    BY <1>1, <1>2 DEF Old, Configs, Contexts
<1>6. /\ Old(c.server) \in {"own", "stale", "fresh"}
      /\ Old(c.current) \in Contexts \cup {"none"}
    BY <1>1 DEF Old, Configs, Contexts
<1>7. PICK y, z : y = Old(c.current) /\ z = Old(c.server)
    OBVIOUS
<1>8. d = [c EXCEPT !.names = x, !.current = y, !.server = z]
    BY <1>3, <1>7
<1>9. d \in Configs /\ d.current = y /\ d.names = x
    BY <1>1, <1>5, <1>6, <1>7, <1>8 DEF Configs
<1> QED
    BY <1>2, <1>4, <1>7, <1>9 DEF Sound

LEMMA MergedSound ==
    ASSUME NEW c, Sound(c)
    PROVE  Sound(Merged(c))
BY DEF Sound, Merged, Configs, Contexts

LEMMA PruneSound ==
    ASSUME NEW c, Sound(c)
    PROVE  Sound(prune(c))
<1>1. c \in Configs /\ c.current \in c.names \cup {"none"}
    BY DEF Sound
<1>2. CASE c.form = "torn"
    BY <1>2, ConfigSound DEF prune, Empty
<1>3. CASE c.form # "torn"
    <2> DEFINE kept == {n \in c.names : ~ours(n)}
               current == IF ~ours(c.current) THEN c.current
                          ELSE IF kept = {} THEN "none" ELSE "foreign"
    <2>1. prune(c) = [form |-> c.form, names |-> kept, current |-> current,
                      server |-> c.server]
        BY <1>1, <1>3 DEF prune, Configs
    <2>2. kept \subseteq {"foreign"} /\ kept \subseteq Contexts
        BY <1>1 DEF Configs, Contexts, ours
    <2>3. current \in kept \cup {"none"}
        BY <1>1, <2>2
    <2> QED
        BY <1>1, <2>1, <2>2, <2>3 DEF Sound, Configs
<1> QED
    BY <1>2, <1>3

\* A file whose servers were patched names the new API server, or has no context.
LEMMA PatchSound ==
    ASSUME NEW c, Sound(c)
    PROVE  /\ Sound(patch_servers(c))
           /\ patch_servers(c).names # {} => patch_servers(c).server = "fresh"
BY DEF Sound, patch_servers, Configs

\* The credentials of the new cluster are what a patched file can reach a server with.
LEMMA ReachesFresh ==
    ASSUME NEW c, Sound(c), c.names # {} => c.server = "fresh", NEW up, Reaches(c, up)
    PROVE  c.current = "fresh"
BY DEF Sound, Reaches, Contexts

-----------------------------------------------------------------------------
(* The steps.                                                              *)

WriteConfigs ==
    \/ WriteConfig("write_repo", "repo", "write_user")
    \/ WriteConfig("write_user", "user", "write_root")
    \/ WriteConfig("write_root", "root", "verify_api")

ProgramStep ==
    \/ Type
    \/ ensure_registry
    \/ teardown_existing_cluster
    \/ VerifyTeardown
    \/ RunOtherSteps
    \/ Detect
    \/ DeleteKind
    \/ talos_destroy
    \/ RemoveContainers
    \/ RemoveState
    \/ Sweep
    \/ DestroyExistingKind
    \/ ProvisionKind
    \/ ValidateRuntime
    \/ purge_stale_cluster_state
    \/ DestroyExistingTalos
    \/ ensure_dirs
    \/ CreateTalos
    \/ CreateTalosFails
    \/ CollectCredentials
    \/ WriteConfigs
    \/ VerifyApi
    \/ QemuExits
    \/ Interrupt
    \/ Reboot

LEMMA Split ==
    ASSUME [Next]_vars
    PROVE  ProgramStep \/ UNCHANGED vars
BY DEF Next, StartupNext, StopNext, BootstrapNext, sync_kubeconfigs, WriteConfigs, ProgramStep

LEMMA NoJobIsOne ==
    NoJob \in Jobs /\ NoJob.prog = "none"
BY HostAssumption DEF NoJob, Jobs

\* What a command that was typed makes of the terminal.
LEMMA Typed ==
    ASSUME Type
    PROVE  /\ pc = "shell" /\ job' \in Jobs
           /\ \/ job'.prog = "stop" /\ pc' = "stop"
              \/ job'.prog = "startup" /\ pc' \in {"registry", "others"}
           /\ UNCHANGED <<host, creds, found, step02, cfg>>
<1>1. PICK path \in Paths :
          \/ job' = [NoJob EXCEPT !.prog = "stop", !.path = path] /\ pc' = "stop"
          \/ \E p \in Providers : \E provision \in BOOLEAN :
                /\ job' = [prog |-> "startup", provider |-> p, path |-> path,
                           provision |-> provision]
                /\ pc' \in {"registry"} \cup IF provision THEN {} ELSE {"others"}
    BY DEF Type, Goto
<1>2. CASE job' = [NoJob EXCEPT !.prog = "stop", !.path = path] /\ pc' = "stop"
    BY <1>2, NoJobIsOne DEF Jobs, Type
<1>3. ASSUME NEW p \in Providers, NEW provision \in BOOLEAN,
             job' = [prog |-> "startup", provider |-> p, path |-> path, provision |-> provision],
             pc' \in {"registry"} \cup IF provision THEN {} ELSE {"others"}
      PROVE  job' \in Jobs /\ job'.prog = "startup" /\ pc' \in {"registry", "others"}
    BY <1>3 DEF Jobs
<1> QED
    BY <1>1, <1>2, <1>3 DEF Type

\* What is going to be written is one of the files found, or what the node gave, patched.
LEMMA Collected ==
    ASSUME FilesType, CollectCredentials
    PROVE  \/ pc' = "write_repo" /\ \E u : Sound(u) /\ cfg' = patch_servers(u)
           \/ pc' = "others" /\ cfg' = Absent
<1> DEFINE fetched == IF Has("sudo") /\ ApiUp THEN {Single("fresh")} ELSE {}
           c == Candidate
           usable == IF c.form = "map" /\ \E n \in c.names : ours(n) THEN {c}
                     ELSE IF c.form \in {"torn", "null"} THEN {}
                     ELSE fetched \cup IF c.form = "absent" THEN {} ELSE {c}
<1>1. Sound(c)
    BY DEF Candidate, FilesType, Files
<1>2. \A u \in usable : u = c \/ u = Single("fresh")
    OBVIOUS
<1>3. \A u \in usable : Sound(u)
    BY <1>1, <1>2, ConfigSound DEF Contexts
<1>4. \/ pc' = "write_repo" /\ \E u \in usable : cfg' = patch_servers(u)
      \/ pc' = "others" /\ cfg' = Absent
    BY DEF CollectCredentials, StepEnds, Goto
<1> QED
    BY <1>3, <1>4

LEMMA HostTypeStep ==
    ASSUME HostType, job \in Jobs, [Next]_vars
    PROVE  HostType'
<1>Type. CASE Type
    BY Typed, <1>Type DEF HostType, host
<1>ensure_registry. CASE ensure_registry
    BY <1>ensure_registry DEF HostType, ensure_registry, host
<1>teardown_existing_cluster. CASE teardown_existing_cluster
    BY <1>teardown_existing_cluster DEF HostType, teardown_existing_cluster, host
<1>VerifyTeardown. CASE VerifyTeardown
    BY <1>VerifyTeardown DEF HostType, VerifyTeardown, host
<1>RunOtherSteps. CASE RunOtherSteps
    BY <1>RunOtherSteps DEF HostType, RunOtherSteps, host
<1>Detect. CASE Detect
    BY <1>Detect DEF HostType, Detect, host
<1>DeleteKind. CASE DeleteKind
    BY <1>DeleteKind DEF HostType, DeleteKind, host
<1>talos_destroy. CASE talos_destroy
    BY <1>talos_destroy DEF HostType, talos_destroy, TalosctlDestroy, host
<1>RemoveContainers. CASE RemoveContainers
    BY <1>RemoveContainers DEF HostType, RemoveContainers, kill_cluster_qemu, host
<1>RemoveState. CASE RemoveState
    BY <1>RemoveState DEF HostType, RemoveState, host
<1>Sweep. CASE Sweep
    BY <1>Sweep DEF HostType, Sweep, kill_cluster_qemu, host
<1>DestroyExistingKind. CASE DestroyExistingKind
    BY <1>DestroyExistingKind DEF HostType, DestroyExistingKind, host
<1>ProvisionKind. CASE ProvisionKind
    BY <1>ProvisionKind DEF HostType, ProvisionKind, host
<1>ValidateRuntime. CASE ValidateRuntime
    BY <1>ValidateRuntime DEF HostType, ValidateRuntime, host
<1>purge_stale_cluster_state. CASE purge_stale_cluster_state
    BY <1>purge_stale_cluster_state DEF HostType, purge_stale_cluster_state, Purge, host
<1>DestroyExistingTalos. CASE DestroyExistingTalos
    BY <1>DestroyExistingTalos
       DEF HostType, DestroyExistingTalos, TalosctlDestroy, kill_cluster_qemu, host
<1>ensure_dirs. CASE ensure_dirs
    BY <1>ensure_dirs DEF HostType, ensure_dirs, host
<1>CreateTalos. CASE CreateTalos
    <2>1. vms' \subseteq Processes
        <3>1. CASE job.provider = "docker"
            BY <1>CreateTalos, <3>1 DEF HostType, CreateTalos
        <3>2. CASE job.provider # "docker"
            <4>1. PICK mark \in {"link", "target"}, started \in SUBSET VMs :
                      vms' = vms \cup (started \X {mark})
                BY <1>CreateTalos, <3>2 DEF CreateTalos
            <4> QED
                BY <4>1 DEF HostType, Processes
        <3> QED
            BY <3>1, <3>2
    <2>2. containers' \in BOOLEAN /\ stateDir' \in BOOLEAN /\ UNCHANGED <<kind, link, registry>>
        BY <1>CreateTalos DEF HostType, CreateTalos
    <2> QED
        BY <2>1, <2>2 DEF HostType
<1>CreateTalosFails. CASE CreateTalosFails
    BY <1>CreateTalosFails DEF HostType, CreateTalosFails, host
<1>CollectCredentials. CASE CollectCredentials
    BY <1>CollectCredentials DEF HostType, CollectCredentials, host
<1>WriteConfigs. CASE WriteConfigs
    BY <1>WriteConfigs DEF HostType, WriteConfigs, WriteConfig, host
<1>VerifyApi. CASE VerifyApi
    BY <1>VerifyApi DEF HostType, VerifyApi, host
<1>QemuExits. CASE QemuExits
    BY <1>QemuExits DEF HostType, QemuExits, host
<1>Interrupt. CASE Interrupt
    BY <1>Interrupt DEF HostType, Interrupt, host
<1>Reboot. CASE Reboot
    BY <1>Reboot DEF HostType, Reboot, host
<1>Stutter. CASE UNCHANGED vars
    BY <1>Stutter DEF HostType, vars, host
<1> QED
    BY <1>Type, <1>ensure_registry, <1>teardown_existing_cluster, <1>VerifyTeardown,
       <1>RunOtherSteps, <1>Detect, <1>DeleteKind, <1>talos_destroy, <1>RemoveContainers,
       <1>RemoveState, <1>Sweep, <1>DestroyExistingKind, <1>ProvisionKind, <1>ValidateRuntime,
       <1>purge_stale_cluster_state, <1>DestroyExistingTalos, <1>ensure_dirs, <1>CreateTalos,
       <1>CreateTalosFails, <1>CollectCredentials, <1>WriteConfigs, <1>VerifyApi, <1>QemuExits,
       <1>Interrupt, <1>Reboot, <1>Stutter, Split
       DEF ProgramStep

\* Steps that neither write a kubeconfig nor collect what is to be written.
Quiet ==
    \/ Type
    \/ ensure_registry
    \/ teardown_existing_cluster
    \/ VerifyTeardown
    \/ RunOtherSteps
    \/ Detect
    \/ DeleteKind
    \/ talos_destroy
    \/ RemoveContainers
    \/ RemoveState
    \/ Sweep
    \/ DestroyExistingKind
    \/ ProvisionKind
    \/ ValidateRuntime
    \/ DestroyExistingTalos
    \/ ensure_dirs
    \/ CreateTalosFails
    \/ VerifyApi
    \/ QemuExits
    \/ Interrupt
    \/ Reboot

LEMMA QuietSteps ==
    ASSUME Quiet
    PROVE  /\ UNCHANGED kube /\ live' \in {live, FALSE} /\ cfg' \in {cfg, Absent}
           /\ pc' \in WritePlaces => UNCHANGED <<pc, cfg>>
<1>Type. CASE Type
    BY Typed, <1>Type DEF WritePlaces, creds, prog
<1>ensure_registry. CASE ensure_registry
    BY <1>ensure_registry DEF WritePlaces, ensure_registry, Exit, Continue, Goto, creds, prog
<1>teardown_existing_cluster. CASE teardown_existing_cluster
    BY <1>teardown_existing_cluster
       DEF WritePlaces, teardown_existing_cluster, Continue, Goto, Provision, creds, prog
<1>VerifyTeardown. CASE VerifyTeardown
    BY <1>VerifyTeardown
       DEF WritePlaces, VerifyTeardown, Continue, Goto, Provision, Exit, creds, prog
<1>RunOtherSteps. CASE RunOtherSteps
    BY <1>RunOtherSteps DEF WritePlaces, RunOtherSteps, Exit, creds, prog
<1>Detect. CASE Detect
    BY <1>Detect DEF WritePlaces, Detect, Goto, creds, prog
<1>DeleteKind. CASE DeleteKind
    BY <1>DeleteKind DEF WritePlaces, DeleteKind, Goto, creds, prog
<1>talos_destroy. CASE talos_destroy
    BY <1>talos_destroy DEF WritePlaces, talos_destroy, Goto, StopEnds, Exit, creds, prog
<1>RemoveContainers. CASE RemoveContainers
    BY <1>RemoveContainers DEF WritePlaces, RemoveContainers, Goto, creds, prog
<1>RemoveState. CASE RemoveState
    BY <1>RemoveState DEF WritePlaces, RemoveState, Goto, creds, prog
<1>Sweep. CASE Sweep
    BY <1>Sweep DEF WritePlaces, Sweep, StopEnds, Goto, Exit, creds, prog
<1>DestroyExistingKind. CASE DestroyExistingKind
    BY <1>DestroyExistingKind
       DEF WritePlaces, DestroyExistingKind, Continue, Goto, StepEnds, creds, prog
<1>ProvisionKind. CASE ProvisionKind
    BY <1>ProvisionKind DEF WritePlaces, ProvisionKind, Goto, StepEnds, creds, prog
<1>ValidateRuntime. CASE ValidateRuntime
    BY <1>ValidateRuntime DEF WritePlaces, ValidateRuntime, Continue, Goto, StepEnds, creds, prog
<1>DestroyExistingTalos. CASE DestroyExistingTalos
    BY <1>DestroyExistingTalos DEF WritePlaces, DestroyExistingTalos, Continue, Goto, creds, prog
<1>ensure_dirs. CASE ensure_dirs
    BY <1>ensure_dirs DEF WritePlaces, ensure_dirs, StepEnds, Continue, Goto, creds, prog
<1>CreateTalosFails. CASE CreateTalosFails
    BY <1>CreateTalosFails DEF WritePlaces, CreateTalosFails, Continue, Goto, creds, prog
<1>VerifyApi. CASE VerifyApi
    BY <1>VerifyApi DEF WritePlaces, VerifyApi, StepEnds, Goto, creds, prog
<1>QemuExits. CASE QemuExits
    BY <1>QemuExits DEF WritePlaces, QemuExits, creds, prog
<1>Interrupt. CASE Interrupt
    BY <1>Interrupt DEF WritePlaces, Interrupt, Exit, creds, prog
<1>Reboot. CASE Reboot
    BY <1>Reboot DEF WritePlaces, Reboot, Exit, creds, prog
<1> QED
    BY <1>Type, <1>ensure_registry, <1>teardown_existing_cluster, <1>VerifyTeardown,
       <1>RunOtherSteps, <1>Detect, <1>DeleteKind, <1>talos_destroy, <1>RemoveContainers,
       <1>RemoveState, <1>Sweep, <1>DestroyExistingKind, <1>ProvisionKind, <1>ValidateRuntime,
       <1>DestroyExistingTalos, <1>ensure_dirs, <1>CreateTalosFails, <1>VerifyApi, <1>QemuExits,
       <1>Interrupt, <1>Reboot
       DEF Quiet

LEMMA FilesTypeStep ==
    ASSUME FilesType, [Next]_vars
    PROVE  FilesType'
<1>0. Sound(Absent)
    BY ConfigSound DEF Absent
<1>Quiet. CASE Quiet
    BY <1>0, <1>Quiet, QuietSteps DEF FilesType
<1>purge_stale_cluster_state. CASE purge_stale_cluster_state
    <2>1. ASSUME NEW label, NEW file \in Files, NEW next, Purge(label, file, next)
          PROVE  FilesType'
        <3>1. \A f \in Files : kube'[f] \in {kube[f], prune(kube[f])}
            BY <2>1 DEF Purge, FilesType
        <3>2. \A f \in Files : Sound(kube'[f])
            BY <3>1, PruneSound DEF FilesType
        <3>3. kube' \in [Files -> Configs]
            BY <2>1, <3>2 DEF Purge, FilesType, Sound
        <3>4. live' \in BOOLEAN /\ cfg' = cfg
            BY <2>1 DEF Purge, Continue, prog, FilesType
        <3> QED
            BY <3>2, <3>3, <3>4 DEF FilesType
    <2> QED
        BY <1>purge_stale_cluster_state, <2>1 DEF purge_stale_cluster_state, Files
<1>CreateTalos. CASE CreateTalos
    <2> DEFINE aged == [f \in Files |-> Aged(kube[f])]
    <2>1. PICK merged \in {aged["talos"], Config("null"), Config("torn"), Merged(aged["talos"])} :
              kube' = [aged EXCEPT !["talos"] = merged]
        BY <1>CreateTalos DEF CreateTalos
    <2>2. \A f \in Files : Sound(aged[f])
        BY AgedSound DEF FilesType
    <2>3. Sound(merged)
        BY <2>2, ConfigSound, MergedSound DEF Files
    <2> HIDE DEF aged
    <2>4. \A f \in Files : kube'[f] \in {aged[f], merged}
        BY <2>1 DEF aged
    <2>5. \A f \in Files : Sound(kube'[f])
        BY <2>2, <2>3, <2>4
    <2>6. kube' \in [Files -> Configs]
        BY <2>1, <2>5 DEF aged, Sound
    <2>7. live' \in BOOLEAN /\ cfg' = cfg
        BY <1>CreateTalos DEF CreateTalos, Continue, prog
    <2> QED
        BY <2>5, <2>6, <2>7 DEF FilesType
<1>CollectCredentials. CASE CollectCredentials
    <2>1. UNCHANGED <<kube, live>>
        BY <1>CollectCredentials DEF CollectCredentials, creds
    <2>2. Sound(cfg')
        BY <1>0, <1>CollectCredentials, Collected, PatchSound
    <2> QED
        BY <2>1, <2>2 DEF FilesType
<1>WriteConfigs. CASE WriteConfigs
    <2>1. ASSUME NEW label, NEW file \in Files, NEW next, WriteConfig(label, file, next)
          PROVE  FilesType'
        <3>1. \A f \in Files : kube'[f] \in {kube[f], cfg}
            BY <2>1 DEF WriteConfig, FilesType
        <3>2. \A f \in Files : Sound(kube'[f])
            BY <3>1 DEF FilesType
        <3>3. kube' \in [Files -> Configs]
            BY <2>1, <3>2 DEF WriteConfig, FilesType, Sound
        <3>4. live' \in BOOLEAN /\ cfg' = cfg
            BY <2>1 DEF WriteConfig, Continue, prog, FilesType
        <3> QED
            BY <3>2, <3>3, <3>4 DEF FilesType
    <2> QED
        BY <1>WriteConfigs, <2>1 DEF WriteConfigs, Files
<1>Stutter. CASE UNCHANGED vars
    BY <1>Stutter DEF FilesType, vars, creds, prog
<1> QED
    BY <1>Quiet, <1>purge_stale_cluster_state, <1>CreateTalos, <1>CollectCredentials,
       <1>WriteConfigs, <1>Stutter, Split
       DEF ProgramStep, Quiet

LEMMA ProgStep ==
    ASSUME ProgType, PlaceInv, [Next]_vars
    PROVE  ProgType' /\ PlaceInv'
<1>0. job.prog \in {"none", "stop", "startup"}
    BY DEF ProgType, Jobs
<1>Type. CASE Type
    BY <1>0, Typed, <1>Type
       DEF ProgType, PlaceInv, Labels, StopPlaces, KindPlaces, TalosPlaces, WritePlaces, prog
<1>ensure_registry. CASE ensure_registry
    BY <1>0, NoJobIsOne, <1>ensure_registry
       DEF ProgType, PlaceInv, Labels, StopPlaces, KindPlaces, TalosPlaces, WritePlaces,
           ensure_registry, Exit, Continue, Goto, prog
<1>teardown_existing_cluster. CASE teardown_existing_cluster
    BY <1>0, <1>teardown_existing_cluster
       DEF ProgType, PlaceInv, Labels, StopPlaces, KindPlaces, TalosPlaces, WritePlaces,
           teardown_existing_cluster, Continue, Goto, Provision, prog
<1>VerifyTeardown. CASE VerifyTeardown
    BY <1>0, NoJobIsOne, <1>VerifyTeardown
       DEF ProgType, PlaceInv, Labels, StopPlaces, KindPlaces, TalosPlaces, WritePlaces,
           VerifyTeardown, Continue, Goto, Provision, Exit, prog
<1>RunOtherSteps. CASE RunOtherSteps
    BY <1>0, NoJobIsOne, <1>RunOtherSteps
       DEF ProgType, PlaceInv, Labels, StopPlaces, KindPlaces, TalosPlaces, WritePlaces,
           RunOtherSteps, Exit, prog
<1>Detect. CASE Detect
    <2>1. found' \subseteq {"kind", "talos"}
        BY <1>Detect DEF Detect, Found
    <2>2. pc' \in {"delete_kind", "destroy", "sweep"}
        BY <1>Detect DEF Detect, Goto
    <2>3. pc = "stop" /\ UNCHANGED <<job, step02>>
        BY <1>Detect DEF Detect
    <2> QED
        BY <2>1, <2>2, <2>3 DEF ProgType, PlaceInv, Labels, StopPlaces, KindPlaces, TalosPlaces,
            WritePlaces
<1>DeleteKind. CASE DeleteKind
    BY <1>0, <1>DeleteKind
       DEF ProgType, PlaceInv, Labels, StopPlaces, KindPlaces, TalosPlaces, WritePlaces,
           DeleteKind, Goto, prog
<1>talos_destroy. CASE talos_destroy
    BY <1>0, NoJobIsOne, <1>talos_destroy
       DEF ProgType, PlaceInv, Labels, StopPlaces, KindPlaces, TalosPlaces, WritePlaces,
           talos_destroy, Goto, StopEnds, Exit, prog
<1>RemoveContainers. CASE RemoveContainers
    BY <1>0, <1>RemoveContainers
       DEF ProgType, PlaceInv, Labels, StopPlaces, KindPlaces, TalosPlaces, WritePlaces,
           RemoveContainers, Goto, prog
<1>RemoveState. CASE RemoveState
    BY <1>0, <1>RemoveState
       DEF ProgType, PlaceInv, Labels, StopPlaces, KindPlaces, TalosPlaces, WritePlaces,
           RemoveState, Goto, prog
<1>Sweep. CASE Sweep
    BY <1>0, NoJobIsOne, <1>Sweep
       DEF ProgType, PlaceInv, Labels, StopPlaces, KindPlaces, TalosPlaces, WritePlaces, Sweep,
           StopEnds, Goto, Exit, prog
<1>DestroyExistingKind. CASE DestroyExistingKind
    BY <1>0, <1>DestroyExistingKind
       DEF ProgType, PlaceInv, Labels, StopPlaces, KindPlaces, TalosPlaces, WritePlaces,
           DestroyExistingKind, Continue, Goto, StepEnds, prog
<1>ProvisionKind. CASE ProvisionKind
    BY <1>0, <1>ProvisionKind
       DEF ProgType, PlaceInv, Labels, StopPlaces, KindPlaces, TalosPlaces, WritePlaces,
           ProvisionKind, Goto, StepEnds, prog
<1>ValidateRuntime. CASE ValidateRuntime
    BY <1>0, <1>ValidateRuntime
       DEF ProgType, PlaceInv, Labels, StopPlaces, KindPlaces, TalosPlaces, WritePlaces,
           ValidateRuntime, Continue, Goto, StepEnds, prog
<1>purge_stale_cluster_state. CASE purge_stale_cluster_state
    BY <1>0, <1>purge_stale_cluster_state
       DEF ProgType, PlaceInv, Labels, StopPlaces, KindPlaces, TalosPlaces, WritePlaces,
           purge_stale_cluster_state, Purge, Continue, Goto, prog
<1>DestroyExistingTalos. CASE DestroyExistingTalos
    BY <1>0, <1>DestroyExistingTalos
       DEF ProgType, PlaceInv, Labels, StopPlaces, KindPlaces, TalosPlaces, WritePlaces,
           DestroyExistingTalos, Continue, Goto, prog
<1>ensure_dirs. CASE ensure_dirs
    BY <1>0, <1>ensure_dirs
       DEF ProgType, PlaceInv, Labels, StopPlaces, KindPlaces, TalosPlaces, WritePlaces,
           ensure_dirs, StepEnds, Continue, Goto, prog
<1>CreateTalos. CASE CreateTalos
    BY <1>0, <1>CreateTalos
       DEF ProgType, PlaceInv, Labels, StopPlaces, KindPlaces, TalosPlaces, WritePlaces,
           CreateTalos, Continue, Goto, prog
<1>CreateTalosFails. CASE CreateTalosFails
    BY <1>0, <1>CreateTalosFails
       DEF ProgType, PlaceInv, Labels, StopPlaces, KindPlaces, TalosPlaces, WritePlaces,
           CreateTalosFails, Continue, Goto, prog
<1>CollectCredentials. CASE CollectCredentials
    BY <1>0, <1>CollectCredentials
       DEF ProgType, PlaceInv, Labels, StopPlaces, KindPlaces, TalosPlaces, WritePlaces,
           CollectCredentials, Goto, StepEnds, prog
<1>WriteConfigs. CASE WriteConfigs
    BY <1>0, <1>WriteConfigs
       DEF ProgType, PlaceInv, Labels, StopPlaces, KindPlaces, TalosPlaces, WritePlaces,
           WriteConfigs, WriteConfig, Continue, Goto, prog
<1>VerifyApi. CASE VerifyApi
    BY <1>0, <1>VerifyApi
       DEF ProgType, PlaceInv, Labels, StopPlaces, KindPlaces, TalosPlaces, WritePlaces,
           VerifyApi, StepEnds, Goto, prog
<1>QemuExits. CASE QemuExits
    BY <1>0, <1>QemuExits
       DEF ProgType, PlaceInv, Labels, StopPlaces, KindPlaces, TalosPlaces, WritePlaces,
           QemuExits, prog
<1>Interrupt. CASE Interrupt
    BY <1>0, NoJobIsOne, <1>Interrupt
       DEF ProgType, PlaceInv, Labels, StopPlaces, KindPlaces, TalosPlaces, WritePlaces,
           Interrupt, Exit, prog
<1>Reboot. CASE Reboot
    BY <1>0, NoJobIsOne, <1>Reboot
       DEF ProgType, PlaceInv, Labels, StopPlaces, KindPlaces, TalosPlaces, WritePlaces, Reboot,
           Exit, prog
<1>Stutter. CASE UNCHANGED vars
    BY <1>Stutter
       DEF ProgType, PlaceInv, Labels, StopPlaces, KindPlaces, TalosPlaces, WritePlaces, vars,
           prog
<1> QED
    BY <1>Type, <1>ensure_registry, <1>teardown_existing_cluster, <1>VerifyTeardown,
       <1>RunOtherSteps, <1>Detect, <1>DeleteKind, <1>talos_destroy, <1>RemoveContainers,
       <1>RemoveState, <1>Sweep, <1>DestroyExistingKind, <1>ProvisionKind, <1>ValidateRuntime,
       <1>purge_stale_cluster_state, <1>DestroyExistingTalos, <1>ensure_dirs, <1>CreateTalos,
       <1>CreateTalosFails, <1>CollectCredentials, <1>WriteConfigs, <1>VerifyApi, <1>QemuExits,
       <1>Interrupt, <1>Reboot, <1>Stutter, Split
       DEF ProgramStep

LEMMA HostInvStep ==
    ASSUME HostType, ProgType, PlaceInv, HostInv, [Next]_vars
    PROVE  HostInv'
<1>Type. CASE Type
    BY Typed, <1>Type
       DEF HostType, ProgType, PlaceInv, HostInv, Labels, KindPlaces, TalosPlaces, WritePlaces,
           talos_cluster_exists, kind_cluster_exists, Found, host, prog
<1>ensure_registry. CASE ensure_registry
    BY <1>ensure_registry
       DEF HostType, ProgType, PlaceInv, HostInv, Labels, KindPlaces, TalosPlaces, WritePlaces,
           talos_cluster_exists, kind_cluster_exists, Found, ensure_registry, Exit, Continue,
           Goto, Has, host, prog
<1>teardown_existing_cluster. CASE teardown_existing_cluster
    BY <1>teardown_existing_cluster
       DEF HostType, ProgType, PlaceInv, HostInv, Labels, KindPlaces, TalosPlaces, WritePlaces,
           talos_cluster_exists, kind_cluster_exists, Found, teardown_existing_cluster, Continue,
           Goto, Provision, host, prog
<1>VerifyTeardown. CASE VerifyTeardown
    BY <1>VerifyTeardown
       DEF HostType, ProgType, PlaceInv, HostInv, Labels, KindPlaces, TalosPlaces, WritePlaces,
           talos_cluster_exists, kind_cluster_exists, Found, VerifyTeardown, Continue, Goto,
           Provision, Exit, host, prog
<1>RunOtherSteps. CASE RunOtherSteps
    BY <1>RunOtherSteps
       DEF HostType, ProgType, PlaceInv, HostInv, Labels, KindPlaces, TalosPlaces, WritePlaces,
           talos_cluster_exists, kind_cluster_exists, Found, RunOtherSteps, Exit, host, prog
<1>Detect. CASE Detect
    BY <1>Detect
       DEF HostType, ProgType, PlaceInv, HostInv, Labels, KindPlaces, TalosPlaces, WritePlaces,
           talos_cluster_exists, kind_cluster_exists, Found, Detect, Goto, host, prog
<1>DeleteKind. CASE DeleteKind
    BY <1>DeleteKind
       DEF HostType, ProgType, PlaceInv, HostInv, Labels, KindPlaces, TalosPlaces, WritePlaces,
           talos_cluster_exists, kind_cluster_exists, Found, DeleteKind, Goto, host, prog
<1>talos_destroy. CASE talos_destroy
    BY <1>talos_destroy
       DEF HostType, ProgType, PlaceInv, HostInv, Labels, KindPlaces, TalosPlaces, WritePlaces,
           talos_cluster_exists, kind_cluster_exists, Found, talos_destroy, TalosctlDestroy, Goto,
           StopEnds, Exit, Has, host, prog
<1>RemoveContainers. CASE RemoveContainers
    BY <1>RemoveContainers
       DEF HostType, ProgType, PlaceInv, HostInv, Labels, KindPlaces, TalosPlaces, WritePlaces,
           talos_cluster_exists, kind_cluster_exists, Found, RemoveContainers, kill_cluster_qemu,
           Goto, Has, host, prog
<1>RemoveState. CASE RemoveState
    BY <1>RemoveState
       DEF HostType, ProgType, PlaceInv, HostInv, Labels, KindPlaces, TalosPlaces, WritePlaces,
           talos_cluster_exists, kind_cluster_exists, Found, RemoveState, Goto, Has, host, prog
<1>Sweep. CASE Sweep
    BY <1>Sweep
       DEF HostType, ProgType, PlaceInv, HostInv, Labels, KindPlaces, TalosPlaces, WritePlaces,
           talos_cluster_exists, kind_cluster_exists, Found, Sweep, kill_cluster_qemu, StopEnds,
           Goto, Exit, Has, host, prog
<1>DestroyExistingKind. CASE DestroyExistingKind
    BY <1>DestroyExistingKind
       DEF HostType, ProgType, PlaceInv, HostInv, Labels, KindPlaces, TalosPlaces, WritePlaces,
           talos_cluster_exists, kind_cluster_exists, Found, DestroyExistingKind, Continue, Goto,
           StepEnds, host, prog
<1>ProvisionKind. CASE ProvisionKind
    BY <1>ProvisionKind
       DEF HostType, ProgType, PlaceInv, HostInv, Labels, KindPlaces, TalosPlaces, WritePlaces,
           talos_cluster_exists, kind_cluster_exists, Found, ProvisionKind, Goto, StepEnds, host,
           prog
<1>ValidateRuntime. CASE ValidateRuntime
    BY <1>ValidateRuntime
       DEF HostType, ProgType, PlaceInv, HostInv, Labels, KindPlaces, TalosPlaces, WritePlaces,
           talos_cluster_exists, kind_cluster_exists, Found, ValidateRuntime, Continue, Goto,
           StepEnds, Has, host, prog
<1>purge_stale_cluster_state. CASE purge_stale_cluster_state
    BY <1>purge_stale_cluster_state
       DEF HostType, ProgType, PlaceInv, HostInv, Labels, KindPlaces, TalosPlaces, WritePlaces,
           talos_cluster_exists, kind_cluster_exists, Found, purge_stale_cluster_state, Purge,
           Continue, Goto, Has, host, prog
<1>DestroyExistingTalos. CASE DestroyExistingTalos
    BY <1>DestroyExistingTalos
       DEF HostType, ProgType, PlaceInv, HostInv, Labels, KindPlaces, TalosPlaces, WritePlaces,
           talos_cluster_exists, kind_cluster_exists, Found, DestroyExistingTalos,
           TalosctlDestroy, kill_cluster_qemu, Continue, Goto, Has, host, prog
<1>ensure_dirs. CASE ensure_dirs
    BY <1>ensure_dirs
       DEF HostType, ProgType, PlaceInv, HostInv, Labels, KindPlaces, TalosPlaces, WritePlaces,
           talos_cluster_exists, kind_cluster_exists, Found, ensure_dirs, StepEnds, Continue,
           Goto, Has, host, prog
<1>CreateTalos. CASE CreateTalos
    BY <1>CreateTalos
       DEF HostType, ProgType, PlaceInv, HostInv, Labels, KindPlaces, TalosPlaces, WritePlaces,
           talos_cluster_exists, kind_cluster_exists, Found, CreateTalos, Continue, Goto, host,
           prog
<1>CreateTalosFails. CASE CreateTalosFails
    BY <1>CreateTalosFails
       DEF HostType, ProgType, PlaceInv, HostInv, Labels, KindPlaces, TalosPlaces, WritePlaces,
           talos_cluster_exists, kind_cluster_exists, Found, CreateTalosFails, Continue, Goto,
           host, prog
<1>CollectCredentials. CASE CollectCredentials
    BY <1>CollectCredentials
       DEF HostType, ProgType, PlaceInv, HostInv, Labels, KindPlaces, TalosPlaces, WritePlaces,
           talos_cluster_exists, kind_cluster_exists, Found, CollectCredentials, Goto, StepEnds,
           host, prog
<1>WriteConfigs. CASE WriteConfigs
    BY <1>WriteConfigs
       DEF HostType, ProgType, PlaceInv, HostInv, Labels, KindPlaces, TalosPlaces, WritePlaces,
           talos_cluster_exists, kind_cluster_exists, Found, WriteConfigs, WriteConfig, Continue,
           Goto, Has, host, prog
<1>VerifyApi. CASE VerifyApi
    BY <1>VerifyApi
       DEF HostType, ProgType, PlaceInv, HostInv, Labels, KindPlaces, TalosPlaces, WritePlaces,
           talos_cluster_exists, kind_cluster_exists, Found, VerifyApi, StepEnds, Goto, host, prog
<1>QemuExits. CASE QemuExits
    BY <1>QemuExits
       DEF HostType, ProgType, PlaceInv, HostInv, Labels, KindPlaces, TalosPlaces, WritePlaces,
           talos_cluster_exists, kind_cluster_exists, Found, QemuExits, host, prog
<1>Interrupt. CASE Interrupt
    BY <1>Interrupt
       DEF HostType, ProgType, PlaceInv, HostInv, Labels, KindPlaces, TalosPlaces, WritePlaces,
           talos_cluster_exists, kind_cluster_exists, Found, Interrupt, Exit, host, prog
<1>Reboot. CASE Reboot
    BY <1>Reboot
       DEF HostType, ProgType, PlaceInv, HostInv, Labels, KindPlaces, TalosPlaces, WritePlaces,
           talos_cluster_exists, kind_cluster_exists, Found, Reboot, Exit, host, prog
<1>Stutter. CASE UNCHANGED vars
    BY <1>Stutter
       DEF HostType, ProgType, PlaceInv, HostInv, Labels, KindPlaces, TalosPlaces, WritePlaces,
           talos_cluster_exists, kind_cluster_exists, Found, vars, host, prog
<1> QED
    BY <1>Type, <1>ensure_registry, <1>teardown_existing_cluster, <1>VerifyTeardown,
       <1>RunOtherSteps, <1>Detect, <1>DeleteKind, <1>talos_destroy, <1>RemoveContainers,
       <1>RemoveState, <1>Sweep, <1>DestroyExistingKind, <1>ProvisionKind, <1>ValidateRuntime,
       <1>purge_stale_cluster_state, <1>DestroyExistingTalos, <1>ensure_dirs, <1>CreateTalos,
       <1>CreateTalosFails, <1>CollectCredentials, <1>WriteConfigs, <1>VerifyApi, <1>QemuExits,
       <1>Interrupt, <1>Reboot, <1>Stutter, Split
       DEF ProgramStep

LEMMA SyncInvStep ==
    ASSUME FilesType, SyncInv, [Next]_vars
    PROVE  SyncInv'
<1>Quiet. CASE Quiet
    BY <1>Quiet, QuietSteps DEF SyncInv, WritePlaces
<1>purge_stale_cluster_state. CASE purge_stale_cluster_state
    BY <1>purge_stale_cluster_state
       DEF SyncInv, WritePlaces, purge_stale_cluster_state, Purge, Continue, Goto
<1>CreateTalos. CASE CreateTalos
    BY <1>CreateTalos DEF SyncInv, WritePlaces, CreateTalos, Continue, Goto
<1>CollectCredentials. CASE CollectCredentials
    <2>1. CASE pc' = "write_repo" /\ \E u : Sound(u) /\ cfg' = patch_servers(u)
        BY <2>1, PatchSound DEF SyncInv, WritePlaces
    <2>2. CASE pc' = "others"
        BY <2>2 DEF SyncInv, WritePlaces
    <2> QED
        BY <1>CollectCredentials, <2>1, <2>2, Collected
<1>WriteConfigs. CASE WriteConfigs
    <2>1. DOMAIN kube = Files /\ UNCHANGED cfg
        BY <1>WriteConfigs DEF FilesType, WriteConfigs, WriteConfig, Continue, prog
    <2>2. CASE WriteConfig("write_repo", "repo", "write_user")
        BY <2>1, <2>2 DEF SyncInv, WritePlaces, WriteConfig, Continue, Goto, Files
    <2>3. CASE WriteConfig("write_user", "user", "write_root")
        BY <2>1, <2>3 DEF SyncInv, WritePlaces, WriteConfig, Continue, Goto, Files
    <2>4. CASE WriteConfig("write_root", "root", "verify_api")
        BY <2>1, <2>4, Zenon DEF SyncInv, WritePlaces, WriteConfig, Continue, Goto, Files
    <2> QED
        BY <1>WriteConfigs, <2>2, <2>3, <2>4 DEF WriteConfigs
<1>Stutter. CASE UNCHANGED vars
    BY <1>Stutter DEF SyncInv, vars, creds, prog
<1> QED
    BY <1>Quiet, <1>purge_stale_cluster_state, <1>CreateTalos, <1>CollectCredentials,
       <1>WriteConfigs, <1>Stutter, Split
       DEF ProgramStep, Quiet

\* ProgramStep 02 goes well only where the tools have just said so; after that the startup runs
\* the other steps, and no more than a QEMU process may end until it is over.
LEMMA WentWell ==
    ASSUME PlaceInv, [Next]_vars, step02' = "ok"
    PROVE  \/ ProvisionKind /\ kind' = "up" /\ pc' = "others"
           \/ VerifyApi /\ Reaches(kube["user"], ApiUp) /\ pc' = "others"
           \/ QemuExits
           \/ UNCHANGED vars
<1>Type. CASE Type
    BY Typed, <1>Type DEF PlaceInv, prog
<1>ensure_registry. CASE ensure_registry
    BY <1>ensure_registry DEF PlaceInv, ensure_registry, Exit, Continue, Goto, prog
<1>teardown_existing_cluster. CASE teardown_existing_cluster
    BY <1>teardown_existing_cluster DEF PlaceInv, teardown_existing_cluster, Continue, Goto, prog
<1>VerifyTeardown. CASE VerifyTeardown
    BY <1>VerifyTeardown DEF PlaceInv, VerifyTeardown, Continue, Goto, Exit, prog
<1>RunOtherSteps. CASE RunOtherSteps
    BY <1>RunOtherSteps DEF PlaceInv, RunOtherSteps, Exit, prog
<1>Detect. CASE Detect
    BY <1>Detect DEF PlaceInv, Detect, Goto, prog
<1>DeleteKind. CASE DeleteKind
    BY <1>DeleteKind DEF PlaceInv, DeleteKind, Goto, prog
<1>talos_destroy. CASE talos_destroy
    BY <1>talos_destroy DEF PlaceInv, talos_destroy, Goto, StopEnds, Exit, prog
<1>RemoveContainers. CASE RemoveContainers
    BY <1>RemoveContainers DEF PlaceInv, RemoveContainers, Goto, prog
<1>RemoveState. CASE RemoveState
    BY <1>RemoveState DEF PlaceInv, RemoveState, Goto, prog
<1>Sweep. CASE Sweep
    BY <1>Sweep DEF PlaceInv, Sweep, StopEnds, Goto, Exit, prog
<1>DestroyExistingKind. CASE DestroyExistingKind
    BY <1>DestroyExistingKind DEF PlaceInv, DestroyExistingKind, Continue, Goto, StepEnds, prog
<1>ProvisionKind. CASE ProvisionKind
    BY <1>ProvisionKind DEF PlaceInv, ProvisionKind, Goto, StepEnds, prog
<1>ValidateRuntime. CASE ValidateRuntime
    BY <1>ValidateRuntime DEF PlaceInv, ValidateRuntime, Continue, Goto, StepEnds, prog
<1>purge_stale_cluster_state. CASE purge_stale_cluster_state
    BY <1>purge_stale_cluster_state
       DEF PlaceInv, purge_stale_cluster_state, Purge, Continue, Goto, prog
<1>DestroyExistingTalos. CASE DestroyExistingTalos
    BY <1>DestroyExistingTalos DEF PlaceInv, DestroyExistingTalos, Continue, Goto, prog
<1>ensure_dirs. CASE ensure_dirs
    BY <1>ensure_dirs DEF PlaceInv, ensure_dirs, StepEnds, Continue, Goto, prog
<1>CreateTalos. CASE CreateTalos
    BY <1>CreateTalos DEF PlaceInv, CreateTalos, Continue, Goto, prog
<1>CreateTalosFails. CASE CreateTalosFails
    BY <1>CreateTalosFails DEF PlaceInv, CreateTalosFails, Continue, Goto, prog
<1>CollectCredentials. CASE CollectCredentials
    BY <1>CollectCredentials DEF PlaceInv, CollectCredentials, Goto, StepEnds, prog
<1>WriteConfigs. CASE WriteConfigs
    BY <1>WriteConfigs DEF PlaceInv, WriteConfigs, WriteConfig, Continue, Goto, prog
<1>VerifyApi. CASE VerifyApi
    BY <1>VerifyApi DEF PlaceInv, VerifyApi, StepEnds, Goto, prog
<1>QemuExits. CASE QemuExits
    BY <1>QemuExits DEF PlaceInv, QemuExits, prog
<1>Interrupt. CASE Interrupt
    BY <1>Interrupt DEF PlaceInv, Interrupt, Exit, prog
<1>Reboot. CASE Reboot
    BY <1>Reboot DEF PlaceInv, Reboot, Exit, prog
<1>Stutter. CASE UNCHANGED vars
    BY <1>Stutter DEF PlaceInv, vars, prog
<1> QED
    BY <1>Type, <1>ensure_registry, <1>teardown_existing_cluster, <1>VerifyTeardown,
       <1>RunOtherSteps, <1>Detect, <1>DeleteKind, <1>talos_destroy, <1>RemoveContainers,
       <1>RemoveState, <1>Sweep, <1>DestroyExistingKind, <1>ProvisionKind, <1>ValidateRuntime,
       <1>purge_stale_cluster_state, <1>DestroyExistingTalos, <1>ensure_dirs, <1>CreateTalos,
       <1>CreateTalosFails, <1>CollectCredentials, <1>WriteConfigs, <1>VerifyApi, <1>QemuExits,
       <1>Interrupt, <1>Reboot, <1>Stutter, Split
       DEF ProgramStep

LEMMA OneKindStep ==
    ASSUME HostType, ProgType, PlaceInv, HostInv, OneKindOfCluster, [Next]_vars
    PROVE  OneKindOfCluster'
<1> SUFFICES ASSUME step02' = "ok", job'.path = Tools
             PROVE  (Found(Tools) \subseteq {IF job.provider = "kind" THEN "kind" ELSE "talos"})'
    BY DEF OneKindOfCluster
<1>1. CASE ProvisionKind
    <2>1. pc = "kind_create" /\ UNCHANGED <<containers, vms, link, stateDir, job>>
        BY <1>1 DEF ProvisionKind, StepEnds
    <2>2. job.provider = "kind" /\ ~talos_cluster_exists(Tools)
        BY <2>1 DEF PlaceInv, HostInv, KindPlaces
    <2> QED
        BY <2>1, <2>2 DEF Found, talos_cluster_exists
<1>2. CASE VerifyApi
    <2>1. pc = "verify_api" /\ UNCHANGED <<kind, job>>
        BY <1>2 DEF VerifyApi, StepEnds, host
    <2>2. job.provider # "kind" /\ ~kind_cluster_exists(Tools)
        BY <2>1 DEF PlaceInv, HostInv, TalosPlaces, WritePlaces
    <2> QED
        BY <2>1, <2>2 DEF Found, kind_cluster_exists
<1>3. CASE QemuExits
    <2>1. /\ vms' \subseteq vms /\ step02 = "ok" /\ job' = job
          /\ UNCHANGED <<kind, containers, link, stateDir>>
        BY <1>3 DEF QemuExits, prog
    <2>2. Found(Tools)' \subseteq Found(Tools)
        BY <2>1 DEF Found, kind_cluster_exists, talos_cluster_exists
    <2> QED
        BY <2>1, <2>2 DEF OneKindOfCluster
<1>4. CASE UNCHANGED vars
    BY <1>4
       DEF OneKindOfCluster, Found, kind_cluster_exists, talos_cluster_exists, vars, host, prog
<1> QED
    BY <1>1, <1>2, <1>3, <1>4, WentWell

LEMMA KubectlStep ==
    ASSUME FilesType, PlaceInv, SyncInv, KubectlMeansThisCluster, [Next]_vars
    PROVE  KubectlMeansThisCluster'
<1> SUFFICES ASSUME step02' = "ok", job'.provider # "kind"
             PROVE  kube'["repo"] = kube'["user"] /\ kube'["repo"].current = "fresh"
    BY DEF KubectlMeansThisCluster
<1>1. CASE ProvisionKind
    BY <1>1 DEF ProvisionKind, StepEnds, PlaceInv, KindPlaces
<1>2. CASE VerifyApi /\ Reaches(kube["user"], ApiUp)
    <2>1. pc = "verify_api" /\ UNCHANGED kube
        BY <1>2 DEF VerifyApi, creds
    <2>2. kube["repo"] = cfg /\ kube["user"] = cfg /\ (cfg.names # {} => cfg.server = "fresh")
        BY <2>1 DEF SyncInv, WritePlaces
    <2>3. cfg.current = "fresh"
        BY <1>2, <2>2, ReachesFresh DEF FilesType
    <2> QED
        BY <2>1, <2>2, <2>3
<1>3. CASE QemuExits
    BY <1>3 DEF QemuExits, KubectlMeansThisCluster, creds, prog
<1>4. CASE UNCHANGED vars
    BY <1>4 DEF KubectlMeansThisCluster, vars, creds, prog
<1> QED
    BY <1>1, <1>2, <1>3, <1>4, WentWell

-----------------------------------------------------------------------------
(* The theorems.                                                           *)

LEMMA InitInv ==
    ASSUME Init
    PROVE  Inv
<1>1. HostType
    BY DEF Init, HostType
<1>2. FilesType
    <2>1. Sound(Absent) /\ Sound(Single("foreign")) /\ Sound(Config("torn"))
        BY ConfigSound DEF Absent, Contexts
    <2>2. /\ kube \in [Files -> {Absent, Single("foreign"), Config("torn")}]
          /\ live = FALSE /\ cfg = Absent
        BY DEF Init
    <2> QED
        BY <2>1, <2>2 DEF FilesType, Sound
<1>3. ProgType /\ PlaceInv
    BY NoJobIsOne
       DEF Init, ProgType, PlaceInv, Labels, StopPlaces, KindPlaces, TalosPlaces, WritePlaces
<1>4. HostInv /\ SyncInv /\ OneKindOfCluster /\ KubectlMeansThisCluster
    BY DEF Init, HostInv, SyncInv, OneKindOfCluster, KubectlMeansThisCluster, KindPlaces,
        TalosPlaces, WritePlaces
<1> QED
    BY <1>1, <1>2, <1>3, <1>4 DEF Inv

LEMMA Invariant == Spec => []Inv
<1>1. ASSUME Inv, [Next]_vars
      PROVE  Inv'
    BY <1>1, HostTypeStep, FilesTypeStep, ProgStep, HostInvStep, SyncInvStep, OneKindStep,
        KubectlStep DEF Inv, ProgType
<1> QED
    BY <1>1, InitInv, PTL DEF Spec

\* Host, files and program keep their shapes, whatever is interrupted or restarted.
THEOREM TypeCorrect == Spec => []TypeOK
<1>1. ASSUME Inv
      PROVE  TypeOK
    BY <1>1 DEF Inv, HostType, FilesType, ProgType, PlaceInv, Sound, TypeOK
<1> QED
    BY <1>1, Invariant, PTL

\* A startup that saw all tools and reports success for step 02 leaves no cluster of the
\* other kind, although the teardown may fail or be cut short at any step.
THEOREM NoOtherKind == Spec => []OneKindOfCluster
<1>1. Inv => OneKindOfCluster
    BY DEF Inv
<1> QED
    BY <1>1, Invariant, PTL

\* A startup that reports a Talos cluster has made kubectl talk to it, whatever the files
\* held before and whichever of them talosctl left half written.
THEOREM KubectlReachesIt == Spec => []KubectlMeansThisCluster
<1>1. Inv => KubectlMeansThisCluster
    BY DEF Inv
<1> QED
    BY <1>1, Invariant, PTL

-----------------------------------------------------------------------------
(* The setup steps.  First, the selection of the steps is a sequence: what *)
(* FlattenSeq joins is made of the elements of what it is given.           *)

\* A set of numbers has a least one.
LEMMA LeastOf ==
    ASSUME NEW S \in SUBSET Nat, S # {}
    PROVE  \E i \in S : \A j \in S : i <= j
<1> DEFINE Less == {pair \in Nat \X Nat : pair[1] < pair[2]}
<1>1. IsWellFoundedOn(Less, Nat)
    BY NatLessThanWellFounded DEF OpToRel
<1>2. PICK i \in S : \A j \in S : ~<<j, i>> \in Less
    <2> HIDE DEF Less
    <2> QED
        BY <1>1, WFMin
<1>3. \A j \in S : i \in Nat /\ j \in Nat /\ ~(j < i)
    BY <1>2
<1> QED
    BY <1>3

Joined(g, seqs, n) == g = [i \in 1..n |-> IF i = 1 THEN seqs[i] ELSE g[i - 1] \o seqs[i]]

\* There is the function of the partial joins that FlattenSeq chooses.
LEMMA JoinedExists ==
    ASSUME NEW S, NEW n \in Nat, NEW seqs, \A i \in 1..n : seqs[i] \in Seq(S)
    PROVE  \E g : Joined(g, seqs, n)
<1> DEFINE Bad == {k \in Nat : k <= n /\ ~\E g : Joined(g, seqs, k)}
<1> SUFFICES ASSUME Bad # {}
             PROVE  FALSE
    OBVIOUS
<1>1. PICK k \in Bad : \A j \in Bad : k <= j
    <2>1. Bad \in SUBSET Nat
        OBVIOUS
    <2> HIDE DEF Bad
    <2> QED
        BY <2>1, LeastOf
<1>2. k # 0
    <2>1. Joined([i \in 1..0 |-> 0], seqs, 0)
        BY DEF Joined
    <2> QED
        BY <2>1
<1>3. PICK g : Joined(g, seqs, k - 1)
    <2>1. k - 1 \in Nat /\ k - 1 <= n /\ ~(k <= k - 1)
        BY <1>2
    <2> QED
        BY <1>1, <2>1
<1> DEFINE h == [i \in 1..k |-> IF i = k THEN IF k = 1 THEN seqs[k] ELSE g[k - 1] \o seqs[k]
                                ELSE g[i]]
<1>4. \A i \in 1..k : i < k => h[i] = g[i]
    OBVIOUS
<1>5. h = [i \in 1..k |-> IF i = 1 THEN seqs[i] ELSE h[i - 1] \o seqs[i]]
    <2>1. ASSUME NEW i \in 1..k
          PROVE  h[i] = IF i = 1 THEN seqs[i] ELSE h[i - 1] \o seqs[i]
        <3>1. CASE i = k
            BY <1>4, <3>1
        <3>2. CASE i # k
            <4>1. i \in 1..k - 1 /\ h[i] = g[i] /\ (i # 1 => h[i - 1] = g[i - 1])
                BY <1>4, <3>2
            <4>2. g[i] = IF i = 1 THEN seqs[i] ELSE g[i - 1] \o seqs[i]
                BY <1>3, <4>1 DEF Joined
            <4> QED
                BY <4>1, <4>2
        <3> QED
            BY <3>1, <3>2
    <2>2. h = [i \in 1..k |-> h[i]]
        OBVIOUS
    <2> HIDE DEF h
    <2> QED
        BY <2>1, <2>2
<1> HIDE DEF h
<1> QED
    BY <1>1, <1>5 DEF Joined

\* Its values are sequences of elements of S.
LEMMA JoinedTyped ==
    ASSUME NEW S, NEW n \in Nat, NEW seqs, \A i \in 1..n : seqs[i] \in Seq(S),
           NEW g, Joined(g, seqs, n)
    PROVE  \A i \in 1..n : g[i] \in Seq(S)
<1> DEFINE Bad == {k \in 1..n : g[k] \notin Seq(S)}
<1> SUFFICES ASSUME Bad # {}
             PROVE  FALSE
    OBVIOUS
<1>1. PICK k \in Bad : \A j \in Bad : k <= j
    <2>1. Bad \in SUBSET Nat
        OBVIOUS
    <2> HIDE DEF Bad
    <2> QED
        BY <2>1, LeastOf
<1>2. k = 1 \/ g[k - 1] \in Seq(S)
    <2>1. k - 1 \in Nat /\ ~(k <= k - 1)
        OBVIOUS
    <2> QED
        BY <1>1, <2>1
<1>3. g[k] = IF k = 1 THEN seqs[k] ELSE g[k - 1] \o seqs[k]
    BY DEF Joined
<1>4. k \in 1..n /\ seqs[k] \in Seq(S) /\ g[k] \notin Seq(S)
    OBVIOUS
<1>5. k # 1 => g[k - 1] \o seqs[k] \in Seq(S)
    BY <1>2, <1>4
<1> QED
    BY <1>3, <1>4, <1>5

\* Sequences of elements of S, one after the other, are a sequence of elements of S.
LEMMA FlattenTyped ==
    ASSUME NEW S, NEW seqs \in Seq(Seq(S))
    PROVE  FlattenSeq(seqs) \in Seq(S)
<1>1. CASE Len(seqs) = 0
    BY <1>1 DEF FlattenSeq
<1>2. CASE Len(seqs) # 0
    <2> DEFINE n == Len(seqs)
               flatten == CHOOSE g : Joined(g, seqs, n)
    <2>1. Joined(flatten, seqs, n)
        BY JoinedExists
    <2>2. FlattenSeq(seqs) = flatten[n]
        BY <1>2, Zenon DEF FlattenSeq, Joined
    <2> HIDE DEF flatten
    <2> QED
        BY <1>2, <2>1, <2>2, JoinedTyped
<1> QED
    BY <1>1, <1>2
-----------------------------------------------------------------------------
(* What holds of the steps, whatever files and objects there are.          *)

Objects == ClusterObjects \cup HostObjects

\* A command that is required, and never passed over.
Must(command) == command.must /\ command.given = {}
Needs(command) == command.needs
Adds(command) == command.adds
Drops(command) == command.drops

\* What there is after a command: what it has added, and what it needed and is no file.
Ensures(command) ==
    Adds(command) \cup ((Needs(command) \ CheckedFiles) \ Drops(command))

\* A program leaves what its required commands ensure, but for what a later command
\* takes away.
LeftBy(commands, n) ==
    {o \in Objects :
        \E k \in 1..n : /\ Must(commands[k]) /\ o \in Ensures(commands[k])
                        /\ \A l \in k + 1..n : o \notin Drops(commands[l])}
Lasting(commands) == LeftBy(commands, Len(commands))

Known(commands) == \A k \in DOMAIN commands : Adds(commands[k]) \subseteq Objects

\* The agents are told to authenticate right after a wait for SPIRE, and SPIRE goes only
\* with the agents.
MeshInOrder(commands) ==
    \A k \in DOMAIN commands :
        /\ "spire-serving" \in Drops(commands[k]) =>
               "auth" \in Drops(commands[k]) /\ "auth" \notin Adds(commands[k])
        /\ "auth" \in Adds(commands[k]) =>
               k > 1 /\ Must(commands[k - 1]) /\ "spire-serving" \in Adds(commands[k - 1])

Scaffolds(commands) ==
    \A k \in DOMAIN commands : Adds(commands[k]) \subseteq {"scaffold"} /\ Drops(commands[k]) = {}

IsProgram(commands) ==
    /\ Len(commands) \in Nat /\ DOMAIN commands = 1..Len(commands)
    /\ Known(commands) /\ MeshInOrder(commands)

StepInv(step) ==
    /\ \A mode \in Modes : IsProgram(step.program[mode].commands)
    /\ Promise(step.name) \subseteq Lasting(step.program.apply.commands)
    /\ step.program.check.commands = << >>
    /\ Scaffolds(step.program.dry_run.commands)
    /\ step.name = "01-bootstrap-dev" =>
           step.number = "1" /\ Scaffolds(step.program.apply.commands)
    /\ step.number = "1.5" =>
           /\ step.toggles = Always /\ step.name # "05-install-rook-ceph-staging"
           /\ Promise(step.name) = {}

Promised ==
    {"01-bootstrap-dev", "02-bootstrap-talos-dev", "03-install-cilium-dev",
     "04-install-cilium-mtls-dev", "04-install-envoy-gateway-dev",
     "05-install-rook-ceph-staging", "05-install-storage-dev", "06-expose-hubble-ui-dev",
     "09-provision-local-git-mirror", "11-install-kargo-dev", "12-install-argocd-dev",
     "install_cilium_online", "kargo", "argocd", "victoria-metrics", "grafana"}

\* The other names promise nothing.
LEMMA NothingPromised ==
    ASSUME NEW name, name \notin Promised
    PROVE  Promise(name) = {}
BY DEF Promise, Promised

\* A program without commands is one that scaffolds.
LEMMA EmptyProgram == IsProgram(<< >>) /\ Scaffolds(<< >>)
BY DEF IsProgram, Known, MeshInOrder, Scaffolds

\* A step that only looks.
LEMMA LooksOnly ==
    ASSUME NEW step, step.name \notin Promised, step.number = "1.5" => step.toggles = Always,
           \A mode \in Modes : step.program[mode].commands = << >>
    PROVE  StepInv(step)
<1>1. /\ step.program.check.commands = << >> /\ step.program.dry_run.commands = << >>
    BY DEF Modes
<1>2. Promise(step.name) = {}
    BY NothingPromised
<1>3. step.name # "01-bootstrap-dev" /\ step.name # "05-install-rook-ceph-staging"
    BY DEF Promised
<1> QED
    BY <1>1, <1>2, <1>3, EmptyProgram DEF StepInv

\* A validator only looks, whatever files it looks at.
LEMMA ValidatorInv ==
    ASSUME NEW name, NEW number, NEW toggles, NEW files, name \notin Promised,
           number = "1.5" => toggles = Always
    PROVE  StepInv(Step(name, number, toggles, Validator(files)))
<1> DEFINE step == Step(name, number, toggles, Validator(files))
<1>1. step.name = name /\ step.number = number /\ step.toggles = toggles
    BY DEF Step
<1>2. \A mode \in Modes : step.program[mode].commands = << >>
    BY DEF Step, Validator, Run
<1>3. StepInv(step)
    <2> HIDE DEF step
    <2> QED
        BY <1>1, <1>2, LooksOnly
<1> QED
    BY <1>3

Validators ==
    {Step01_5, Step03Online, Step04Validate, Step10, Step13, Step14, Step15, Step16, Step17,
     Step18, Step19, Step19Kafka, Step20Human, Step20, Step21, Step21Llm, Step22, Step23, Step24,
     Step25, Step26, Step27, Step28, Step29, Step30, Step31, Step32, Step33, Step34, Step35,
     Step36, Step37, Step38, Step39, Step40, Step40Test, Step41, Step42, Step43, Step44}

\* The steps that only look, one by one.
LEMMA ValidatorsInv == \A step \in Validators : StepInv(step)
<1>Step01_5. StepInv(Step01_5)
    BY ValidatorInv DEF Step01_5, Promised
<1>Step03Online. StepInv(Step03Online)
    BY ValidatorInv DEF Step03Online, Promised
<1>Step04Validate. StepInv(Step04Validate)
    <2>1. Step04Validate.name \notin Promised /\ Step04Validate.number = "4"
        BY DEF Step04Validate, Step, Promised
    <2>2. \A mode \in Modes : Step04Validate.program[mode].commands = << >>
        <3>1. /\ Step04Validate.program["check"].commands = << >>
              /\ Step04Validate.program["dry_run"].commands = << >>
              /\ Step04Validate.program["apply"].commands = << >>
            BY DEF Step04Validate, Step, Passes, Refuses, Run
        <3> QED
            BY <3>1 DEF Modes
    <2> QED
        BY <2>1, <2>2, LooksOnly
<1>Step10. StepInv(Step10)
    BY ValidatorInv DEF Step10, Promised
<1>Step13. StepInv(Step13)
    BY ValidatorInv DEF Step13, Promised
<1>Step14. StepInv(Step14)
    BY ValidatorInv DEF Step14, Promised
<1>Step15. StepInv(Step15)
    BY ValidatorInv DEF Step15, Promised
<1>Step16. StepInv(Step16)
    BY ValidatorInv DEF Step16, Promised
<1>Step17. StepInv(Step17)
    BY ValidatorInv DEF Step17, Promised
<1>Step18. StepInv(Step18)
    BY ValidatorInv DEF Step18, Promised
<1>Step19. StepInv(Step19)
    BY ValidatorInv DEF Step19, Promised
<1>Step19Kafka. StepInv(Step19Kafka)
    BY ValidatorInv DEF Step19Kafka, Promised
<1>Step20Human. StepInv(Step20Human)
    BY ValidatorInv DEF Step20Human, Promised
<1>Step20. StepInv(Step20)
    BY ValidatorInv DEF Step20, Promised
<1>Step21. StepInv(Step21)
    BY ValidatorInv DEF Step21, Promised
<1>Step21Llm. StepInv(Step21Llm)
    BY ValidatorInv DEF Step21Llm, Promised
<1>Step22. StepInv(Step22)
    BY ValidatorInv DEF Step22, Promised
<1>Step23. StepInv(Step23)
    BY ValidatorInv DEF Step23, Promised
<1>Step24. StepInv(Step24)
    BY ValidatorInv DEF Step24, Promised
<1>Step25. StepInv(Step25)
    BY ValidatorInv DEF Step25, Promised
<1>Step26. StepInv(Step26)
    BY ValidatorInv DEF Step26, Promised
<1>Step27. StepInv(Step27)
    BY ValidatorInv DEF Step27, Promised
<1>Step28. StepInv(Step28)
    BY ValidatorInv DEF Step28, Promised
<1>Step29. StepInv(Step29)
    BY ValidatorInv DEF Step29, Promised
<1>Step30. StepInv(Step30)
    BY ValidatorInv DEF Step30, Promised
<1>Step31. StepInv(Step31)
    BY ValidatorInv DEF Step31, Promised
<1>Step32. StepInv(Step32)
    BY ValidatorInv DEF Step32, Promised
<1>Step33. StepInv(Step33)
    BY ValidatorInv DEF Step33, Promised
<1>Step34. StepInv(Step34)
    BY ValidatorInv DEF Step34, Promised
<1>Step35. StepInv(Step35)
    BY ValidatorInv DEF Step35, Promised
<1>Step36. StepInv(Step36)
    BY ValidatorInv DEF Step36, Promised
<1>Step37. StepInv(Step37)
    BY ValidatorInv DEF Step37, Promised
<1>Step38. StepInv(Step38)
    BY ValidatorInv DEF Step38, Promised
<1>Step39. StepInv(Step39)
    BY ValidatorInv DEF Step39, Promised
<1>Step40. StepInv(Step40)
    BY ValidatorInv DEF Step40, Promised
<1>Step40Test. StepInv(Step40Test)
    BY ValidatorInv DEF Step40Test, Promised
<1>Step41. StepInv(Step41)
    BY ValidatorInv DEF Step41, Promised
<1>Step42. StepInv(Step42)
    BY ValidatorInv DEF Step42, Promised
<1>Step43. StepInv(Step43)
    BY ValidatorInv DEF Step43, Promised
<1>Step44. StepInv(Step44)
    BY ValidatorInv DEF Step44, Promised
<1> QED
    BY <1>Step01_5, <1>Step03Online, <1>Step04Validate, <1>Step10, <1>Step13, <1>Step14, <1>Step15,
       <1>Step16, <1>Step17, <1>Step18, <1>Step19, <1>Step19Kafka, <1>Step20Human, <1>Step20,
       <1>Step21, <1>Step21Llm, <1>Step22, <1>Step23, <1>Step24, <1>Step25, <1>Step26, <1>Step27,
       <1>Step28, <1>Step29, <1>Step30, <1>Step31, <1>Step32, <1>Step33, <1>Step34, <1>Step35,
       <1>Step36, <1>Step37, <1>Step38, <1>Step39, <1>Step40, <1>Step40Test, <1>Step41, <1>Step42,
       <1>Step43, <1>Step44
    DEF Validators


Grown == Objects \ {"auth"}

\* What an installer may add without further ado: every object but the authentication.
LEMMA GrownHas ==
    /\ "cluster" \in Grown /\ "cilium" \in Grown /\ "hubble" \in Grown /\ "l2" \in Grown
    /\ "kube-proxy" \in Grown /\ "spire" \in Grown /\ "spire-serving" \in Grown
    /\ "local-path" \in Grown /\ "rook-operator" \in Grown /\ "ceph-cluster" \in Grown
    /\ "rook-classes" \in Grown /\ "local-path-default" \in Grown
    /\ "rook-ceph-default" \in Grown /\ "edge-namespace" \in Grown /\ "edge-tls" \in Grown
    /\ "gateway-crds" \in Grown /\ "gateway-certs" \in Grown /\ "gateway" \in Grown
    /\ "hubble-route" \in Grown /\ "argocd-namespace" \in Grown /\ "argocd" \in Grown
    /\ "argocd-repositories" \in Grown /\ "cert-manager" \in Grown
    /\ "kargo-namespace" \in Grown /\ "kargo" \in Grown /\ "monitoring-namespace" \in Grown
    /\ "victoria-metrics" \in Grown /\ "grafana" \in Grown /\ "scaffold" \in Grown
    /\ "talosconfig" \in Grown /\ "qemu-state" \in Grown /\ "bare-mirror" \in Grown
    /\ "mirror-served" \in Grown /\ "edge-cert" \in Grown
BY DEF Grown, Objects, ClusterObjects, HostObjects

\* A command that leaves authentication alone, or takes it away with SPIRE.
Fair(command) ==
    /\ Adds(command) \subseteq Grown
    /\ "spire-serving" \in Drops(command) => "auth" \in Drops(command)

\* What the commands of the four kinds add and take away.
LEMMA DoIs ==
    \A c, needs, adds : c = Do(needs, adds) => Must(c) /\ Adds(c) = adds /\ Drops(c) = {}
BY DEF Do, Replace, Must, Adds, Drops

LEMMA WaitIs ==
    \A c, needs : c = Wait(needs) => Must(c) /\ Adds(c) = {} /\ Drops(c) = {}
BY DoIs DEF Wait

LEMMA TryIs ==
    \A c, needs, adds : c = Try(needs, adds) => Adds(c) = adds /\ Drops(c) = {}
BY DoIs DEF Try, Do, Replace, Adds, Drops

LEMMA DocumentsAre ==
    Adds(l2_documents) = {"l2"} /\ Drops(l2_documents) = {}
BY DEF l2_documents, IfAny, Do, Replace, Adds, Drops

LEMMA ReplaceIs ==
    \A c, needs, adds, drops :
        c = Replace(needs, adds, drops) => Must(c) /\ Adds(c) = adds /\ Drops(c) = drops
BY DEF Replace, Must, Adds, Drops

LEMMA Proxy ==
    /\ Must(delete_kube_proxy) /\ Adds(delete_kube_proxy) = {}
    /\ Drops(delete_kube_proxy) = {"kube-proxy"}
BY ReplaceIs DEF delete_kube_proxy

LEMMA FairProgram ==
    ASSUME NEW commands, NEW n \in Nat, Len(commands) = n, DOMAIN commands = 1..n,
           \A k \in 1..n : Fair(commands[k])
    PROVE  IsProgram(commands)
BY DEF IsProgram, Known, MeshInOrder, Fair, Grown

\* The programs one by one: each is in order and leaves what its step promises.
LEMMA BootstrapDevProgram ==
    /\ IsProgram(bootstrap_dev)
    /\ {"scaffold"} \subseteq Lasting(bootstrap_dev)
<1> DEFINE c == bootstrap_dev
<1>1. /\ Len(c) = 1 /\ DOMAIN c = 1..1
      /\ c[1] = Do({}, {"scaffold"})
    BY DEF bootstrap_dev
<1> HIDE DEF c
<1>2. /\ Must(c[1]) /\ Adds(c[1]) = {"scaffold"} /\ Drops(c[1]) = {}
    <2>1. Must(c[1]) /\ Adds(c[1]) = {"scaffold"} /\ Drops(c[1]) = {}
        BY <1>1, DoIs
    <2> QED
        BY <2>1
<1>3. /\ Fair(c[1])
    BY <1>2, GrownHas DEF Fair
<1>4. IsProgram(c)
    <2>1. \A k \in 1..1 : Fair(c[k])
        BY <1>3
    <2> QED
        BY <1>1, <2>1, FairProgram
<1>5. "scaffold" \in Objects
    BY GrownHas DEF Grown
<1>6. "scaffold" \in Lasting(c)
    <2>1. \A l \in 1 + 1..1 : "scaffold" \notin Drops(c[l])
        BY <1>2
    <2>2. 1 \in 1..1 /\ Must(c[1]) /\ "scaffold" \in Adds(c[1])
        BY <1>2
    <2> QED
        BY <1>1, <1>5, <2>1, <2>2 DEF Lasting, LeftBy, Ensures
<1> QED
    BY <1>4, <1>6 DEF c

\* The new cluster comes first, and nothing after it takes it away.
LEMMA BootstrapKindProgram ==
    /\ IsProgram(bootstrap_kind_dev)
    /\ {"cluster"} \subseteq Lasting(bootstrap_kind_dev)
<1> DEFINE c == bootstrap_kind_dev
<1>1. /\ Len(c) = 7 /\ DOMAIN c = 1..7
      /\ c[1] = Replace({"helm"}, {"cluster", "kube-proxy"}, ClusterObjects)
      /\ c[2] = Do({"cluster"}, {"cilium"})
      /\ c[3] = Wait({"cilium"})
      /\ c[4] = delete_kube_proxy
      /\ c[5] = Wait({"cilium-dev.yaml"})
      /\ c[6] = l2_documents
      /\ c[7] = Wait({"cluster"})
    BY DEF bootstrap_kind_dev
<1> HIDE DEF c
<1>2. /\ Must(c[1]) /\ Adds(c[1]) = {"cluster", "kube-proxy"} /\ Drops(c[1]) = ClusterObjects
      /\ Must(c[2]) /\ Adds(c[2]) = {"cilium"} /\ Drops(c[2]) = {}
      /\ Must(c[3]) /\ Adds(c[3]) = {} /\ Drops(c[3]) = {}
      /\ Must(c[4]) /\ Adds(c[4]) = {} /\ Drops(c[4]) = {"kube-proxy"}
      /\ Must(c[5]) /\ Adds(c[5]) = {} /\ Drops(c[5]) = {}
      /\ Adds(c[6]) = {"l2"} /\ Drops(c[6]) = {}
      /\ Must(c[7]) /\ Adds(c[7]) = {} /\ Drops(c[7]) = {}
    <2>1. Must(c[1]) /\ Adds(c[1]) = {"cluster", "kube-proxy"} /\ Drops(c[1]) = ClusterObjects
        BY <1>1, ReplaceIs
    <2>2. Must(c[2]) /\ Adds(c[2]) = {"cilium"} /\ Drops(c[2]) = {}
        BY <1>1, DoIs
    <2>3. Must(c[3]) /\ Adds(c[3]) = {} /\ Drops(c[3]) = {}
        BY <1>1, WaitIs
    <2>4. Must(c[4]) /\ Adds(c[4]) = {} /\ Drops(c[4]) = {"kube-proxy"}
        BY <1>1, Proxy
    <2>5. Must(c[5]) /\ Adds(c[5]) = {} /\ Drops(c[5]) = {}
        BY <1>1, WaitIs
    <2>6. Adds(c[6]) = {"l2"} /\ Drops(c[6]) = {}
        BY <1>1, DocumentsAre
    <2>7. Must(c[7]) /\ Adds(c[7]) = {} /\ Drops(c[7]) = {}
        BY <1>1, WaitIs
    <2> QED
        BY <2>1, <2>2, <2>3, <2>4, <2>5, <2>6, <2>7
<1>3. /\ Fair(c[1])
      /\ Fair(c[2])
      /\ Fair(c[3])
      /\ Fair(c[4])
      /\ Fair(c[5])
      /\ Fair(c[6])
      /\ Fair(c[7])
    BY <1>2, GrownHas DEF Fair, ClusterObjects
<1>4. IsProgram(c)
    <2>1. \A k \in 1..7 : Fair(c[k])
        BY <1>3
    <2> QED
        BY <1>1, <2>1, FairProgram
<1>5. "cluster" \in Objects
    BY GrownHas DEF Grown
<1>6. "cluster" \in Lasting(c)
    <2>1. \A l \in 1 + 1..7 : "cluster" \notin Drops(c[l])
        BY <1>2
    <2>2. 1 \in 1..7 /\ Must(c[1]) /\ "cluster" \in Adds(c[1])
        BY <1>2
    <2> QED
        BY <1>1, <1>5, <2>1, <2>2 DEF Lasting, LeftBy, Ensures
<1> QED
    BY <1>4, <1>6 DEF c

\* Cilium loses its authentication here, not its SPIRE.
LEMMA CiliumDevProgram ==
    /\ IsProgram(cilium_dev)
    /\ {"cilium", "hubble", "l2"} \subseteq Lasting(cilium_dev)
<1> DEFINE c == cilium_dev
<1>1. /\ Len(c) = 4 /\ DOMAIN c = 1..4
      /\ c[1] = Wait({"helm", "cluster"})
      /\ c[2] = Replace({"cluster"}, {"cilium", "hubble"}, {"auth"})
      /\ c[3] = Wait({"cilium"})
      /\ c[4] = Do({"cilium", "cilium-dev.yaml", "l2-documents"}, {"l2"})
    BY DEF cilium_dev
<1> HIDE DEF c
<1>2. /\ Must(c[1]) /\ Adds(c[1]) = {} /\ Drops(c[1]) = {}
      /\ Must(c[2]) /\ Adds(c[2]) = {"cilium", "hubble"} /\ Drops(c[2]) = {"auth"}
      /\ Must(c[3]) /\ Adds(c[3]) = {} /\ Drops(c[3]) = {}
      /\ Must(c[4]) /\ Adds(c[4]) = {"l2"} /\ Drops(c[4]) = {}
    <2>1. Must(c[1]) /\ Adds(c[1]) = {} /\ Drops(c[1]) = {}
        BY <1>1, WaitIs
    <2>2. Must(c[2]) /\ Adds(c[2]) = {"cilium", "hubble"} /\ Drops(c[2]) = {"auth"}
        BY <1>1, ReplaceIs
    <2>3. Must(c[3]) /\ Adds(c[3]) = {} /\ Drops(c[3]) = {}
        BY <1>1, WaitIs
    <2>4. Must(c[4]) /\ Adds(c[4]) = {"l2"} /\ Drops(c[4]) = {}
        BY <1>1, DoIs
    <2> QED
        BY <2>1, <2>2, <2>3, <2>4
<1>3. /\ Fair(c[1])
      /\ Fair(c[2])
      /\ Fair(c[3])
      /\ Fair(c[4])
    BY <1>2, GrownHas DEF Fair, ClusterObjects
<1>4. IsProgram(c)
    <2>1. \A k \in 1..4 : Fair(c[k])
        BY <1>3
    <2> QED
        BY <1>1, <2>1, FairProgram
<1>5. "cilium" \in Objects /\ "hubble" \in Objects /\ "l2" \in Objects
    BY GrownHas DEF Grown
<1>6. "cilium" \in Lasting(c)
    <2>1. \A l \in 2 + 1..4 : "cilium" \notin Drops(c[l])
        BY <1>2
    <2>2. 2 \in 1..4 /\ Must(c[2]) /\ "cilium" \in Adds(c[2])
        BY <1>2
    <2> QED
        BY <1>1, <1>5, <2>1, <2>2 DEF Lasting, LeftBy, Ensures
<1>7. "hubble" \in Lasting(c)
    <2>1. \A l \in 2 + 1..4 : "hubble" \notin Drops(c[l])
        BY <1>2
    <2>2. 2 \in 1..4 /\ Must(c[2]) /\ "hubble" \in Adds(c[2])
        BY <1>2
    <2> QED
        BY <1>1, <1>5, <2>1, <2>2 DEF Lasting, LeftBy, Ensures
<1>8. "l2" \in Lasting(c)
    <2>1. \A l \in 4 + 1..4 : "l2" \notin Drops(c[l])
        BY <1>2
    <2>2. 4 \in 1..4 /\ Must(c[4]) /\ "l2" \in Adds(c[4])
        BY <1>2
    <2> QED
        BY <1>1, <1>5, <2>1, <2>2 DEF Lasting, LeftBy, Ensures
<1> QED
    BY <1>4, <1>6, <1>7, <1>8 DEF c

\* With helm.
LEMMA CiliumWithHelmProgram ==
    /\ IsProgram(cilium_with_helm)
    /\ {"cilium"} \subseteq Lasting(cilium_with_helm)
<1> DEFINE c == cilium_with_helm
<1>1. /\ Len(c) = 6 /\ DOMAIN c = 1..6
      /\ c[1] = Replace({"cluster"}, {"cilium"}, {"hubble", "auth"})
      /\ c[2] = Wait({"cilium"})
      /\ c[3] = delete_kube_proxy
      /\ c[4] = Wait({"cilium-dev.yaml"})
      /\ c[5] = l2_documents
      /\ c[6] = Wait({"cilium"})
    BY DEF cilium_with_helm
<1> HIDE DEF c
<1>2. /\ Must(c[1]) /\ Adds(c[1]) = {"cilium"} /\ Drops(c[1]) = {"hubble", "auth"}
      /\ Adds(c[2]) = {} /\ Drops(c[2]) = {}
      /\ Adds(c[3]) = {} /\ Drops(c[3]) = {"kube-proxy"}
      /\ Adds(c[4]) = {} /\ Drops(c[4]) = {}
      /\ Adds(c[5]) = {"l2"} /\ Drops(c[5]) = {}
      /\ Adds(c[6]) = {} /\ Drops(c[6]) = {}
    <2>1. Must(c[1]) /\ Adds(c[1]) = {"cilium"} /\ Drops(c[1]) = {"hubble", "auth"}
        BY <1>1, ReplaceIs
    <2>2. /\ Adds(c[2]) = {} /\ Drops(c[2]) = {}
          /\ Adds(c[4]) = {} /\ Drops(c[4]) = {}
          /\ Adds(c[6]) = {} /\ Drops(c[6]) = {}
        BY <1>1, WaitIs
    <2>3. Adds(c[3]) = {} /\ Drops(c[3]) = {"kube-proxy"}
        BY <1>1, Proxy
    <2>4. Adds(c[5]) = {"l2"} /\ Drops(c[5]) = {}
        BY <1>1, DocumentsAre
    <2> QED
        BY <2>1, <2>2, <2>3, <2>4
<1>3. /\ Fair(c[1]) /\ Fair(c[2]) /\ Fair(c[3]) /\ Fair(c[4]) /\ Fair(c[5]) /\ Fair(c[6])
    BY <1>2, GrownHas DEF Fair, ClusterObjects
<1>4. IsProgram(c)
    <2>1. \A k \in 1..6 : Fair(c[k])
        BY <1>3
    <2> QED
        BY <1>1, <2>1, FairProgram
<1>5. "cilium" \in Objects
    BY GrownHas DEF Grown
<1>6. "cilium" \in Lasting(c)
    <2>1. \A l \in 1 + 1..6 : "cilium" \notin Drops(c[l])
        BY <1>2
    <2>2. 1 \in 1..6 /\ Must(c[1]) /\ "cilium" \in Adds(c[1])
        BY <1>2
    <2> QED
        BY <1>1, <1>5, <2>1, <2>2 DEF Lasting, LeftBy, Ensures
<1> QED
    BY <1>4, <1>6 DEF c

\* Without helm.
LEMMA CiliumWithKubectlProgram ==
    /\ IsProgram(cilium_with_kubectl)
    /\ {"cilium"} \subseteq Lasting(cilium_with_kubectl)
<1> DEFINE c == cilium_with_kubectl
<1>1. /\ Len(c) = 2 /\ DOMAIN c = 1..2
      /\ c[1] = Do({"cluster"}, {"cilium"})
      /\ c[2] = Wait({"cilium"})
    BY DEF cilium_with_kubectl
<1> HIDE DEF c
<1>2. /\ Must(c[1]) /\ Adds(c[1]) = {"cilium"} /\ Drops(c[1]) = {}
      /\ Adds(c[2]) = {} /\ Drops(c[2]) = {}
    <2>1. Must(c[1]) /\ Adds(c[1]) = {"cilium"} /\ Drops(c[1]) = {}
        BY <1>1, DoIs
    <2>2. Adds(c[2]) = {} /\ Drops(c[2]) = {}
        BY <1>1, WaitIs
    <2> QED
        BY <2>1, <2>2
<1>3. Fair(c[1]) /\ Fair(c[2])
    BY <1>2, GrownHas DEF Fair
<1>4. IsProgram(c)
    <2>1. \A k \in 1..2 : Fair(c[k])
        BY <1>3
    <2> QED
        BY <1>1, <2>1, FairProgram
<1>5. "cilium" \in Objects
    BY GrownHas DEF Grown
<1>6. "cilium" \in Lasting(c)
    <2>1. \A l \in 1 + 1..2 : "cilium" \notin Drops(c[l])
        BY <1>2
    <2>2. 1 \in 1..2 /\ Must(c[1]) /\ "cilium" \in Adds(c[1])
        BY <1>2
    <2> QED
        BY <1>1, <1>5, <2>1, <2>2 DEF Lasting, LeftBy, Ensures
<1> QED
    BY <1>4, <1>6 DEF c

LEMMA LocalPathProgram ==
    /\ IsProgram(local_path_provisioner)
    /\ {"local-path", "local-path-default"} \subseteq Lasting(local_path_provisioner)
<1> DEFINE c == local_path_provisioner
<1>1. /\ Len(c) = 4 /\ DOMAIN c = 1..4
      /\ c[1] = Wait({"cilium"})
      /\ c[2] = Do({"cluster"}, {"local-path"})
      /\ c[3] = Wait({"local-path", "cilium"})
      /\ c[4] = Do({"local-path"}, {"local-path-default"})
    BY DEF local_path_provisioner
<1> HIDE DEF c
<1>2. /\ Must(c[1]) /\ Adds(c[1]) = {} /\ Drops(c[1]) = {}
      /\ Must(c[2]) /\ Adds(c[2]) = {"local-path"} /\ Drops(c[2]) = {}
      /\ Must(c[3]) /\ Adds(c[3]) = {} /\ Drops(c[3]) = {}
      /\ Must(c[4]) /\ Adds(c[4]) = {"local-path-default"} /\ Drops(c[4]) = {}
    <2>1. Must(c[1]) /\ Adds(c[1]) = {} /\ Drops(c[1]) = {}
        BY <1>1, WaitIs
    <2>2. Must(c[2]) /\ Adds(c[2]) = {"local-path"} /\ Drops(c[2]) = {}
        BY <1>1, DoIs
    <2>3. Must(c[3]) /\ Adds(c[3]) = {} /\ Drops(c[3]) = {}
        BY <1>1, WaitIs
    <2>4. Must(c[4]) /\ Adds(c[4]) = {"local-path-default"} /\ Drops(c[4]) = {}
        BY <1>1, DoIs
    <2> QED
        BY <2>1, <2>2, <2>3, <2>4
<1>3. /\ Fair(c[1])
      /\ Fair(c[2])
      /\ Fair(c[3])
      /\ Fair(c[4])
    BY <1>2, GrownHas DEF Fair
<1>4. IsProgram(c)
    <2>1. \A k \in 1..4 : Fair(c[k])
        BY <1>3
    <2> QED
        BY <1>1, <2>1, FairProgram
<1>5. "local-path" \in Objects /\ "local-path-default" \in Objects
    BY GrownHas DEF Grown
<1>6. "local-path" \in Lasting(c)
    <2>1. \A l \in 2 + 1..4 : "local-path" \notin Drops(c[l])
        BY <1>2
    <2>2. 2 \in 1..4 /\ Must(c[2]) /\ "local-path" \in Adds(c[2])
        BY <1>2
    <2> QED
        BY <1>1, <1>5, <2>1, <2>2 DEF Lasting, LeftBy, Ensures
<1>7. "local-path-default" \in Lasting(c)
    <2>1. \A l \in 4 + 1..4 : "local-path-default" \notin Drops(c[l])
        BY <1>2
    <2>2. 4 \in 1..4 /\ Must(c[4]) /\ "local-path-default" \in Adds(c[4])
        BY <1>2
    <2> QED
        BY <1>1, <1>5, <2>1, <2>2 DEF Lasting, LeftBy, Ensures
<1> QED
    BY <1>4, <1>6, <1>7 DEF c

LEMMA RookCephProgram ==
    /\ IsProgram(rook_ceph)
    /\ {"ceph-cluster", "rook-ceph-default"} \subseteq Lasting(rook_ceph)
<1> DEFINE c == rook_ceph
<1>1. /\ Len(c) = 7 /\ DOMAIN c = 1..7
      /\ c[1] = Wait({"cilium"})
      /\ c[2] = Do({"cluster"}, {"rook-operator"})
      /\ c[3] = Wait({"rook-operator", "cilium"})
      /\ c[4] = Do({"rook-operator"}, {"ceph-cluster"})
      /\ c[5] = Wait({"ceph-cluster", "cilium"})
      /\ c[6] = Do({"ceph-cluster"}, {"rook-classes"})
      /\ c[7] = Do({"rook-classes"}, {"rook-ceph-default"})
    BY DEF rook_ceph
<1> HIDE DEF c
<1>2. /\ Must(c[1]) /\ Adds(c[1]) = {} /\ Drops(c[1]) = {}
      /\ Must(c[2]) /\ Adds(c[2]) = {"rook-operator"} /\ Drops(c[2]) = {}
      /\ Must(c[3]) /\ Adds(c[3]) = {} /\ Drops(c[3]) = {}
      /\ Must(c[4]) /\ Adds(c[4]) = {"ceph-cluster"} /\ Drops(c[4]) = {}
      /\ Must(c[5]) /\ Adds(c[5]) = {} /\ Drops(c[5]) = {}
      /\ Must(c[6]) /\ Adds(c[6]) = {"rook-classes"} /\ Drops(c[6]) = {}
      /\ Must(c[7]) /\ Adds(c[7]) = {"rook-ceph-default"} /\ Drops(c[7]) = {}
    <2>1. Must(c[1]) /\ Adds(c[1]) = {} /\ Drops(c[1]) = {}
        BY <1>1, WaitIs
    <2>2. Must(c[2]) /\ Adds(c[2]) = {"rook-operator"} /\ Drops(c[2]) = {}
        BY <1>1, DoIs
    <2>3. Must(c[3]) /\ Adds(c[3]) = {} /\ Drops(c[3]) = {}
        BY <1>1, WaitIs
    <2>4. Must(c[4]) /\ Adds(c[4]) = {"ceph-cluster"} /\ Drops(c[4]) = {}
        BY <1>1, DoIs
    <2>5. Must(c[5]) /\ Adds(c[5]) = {} /\ Drops(c[5]) = {}
        BY <1>1, WaitIs
    <2>6. Must(c[6]) /\ Adds(c[6]) = {"rook-classes"} /\ Drops(c[6]) = {}
        BY <1>1, DoIs
    <2>7. Must(c[7]) /\ Adds(c[7]) = {"rook-ceph-default"} /\ Drops(c[7]) = {}
        BY <1>1, DoIs
    <2> QED
        BY <2>1, <2>2, <2>3, <2>4, <2>5, <2>6, <2>7
<1>3. /\ Fair(c[1])
      /\ Fair(c[2])
      /\ Fair(c[3])
      /\ Fair(c[4])
      /\ Fair(c[5])
      /\ Fair(c[6])
      /\ Fair(c[7])
    BY <1>2, GrownHas DEF Fair
<1>4. IsProgram(c)
    <2>1. \A k \in 1..7 : Fair(c[k])
        BY <1>3
    <2> QED
        BY <1>1, <2>1, FairProgram
<1>5. "ceph-cluster" \in Objects /\ "rook-ceph-default" \in Objects
    BY GrownHas DEF Grown
<1>6. "ceph-cluster" \in Lasting(c)
    <2>1. \A l \in 4 + 1..7 : "ceph-cluster" \notin Drops(c[l])
        BY <1>2
    <2>2. 4 \in 1..7 /\ Must(c[4]) /\ "ceph-cluster" \in Adds(c[4])
        BY <1>2
    <2> QED
        BY <1>1, <1>5, <2>1, <2>2 DEF Lasting, LeftBy, Ensures
<1>7. "rook-ceph-default" \in Lasting(c)
    <2>1. \A l \in 7 + 1..7 : "rook-ceph-default" \notin Drops(c[l])
        BY <1>2
    <2>2. 7 \in 1..7 /\ Must(c[7]) /\ "rook-ceph-default" \in Adds(c[7])
        BY <1>2
    <2> QED
        BY <1>1, <1>5, <2>1, <2>2 DEF Lasting, LeftBy, Ensures
<1> QED
    BY <1>4, <1>6, <1>7 DEF c

LEMMA RookStagingProgram ==
    /\ IsProgram(rook_ceph_staging)
    /\ {"rook-operator", "rook-classes"} \subseteq Lasting(rook_ceph_staging)
<1> DEFINE c == rook_ceph_staging
<1>1. /\ Len(c) = 4 /\ DOMAIN c = 1..4
      /\ c[1] = Do({"cluster", "vendored-rook-manifests"} \cup rook_ceph_manifests,
                   {"rook-operator", "ceph-cluster", "rook-classes"})
      /\ c[2] = Try({"rook-operator"}, {})
      /\ c[3] = Wait({"rook-operator", "cilium"})
      /\ c[4] = Wait({"rook-classes"})
    BY DEF rook_ceph_staging
<1> HIDE DEF c
<1>2. /\ Must(c[1]) /\ Drops(c[1]) = {}
      /\ Adds(c[1]) = {"rook-operator", "ceph-cluster", "rook-classes"}
      /\ Adds(c[2]) = {} /\ Drops(c[2]) = {}
      /\ Must(c[3]) /\ Adds(c[3]) = {} /\ Drops(c[3]) = {}
      /\ Must(c[4]) /\ Adds(c[4]) = {} /\ Drops(c[4]) = {}
    <2>1. /\ Must(c[1]) /\ Drops(c[1]) = {}
          /\ Adds(c[1]) = {"rook-operator", "ceph-cluster", "rook-classes"}
        BY <1>1, DoIs
    <2>2. Adds(c[2]) = {} /\ Drops(c[2]) = {}
        BY <1>1, TryIs
    <2>3. Must(c[3]) /\ Adds(c[3]) = {} /\ Drops(c[3]) = {}
        BY <1>1, WaitIs
    <2>4. Must(c[4]) /\ Adds(c[4]) = {} /\ Drops(c[4]) = {}
        BY <1>1, WaitIs
    <2> QED
        BY <2>1, <2>2, <2>3, <2>4
<1>3. /\ Fair(c[1])
      /\ Fair(c[2])
      /\ Fair(c[3])
      /\ Fair(c[4])
    BY <1>2, GrownHas DEF Fair
<1>4. IsProgram(c)
    <2>1. \A k \in 1..4 : Fair(c[k])
        BY <1>3
    <2> QED
        BY <1>1, <2>1, FairProgram
<1>5. "rook-operator" \in Objects /\ "rook-classes" \in Objects
    BY GrownHas DEF Grown
<1>6. "rook-operator" \in Lasting(c)
    <2>1. \A l \in 1 + 1..4 : "rook-operator" \notin Drops(c[l])
        BY <1>2
    <2>2. 1 \in 1..4 /\ Must(c[1]) /\ "rook-operator" \in Adds(c[1])
        BY <1>2
    <2> QED
        BY <1>1, <1>5, <2>1, <2>2 DEF Lasting, LeftBy, Ensures
<1>7. "rook-classes" \in Lasting(c)
    <2>1. \A l \in 1 + 1..4 : "rook-classes" \notin Drops(c[l])
        BY <1>2
    <2>2. 1 \in 1..4 /\ Must(c[1]) /\ "rook-classes" \in Adds(c[1])
        BY <1>2
    <2> QED
        BY <1>1, <1>5, <2>1, <2>2 DEF Lasting, LeftBy, Ensures
<1> QED
    BY <1>4, <1>6, <1>7 DEF c

LEMMA EnvoyGatewayProgram ==
    /\ IsProgram(gen_edge_cert \o << Wait(envoy_gateway_files) >> \o envoy_gateway)
    /\ {"edge-tls", "gateway-certs", "gateway"} \subseteq
           Lasting(gen_edge_cert \o << Wait(envoy_gateway_files) >> \o envoy_gateway)
<1> DEFINE c == gen_edge_cert \o << Wait(envoy_gateway_files) >> \o envoy_gateway
<1>1. /\ Len(c) = 8 /\ DOMAIN c = 1..8
      /\ c[1] = Do({}, {"edge-cert"})
      /\ c[2] = Do({"cluster"}, {"edge-namespace"})
      /\ c[3] = Do({"edge-cert", "edge-namespace"}, {"edge-tls"})
      /\ c[4] = Wait(envoy_gateway_files)
      /\ c[5] = Do({"cluster", "gateway-crds.yaml"}, {"gateway-crds"})
      /\ c[6] = Do({"edge-namespace"}, {"gateway-certs"})
      /\ c[7] = Do({"gateway-crds", "envoy-gateway.yaml"}, {"gateway", "edge-namespace"})
      /\ c[8] = Try({"gateway"}, {})
    BY DEF gen_edge_cert, envoy_gateway
<1> HIDE DEF c
<1>2. /\ Must(c[1]) /\ Adds(c[1]) = {"edge-cert"} /\ Drops(c[1]) = {}
      /\ Must(c[2]) /\ Adds(c[2]) = {"edge-namespace"} /\ Drops(c[2]) = {}
      /\ Must(c[3]) /\ Adds(c[3]) = {"edge-tls"} /\ Drops(c[3]) = {}
      /\ Must(c[4]) /\ Adds(c[4]) = {} /\ Drops(c[4]) = {}
      /\ Must(c[5]) /\ Adds(c[5]) = {"gateway-crds"} /\ Drops(c[5]) = {}
      /\ Must(c[6]) /\ Adds(c[6]) = {"gateway-certs"} /\ Drops(c[6]) = {}
      /\ Must(c[7]) /\ Adds(c[7]) = {"gateway", "edge-namespace"} /\ Drops(c[7]) = {}
      /\ Adds(c[8]) = {} /\ Drops(c[8]) = {}
    <2>1. Must(c[1]) /\ Adds(c[1]) = {"edge-cert"} /\ Drops(c[1]) = {}
        BY <1>1, DoIs
    <2>2. Must(c[2]) /\ Adds(c[2]) = {"edge-namespace"} /\ Drops(c[2]) = {}
        BY <1>1, DoIs
    <2>3. Must(c[3]) /\ Adds(c[3]) = {"edge-tls"} /\ Drops(c[3]) = {}
        BY <1>1, DoIs
    <2>4. Must(c[4]) /\ Adds(c[4]) = {} /\ Drops(c[4]) = {}
        BY <1>1, WaitIs
    <2>5. Must(c[5]) /\ Adds(c[5]) = {"gateway-crds"} /\ Drops(c[5]) = {}
        BY <1>1, DoIs
    <2>6. Must(c[6]) /\ Adds(c[6]) = {"gateway-certs"} /\ Drops(c[6]) = {}
        BY <1>1, DoIs
    <2>7. Must(c[7]) /\ Adds(c[7]) = {"gateway", "edge-namespace"} /\ Drops(c[7]) = {}
        BY <1>1, DoIs
    <2>8. Adds(c[8]) = {} /\ Drops(c[8]) = {}
        BY <1>1, TryIs
    <2> QED
        BY <2>1, <2>2, <2>3, <2>4, <2>5, <2>6, <2>7, <2>8
<1>3. /\ Fair(c[1])
      /\ Fair(c[2])
      /\ Fair(c[3])
      /\ Fair(c[4])
      /\ Fair(c[5])
      /\ Fair(c[6])
      /\ Fair(c[7])
      /\ Fair(c[8])
    BY <1>2, GrownHas DEF Fair
<1>4. IsProgram(c)
    <2>1. \A k \in 1..8 : Fair(c[k])
        BY <1>3
    <2> QED
        BY <1>1, <2>1, FairProgram
<1>5. "edge-tls" \in Objects /\ "gateway-certs" \in Objects /\ "gateway" \in Objects
    BY GrownHas DEF Grown
<1>6. "edge-tls" \in Lasting(c)
    <2>1. \A l \in 3 + 1..8 : "edge-tls" \notin Drops(c[l])
        BY <1>2
    <2>2. 3 \in 1..8 /\ Must(c[3]) /\ "edge-tls" \in Adds(c[3])
        BY <1>2
    <2> QED
        BY <1>1, <1>5, <2>1, <2>2 DEF Lasting, LeftBy, Ensures
<1>7. "gateway-certs" \in Lasting(c)
    <2>1. \A l \in 6 + 1..8 : "gateway-certs" \notin Drops(c[l])
        BY <1>2
    <2>2. 6 \in 1..8 /\ Must(c[6]) /\ "gateway-certs" \in Adds(c[6])
        BY <1>2
    <2> QED
        BY <1>1, <1>5, <2>1, <2>2 DEF Lasting, LeftBy, Ensures
<1>8. "gateway" \in Lasting(c)
    <2>1. \A l \in 7 + 1..8 : "gateway" \notin Drops(c[l])
        BY <1>2
    <2>2. 7 \in 1..8 /\ Must(c[7]) /\ "gateway" \in Adds(c[7])
        BY <1>2
    <2> QED
        BY <1>1, <1>5, <2>1, <2>2 DEF Lasting, LeftBy, Ensures
<1> QED
    BY <1>4, <1>6, <1>7, <1>8 DEF c

LEMMA GitMirrorProgram ==
    /\ IsProgram(provision_local_git_mirror)
    /\ {"bare-mirror", "mirror-served"} \subseteq Lasting(provision_local_git_mirror)
<1> DEFINE c == provision_local_git_mirror
<1>1. /\ Len(c) = 3 /\ DOMAIN c = 1..3
      /\ c[1] = Do({}, {"bare-mirror"})
      /\ c[2] = Do({"bare-mirror"}, {"mirror-served"})
      /\ c[3] = Try({"argocd"}, {"argocd-repositories"})
    BY DEF provision_local_git_mirror
<1> HIDE DEF c
<1>2. /\ Must(c[1]) /\ Adds(c[1]) = {"bare-mirror"} /\ Drops(c[1]) = {}
      /\ Must(c[2]) /\ Adds(c[2]) = {"mirror-served"} /\ Drops(c[2]) = {}
      /\ Adds(c[3]) = {"argocd-repositories"} /\ Drops(c[3]) = {}
    <2>1. Must(c[1]) /\ Adds(c[1]) = {"bare-mirror"} /\ Drops(c[1]) = {}
        BY <1>1, DoIs
    <2>2. Must(c[2]) /\ Adds(c[2]) = {"mirror-served"} /\ Drops(c[2]) = {}
        BY <1>1, DoIs
    <2>3. Adds(c[3]) = {"argocd-repositories"} /\ Drops(c[3]) = {}
        BY <1>1, TryIs
    <2> QED
        BY <2>1, <2>2, <2>3
<1>3. /\ Fair(c[1])
      /\ Fair(c[2])
      /\ Fair(c[3])
    BY <1>2, GrownHas DEF Fair
<1>4. IsProgram(c)
    <2>1. \A k \in 1..3 : Fair(c[k])
        BY <1>3
    <2> QED
        BY <1>1, <2>1, FairProgram
<1>5. "bare-mirror" \in Objects /\ "mirror-served" \in Objects
    BY GrownHas DEF Grown
<1>6. "bare-mirror" \in Lasting(c)
    <2>1. \A l \in 1 + 1..3 : "bare-mirror" \notin Drops(c[l])
        BY <1>2
    <2>2. 1 \in 1..3 /\ Must(c[1]) /\ "bare-mirror" \in Adds(c[1])
        BY <1>2
    <2> QED
        BY <1>1, <1>5, <2>1, <2>2 DEF Lasting, LeftBy, Ensures
<1>7. "mirror-served" \in Lasting(c)
    <2>1. \A l \in 2 + 1..3 : "mirror-served" \notin Drops(c[l])
        BY <1>2
    <2>2. 2 \in 1..3 /\ Must(c[2]) /\ "mirror-served" \in Adds(c[2])
        BY <1>2
    <2> QED
        BY <1>1, <1>5, <2>1, <2>2 DEF Lasting, LeftBy, Ensures
<1> QED
    BY <1>4, <1>6, <1>7 DEF c

LEMMA ArgoCdProgram ==
    /\ IsProgram(argocd)
    /\ {"argocd", "argocd-repositories"} \subseteq Lasting(argocd)
<1> DEFINE c == argocd
<1>1. /\ Len(c) = 5 /\ DOMAIN c = 1..5
      /\ c[1] = Try({"cluster"}, {"argocd-namespace"})
      /\ c[2] = Do({"argocd-namespace"}, {"argocd"})
      /\ c[3] = Wait({"argocd", "cilium"})
      /\ c[4] = Do({"argocd"}, {"argocd-repositories"})
      /\ c[5] = Wait({"argocd"})
    BY DEF argocd
<1> HIDE DEF c
<1>2. /\ Adds(c[1]) = {"argocd-namespace"} /\ Drops(c[1]) = {}
      /\ Must(c[2]) /\ Adds(c[2]) = {"argocd"} /\ Drops(c[2]) = {}
      /\ Must(c[3]) /\ Adds(c[3]) = {} /\ Drops(c[3]) = {}
      /\ Must(c[4]) /\ Adds(c[4]) = {"argocd-repositories"} /\ Drops(c[4]) = {}
      /\ Must(c[5]) /\ Adds(c[5]) = {} /\ Drops(c[5]) = {}
    <2>1. Adds(c[1]) = {"argocd-namespace"} /\ Drops(c[1]) = {}
        BY <1>1, TryIs
    <2>2. Must(c[2]) /\ Adds(c[2]) = {"argocd"} /\ Drops(c[2]) = {}
        BY <1>1, DoIs
    <2>3. Must(c[3]) /\ Adds(c[3]) = {} /\ Drops(c[3]) = {}
        BY <1>1, WaitIs
    <2>4. Must(c[4]) /\ Adds(c[4]) = {"argocd-repositories"} /\ Drops(c[4]) = {}
        BY <1>1, DoIs
    <2>5. Must(c[5]) /\ Adds(c[5]) = {} /\ Drops(c[5]) = {}
        BY <1>1, WaitIs
    <2> QED
        BY <2>1, <2>2, <2>3, <2>4, <2>5
<1>3. /\ Fair(c[1])
      /\ Fair(c[2])
      /\ Fair(c[3])
      /\ Fair(c[4])
      /\ Fair(c[5])
    BY <1>2, GrownHas DEF Fair
<1>4. IsProgram(c)
    <2>1. \A k \in 1..5 : Fair(c[k])
        BY <1>3
    <2> QED
        BY <1>1, <2>1, FairProgram
<1>5. "argocd" \in Objects /\ "argocd-repositories" \in Objects
    BY GrownHas DEF Grown
<1>6. "argocd" \in Lasting(c)
    <2>1. \A l \in 2 + 1..5 : "argocd" \notin Drops(c[l])
        BY <1>2
    <2>2. 2 \in 1..5 /\ Must(c[2]) /\ "argocd" \in Adds(c[2])
        BY <1>2
    <2> QED
        BY <1>1, <1>5, <2>1, <2>2 DEF Lasting, LeftBy, Ensures
<1>7. "argocd-repositories" \in Lasting(c)
    <2>1. \A l \in 4 + 1..5 : "argocd-repositories" \notin Drops(c[l])
        BY <1>2
    <2>2. 4 \in 1..5 /\ Must(c[4]) /\ "argocd-repositories" \in Adds(c[4])
        BY <1>2
    <2> QED
        BY <1>1, <1>5, <2>1, <2>2 DEF Lasting, LeftBy, Ensures
<1> QED
    BY <1>4, <1>6, <1>7 DEF c

LEMMA KargoProgram ==
    /\ IsProgram(kargo)
    /\ {"cert-manager", "kargo"} \subseteq Lasting(kargo)
<1> DEFINE c == kargo
<1>1. /\ Len(c) = 4 /\ DOMAIN c = 1..4
      /\ c[1] = Do({"helm", "cluster"}, {"cert-manager"})
      /\ c[2] = Wait({"cert-manager", "cilium"})
      /\ c[3] = Do({"cert-manager"}, {"kargo", "kargo-namespace"})
      /\ c[4] = Wait({"kargo", "cilium"})
    BY DEF kargo
<1> HIDE DEF c
<1>2. /\ Must(c[1]) /\ Adds(c[1]) = {"cert-manager"} /\ Drops(c[1]) = {}
      /\ Must(c[2]) /\ Adds(c[2]) = {} /\ Drops(c[2]) = {}
      /\ Must(c[3]) /\ Adds(c[3]) = {"kargo", "kargo-namespace"} /\ Drops(c[3]) = {}
      /\ Must(c[4]) /\ Adds(c[4]) = {} /\ Drops(c[4]) = {}
    <2>1. Must(c[1]) /\ Adds(c[1]) = {"cert-manager"} /\ Drops(c[1]) = {}
        BY <1>1, DoIs
    <2>2. Must(c[2]) /\ Adds(c[2]) = {} /\ Drops(c[2]) = {}
        BY <1>1, WaitIs
    <2>3. Must(c[3]) /\ Adds(c[3]) = {"kargo", "kargo-namespace"} /\ Drops(c[3]) = {}
        BY <1>1, DoIs
    <2>4. Must(c[4]) /\ Adds(c[4]) = {} /\ Drops(c[4]) = {}
        BY <1>1, WaitIs
    <2> QED
        BY <2>1, <2>2, <2>3, <2>4
<1>3. /\ Fair(c[1])
      /\ Fair(c[2])
      /\ Fair(c[3])
      /\ Fair(c[4])
    BY <1>2, GrownHas DEF Fair
<1>4. IsProgram(c)
    <2>1. \A k \in 1..4 : Fair(c[k])
        BY <1>3
    <2> QED
        BY <1>1, <2>1, FairProgram
<1>5. "cert-manager" \in Objects /\ "kargo" \in Objects
    BY GrownHas DEF Grown
<1>6. "cert-manager" \in Lasting(c)
    <2>1. \A l \in 1 + 1..4 : "cert-manager" \notin Drops(c[l])
        BY <1>2
    <2>2. 1 \in 1..4 /\ Must(c[1]) /\ "cert-manager" \in Adds(c[1])
        BY <1>2
    <2> QED
        BY <1>1, <1>5, <2>1, <2>2 DEF Lasting, LeftBy, Ensures
<1>7. "kargo" \in Lasting(c)
    <2>1. \A l \in 3 + 1..4 : "kargo" \notin Drops(c[l])
        BY <1>2
    <2>2. 3 \in 1..4 /\ Must(c[3]) /\ "kargo" \in Adds(c[3])
        BY <1>2
    <2> QED
        BY <1>1, <1>5, <2>1, <2>2 DEF Lasting, LeftBy, Ensures
<1> QED
    BY <1>4, <1>6, <1>7 DEF c

LEMMA InitKargoProgram ==
    /\ IsProgram(initialize_kargo)
    /\ {"kargo"} \subseteq Lasting(initialize_kargo)
<1> DEFINE c == initialize_kargo
<1>1. /\ Len(c) = 2 /\ DOMAIN c = 1..2
      /\ c[1] = Try({"cluster"}, {"kargo-namespace"})
      /\ c[2] = Do({"helm", "kargo-namespace", "cert-manager"}, {"kargo"})
    BY DEF initialize_kargo
<1> HIDE DEF c
<1>2. /\ Adds(c[1]) = {"kargo-namespace"} /\ Drops(c[1]) = {}
      /\ Must(c[2]) /\ Adds(c[2]) = {"kargo"} /\ Drops(c[2]) = {}
    <2>1. Adds(c[1]) = {"kargo-namespace"} /\ Drops(c[1]) = {}
        BY <1>1, TryIs
    <2>2. Must(c[2]) /\ Adds(c[2]) = {"kargo"} /\ Drops(c[2]) = {}
        BY <1>1, DoIs
    <2> QED
        BY <2>1, <2>2
<1>3. /\ Fair(c[1])
      /\ Fair(c[2])
    BY <1>2, GrownHas DEF Fair
<1>4. IsProgram(c)
    <2>1. \A k \in 1..2 : Fair(c[k])
        BY <1>3
    <2> QED
        BY <1>1, <2>1, FairProgram
<1>5. "kargo" \in Objects
    BY GrownHas DEF Grown
<1>6. "kargo" \in Lasting(c)
    <2>1. \A l \in 2 + 1..2 : "kargo" \notin Drops(c[l])
        BY <1>2
    <2>2. 2 \in 1..2 /\ Must(c[2]) /\ "kargo" \in Adds(c[2])
        BY <1>2
    <2> QED
        BY <1>1, <1>5, <2>1, <2>2 DEF Lasting, LeftBy, Ensures
<1> QED
    BY <1>4, <1>6 DEF c

LEMMA InitArgoCdProgram ==
    /\ IsProgram(initialize_argocd)
    /\ {"argocd"} \subseteq Lasting(initialize_argocd)
<1> DEFINE c == initialize_argocd
<1>1. /\ Len(c) = 2 /\ DOMAIN c = 1..2
      /\ c[1] = Try({"cluster"}, {"argocd-namespace"})
      /\ c[2] = Do({"helm", "argocd-namespace"}, {"argocd"})
    BY DEF initialize_argocd
<1> HIDE DEF c
<1>2. /\ Adds(c[1]) = {"argocd-namespace"} /\ Drops(c[1]) = {}
      /\ Must(c[2]) /\ Adds(c[2]) = {"argocd"} /\ Drops(c[2]) = {}
    <2>1. Adds(c[1]) = {"argocd-namespace"} /\ Drops(c[1]) = {}
        BY <1>1, TryIs
    <2>2. Must(c[2]) /\ Adds(c[2]) = {"argocd"} /\ Drops(c[2]) = {}
        BY <1>1, DoIs
    <2> QED
        BY <2>1, <2>2
<1>3. /\ Fair(c[1])
      /\ Fair(c[2])
    BY <1>2, GrownHas DEF Fair
<1>4. IsProgram(c)
    <2>1. \A k \in 1..2 : Fair(c[k])
        BY <1>3
    <2> QED
        BY <1>1, <2>1, FairProgram
<1>5. "argocd" \in Objects
    BY GrownHas DEF Grown
<1>6. "argocd" \in Lasting(c)
    <2>1. \A l \in 2 + 1..2 : "argocd" \notin Drops(c[l])
        BY <1>2
    <2>2. 2 \in 1..2 /\ Must(c[2]) /\ "argocd" \in Adds(c[2])
        BY <1>2
    <2> QED
        BY <1>1, <1>5, <2>1, <2>2 DEF Lasting, LeftBy, Ensures
<1> QED
    BY <1>4, <1>6 DEF c

LEMMA InitMetricsProgram ==
    /\ IsProgram(initialize_victoria_metrics)
    /\ {"victoria-metrics"} \subseteq Lasting(initialize_victoria_metrics)
<1> DEFINE c == initialize_victoria_metrics
<1>1. /\ Len(c) = 2 /\ DOMAIN c = 1..2
      /\ c[1] = Try({"cluster"}, {"monitoring-namespace"})
      /\ c[2] = Do({"helm", "monitoring-namespace"}, {"victoria-metrics"})
    BY DEF initialize_victoria_metrics
<1> HIDE DEF c
<1>2. /\ Adds(c[1]) = {"monitoring-namespace"} /\ Drops(c[1]) = {}
      /\ Must(c[2]) /\ Adds(c[2]) = {"victoria-metrics"} /\ Drops(c[2]) = {}
    <2>1. Adds(c[1]) = {"monitoring-namespace"} /\ Drops(c[1]) = {}
        BY <1>1, TryIs
    <2>2. Must(c[2]) /\ Adds(c[2]) = {"victoria-metrics"} /\ Drops(c[2]) = {}
        BY <1>1, DoIs
    <2> QED
        BY <2>1, <2>2
<1>3. /\ Fair(c[1])
      /\ Fair(c[2])
    BY <1>2, GrownHas DEF Fair
<1>4. IsProgram(c)
    <2>1. \A k \in 1..2 : Fair(c[k])
        BY <1>3
    <2> QED
        BY <1>1, <2>1, FairProgram
<1>5. "victoria-metrics" \in Objects
    BY GrownHas DEF Grown
<1>6. "victoria-metrics" \in Lasting(c)
    <2>1. \A l \in 2 + 1..2 : "victoria-metrics" \notin Drops(c[l])
        BY <1>2
    <2>2. 2 \in 1..2 /\ Must(c[2]) /\ "victoria-metrics" \in Adds(c[2])
        BY <1>2
    <2> QED
        BY <1>1, <1>5, <2>1, <2>2 DEF Lasting, LeftBy, Ensures
<1> QED
    BY <1>4, <1>6 DEF c

LEMMA InitGrafanaProgram ==
    /\ IsProgram(initialize_grafana)
    /\ {"grafana"} \subseteq Lasting(initialize_grafana)
<1> DEFINE c == initialize_grafana
<1>1. /\ Len(c) = 2 /\ DOMAIN c = 1..2
      /\ c[1] = Try({"cluster"}, {"monitoring-namespace"})
      /\ c[2] = Do({"helm", "monitoring-namespace"}, {"grafana"})
    BY DEF initialize_grafana
<1> HIDE DEF c
<1>2. /\ Adds(c[1]) = {"monitoring-namespace"} /\ Drops(c[1]) = {}
      /\ Must(c[2]) /\ Adds(c[2]) = {"grafana"} /\ Drops(c[2]) = {}
    <2>1. Adds(c[1]) = {"monitoring-namespace"} /\ Drops(c[1]) = {}
        BY <1>1, TryIs
    <2>2. Must(c[2]) /\ Adds(c[2]) = {"grafana"} /\ Drops(c[2]) = {}
        BY <1>1, DoIs
    <2> QED
        BY <2>1, <2>2
<1>3. /\ Fair(c[1])
      /\ Fair(c[2])
    BY <1>2, GrownHas DEF Fair
<1>4. IsProgram(c)
    <2>1. \A k \in 1..2 : Fair(c[k])
        BY <1>3
    <2> QED
        BY <1>1, <2>1, FairProgram
<1>5. "grafana" \in Objects
    BY GrownHas DEF Grown
<1>6. "grafana" \in Lasting(c)
    <2>1. \A l \in 2 + 1..2 : "grafana" \notin Drops(c[l])
        BY <1>2
    <2>2. 2 \in 1..2 /\ Must(c[2]) /\ "grafana" \in Adds(c[2])
        BY <1>2
    <2> QED
        BY <1>1, <1>5, <2>1, <2>2 DEF Lasting, LeftBy, Ensures
<1> QED
    BY <1>4, <1>6 DEF c

\* The cluster of step 02 on Talos: on QEMU its machines leave a state directory.
LEMMA BootstrapTalosProgram ==
    ASSUME NEW provider
    PROVE  /\ IsProgram(bootstrap_talos_dev(provider))
           /\ {"cluster"} \subseteq Lasting(bootstrap_talos_dev(provider))
<1> DEFINE c == bootstrap_talos_dev(provider)
           more == IF provider = "qemu" THEN {"qemu-state"} ELSE {}
           added == {"cluster", "talosconfig"} \cup more
<1>1. Len(c) = 1 /\ DOMAIN c = 1..1 /\ c[1] = Replace({}, added, ClusterObjects)
    BY DEF bootstrap_talos_dev
<1>2. added \subseteq Grown /\ "cluster" \in added
    BY GrownHas
<1> HIDE DEF c, added
<1>3. Must(c[1]) /\ Adds(c[1]) = added /\ Drops(c[1]) = ClusterObjects
    BY <1>1, ReplaceIs
<1>4. Fair(c[1])
    BY <1>2, <1>3 DEF Fair, ClusterObjects
<1>5. IsProgram(c)
    <2>1. \A k \in 1..1 : Fair(c[k])
        BY <1>4
    <2> QED
        BY <1>1, <2>1, FairProgram
<1>6. "cluster" \in Objects
    BY GrownHas DEF Grown
<1>7. "cluster" \in Lasting(c)
    BY <1>1, <1>2, <1>3, <1>6 DEF Lasting, LeftBy, Ensures
<1> QED
    BY <1>5, <1>7 DEF c

\* The mesh: the one program that turns authentication on.
LEMMA MeshProgram ==
    /\ IsProgram(cilium_mtls)
    /\ {"spire-serving", "auth"} \subseteq Lasting(cilium_mtls)
<1> DEFINE c == cilium_mtls
<1>1. /\ Len(c) = 4 /\ DOMAIN c = 1..4
      /\ c[1] = Do({"helm", "cluster"} \cup cilium_mtls_manifests, {"spire"})
      /\ c[2] = Do({"spire", "cilium", "local-path"}, {"spire-serving"})
      /\ c[3] = Do({"cluster"}, {"cilium", "auth"})
      /\ c[4] = Wait({"cilium", "auth", "spire"})
    BY DEF cilium_mtls
<1> HIDE DEF c
<1>2. /\ Must(c[1]) /\ Adds(c[1]) = {"spire"} /\ Drops(c[1]) = {}
      /\ Must(c[2]) /\ Adds(c[2]) = {"spire-serving"} /\ Drops(c[2]) = {}
      /\ Must(c[3]) /\ Adds(c[3]) = {"cilium", "auth"} /\ Drops(c[3]) = {}
      /\ Must(c[4]) /\ Adds(c[4]) = {} /\ Drops(c[4]) = {}
    <2>1. Must(c[1]) /\ Adds(c[1]) = {"spire"} /\ Drops(c[1]) = {}
        BY <1>1, DoIs
    <2>2. Must(c[2]) /\ Adds(c[2]) = {"spire-serving"} /\ Drops(c[2]) = {}
        BY <1>1, DoIs
    <2>3. Must(c[3]) /\ Adds(c[3]) = {"cilium", "auth"} /\ Drops(c[3]) = {}
        BY <1>1, DoIs
    <2>4. Must(c[4]) /\ Adds(c[4]) = {} /\ Drops(c[4]) = {}
        BY <1>1, WaitIs
    <2> QED
        BY <2>1, <2>2, <2>3, <2>4
<1>3. \A k \in 1..4 : Drops(c[k]) = {}
    BY <1>2
<1>4. {"spire", "spire-serving", "cilium", "auth"} \subseteq Objects
    BY GrownHas DEF Grown, Objects, ClusterObjects
<1>5. Known(c)
    <2>1. /\ Adds(c[1]) \subseteq Objects /\ Adds(c[2]) \subseteq Objects
          /\ Adds(c[3]) \subseteq Objects /\ Adds(c[4]) \subseteq Objects
        BY <1>2, <1>4
    <2>2. \A k \in 1..4 : Adds(c[k]) \subseteq Objects
        BY <2>1
    <2> QED
        BY <1>1, <2>2 DEF Known
<1>6. MeshInOrder(c)
    <2>1. \A k \in 1..4 : "auth" \in Adds(c[k]) => k = 3
        BY <1>2
    <2> QED
        BY <1>1, <1>2, <1>3, <2>1 DEF MeshInOrder
<1>7. IsProgram(c)
    BY <1>1, <1>5, <1>6 DEF IsProgram
<1>8. "spire-serving" \in Lasting(c)
    <2>1. 2 \in 1..4 /\ Must(c[2]) /\ "spire-serving" \in Adds(c[2])
        BY <1>2
    <2> QED
        BY <1>1, <1>3, <1>4, <2>1 DEF Lasting, LeftBy, Ensures
<1>9. "auth" \in Lasting(c)
    <2>1. 3 \in 1..4 /\ Must(c[3]) /\ "auth" \in Adds(c[3])
        BY <1>2
    <2> QED
        BY <1>1, <1>3, <1>4, <2>1 DEF Lasting, LeftBy, Ensures
<1> QED
    BY <1>7, <1>8, <1>9 DEF c

\* The gateway is an object of the cluster.
LEMMA GatewayIsNoFile == "gateway" \notin CheckedFiles
BY DEF CheckedFiles, a2a, api_key_auth, backstage, casbin, casbin_rebac, casbin_abac, casdoor,
       clustermesh, entity_store, grafana_alertmanager, grafana_hubble_routes, infisical,
       mcp_tools, observability_ui, openapi, otel_collector, regional_hub,
       regional_sovereignty, telemetry_ingestion, tool_ui, victoria_metrics, vmlogs,
       argo_rollouts, argo_events, spegel, platform_dev, offline_gitops_pipeline,
       cilium_files, cilium_mtls_manifests, mtls_markers, rook_ceph_manifests,
       kargo_files, argocd_files, git_mirror_files, edge_cert_files,
       envoy_gateway_files, hubble_route_files, e2e_files, simulator_files

\* Step 06 does not install the gateway, but its last command needs it.
LEMMA ExposeHubbleProgram ==
    /\ IsProgram(expose_hubble_ui)
    /\ {"hubble-route", "gateway"} \subseteq Lasting(expose_hubble_ui)
<1> DEFINE c == expose_hubble_ui
           needed == {"hubble-route", "hubble", "l2", "gateway", "gateway-certs", "edge-tls"}
                         \cup e2e_files
<1>1. /\ Len(c) = 3 /\ DOMAIN c = 1..3
      /\ c[1] = Do({"gateway-crds", "edge-namespace"} \cup hubble_route_files, {"hubble-route"})
      /\ c[2] = Try({"gateway"}, {})
      /\ c[3] = Wait(needed)
    BY DEF expose_hubble_ui
<1>2. "gateway" \in needed
    OBVIOUS
<1> HIDE DEF c, needed
<1>3. Must(c[1]) /\ Adds(c[1]) = {"hubble-route"} /\ Drops(c[1]) = {}
    BY <1>1, DoIs
<1>4. Adds(c[2]) = {} /\ Drops(c[2]) = {}
    BY <1>1, TryIs
<1>5. Must(c[3]) /\ Adds(c[3]) = {} /\ Drops(c[3]) = {}
    BY <1>1, WaitIs
<1>6. Needs(c[3]) = needed
    BY <1>1 DEF Needs, Wait, Do, Replace
<1>7. Fair(c[1]) /\ Fair(c[2]) /\ Fair(c[3])
    BY <1>3, <1>4, <1>5, GrownHas DEF Fair
<1>8. IsProgram(c)
    <2>1. \A k \in 1..3 : Fair(c[k])
        BY <1>7
    <2> QED
        BY <1>1, <2>1, FairProgram
<1>9. "hubble-route" \in Objects /\ "gateway" \in Objects
    BY GrownHas DEF Grown
<1>10. "hubble-route" \in Lasting(c)
    <2>1. \A l \in 2..3 : "hubble-route" \notin Drops(c[l])
        BY <1>4, <1>5
    <2> QED
        BY <1>1, <1>3, <1>9, <2>1 DEF Lasting, LeftBy, Ensures
<1>11. "gateway" \in Lasting(c)
    <2>1. "gateway" \in Ensures(c[3])
        BY <1>2, <1>5, <1>6, GatewayIsNoFile DEF Ensures
    <2> QED
        BY <1>1, <1>5, <1>9, <2>1 DEF Lasting, LeftBy
<1> QED
    BY <1>8, <1>10, <1>11 DEF c

\* A step that runs an installer under --apply, and nothing in the other modes.
LEMMA InstallerInv ==
    ASSUME NEW name, NEW number, NEW toggles, NEW check, NEW dry_run, NEW files,
           NEW commands, IsProgram(commands), Promise(name) \subseteq Lasting(commands),
           number # "1.5", name # "01-bootstrap-dev"
    PROVE  StepInv(Step(name, number, toggles, Installer(check, dry_run, files, commands)))
<1> DEFINE step == Step(name, number, toggles, Installer(check, dry_run, files, commands))
<1>1. /\ step.name = name /\ step.number = number
      /\ step.program["check"].commands = << >> /\ step.program["dry_run"].commands = << >>
      /\ step.program["apply"].commands = commands
    BY DEF Step, Installer, Run
<1>2. StepInv(step)
    <2> HIDE DEF step
    <2>1. \A mode \in Modes : IsProgram(step.program[mode].commands)
        BY <1>1, EmptyProgram DEF Modes
    <2>2. /\ step.program.check.commands = << >> /\ step.program.dry_run.commands = << >>
          /\ step.program.apply.commands = commands
        BY <1>1
    <2> QED
        BY <1>1, <2>1, <2>2, EmptyProgram DEF StepInv
<1> QED
    BY <1>2

\* The steps one by one.
LEMMA Step01Inv == StepInv(Step01)
<1>1. /\ Step01.name = "01-bootstrap-dev" /\ Step01.number = "1"
      /\ Step01.program["check"].commands = << >>
      /\ Step01.program["dry_run"].commands = bootstrap_dev
      /\ Step01.program["apply"].commands = bootstrap_dev
    BY DEF Step01, Step, Run
<1>2. Scaffolds(bootstrap_dev)
    <2>1. /\ DOMAIN bootstrap_dev = 1..1
          /\ Adds(bootstrap_dev[1]) = {"scaffold"} /\ Drops(bootstrap_dev[1]) = {}
        BY DEF bootstrap_dev, Do, Replace, Adds, Drops
    <2> QED
        BY <2>1 DEF Scaffolds
<1>3. \A mode \in Modes : IsProgram(Step01.program[mode].commands)
    BY <1>1, EmptyProgram, BootstrapDevProgram DEF Modes
<1>4. Promise("01-bootstrap-dev") = {"scaffold"}
    BY DEF Promise
<1>5. /\ Step01.program.check.commands = << >>
      /\ Step01.program.dry_run.commands = bootstrap_dev
      /\ Step01.program.apply.commands = bootstrap_dev
    BY <1>1
<1> QED
    BY <1>1, <1>2, <1>3, <1>4, <1>5, BootstrapDevProgram DEF StepInv

\* The step's promise is what its program leaves.
LEMMA Step03Inv == StepInv(Step03)
<1>1. Promise("03-install-cilium-dev") = {"cilium", "hubble", "l2"}
    BY DEF Promise
<1> QED
    BY <1>1, CiliumDevProgram, InstallerInv DEF Step03

LEMMA Step04MtlsInv == StepInv(Step04Mtls)
<1>1. Promise("04-install-cilium-mtls-dev") = {"spire-serving", "auth"}
    BY DEF Promise
<1> QED
    BY <1>1, MeshProgram, InstallerInv DEF Step04Mtls

LEMMA Step04EnvoyInv == StepInv(Step04Envoy)
<1>1. Promise("04-install-envoy-gateway-dev") = {"edge-tls", "gateway-certs", "gateway"}
    BY DEF Promise
<1> QED
    BY <1>1, EnvoyGatewayProgram, InstallerInv DEF Step04Envoy

LEMMA Step05RookInv == StepInv(Step05Rook)
<1>1. Promise("05-install-rook-ceph-staging") = {"rook-operator", "rook-classes"}
    BY DEF Promise
<1> QED
    BY <1>1, RookStagingProgram, InstallerInv DEF Step05Rook

LEMMA Step06Inv == StepInv(Step06)
<1>1. Promise("06-expose-hubble-ui-dev") = {"hubble-route", "gateway"}
    BY DEF Promise
<1> QED
    BY <1>1, ExposeHubbleProgram, InstallerInv DEF Step06

LEMMA Step09Inv ==
    ASSUME NEW storage
    PROVE  StepInv(Step09(storage))
<1>1. Promise("09-provision-local-git-mirror") = {"bare-mirror", "mirror-served"}
    BY DEF Promise
<1> QED
    BY <1>1, GitMirrorProgram, InstallerInv DEF Step09

LEMMA Step11Inv == StepInv(Step11)
<1>1. Promise("11-install-kargo-dev") = {"cert-manager", "kargo"}
    BY DEF Promise
<1> QED
    BY <1>1, KargoProgram, InstallerInv DEF Step11

LEMMA Step12Inv == StepInv(Step12)
<1>1. Promise("12-install-argocd-dev") = {"argocd", "argocd-repositories"}
    BY DEF Promise
<1> QED
    BY <1>1, ArgoCdProgram, InstallerInv DEF Step12

LEMMA Step02Inv ==
    ASSUME NEW provider
    PROVE  StepInv(Step02(provider))
<1>1. Promise("02-bootstrap-talos-dev") = {"cluster"}
    BY DEF Promise
<1> DEFINE commands == IF provider = "kind" THEN bootstrap_kind_dev
                       ELSE bootstrap_talos_dev(provider)
<1>2. IsProgram(commands) /\ {"cluster"} \subseteq Lasting(commands)
    BY BootstrapKindProgram, BootstrapTalosProgram
<1>3. Step02(provider) = Step("02-bootstrap-talos-dev", "2", Always,
                              Installer({}, {}, {}, commands))
    BY DEF Step02
<1> HIDE DEF commands
<1> QED
    BY <1>1, <1>2, <1>3, InstallerInv

\* What step 05 promises is of the backend that the command line names.
LEMMA Step05StorageInv == StepInv(Step05Storage(cmdline.storage))
<1>1. CASE cmdline.storage = "rook-ceph"
    <2>1. Promise("05-install-storage-dev") = {"ceph-cluster", "rook-ceph-default"}
        BY <1>1 DEF Promise
    <2>2. Step05Storage(cmdline.storage) =
              Step("05-install-storage-dev", "5", Always,
                   Installer({"talosconfig"}, {"talosconfig"}, {"talosconfig"}, rook_ceph))
        BY <1>1 DEF Step05Storage
    <2> QED
        BY <2>1, <2>2, RookCephProgram, InstallerInv
<1>2. CASE cmdline.storage # "rook-ceph"
    <2>1. Promise("05-install-storage-dev") = {"local-path", "local-path-default"}
        BY <1>2 DEF Promise
    <2>2. Step05Storage(cmdline.storage) =
              Step("05-install-storage-dev", "5", Always,
                   Installer({}, {}, {}, local_path_provisioner))
        BY <1>2 DEF Step05Storage
    <2> QED
        BY <2>1, <2>2, LocalPathProgram, InstallerInv
<1> QED
    BY <1>1, <1>2

LEMMA OnlineInv ==
    ASSUME NEW helm
    PROVE  StepInv(Step("install_cilium_online", "", Always,
                        Installer({}, {}, {}, cilium_online(helm))))
<1>1. Promise("install_cilium_online") = {"cilium"}
    BY DEF Promise
<1> DEFINE commands == cilium_online(helm)
<1>2. IsProgram(commands) /\ {"cilium"} \subseteq Lasting(commands)
    BY CiliumWithHelmProgram, CiliumWithKubectlProgram DEF cilium_online
<1> HIDE DEF commands
<1>3. StepInv(Step("install_cilium_online", "", Always, Installer({}, {}, {}, commands)))
    BY <1>1, <1>2, InstallerInv
<1> QED
    BY <1>3 DEF commands

LEMMA ToolKargoInv ==
    StepInv(Step("kargo", "", Always, Installer({}, {}, {}, initialize_kargo)))
<1>1. Promise("kargo") = {"kargo"}
    BY DEF Promise
<1> QED
    BY <1>1, InitKargoProgram, InstallerInv

LEMMA ToolArgoCdInv ==
    StepInv(Step("argocd", "", Always, Installer({}, {}, {}, initialize_argocd)))
<1>1. Promise("argocd") = {"argocd"}
    BY DEF Promise
<1> QED
    BY <1>1, InitArgoCdProgram, InstallerInv

LEMMA ToolMetricsInv ==
    StepInv(Step("victoria-metrics", "", Always,
                 Installer({}, {}, {}, initialize_victoria_metrics)))
<1>1. Promise("victoria-metrics") = {"victoria-metrics"}
    BY DEF Promise
<1> QED
    BY <1>1, InitMetricsProgram, InstallerInv

LEMMA ToolGrafanaInv ==
    StepInv(Step("grafana", "", Always, Installer({}, {}, {}, initialize_grafana)))
<1>1. Promise("grafana") = {"grafana"}
    BY DEF Promise
<1> QED
    BY <1>1, InitGrafanaProgram, InstallerInv

-----------------------------------------------------------------------------
(* Every step that a command line can select.                              *)

AllSteps(provider, storage) ==
    Validators \cup
    {Step01, Step02(provider), Step03, Step04Mtls, Step04Envoy, Step05Rook,
     Step05Storage(storage), Step06, Step09(storage), Step11, Step12}

\* All of them are as they must be.
LEMMA AllStepsInv ==
    ASSUME NEW provider
    PROVE  \A step \in AllSteps(provider, cmdline.storage) : StepInv(step)
BY ValidatorsInv, Step01Inv, Step02Inv, Step03Inv, Step04MtlsInv, Step04EnvoyInv,
   Step05RookInv, Step05StorageInv, Step06Inv, Step09Inv, Step11Inv, Step12Inv DEF AllSteps

\* Domain and elements of a sequence.
LEMMA InSeq ==
    ASSUME NEW S, NEW s \in Seq(S)
    PROVE  DOMAIN s = 1..Len(s) /\ \A i \in 1..Len(s) : s[i] \in S
OBVIOUS

\* There are 51 steps in the directory, and each is one of them.
LEMMA DiscoveredAre ==
    ASSUME NEW provider \in ClusterKinds, NEW storage \in Backends
    PROVE  /\ DOMAIN discover_steps[provider][storage] = 1..51
           /\ \A i \in 1..51 : discover_steps[provider][storage][i] \in AllSteps(provider, storage)
<1> DEFINE all == << Step01, Step01_5, Step02(provider), Step03, Step03Online, Step04Mtls,
           Step04Envoy, Step04Validate, Step05Rook, Step05Storage(storage), Step06,
           Step09(storage), Step10, Step11, Step12, Step13, Step14, Step15, Step16, Step17,
           Step18, Step19, Step19Kafka, Step20Human, Step20, Step21, Step21Llm, Step22,
           Step23, Step24, Step25, Step26, Step27, Step28, Step29, Step30, Step31, Step32,
           Step33, Step34, Step35, Step36, Step37, Step38, Step39, Step40, Step40Test,
           Step41, Step42, Step43, Step44 >>
<1>1. discover_steps[provider][storage] = all
    BY DEF discover_steps
<1>2. all \in Seq(AllSteps(provider, storage)) /\ Len(all) = 51
    BY DEF AllSteps, Validators
<1> HIDE DEF all
<1>3. DOMAIN all = 1..51 /\ \A i \in 1..51 : all[i] \in AllSteps(provider, storage)
    BY <1>2, InSeq, Zenon
<1> QED
    BY <1>1, <1>3, Zenon

\* The program that somebody runs by hand, as a step.
LEMMA ByHandInv ==
    ASSUME NEW helm
    PROVE  /\ DOMAIN cilium_online_by_hand(helm) = 1..1
           /\ \A i \in 1..1 : StepInv(cilium_online_by_hand(helm)[i])
<1> DEFINE all == cilium_online_by_hand(helm)
<1>1. /\ DOMAIN all = 1..1
      /\ all[1] = Step("install_cilium_online", "", Always,
                       Installer({}, {}, {}, cilium_online(helm)))
    BY DEF cilium_online_by_hand
<1> HIDE DEF all
<1>2. StepInv(all[1])
    BY <1>1, OnlineInv, Zenon
<1>3. \A i \in 1..1 : StepInv(all[i])
    BY <1>2
<1> QED
    BY <1>1, <1>3 DEF all

\* The four tools of initialize_components.py.
LEMMA ComponentsInv ==
    /\ DOMAIN initialize_components = 1..4
    /\ \A i \in 1..4 : StepInv(initialize_components[i])
<1> DEFINE all == initialize_components
<1>1. /\ DOMAIN all = 1..4
      /\ all[1] = Step("kargo", "", Always, Installer({}, {}, {}, initialize_kargo))
      /\ all[2] = Step("argocd", "", Always, Installer({}, {}, {}, initialize_argocd))
      /\ all[3] = Step("victoria-metrics", "", Always,
                       Installer({}, {}, {}, initialize_victoria_metrics))
      /\ all[4] = Step("grafana", "", Always, Installer({}, {}, {}, initialize_grafana))
    BY DEF initialize_components
<1> HIDE DEF all
<1>2. StepInv(all[1]) /\ StepInv(all[2]) /\ StepInv(all[3]) /\ StepInv(all[4])
    BY <1>1, ToolKargoInv, ToolArgoCdInv, ToolMetricsInv, ToolGrafanaInv, Zenon
<1>3. \A i \in 1..4 : StepInv(all[i])
    BY <1>2
<1> QED
    BY <1>1, <1>3 DEF all

\* The steps of every program are a sequence.
LEMMA StepsNumbered ==
    ASSUME env \in Environments, NEW j \in env.jobs
    PROVE  \E n \in Nat : DOMAIN Steps_of(j) = 1..n
<1>1. env.provider \in ClusterKinds /\ j.prog \in Programs /\ j.storage \in Backends
    BY SetupAssumption
<1>2. CASE j.prog = "startup"
    <2>1. Steps_of(j) = discover_steps[env.provider][j.storage]
        BY <1>2 DEF Steps_of
    <2> QED
        BY <1>1, <2>1, DiscoveredAre
<1>3. CASE j.prog = "install_cilium_online"
    <2>1. Steps_of(j) = cilium_online_by_hand("helm" \in env.right)
        BY <1>3 DEF Steps_of
    <2> QED
        BY <2>1, ByHandInv
<1>4. CASE j.prog = "initialize_components"
    <2>1. Steps_of(j) = initialize_components
        BY <1>4 DEF Steps_of
    <2> QED
        BY <2>1, ComponentsInv
<1> QED
    BY <1>1, <1>2, <1>3, <1>4 DEF Programs

\* Whatever is typed, the steps of the program are as they must be.
LEMMA TypedStepsInv ==
    ASSUME env \in Environments, cmdline \in env.jobs
    PROVE  \A i \in DOMAIN Steps_of(cmdline) : StepInv(Steps_of(cmdline)[i])
<1>1. /\ env.provider \in ClusterKinds /\ cmdline.prog \in Programs
      /\ cmdline.storage \in Backends
    BY SetupAssumption
<1>2. CASE cmdline.prog = "startup"
    <2> DEFINE all == discover_steps[env.provider][cmdline.storage]
    <2>1. Steps_of(cmdline) = all
        BY <1>2 DEF Steps_of
    <2>2. DOMAIN all = 1..51 /\ \A i \in 1..51 : all[i] \in AllSteps(env.provider, cmdline.storage)
        BY <1>1, DiscoveredAre
    <2> HIDE DEF all
    <2>3. \A i \in 1..51 : StepInv(all[i])
        BY <2>2, AllStepsInv
    <2> QED
        BY <2>1, <2>2, <2>3
<1>3. CASE cmdline.prog = "install_cilium_online"
    <2>1. Steps_of(cmdline) = cilium_online_by_hand("helm" \in env.right)
        BY <1>3 DEF Steps_of
    <2> QED
        BY <2>1, ByHandInv
<1>4. CASE cmdline.prog = "initialize_components"
    <2>1. Steps_of(cmdline) = initialize_components
        BY <1>4 DEF Steps_of
    <2> QED
        BY <2>1, ComponentsInv
<1> QED
    BY <1>1, <1>2, <1>3, <1>4 DEF Programs

-----------------------------------------------------------------------------
(* Type correctness.                                                       *)

\* The steps that run are steps of the program, and nothing runs beyond them.
StepsInv ==
    /\ steps \in Seq(Nat)
    /\ \A i \in 1..Len(steps) : steps[i] \in DOMAIN Steps_of(cmdline)
    /\ cmdline = None => steps = << >> /\ at = 0 /\ outcome = "none"
    /\ at = 0 => line = 0
    /\ at # 0 => outcome = "none"
    /\ at > Len(steps) => line = 0
    /\ Running /\ Firewall /\ cmdline.mode # "apply" => line = 0

ShapeInv == SetupTypeOK /\ StepsInv

\* Before the first command line there is none.
LEMMA NothingTyped ==
    ASSUME env \in Environments
    PROVE  None \notin env.jobs
BY SetupAssumption DEF None, Programs

\* A step that is selected is as it must be.
LEMMA SelectedInv ==
    ASSUME ShapeInv, NEW i \in 1..Len(steps)
    PROVE  StepInv(Selected(i))
<1>1. cmdline # None
    BY DEF ShapeInv, StepsInv
<1>2. env \in Environments /\ cmdline \in env.jobs
    BY <1>1 DEF ShapeInv, SetupTypeOK
<1>3. steps[i] \in DOMAIN Steps_of(cmdline)
    BY DEF ShapeInv, StepsInv
<1> QED
    BY <1>2, <1>3, TypedStepsInv DEF Selected

\* What the running step does in its mode.
LEMMA TaskInv ==
    ASSUME ShapeInv, Running
    PROVE  /\ StepInv(Current)
           /\ IsProgram(Task.commands)
           /\ cmdline.mode = "apply" => Mode = "apply" /\ Task = Current.program.apply
           /\ cmdline.mode = "check" => Mode = "check" /\ Task.commands = << >>
           /\ cmdline.mode # "apply" => Scaffolds(Task.commands)
<1>1. at \in 1..Len(steps)
    BY DEF ShapeInv, SetupTypeOK, StepsInv, Running, Idle
<1>2. StepInv(Current)
    BY <1>1, SelectedInv DEF Current
<1>3. cmdline.mode \in Modes
    <2>1. cmdline # None /\ env \in Environments /\ cmdline \in env.jobs
        BY <1>1 DEF ShapeInv, StepsInv, SetupTypeOK
    <2> QED
        BY <2>1, SetupAssumption
<1>4. /\ Mode = IF Current.name = "01-bootstrap-dev" /\ cmdline.mode = "dry_run" THEN "apply"
                ELSE cmdline.mode
      /\ Task = Current.program[Mode]
    BY DEF Mode, step_mode_args, Task
<1>5. Mode \in Modes
    BY <1>3, <1>4 DEF Modes
<1>6. IsProgram(Task.commands)
    BY <1>2, <1>4, <1>5 DEF StepInv
<1>7. cmdline.mode = "apply" => Mode = "apply" /\ Task = Current.program.apply
    BY <1>4
<1>8. cmdline.mode = "check" => Mode = "check" /\ Task.commands = << >>
    <2> SUFFICES ASSUME cmdline.mode = "check"
                 PROVE  Mode = "check" /\ Task.commands = << >>
        OBVIOUS
    <2>1. Mode = "check" /\ Task = Current.program.check
        BY <1>4
    <2> QED
        BY <1>2, <2>1 DEF StepInv
<1>9. cmdline.mode # "apply" => Scaffolds(Task.commands)
    <2>1. CASE cmdline.mode = "check"
        BY <1>8, <2>1, EmptyProgram
    <2>2. CASE cmdline.mode = "dry_run" /\ Current.name = "01-bootstrap-dev"
        <3>1. Task = Current.program.apply
            BY <1>4, <2>2
        <3> QED
            BY <1>2, <2>2, <3>1 DEF StepInv
    <2>3. CASE cmdline.mode = "dry_run" /\ Current.name # "01-bootstrap-dev"
        <3>1. Task = Current.program.dry_run
            BY <1>4, <2>3
        <3> QED
            BY <1>2, <3>1 DEF StepInv
    <2> QED
        BY <1>3, <2>1, <2>2, <2>3 DEF Modes
<1> QED
    BY <1>2, <1>6, <1>7, <1>8, <1>9

\* The steps that are asked for are steps of the program.
LEMMA SelectedAre ==
    ASSUME NEW all, NEW n \in Nat, DOMAIN all = 1..n, NEW selections \in Seq(STRING)
    PROVE  /\ selected_steps(all, selections) \in Seq(Nat)
           /\ \A i \in 1..Len(selected_steps(all, selections)) :
                  selected_steps(all, selections)[i] \in DOMAIN all
<1> DEFINE selected == selected_steps(all, selections)
<1>1. CASE selections = << >>
    <2>1. selected = [i \in 1..n |-> i]
        BY <1>1 DEF selected_steps
    <2> QED
        BY <2>1
<1>2. CASE selections # << >>
    <2> DEFINE positions == [k \in DOMAIN selections |-> Matching(all, selections[k])]
    <2>1. ASSUME NEW selection
          PROVE  Matching(all, selection) \in Seq(1..n)
        <3> DEFINE matches == [i \in 1..n |-> IF step_matches(all[i], selection) THEN <<i>>
                                              ELSE << >>]
        <3>1. matches \in Seq(Seq(1..n))
            <4>1. ASSUME NEW i \in 1..n
                  PROVE  <<i>> \in Seq(1..n) /\ << >> \in Seq(1..n)
                OBVIOUS
            <4>2. \A i \in 1..n : matches[i] \in Seq(1..n)
                BY <4>1
            <4>3. matches \in [1..n -> Seq(1..n)]
                BY <4>2
            <4> HIDE DEF matches
            <4> QED
                BY <4>3
        <3>2. Matching(all, selection) = FlattenSeq(matches)
            BY Zenon DEF Matching
        <3> HIDE DEF matches
        <3> QED
            BY <3>1, <3>2, FlattenTyped
    <2>2. positions \in Seq(Seq(1..n))
        <3>1. DOMAIN selections = 1..Len(selections)
            BY InSeq
        <3> QED
            BY <2>1, <3>1
    <2>3. selected = FlattenSeq(positions)
        BY <1>2, Zenon DEF selected_steps
    <2> HIDE DEF positions, selected
    <2>4. selected \in Seq(1..n)
        BY <2>2, <2>3, FlattenTyped
    <2>5. DOMAIN selected = 1..Len(selected) /\ \A i \in 1..Len(selected) : selected[i] \in 1..n
        BY <2>4, InSeq
    <2>6. selected \in Seq(Nat)
        BY <2>4
    <2> QED
        BY <2>5, <2>6 DEF selected
<1> QED
    BY <1>1, <1>2

\* The shape holds at the start.
LEMMA ShapeInit == SetupInit => ShapeInv
<1> SUFFICES ASSUME SetupInit
             PROVE  ShapeInv
    OBVIOUS
<1> USE SetupAssumption DEF SetupInit, FirewallInit
<1>1. FirewallTypeOK
    BY DEF FirewallTypeOK
<1>2. at \in 0..(Len(steps) + 1) /\ faults \in 0..MaxFaults
    OBVIOUS
<1>3. SetupTypeOK
    BY <1>1, <1>2 DEF SetupTypeOK
<1>4. StepsInv
    BY DEF StepsInv, Running, Idle
<1> QED
    BY <1>3, <1>4 DEF ShapeInv

\* The firewall's parts are in the zone.
LEMMA PartsTyped == DOMAIN Parts = 1..5 /\ Len(Parts) = 5 /\ \A k \in 1..5 : Parts[k] \in Zone
<1>1. Parts \in Seq(Zone) /\ Len(Parts) = 5
    BY DEF Parts, Zone, Interfaces
<1> QED
    BY <1>1, InSeq

StepsStay == env' = env /\ cmdline' = cmdline /\ steps' = steps

Ends == at # 0 /\ at' = 0 /\ line' = 0 /\ outcome' \in {"failed", "cut", "ok"}
Advances == Running /\ at' = at + 1 /\ line' = 0 /\ outcome' = outcome
Proceeds ==
    /\ Running /\ at' = at /\ line' \in Nat /\ outcome' = outcome
    /\ Firewall => cmdline.mode = "apply"
Stays == at' = at /\ line' = line /\ outcome' = outcome

\* A program that has begun goes from line to line, from step to step, or ends.
LEMMA ShapeKept ==
    ASSUME ShapeInv, StepsStay, objects' \subseteq Objects, FirewallTypeOK',
           failed' \in BOOLEAN, faults' \in 0..MaxFaults,
           Ends \/ Advances \/ Proceeds \/ Stays
    PROVE  ShapeInv'
<1>1. /\ cmdline = None => steps = << >> /\ at = 0 /\ outcome = "none"
      /\ at \in 0..(Len(steps) + 1) /\ line \in Nat /\ Len(steps) \in Nat
      /\ outcome \in {"none", "ok", "failed", "cut"}
    BY DEF ShapeInv, SetupTypeOK, StepsInv
<1>2. /\ at' \in 0..(Len(steps) + 1) /\ line' \in Nat
      /\ outcome' \in {"none", "ok", "failed", "cut"}
    BY <1>1 DEF Ends, Advances, Proceeds, Stays, Running, Idle
<1>3. SetupTypeOK'
    BY <1>2 DEF ShapeInv, SetupTypeOK, StepsStay, Objects
<1>4. /\ cmdline' = None => steps' = << >> /\ at' = 0 /\ outcome' = "none"
      /\ at' = 0 => line' = 0
      /\ at' # 0 => outcome' = "none"
      /\ at' > Len(steps') => line' = 0
    BY <1>1 DEF ShapeInv, StepsInv, Ends, Advances, Proceeds, Stays, Running, Idle, StepsStay
<1>5. /\ steps' \in Seq(Nat)
      /\ \A i \in 1..Len(steps') : steps'[i] \in (DOMAIN Steps_of(cmdline))'
    BY DEF ShapeInv, StepsInv, StepsStay, Steps_of
<1>6. (Running /\ Firewall /\ cmdline.mode # "apply" => line = 0)'
    <2>1. at' = at => (Firewall' <=> Firewall) /\ (Running' <=> Running)
        BY DEF StepsStay, Firewall, Current, Selected, Steps_of, Running, Idle
    <2> QED
        BY <2>1 DEF ShapeInv, StepsInv, Ends, Advances, Proceeds, Stays, StepsStay, Running, Idle
<1> QED
    BY <1>3, <1>4, <1>5, <1>6 DEF ShapeInv, StepsInv

\* A command adds objects that there are.
LEMMA EffectTyped ==
    ASSUME ShapeInv, AtLine
    PROVE  objects \subseteq Objects /\ Effect \subseteq Objects
<1>1. Running
    BY DEF AtLine
<1>2. IsProgram(Task.commands)
    BY <1>1, TaskInv
<1>3. line \in DOMAIN Task.commands
    BY <1>2 DEF AtLine, IsProgram
<1>4. Adds(Command) \subseteq Objects
    BY <1>2, <1>3 DEF IsProgram, Known, Command
<1>5. objects \subseteq Objects
    BY DEF ShapeInv, SetupTypeOK, Objects
<1> QED
    BY <1>4, <1>5 DEF Effect, Adds

\* A firewall step that changes something runs in the mode apply.
LEMMA FirewallMode ==
    ASSUME ShapeInv, AtFirewall, Mode = "apply"
    PROVE  cmdline.mode = "apply"
<1>1. Running /\ Current.number = "1.5"
    BY DEF AtFirewall, Firewall
<1>2. Current.name # "01-bootstrap-dev"
    BY <1>1, TaskInv DEF StepInv
<1> QED
    BY <1>2 DEF Mode, step_mode_args

\* What the proofs need of it again and again.
LEMMA ShapeTyped ==
    ASSUME ShapeInv
    PROVE  /\ FirewallTypeOK /\ failed \in BOOLEAN /\ faults \in 0..MaxFaults
           /\ objects \subseteq Objects /\ at \in Nat /\ line \in Nat /\ Len(steps) \in Nat
           /\ MaxFaults \in Nat
BY SetupAssumption DEF ShapeInv, SetupTypeOK, StepsInv, Objects

\* Every action keeps the shape.
LEMMA ShapeStep ==
    ASSUME ShapeInv, SetupNext
    PROVE  ShapeInv'
<1> USE ShapeTyped
<1>CommandLine. CASE CommandLine
    <2>1. PICK j \in env.jobs :
              /\ cmdline' = j
              /\ IF \E k \in DOMAIN j.select : Matching(Steps_of(j), j.select[k]) = << >>
                 THEN steps' = << >> /\ outcome' = "failed" /\ UNCHANGED at
                 ELSE /\ steps' = selected_steps(Steps_of(j), j.select)
                      /\ outcome' = "none" /\ at' = 1
        BY <1>CommandLine DEF CommandLine
    <2>2. /\ at = 0 /\ line' = 0 /\ failed' = FALSE /\ env' = env /\ objects' = objects
          /\ faults' = faults /\ firewall' = firewall
        BY <1>CommandLine DEF CommandLine, Idle
    <2>3. env \in Environments /\ j.select \in Seq(STRING)
        BY SetupAssumption DEF ShapeInv, SetupTypeOK
    <2>4. PICK n \in Nat : DOMAIN Steps_of(j) = 1..n
        BY <2>3, StepsNumbered
    <2>5. /\ steps' \in Seq(Nat)
          /\ \A i \in 1..Len(steps') : steps'[i] \in DOMAIN Steps_of(j)
        <3>1. CASE steps' = << >>
            BY <3>1
        <3>2. CASE steps' = selected_steps(Steps_of(j), j.select)
            BY <2>3, <2>4, <3>2, SelectedAre
        <3> QED
            BY <2>1, <3>1, <3>2
    <2>6. at' \in 0..(Len(steps') + 1) /\ (at' = 0 \/ outcome' = "none")
        BY <2>1, <2>2, <2>5
    <2>7. cmdline' # None
        BY <2>1, <2>3, NothingTyped
    <2>8. FirewallTypeOK'
        BY <2>2 DEF FirewallTypeOK, firewall
    <2>9. outcome' \in {"none", "ok", "failed", "cut"}
        BY <2>1
    <2>10. SetupTypeOK'
        BY <2>1, <2>2, <2>6, <2>8, <2>9 DEF ShapeInv, SetupTypeOK
    <2>11. (DOMAIN Steps_of(cmdline))' = DOMAIN Steps_of(j)
        BY <2>1, <2>2 DEF Steps_of
    <2>12. StepsInv'
        BY <2>2, <2>5, <2>6, <2>7, <2>11 DEF StepsInv
    <2> QED
        BY <2>10, <2>12 DEF ShapeInv
<1>Aborts. CASE Aborts
    <2>1. objects' \subseteq Objects /\ faults' \in 0..MaxFaults
        BY <1>Aborts DEF Aborts
    <2>2. StepsStay /\ Ends /\ UNCHANGED <<failed, firewall>>
        BY <1>Aborts DEF Aborts, Starting, End, Ends, StepsStay
    <2> QED
        BY <2>1, <2>2, ShapeKept DEF FirewallTypeOK, firewall
<1>NodesNotReady. CASE NodesNotReady
    <2>1. StepsStay /\ Ends /\ UNCHANGED <<failed, firewall, objects, faults>>
        BY <1>NodesNotReady DEF NodesNotReady, Starting, End, Ends, StepsStay
    <2> QED
        BY <2>1, ShapeKept DEF FirewallTypeOK, firewall
<1>Skip. CASE Skip
    <2>1. StepsStay /\ Advances /\ UNCHANGED <<failed, firewall, objects, faults>>
        BY <1>Skip DEF Skip, Advances, StepsStay, program
    <2> QED
        BY <2>1, ShapeKept DEF FirewallTypeOK, firewall
<1>run_step. CASE run_step
    <2>1. StepsStay /\ UNCHANGED <<firewall, objects, faults>>
        BY <1>run_step DEF run_step, StepsStay, program
    <2>2. FirewallTypeOK' /\ faults' \in 0..MaxFaults /\ objects' \subseteq Objects
        BY <2>1 DEF FirewallTypeOK, firewall
    <2>3. CASE Task.needs \subseteq Here
        <3>1. Proceeds /\ failed' = failed
            BY <1>run_step, <2>3 DEF run_step, Proceeds
        <3> QED
            BY <2>1, <2>2, <3>1, ShapeKept
    <2>4. CASE ~(Task.needs \subseteq Here)
        <3>1. Advances
            BY <1>run_step, <2>4 DEF run_step, Advances, StepDone
        <3>2. failed' \in BOOLEAN
            BY <1>run_step, <2>4 DEF run_step, StepDone
        <3> QED
            BY <2>1, <2>2, <3>1, <3>2, ShapeKept
    <2> QED
        BY <2>3, <2>4
<1>NothingToDo. CASE NothingToDo
    <2>1. StepsStay /\ Proceeds /\ UNCHANGED <<failed, firewall, objects, faults>>
        BY <1>NothingToDo DEF NothingToDo, AtLine, Proceeds, StepsStay, program
    <2> QED
        BY <2>1, ShapeKept DEF FirewallTypeOK, firewall
<1>CommandSucceeds. CASE CommandSucceeds
    <2>1. objects' \subseteq Objects
        BY <1>CommandSucceeds, EffectTyped DEF CommandSucceeds, AtCommand
    <2>2. StepsStay /\ Proceeds /\ UNCHANGED <<failed, firewall, faults>>
        BY <1>CommandSucceeds DEF CommandSucceeds, AtCommand, AtLine, Proceeds, StepsStay, program
    <2> QED
        BY <2>1, <2>2, ShapeKept DEF FirewallTypeOK, firewall
<1>CommandFails. CASE CommandFails
    <2>1. objects' \subseteq Objects
        BY <1>CommandFails, EffectTyped DEF CommandFails, AtCommand
    <2>2. faults' \in 0..MaxFaults
        BY <1>CommandFails DEF CommandFails
    <2>3. StepsStay /\ FirewallTypeOK'
        BY <1>CommandFails DEF CommandFails, StepsStay, FirewallTypeOK, firewall
    <2>4. CASE Command.must
        <3>1. Advances
            BY <1>CommandFails, <2>4 DEF CommandFails, AtCommand, AtLine, Advances, StepDone
        <3>2. failed' \in BOOLEAN
            BY <1>CommandFails, <2>4 DEF CommandFails, StepDone
        <3> QED
            BY <2>1, <2>2, <2>3, <3>1, <3>2, ShapeKept
    <2>5. CASE ~Command.must
        <3>1. Proceeds /\ failed' = failed
            BY <1>CommandFails, <2>5 DEF CommandFails, AtCommand, AtLine, Proceeds
        <3> QED
            BY <2>1, <2>2, <2>3, <3>1, ShapeKept
    <2> QED
        BY <2>4, <2>5
<1>CommandsDone. CASE CommandsDone
    <2>1. StepsStay /\ Advances /\ failed' \in BOOLEAN /\ UNCHANGED <<firewall, objects, faults>>
        BY <1>CommandsDone DEF CommandsDone, Advances, StepsStay, program, StepDone
    <2> QED
        BY <2>1, ShapeKept DEF FirewallTypeOK, firewall
<1>Summarise. CASE Summarise
    <2>1. StepsStay /\ Ends /\ UNCHANGED <<failed, firewall, objects, faults>>
        BY <1>Summarise DEF Summarise, Idle, End, Ends, StepsStay, program
    <2> QED
        BY <2>1, ShapeKept DEF FirewallTypeOK, firewall
<1>FirewallReads. CASE FirewallReads
    <2>1. StepsStay /\ UNCHANGED <<firewall, objects, faults>>
        BY <1>FirewallReads DEF FirewallReads, StepsStay, program
    <2>2. FirewallTypeOK' /\ faults' \in 0..MaxFaults /\ objects' \subseteq Objects
        BY <2>1 DEF FirewallTypeOK, firewall
    <2>3. CASE Mode = "apply"
        <3>1. cmdline.mode = "apply"
            BY <1>FirewallReads, <2>3, FirewallMode DEF FirewallReads
        <3>2. Proceeds /\ failed' = failed
            BY <1>FirewallReads, <2>3, <3>1 DEF FirewallReads, AtFirewall, Proceeds
        <3> QED
            BY <2>1, <2>2, <3>2, ShapeKept
    <2>4. CASE Mode # "apply"
        <3>1. StepDone(Mode = "check" => check_passes) /\ Running
            BY <1>FirewallReads, <2>4 DEF FirewallReads, AtFirewall
        <3>2. Advances
            BY <3>1 DEF Advances, StepDone
        <3>3. failed' \in BOOLEAN
            BY <3>1, Zenon DEF StepDone
        <3> QED
            BY <2>1, <2>2, <3>2, <3>3, ShapeKept
    <2> QED
        BY <2>3, <2>4
<1>FirewallPart. CASE FirewallPart
    <2>1. FirewallTypeOK'
        <3>1. line \in 1..5
            BY <1>FirewallPart, PartsTyped DEF FirewallPart
        <3>2. Parts[line] \in Zone
            BY <3>1, PartsTyped
        <3> QED
            BY <1>FirewallPart, <3>2
            DEF FirewallPart, PassOver, Change, Set, FirewallTypeOK, firewall
    <2>2. StepsStay /\ Proceeds /\ UNCHANGED <<failed, objects, faults>>
        <3>1. line # 0
            BY <1>FirewallPart, PartsTyped DEF FirewallPart
        <3>2. cmdline.mode = "apply"
            BY <1>FirewallPart, <3>1 DEF FirewallPart, AtFirewall, ShapeInv, StepsInv
        <3> QED
            BY <1>FirewallPart, <3>2 DEF FirewallPart, AtFirewall, Proceeds, StepsStay, program
    <2> QED
        BY <2>1, <2>2, ShapeKept
<1>FirewallPartRefused. CASE FirewallPartRefused
    <2>1. FirewallTypeOK'
        BY <1>FirewallPartRefused DEF FirewallPartRefused, Refused, FirewallTypeOK
    <2>2. faults' \in 0..MaxFaults
        BY <1>FirewallPartRefused DEF FirewallPartRefused
    <2>3. cmdline.mode = "apply"
        <3>1. line # 0
            BY <1>FirewallPartRefused, PartsTyped DEF FirewallPartRefused
        <3> QED
            BY <1>FirewallPartRefused, <3>1 DEF FirewallPartRefused, AtFirewall, ShapeInv, StepsInv
    <2>4. StepsStay /\ UNCHANGED objects
        BY <1>FirewallPartRefused DEF FirewallPartRefused, StepsStay
    <2>5. CASE Required(Parts[line])
        <3>1. Advances
            BY <1>FirewallPartRefused, <2>5
            DEF FirewallPartRefused, AtFirewall, Advances, StepDone
        <3>2. failed' \in BOOLEAN
            BY <1>FirewallPartRefused, <2>5 DEF FirewallPartRefused, StepDone
        <3> QED
            BY <2>1, <2>2, <2>4, <3>1, <3>2, ShapeKept
    <2>6. CASE ~Required(Parts[line])
        <3>1. Proceeds /\ failed' = failed
            BY <1>FirewallPartRefused, <2>3, <2>6
            DEF FirewallPartRefused, AtFirewall, Proceeds
        <3> QED
            BY <2>1, <2>2, <2>4, <3>1, ShapeKept
    <2> QED
        BY <2>5, <2>6
<1>FirewallReload. CASE FirewallReload
    <2>1. FirewallTypeOK'
        BY <1>FirewallReload DEF FirewallReload, reload, FirewallTypeOK, firewall
    <2>2. StepsStay /\ Proceeds /\ UNCHANGED <<failed, objects, faults>>
        <3>1. line # 0
            BY <1>FirewallReload, PartsTyped DEF FirewallReload
        <3>2. cmdline.mode = "apply"
            BY <1>FirewallReload, <3>1 DEF FirewallReload, AtFirewall, ShapeInv, StepsInv
        <3> QED
            BY <1>FirewallReload, <3>2 DEF FirewallReload, AtFirewall, Proceeds, StepsStay, program
    <2> QED
        BY <2>1, <2>2, ShapeKept
<1>FirewallReloadFails. CASE FirewallReloadFails
    <2>1. FirewallTypeOK'
        BY <1>FirewallReloadFails, Zenon DEF FirewallReloadFails, FirewallDone, FirewallTypeOK
    <2>2. faults' \in 0..MaxFaults
        BY <1>FirewallReloadFails DEF FirewallReloadFails
    <2>3. failed' \in BOOLEAN
        BY <1>FirewallReloadFails DEF FirewallReloadFails, FirewallDone, StepDone
    <2>4. StepsStay /\ Advances /\ UNCHANGED objects
        BY <1>FirewallReloadFails
        DEF FirewallReloadFails, FirewallDone, AtFirewall, Advances, StepsStay, StepDone
    <2> QED
        BY <2>1, <2>2, <2>3, <2>4, ShapeKept
<1>FirewallVerifies. CASE FirewallVerifies
    <2>1. FirewallTypeOK'
        BY <1>FirewallVerifies DEF FirewallVerifies, FirewallDone, FirewallTypeOK
    <2>2. StepsStay /\ Advances /\ failed' \in BOOLEAN /\ UNCHANGED <<objects, faults>>
        BY <1>FirewallVerifies
        DEF FirewallVerifies, FirewallDone, AtFirewall, Advances, StepsStay, StepDone, program
    <2> QED
        BY <2>1, <2>2, ShapeKept
<1>FirewallReloaded. CASE FirewallReloaded
    <2>1. FirewallTypeOK'
        BY <1>FirewallReloaded DEF FirewallReloaded, ReloadElsewhere, FirewallTypeOK
    <2>2. StepsStay /\ Stays /\ UNCHANGED <<failed, objects, faults>>
        BY <1>FirewallReloaded DEF FirewallReloaded, Stays, StepsStay, program
    <2> QED
        BY <2>1, <2>2, ShapeKept
<1>KeyboardInterrupt. CASE KeyboardInterrupt
    <2>1. FirewallTypeOK'
        BY <1>KeyboardInterrupt, Zenon DEF KeyboardInterrupt, FirewallTypeOK
    <2>2. faults' \in 0..MaxFaults
        BY <1>KeyboardInterrupt DEF KeyboardInterrupt
    <2>3. StepsStay /\ Ends /\ UNCHANGED <<failed, objects>>
        BY <1>KeyboardInterrupt DEF KeyboardInterrupt, Idle, Ends, StepsStay
    <2> QED
        BY <2>1, <2>2, <2>3, ShapeKept
<1> QED
    BY <1>CommandLine, <1>Aborts, <1>NodesNotReady, <1>Skip, <1>run_step, <1>CommandSucceeds, <1>NothingToDo,
       <1>CommandFails, <1>CommandsDone, <1>Summarise, <1>FirewallReads, <1>FirewallPart,
       <1>FirewallPartRefused, <1>FirewallReload, <1>FirewallReloadFails, <1>FirewallVerifies,
       <1>FirewallReloaded, <1>KeyboardInterrupt
    DEF SetupNext

\* So does a step that changes nothing.
LEMMA ShapeStutter == ShapeInv /\ UNCHANGED setupVars => ShapeInv'
BY DEF ShapeInv, SetupTypeOK, StepsInv, FirewallTypeOK, firewall, setupVars, Steps_of, Running,
       Idle, Firewall, Current, Selected

\* Type correctness.
THEOREM SetupTypeCorrect == SetupSpec => []SetupTypeOK
<1>1. SetupInit => ShapeInv
    BY ShapeInit
<1>2. ShapeInv /\ [SetupNext]_setupVars => ShapeInv'
    BY ShapeStep, ShapeStutter
<1>3. ShapeInv => SetupTypeOK
    BY DEF ShapeInv
<1> QED
    BY <1>1, <1>2, <1>3, PTL DEF SetupSpec

-----------------------------------------------------------------------------
(* The mesh: the agents are told to authenticate after SPIRE is seen.      *)

MeshInv ==
    /\ "auth" \in objects => "spire-serving" \in objects
    /\ AtLine /\ "auth" \in Command.adds => "spire-serving" \in objects

\* The command that runs is a line of the step's program.
LEMMA AtLineIs ==
    ASSUME ShapeInv, AtLine
    PROVE  /\ Running /\ IsProgram(Task.commands) /\ line \in DOMAIN Task.commands
           /\ Command = Task.commands[line]
BY TaskInv DEF AtLine, IsProgram, Command

\* While the step stays the same its program does.
LEMMA TaskStays ==
    ASSUME StepsStay, env' = env, at' = at
    PROVE  /\ Task' = Task /\ Running' = Running /\ Firewall' = Firewall
           /\ Current' = Current /\ Mode' = Mode
BY DEF StepsStay, Task, Mode, Current, Selected, Steps_of, Running, Idle, Firewall

\* A step that has not started runs no command.
LEMMA NoCommandYet == line' = 0 => ~AtLine'
BY DEF AtLine

\* What a command adds that authenticates comes after the wait for SPIRE.
LEMMA MeshOrder ==
    ASSUME NEW commands, IsProgram(commands), NEW k \in DOMAIN commands
    PROVE  /\ "spire-serving" \in Drops(commands[k]) =>
                  "auth" \in Drops(commands[k]) /\ "auth" \notin Adds(commands[k])
           /\ "auth" \in Adds(commands[k]) =>
                  k > 1 /\ Must(commands[k - 1]) /\ "spire-serving" \in Adds(commands[k - 1])
BY DEF IsProgram, MeshInOrder

\* A command, whether it has its effect or not, leaves an authentication with its SPIRE.
LEMMA EffectKeepsMesh ==
    ASSUME ShapeInv, AtLine, MeshInv, objects' = Effect \/ objects' = objects
    PROVE  "auth" \in objects' => "spire-serving" \in objects'
<1>1. /\ "spire-serving" \in Drops(Command) =>
             "auth" \in Drops(Command) /\ "auth" \notin Adds(Command)
      /\ "auth" \in Adds(Command) => "spire-serving" \in objects
    <2>1. "auth" \in Command.adds => "spire-serving" \in objects
        BY DEF MeshInv
    <2> QED
        BY <2>1, AtLineIs, MeshOrder DEF Adds
<1>2. Effect = (objects \ Drops(Command)) \cup Adds(Command)
    BY DEF Effect, Drops, Adds
<1> QED
    BY <1>1, <1>2 DEF MeshInv

\* The next command authenticates only if this one was the wait, and was required.
LEMMA NextCommandMesh ==
    ASSUME ShapeInv, AtLine, StepsStay, env' = env, at' = at, line' = line + 1,
           Must(Command) => objects' = Effect,
           AtLine', "auth" \in Command.adds'
    PROVE  "spire-serving" \in objects'
<1>1. Task' = Task /\ Running
    BY TaskStays DEF AtLine
<1>2. line + 1 \in DOMAIN Task.commands /\ IsProgram(Task.commands) /\ line \in Nat
    BY <1>1, AtLineIs DEF AtLine, IsProgram
<1>3. "auth" \in Adds(Task.commands[line + 1])
    BY <1>1 DEF Command, Adds
<1>4. Must(Task.commands[line]) /\ "spire-serving" \in Adds(Task.commands[line])
    <2>1. line + 1 - 1 = line
        BY <1>2
    <2> QED
        BY <1>2, <1>3, <2>1, MeshOrder
<1> QED
    BY <1>4 DEF Effect, Command, Must, Adds

\* Every action keeps the order of the mesh.
LEMMA MeshStep ==
    ASSUME ShapeInv, MeshInv, SetupNext
    PROVE  MeshInv'
<1>1. CASE CommandSucceeds
    <2>1. AtLine /\ objects' = Effect /\ StepsStay /\ env' = env /\ at' = at
          /\ line' = line + 1
        BY <1>1 DEF CommandSucceeds, AtCommand, program, StepsStay
    <2> QED
        BY <2>1, EffectKeepsMesh, NextCommandMesh DEF MeshInv
<1>0. CASE NothingToDo
    <2>1. AtLine /\ objects' = objects /\ StepsStay /\ env' = env /\ at' = at
          /\ line' = line + 1 /\ ~Must(Command)
        BY <1>0 DEF NothingToDo, program, StepsStay, Must
    <2> QED
        BY <2>1, EffectKeepsMesh, NextCommandMesh DEF MeshInv
<1>2. CASE CommandFails
    <2>1. AtLine /\ StepsStay /\ env' = env /\ (objects' = Effect \/ objects' = objects)
        BY <1>2 DEF CommandFails, AtCommand, StepsStay
    <2>2. CASE Command.must
        BY <1>2, <2>1, <2>2, EffectKeepsMesh, NoCommandYet DEF CommandFails, StepDone, MeshInv
    <2>3. CASE ~Command.must
        <3>1. at' = at /\ line' = line + 1
            BY <1>2, <2>3 DEF CommandFails
        <3> QED
            BY <2>1, <2>3, <3>1, EffectKeepsMesh, NextCommandMesh DEF MeshInv, Must
    <2> QED
        BY <2>2, <2>3
<1>3. CASE run_step
    <2>1. objects' = objects
        BY <1>3 DEF run_step
    <2>2. CASE Task.needs \subseteq Here
        <3>1. StepsStay /\ env' = env /\ at' = at /\ line' = 1 /\ Running
            BY <1>3, <2>2 DEF run_step, StepsStay, program
        <3>2. Task' = Task /\ IsProgram(Task.commands)
            BY <3>1, TaskStays, TaskInv
        <3>3. AtLine' => 1 \in DOMAIN Task.commands /\ Command' = Task.commands[1]
            BY <3>1, <3>2 DEF AtLine, IsProgram, Command
        <3>4. AtLine' => "auth" \notin Command.adds'
            BY <3>2, <3>3, MeshOrder DEF Adds
        <3> QED
            BY <2>1, <3>4 DEF MeshInv
    <2>3. CASE ~(Task.needs \subseteq Here)
        BY <1>3, <2>1, <2>3, NoCommandYet DEF run_step, StepDone, MeshInv
    <2> QED
        BY <2>2, <2>3
<1>4. CASE CommandLine \/ NodesNotReady \/ CommandsDone \/ Summarise \/ KeyboardInterrupt
           \/ FirewallReloadFails \/ FirewallVerifies \/ Skip
    <2>1. objects' = objects /\ line' = 0
        BY <1>4 DEF CommandLine, NodesNotReady, CommandsDone, Summarise, KeyboardInterrupt,
           FirewallReloadFails, FirewallVerifies, FirewallDone, Skip, End, StepDone
    <2> QED
        BY <2>1, NoCommandYet DEF MeshInv
<1>5. CASE Aborts
    <2>1. line' = 0 /\ objects' \in {objects, objects \ ClusterObjects}
        BY <1>5 DEF Aborts, End
    <2> QED
        BY <2>1, NoCommandYet DEF MeshInv, ClusterObjects
<1>6. CASE FirewallReads \/ FirewallPart \/ FirewallPartRefused \/ FirewallReload
    <2>1. /\ AtFirewall /\ objects' = objects
          /\ line' = 0 \/ (StepsStay /\ env' = env /\ at' = at)
        BY <1>6 DEF FirewallReads, FirewallPart, FirewallPartRefused, FirewallReload, StepDone,
           StepsStay, program
    <2>2. ~AtLine'
        BY <2>1, TaskStays, NoCommandYet DEF AtFirewall, AtLine
    <2> QED
        BY <2>1, <2>2 DEF MeshInv
<1>7. CASE FirewallReloaded
    <2>1. objects' = objects /\ line' = line /\ StepsStay /\ env' = env /\ at' = at
        BY <1>7 DEF FirewallReloaded, StepsStay, program
    <2> QED
        BY <2>1, TaskStays DEF MeshInv, AtLine, Command
<1> QED
    BY <1>0, <1>1, <1>2, <1>3, <1>4, <1>5, <1>6, <1>7 DEF SetupNext

\* The authentication is never on without a SPIRE that has been seen serving, whatever
\* command fails in whatever step.
THEOREM MeshInItsOrder == SetupSpec => []AuthNeedsSpire
<1> DEFINE Strong == ShapeInv /\ MeshInv
<1>1. SetupInit => Strong
    <2> SUFFICES ASSUME SetupInit
                 PROVE  Strong
        OBVIOUS
    <2>1. objects = {} /\ ~AtLine
        BY DEF SetupInit, AtLine
    <2> QED
        BY <2>1, ShapeInit DEF MeshInv
<1>2. Strong /\ [SetupNext]_setupVars => Strong'
    <2>1. Strong /\ UNCHANGED setupVars => MeshInv'
        BY DEF setupVars, MeshInv, AtLine, Command, Task, Mode, Current, Selected, Steps_of,
           Running, Idle, Firewall
    <2> QED
        BY <2>1, ShapeStep, ShapeStutter, MeshStep
<1>3. Strong => AuthNeedsSpire
    BY DEF MeshInv, AuthNeedsSpire
<1> QED
    BY <1>1, <1>2, <1>3, PTL DEF SetupSpec

-----------------------------------------------------------------------------
(* What the steps that are done stand for.                                 *)

\* The i-th step has left what it promises, but for what a later one takes away.
Owes(i) ==
    Enabled(Selected(i)) => Promise(Selected(i).name) \ TakenAfter(i) \subseteq objects

InstalledSoFar ==
    cmdline.mode = "apply" =>
        /\ at > 0 /\ ~failed => \A i \in 1..at - 1 : Owes(i)
        /\ Running /\ ~Firewall /\ line > 0 =>
               /\ line <= Len(Task.commands) + 1
               /\ LeftBy(Task.commands, line - 1) \subseteq objects
        /\ outcome = "ok" => \A i \in 1..Len(steps) : Owes(i)

\* What n + 1 commands leave is of the last, or was left by the n before it and stays.
LEMMA LeftByMore ==
    ASSUME NEW commands, NEW n \in Nat, NEW o \in LeftBy(commands, n + 1)
    PROVE  \/ Must(commands[n + 1]) /\ o \in Ensures(commands[n + 1])
           \/ o \in LeftBy(commands, n) /\ o \notin Drops(commands[n + 1])
<1>1. PICK k \in 1..n + 1 : /\ Must(commands[k]) /\ o \in Ensures(commands[k])
                            /\ \A l \in k + 1..n + 1 : o \notin Drops(commands[l])
    BY DEF LeftBy
<1>2. CASE k = n + 1
    BY <1>1, <1>2
<1>3. CASE k # n + 1
    <2>1. k \in 1..n /\ n + 1 \in k + 1..n + 1 /\ \A l \in k + 1..n : l \in k + 1..n + 1
        BY <1>3
    <2>2. o \in LeftBy(commands, n)
        BY <1>1, <2>1 DEF LeftBy
    <2> QED
        BY <1>1, <2>1, <2>2
<1> QED
    BY <1>2, <1>3

\* A debt stays paid while nothing goes but what a later step takes away.
LEMMA OwesKept ==
    ASSUME StepsStay, env' = env, NEW i \in Nat, Owes(i),
           \A o \in objects : o \in objects' \/ o \in TakenAfter(i)
    PROVE  Owes(i)'
<1>1. /\ Selected(i)' = Selected(i) /\ Enabled(Selected(i))' = Enabled(Selected(i))
      /\ Promise(Selected(i).name)' = Promise(Selected(i).name)
      /\ TakenAfter(i)' = TakenAfter(i)
    BY DEF StepsStay, Selected, Steps_of, Enabled, Promise, TakenAfter
<1> QED
    BY <1>1 DEF Owes

\* What a command of the running step takes away is taken after every step before it.
LEMMA TakenByCommand ==
    ASSUME ShapeInv, AtLine, cmdline.mode = "apply", NEW i \in 1..at - 1
    PROVE  Command.drops \subseteq TakenAfter(i)
<1>1. at \in i + 1..Len(steps)
    BY DEF AtLine, ShapeInv, SetupTypeOK, StepsInv, Running, Idle
<1>2. Task = Selected(at).program.apply /\ line \in DOMAIN Task.commands
    BY TaskInv, AtLineIs DEF AtLine, Current
<1>3. Command \in ToSet(Selected(at).program.apply.commands)
    BY <1>2 DEF ToSet, Command
<1> QED
    BY <1>1, <1>3 DEF TakenAfter

\* The steps before the running one keep what they left, whatever its command does.
LEMMA DoneKept ==
    ASSUME ShapeInv, InstalledSoFar, AtLine, StepsStay, env' = env,
           objects' = Effect \/ objects' = objects, cmdline.mode = "apply", ~failed
    PROVE  \A i \in 1..at - 1 : Owes(i)'
<1>1. at > 0 /\ at \in Nat
    BY DEF AtLine, ShapeInv, SetupTypeOK, StepsInv, Running, Idle
<1> SUFFICES ASSUME NEW i \in 1..at - 1
             PROVE  Owes(i)'
    OBVIOUS
<1>2. Owes(i)
    BY <1>1 DEF InstalledSoFar
<1>3. \A o \in objects : o \in objects' \/ o \in TakenAfter(i)
    BY TakenByCommand DEF Effect
<1> QED
    BY <1>1, <1>2, <1>3, OwesKept

\* The commands of the running step keep what the ones before them left, and a required one
\* leaves what it ensures if it succeeds.
LEMMA CommandKept ==
    ASSUME ShapeInv, InstalledSoFar, AtLine, cmdline.mode = "apply",
           \/ objects' = Effect /\ (Must(Command) => Command.needs \subseteq Here)
           \/ objects' = objects /\ ~Must(Command)
    PROVE  /\ line + 1 <= Len(Task.commands) + 1
           /\ LeftBy(Task.commands, line) \subseteq objects'
<1>1. /\ Running /\ ~Firewall /\ line \in 1..Len(Task.commands) /\ line \in Nat
      /\ Len(Task.commands) \in Nat /\ Command = Task.commands[line]
    BY AtLineIs DEF AtLine, IsProgram
<1>2. LeftBy(Task.commands, line - 1) \subseteq objects
    BY <1>1 DEF InstalledSoFar
<1>3. ASSUME NEW o \in LeftBy(Task.commands, line)
      PROVE  o \in objects'
    <2>1. line - 1 \in Nat /\ (line - 1) + 1 = line
        BY <1>1
    <2>2. \/ Must(Command) /\ o \in Ensures(Command)
          \/ o \in LeftBy(Task.commands, line - 1) /\ o \notin Drops(Command)
        BY <1>1, <2>1, LeftByMore
    <2>3. CASE o \in LeftBy(Task.commands, line - 1) /\ o \notin Drops(Command)
        BY <1>2, <2>3 DEF Effect, Drops
    <2>4. CASE Must(Command) /\ o \in Ensures(Command)
        <3>1. objects' = Effect /\ Command.needs \subseteq Here
            BY <2>4 DEF Must
        <3>2. env.right \subseteq CheckedFiles
            BY SetupAssumption DEF ShapeInv, SetupTypeOK
        <3> QED
            BY <2>4, <3>1, <3>2 DEF Ensures, Adds, Needs, Drops, Effect, Here
    <2> QED
        BY <2>2, <2>3, <2>4
<1> QED
    BY <1>1, <1>3

\* The step that has run all its commands has paid.
LEMMA StepPaid ==
    ASSUME ShapeInv, InstalledSoFar, Running, cmdline.mode = "apply",
           ~Enabled(Current) \/ Firewall \/ line > Len(Task.commands)
    PROVE  Owes(at)
<1>1. StepInv(Current) /\ Task = Current.program.apply /\ Len(Task.commands) \in Nat
    BY TaskInv DEF IsProgram
<1>2. line \in Nat
    BY DEF ShapeInv, SetupTypeOK
<1>3. CASE ~Enabled(Current)
    BY <1>3 DEF Owes, Current
<1>4. CASE Firewall
    BY <1>1, <1>4 DEF Owes, Current, Firewall, StepInv
<1>5. CASE ~Firewall /\ line > Len(Task.commands)
    <2>1. line - 1 = Len(Task.commands) /\ LeftBy(Task.commands, line - 1) \subseteq objects
        BY <1>1, <1>2, <1>5 DEF InstalledSoFar
    <2>2. Promise(Current.name) \subseteq Lasting(Task.commands)
        BY <1>1 DEF StepInv
    <2> QED
        BY <2>1, <2>2 DEF Owes, Current, Lasting
<1> QED
    BY <1>3, <1>4, <1>5

\* The run goes on to the next step, or ends.
LEMMA InstalledAdvances ==
    ASSUME ShapeInv, InstalledSoFar, StepsStay, env' = env, line' = 0,
           \/ at' = at + 1 /\ Running /\ outcome' = outcome
           \/ at' = 0 /\ outcome' # "ok",
           at' = at + 1 /\ ~failed' /\ cmdline.mode = "apply" => \A i \in 1..at : Owes(i)'
    PROVE  InstalledSoFar'
<1>1. at \in Nat /\ at + 1 - 1 = at
    BY DEF ShapeInv, SetupTypeOK, StepsInv
<1>2. outcome' # "ok"
    BY <1>1 DEF ShapeInv, StepsInv, Running, Idle
<1> QED
    BY <1>1, <1>2 DEF InstalledSoFar, StepsStay

\* Every action keeps what the steps that are done stand for.
LEMMA InstalledStep ==
    ASSUME ShapeInv, InstalledSoFar, SetupNext
    PROVE  InstalledSoFar'
<1>0. at \in Nat /\ line \in Nat /\ Len(steps) \in Nat /\ (at # 0 => outcome = "none")
    BY DEF ShapeInv, SetupTypeOK, StepsInv
<1>CommandLine. CASE CommandLine
    <2>1. line' = 0 /\ outcome' # "ok" /\ (at' = 1 \/ at' = 0)
        BY <1>CommandLine DEF CommandLine, Idle
    <2> QED
        BY <2>1 DEF InstalledSoFar
<1>Ends. CASE Aborts \/ NodesNotReady \/ KeyboardInterrupt
    <2>1. StepsStay /\ env' = env /\ line' = 0 /\ at' = 0 /\ outcome' # "ok"
        BY <1>Ends DEF Aborts, NodesNotReady, KeyboardInterrupt, End, StepsStay
    <2> QED
        BY <1>0, <2>1 DEF InstalledSoFar
<1>Advances. CASE \/ Skip \/ CommandsDone \/ FirewallVerifies \/ FirewallReloadFails
                  \/ (FirewallReads /\ Mode # "apply")
                  \/ (FirewallPartRefused /\ Required(Parts[line]))
                  \/ (run_step /\ ~(Task.needs \subseteq Here))
    <2>1. /\ StepsStay /\ env' = env /\ line' = 0 /\ at' = at + 1 /\ Running
          /\ outcome' = outcome /\ objects' = objects
        BY <1>Advances DEF Skip, CommandsDone, FirewallVerifies, FirewallReloadFails,
           FirewallReads, FirewallPartRefused, run_step, FirewallDone, StepDone, AtFirewall,
           StepsStay, program
    <2>2. ASSUME ~failed', cmdline.mode = "apply"
          PROVE  \A i \in 1..at : Owes(i)'
        <3>1. ~failed
            BY <1>Advances, <2>2 DEF Skip, CommandsDone, FirewallVerifies, FirewallReloadFails,
               FirewallReads, FirewallPartRefused, run_step, FirewallDone, StepDone
        <3>2. ~Enabled(Current) \/ Firewall \/ line > Len(Task.commands)
            BY <1>Advances, <2>2 DEF Skip, CommandsDone, FirewallVerifies, FirewallReloadFails,
               FirewallReads, FirewallPartRefused, run_step, StepDone, AtFirewall
        <3>3. \A i \in 1..at - 1 : Owes(i)
            BY <1>0, <2>1, <2>2, <3>1 DEF InstalledSoFar, Running, Idle
        <3>4. Owes(at)
            BY <2>1, <2>2, <3>2, StepPaid
        <3>5. \A i \in 1..at : i \in Nat /\ Owes(i)
            BY <1>0, <3>3, <3>4
        <3> QED
            BY <2>1, <3>5, OwesKept
    <2> QED
        BY <2>1, <2>2, InstalledAdvances
<1>run_step. CASE run_step /\ Task.needs \subseteq Here
    <2>1. /\ StepsStay /\ env' = env /\ line' = 1 /\ at' = at /\ Running /\ failed' = failed
          /\ outcome' = outcome /\ objects' = objects
        BY <1>run_step DEF run_step, StepsStay, program
    <2>2. Task' = Task /\ Len(Task.commands) \in Nat
        BY <2>1, TaskStays, TaskInv DEF IsProgram
    <2>3. 1 <= Len(Task.commands) + 1 /\ LeftBy(Task.commands, 1 - 1) = {}
        BY <2>2 DEF LeftBy
    <2>4. ASSUME cmdline.mode = "apply", ~failed
          PROVE  \A i \in 1..at - 1 : Owes(i)'
        <3>1. \A i \in 1..at - 1 : i \in Nat /\ Owes(i)
            BY <1>0, <2>1, <2>4 DEF InstalledSoFar, Running, Idle
        <3> QED
            BY <2>1, <3>1, OwesKept
    <2>5. outcome' # "ok"
        BY <1>0, <2>1 DEF Running, Idle
    <2> QED
        BY <2>1, <2>2, <2>3, <2>4, <2>5 DEF InstalledSoFar, StepsStay
<1>Command. CASE CommandSucceeds \/ NothingToDo \/ (CommandFails /\ ~Command.must)
    <2>1. /\ AtLine /\ StepsStay /\ env' = env /\ line' = line + 1 /\ at' = at /\ Running
          /\ failed' = failed /\ outcome' = outcome
        BY <1>Command DEF CommandSucceeds, NothingToDo, CommandFails, AtCommand, AtLine,
           StepsStay, program
    <2>2. \/ objects' = Effect /\ (Must(Command) => Command.needs \subseteq Here)
          \/ objects' = objects /\ ~Must(Command)
        BY <1>Command DEF CommandSucceeds, NothingToDo, CommandFails, Must
    <2>3. outcome' # "ok"
        BY <1>0, <2>1 DEF Running, Idle
    <2>4. ASSUME cmdline.mode = "apply"
          PROVE  /\ line + 1 <= Len(Task.commands) + 1
                 /\ LeftBy(Task.commands, line) \subseteq objects'
        BY <2>1, <2>2, <2>4, CommandKept
    <2>5. ASSUME cmdline.mode = "apply", ~failed
          PROVE  \A i \in 1..at - 1 : Owes(i)'
        BY <2>1, <2>2, <2>5, DoneKept
    <2>6. /\ cmdline' = cmdline /\ at' = at /\ failed' = failed
          /\ (cmdline.mode = "apply" /\ Running /\ ~Firewall /\ line > 0 =>
                 /\ line <= Len(Task.commands) + 1
                 /\ LeftBy(Task.commands, line - 1) \subseteq objects)'
        <3>1. Task' = Task
            BY <2>1, TaskStays
        <3>2. line' = line + 1 /\ line' - 1 = line
            BY <1>0, <2>1
        <3>3. LeftBy(Task.commands, line - 1)' = LeftBy(Task.commands, line)
            BY <3>1, <3>2 DEF LeftBy, Must, Ensures, Adds, Needs, Drops
        <3>4. cmdline' = cmdline /\ at' = at /\ failed' = failed
            BY <2>1 DEF StepsStay
        <3> QED
            BY <2>4, <3>1, <3>2, <3>3, <3>4
    <2> QED
        BY <2>3, <2>5, <2>6 DEF InstalledSoFar
<1>CommandFails. CASE CommandFails /\ Command.must
    <2>1. /\ StepsStay /\ env' = env /\ line' = 0 /\ at' = at + 1 /\ Running
          /\ outcome' = outcome /\ failed'
        BY <1>CommandFails DEF CommandFails, AtCommand, AtLine, StepDone, StepsStay
    <2> QED
        BY <2>1, InstalledAdvances
<1>Summarise. CASE Summarise
    <2>1. /\ StepsStay /\ env' = env /\ line' = 0 /\ at' = 0 /\ objects' = objects
          /\ at > Len(steps)
          /\ at > 0 /\ (outcome' = "ok" => ~failed)
        BY <1>0, <1>Summarise DEF Summarise, End, Idle, StepsStay, program
    <2>2. at = Len(steps) + 1
        BY <2>1 DEF ShapeInv, SetupTypeOK, StepsInv
    <2>3. ASSUME cmdline.mode = "apply", outcome' = "ok"
          PROVE  \A i \in 1..Len(steps) : Owes(i)'
        <3>1. \A i \in 1..Len(steps) : i \in Nat /\ Owes(i)
            BY <1>0, <2>1, <2>2, <2>3 DEF InstalledSoFar
        <3> QED
            BY <2>1, <3>1, OwesKept
    <2> QED
        BY <2>1, <2>3 DEF InstalledSoFar, StepsStay, Running, Idle
<1>Stays. CASE \/ (FirewallReads /\ Mode = "apply") \/ FirewallPart \/ FirewallReload
               \/ (FirewallPartRefused /\ ~Required(Parts[line]))
    <2>1. /\ StepsStay /\ env' = env /\ at' = at /\ Running /\ Firewall
          /\ failed' = failed /\ outcome' = outcome /\ objects' = objects
        BY <1>Stays DEF FirewallReads, FirewallPart, FirewallReload, FirewallPartRefused,
           AtFirewall, StepsStay, program
    <2>2. Firewall' /\ outcome' # "ok"
        BY <1>0, <2>1, TaskStays DEF Running, Idle
    <2>3. ASSUME cmdline.mode = "apply", ~failed
          PROVE  \A i \in 1..at - 1 : Owes(i)'
        <3>1. \A i \in 1..at - 1 : i \in Nat /\ Owes(i)
            BY <1>0, <2>1, <2>3 DEF InstalledSoFar, Running, Idle
        <3> QED
            BY <2>1, <3>1, OwesKept
    <2> QED
        BY <2>1, <2>2, <2>3 DEF InstalledSoFar, StepsStay
<1>FirewallReloaded. CASE FirewallReloaded
    <2>1. /\ StepsStay /\ env' = env /\ at' = at /\ line' = line
          /\ failed' = failed /\ outcome' = outcome /\ objects' = objects
        BY <1>FirewallReloaded DEF FirewallReloaded, StepsStay, program
    <2>2. Task' = Task /\ Running' = Running /\ Firewall' = Firewall
        BY <2>1, TaskStays
    <2>3. \A i \in Nat : Owes(i) => Owes(i)'
        BY <2>1, OwesKept
    <2>4. (\A i \in 1..at - 1 : i \in Nat) /\ (\A i \in 1..Len(steps) : i \in Nat)
        OBVIOUS
    <2> QED
        BY <2>1, <2>2, <2>3, <2>4 DEF InstalledSoFar, StepsStay
<1> QED
    BY <1>CommandLine, <1>Ends, <1>Advances, <1>run_step, <1>Command, <1>CommandFails,
       <1>Summarise, <1>Stays, <1>FirewallReloaded
    DEF SetupNext

\* An --apply that ends with 0 leaves what its steps stand for.
THEOREM SuccessIsComplete == SetupSpec => []SuccessMeansInstalled
<1> DEFINE Strong == ShapeInv /\ InstalledSoFar
<1>1. SetupInit => Strong
    BY ShapeInit DEF SetupInit, InstalledSoFar, Running, Idle
<1>2. Strong /\ [SetupNext]_setupVars => Strong'
    <2>1. Strong /\ UNCHANGED setupVars => InstalledSoFar'
        <3> SUFFICES ASSUME Strong, UNCHANGED setupVars
                     PROVE  InstalledSoFar'
            OBVIOUS
        <3>1. /\ StepsStay /\ env' = env /\ at' = at /\ line' = line
              /\ failed' = failed /\ outcome' = outcome /\ objects' = objects
            BY DEF setupVars, StepsStay
        <3>2. Task' = Task /\ Running' = Running /\ Firewall' = Firewall
            BY <3>1, TaskStays
        <3>3. \A i \in Nat : Owes(i) => Owes(i)'
            BY <3>1, OwesKept
        <3>4. /\ \A i \in 1..at - 1 : i \in Nat
              /\ \A i \in 1..Len(steps) : i \in Nat
            OBVIOUS
        <3> QED
            BY <3>1, <3>2, <3>3, <3>4 DEF InstalledSoFar, StepsStay
    <2> QED
        BY <2>1, ShapeStep, ShapeStutter, InstalledStep
<1>3. Strong => SuccessMeansInstalled
    <2> SUFFICES ASSUME Strong, outcome = "ok", cmdline.mode = "apply", NEW i \in DOMAIN steps
                 PROVE  Owes(i)
        BY DEF SuccessMeansInstalled, Owes
    <2>1. i \in 1..Len(steps)
        BY InSeq DEF ShapeInv, StepsInv
    <2> QED
        BY <2>1 DEF InstalledSoFar
<1> QED
    BY <1>1, <1>2, <1>3, PTL DEF SetupSpec

-----------------------------------------------------------------------------
(* The firewall.                                                           *)

\* What is in force is on disk, and on disk the parts are there in their order.
ZoneInv ==
    /\ running \subseteq permanent
    /\ "source" \in permanent => "target" \in permanent
    /\ "target" \in permanent => "zone" \in permanent

InFirewall == AtFirewall /\ line > 0

\* Between its parts the step has a change to reload, or it will have one when it comes to
\* the source.
ReloadInv ==
    /\ ~InFirewall => ~changed /\ (late \/ permanent = running)
    /\ InFirewall =>
          /\ line \in 1..7
          /\ line > 1 => "zone" \in permanent
          /\ line > 2 => "target" \in permanent
          /\ line > 5 => "source" \in permanent
          /\ line = 7 => ~changed
          /\ line \in 2..5 /\ "zone" \notin running => "source" \notin permanent
          /\ \/ late \/ changed \/ permanent = running
             \/ line \in 2..5 /\ "source" \notin permanent

OnDisk == {"zone", "target", "source"} \subseteq permanent

FirewallSoFar ==
    cmdline.mode = "apply" /\ env.firewalld =>
        /\ at > 0 /\ ~failed =>
               \A i \in 1..at - 1 : Selected(i).number = "1.5" => OnDisk
        /\ outcome = "ok" =>
               \A i \in 1..Len(steps) : Selected(i).number = "1.5" => OnDisk

\* The parts of the zone in the order of an apply.
LEMMA PartsAre ==
    /\ Parts[1] = "zone" /\ Parts[2] = "target" /\ Parts[3] = "talos+" /\ Parts[4] = "veth+"
    /\ Parts[5] = "source" /\ DOMAIN Parts = 1..5 /\ Len(Parts) = 5
BY DEF Parts

\* A part that is set is there at last, and the zone before all others.
LEMMA ChangedPart ==
    ASSUME ZoneInv, NEW k \in 1..5, Change(Parts[k]), FirewallTypeOK
    PROVE  /\ permanent' = permanent \cup {Parts[k]} /\ running' = running /\ late' = late
           /\ k = 1 => "zone" \notin permanent
           /\ k # 1 => "zone" \in permanent
           /\ k \in 3..5 => changed'
           /\ k \in 1..2 => changed' = changed
<1> USE PartsAre
<1>1. permanent' = permanent \cup {Parts[k]} /\ running' = running /\ late' = late
    BY DEF Change, Set
<1>2. (k = 1 => "zone" \notin permanent) /\ (k # 1 => "zone" \in permanent)
    BY DEF Change, CanSet
<1>3. k \in 3..5 => changed'
    <2>1. k \in 3..5 => CountsAsChange(Parts[k])
        BY DEF CountsAsChange, Interfaces
    <2>2. changed' = (changed \/ CountsAsChange(Parts[k]))
        BY Zenon DEF Change
    <2> QED
        BY <2>1, <2>2
<1>4. k \in 1..2 => changed' = changed
    <2>1. k \in 1..2 => ~CountsAsChange(Parts[k])
        BY DEF CountsAsChange, Interfaces
    <2>2. changed' = (changed \/ CountsAsChange(Parts[k])) /\ changed \in BOOLEAN
        BY Zenon DEF Change, FirewallTypeOK
    <2> QED
        BY <2>1, <2>2
<1> QED
    BY <1>1, <1>2, <1>3, <1>4

\* A part that is passed over is there.
LEMMA PassedPart ==
    ASSUME ZoneInv, NEW k \in 1..5, PassOver(Parts[k])
    PROVE  /\ permanent' = permanent /\ running' = running /\ late' = late
           /\ changed' = changed
           /\ k = 1 => "zone" \in running
           /\ k = 2 => "target" \in permanent
           /\ k = 5 => "source" \in permanent
BY PartsAre DEF PassOver, Missing, firewall, zone_exists, zone_target, zone_sources

\* A part that is refused is missing: it stops the step but for an interface.
LEMMA RefusedPart ==
    ASSUME NEW k \in 1..5, Refused(Parts[k])
    PROVE  /\ permanent' = permanent /\ running' = running
           /\ Required(Parts[k]) <=> k \in {1, 2, 5}
BY PartsAre DEF Refused, Required, Interfaces

ZoneStays == permanent' = permanent /\ running' = running

\* On disk the parts come in their order.
LEMMA ZoneStep ==
    ASSUME ShapeInv, ZoneInv, ReloadInv, SetupNext
    PROVE  ZoneInv'
<1>1. CASE FirewallPart
    <2>1. line \in 1..5 /\ InFirewall /\ FirewallTypeOK
        BY <1>1, PartsAre DEF FirewallPart, InFirewall, ShapeInv, SetupTypeOK
    <2>2. CASE PassOver(Parts[line])
        BY <2>1, <2>2 DEF PassOver, firewall, ZoneInv
    <2>3. CASE Change(Parts[line])
        <3>1. permanent' = permanent \cup {Parts[line]} /\ running' = running
            BY <2>3 DEF Change, Set
        <3>2. /\ line > 1 => "zone" \in permanent
              /\ line > 2 => "target" \in permanent
            BY <2>1 DEF ReloadInv
        <3>3. /\ Parts[line] = "source" => line = 5
              /\ Parts[line] = "target" => line = 2
            BY <2>1, PartsAre
        <3> QED
            BY <3>1, <3>2, <3>3 DEF ZoneInv
    <2> QED
        BY <1>1, <2>2, <2>3 DEF FirewallPart
<1>2. CASE FirewallReload \/ FirewallReloaded
    <2>1. permanent' = permanent /\ (running' = permanent \/ running' = running)
        BY <1>2 DEF FirewallReload, reload, FirewallReloaded, ReloadElsewhere, firewall
    <2> QED
        BY <2>1 DEF ZoneInv
<1>3. CASE ~FirewallPart /\ ~FirewallReload /\ ~FirewallReloaded
    <2>1. ZoneStays
        BY <1>3 DEF SetupNext, CommandLine, Aborts, NodesNotReady, Skip, run_step,
           NothingToDo, CommandSucceeds, CommandFails, CommandsDone, Summarise, FirewallReads,
           FirewallPartRefused, FirewallReloadFails, FirewallVerifies, KeyboardInterrupt,
           End, firewall, Refused, ZoneStays
    <2> QED
        BY <2>1 DEF ZoneStays, ZoneInv
<1> QED
    BY <1>1, <1>2, <1>3

\* A step of the run outside the firewall, or out of it.
LEMMA OutOfFirewall ==
    ASSUME ReloadInv, line' = 0, ZoneStays,
           \/ changed' = changed /\ late' = late /\ ~InFirewall
           \/ ~changed' /\ (late' \/ permanent = running)
    PROVE  ReloadInv'
<1>1. ~InFirewall'
    BY DEF InFirewall
<1> QED
    BY <1>1 DEF ReloadInv, ZoneStays

\* Every action keeps the reload in mind, or is late.
LEMMA ReloadStep ==
    ASSUME ShapeInv, ZoneInv, ReloadInv, SetupNext
    PROVE  ReloadInv'
<1>0. FirewallTypeOK /\ line \in Nat /\ (at = 0 => line = 0) /\ (at > Len(steps) => line = 0)
    BY DEF ShapeInv, SetupTypeOK, StepsInv
<1>1. CASE CommandLine \/ NodesNotReady \/ Aborts \/ Summarise \/ Skip
           \/ (run_step /\ ~(Task.needs \subseteq Here)) \/ CommandsDone
           \/ (CommandFails /\ Command.must)
    <2>1. line' = 0 /\ ZoneStays /\ changed' = changed /\ late' = late
        BY <1>1 DEF CommandLine, NodesNotReady, Aborts, Summarise, Skip, run_step, CommandsDone,
           CommandFails, End, StepDone, firewall, ZoneStays
    <2>2. Idle \/ at > Len(steps) \/ line = 0 \/ ~Firewall
        BY <1>1 DEF CommandLine, NodesNotReady, Aborts, Summarise, Skip, run_step, CommandsDone,
           CommandFails, Starting, AtCommand, AtLine
    <2>3. ~InFirewall
        BY <1>0, <2>2 DEF InFirewall, AtFirewall, Idle
    <2> QED
        BY <2>1, <2>3, OutOfFirewall
<1>2. CASE \/ (run_step /\ Task.needs \subseteq Here) \/ NothingToDo \/ CommandSucceeds
           \/ (CommandFails /\ ~Command.must)
    <2>1. /\ StepsStay /\ env' = env /\ at' = at /\ ~Firewall /\ ZoneStays
          /\ changed' = changed /\ late' = late
        BY <1>2 DEF run_step, NothingToDo, CommandSucceeds, CommandFails, AtCommand, AtLine,
           StepsStay, program, firewall, ZoneStays
    <2>2. ~InFirewall /\ ~InFirewall'
        BY <2>1, TaskStays DEF InFirewall, AtFirewall
    <2> QED
        BY <2>1, <2>2 DEF ReloadInv, ZoneStays
<1>3. CASE FirewallReads
    <2>1. /\ ZoneStays /\ changed' = changed /\ late' = late /\ ~InFirewall
          /\ line' = 0 \/ line' = 1
        BY <1>3 DEF FirewallReads, firewall, ZoneStays, StepDone, InFirewall
    <2>2. CASE line' = 0
        BY <2>1, <2>2, OutOfFirewall
    <2>3. CASE line' = 1
        <3>1. ~changed /\ (late \/ permanent = running)
            BY <2>1 DEF ReloadInv
        <3>2. ~changed' /\ (late' \/ permanent' = running')
            BY <2>1, <3>1 DEF ZoneStays
        <3> QED
            BY <2>3, <3>2 DEF ReloadInv
    <2> QED
        BY <2>1, <2>2, <2>3
<1>4. CASE FirewallPart
    <2>1. /\ line \in 1..5 /\ InFirewall /\ line' = line + 1
          /\ StepsStay /\ env' = env /\ at' = at
        BY <1>4, PartsAre DEF FirewallPart, InFirewall, StepsStay, program
    <2>2. InFirewall'
        BY <2>1, TaskStays DEF InFirewall, AtFirewall
    <2>3. /\ line > 1 => "zone" \in permanent
          /\ line > 2 => "target" \in permanent
          /\ line \in 2..5 /\ "zone" \notin running => "source" \notin permanent
          /\ \/ late \/ changed \/ permanent = running
             \/ line \in 2..5 /\ "source" \notin permanent
        BY <2>1 DEF ReloadInv
    <2>4. CASE PassOver(Parts[line])
        <3>1. /\ permanent' = permanent /\ running' = running /\ late' = late
              /\ changed' = changed
              /\ line = 1 => "zone" \in running
              /\ line = 2 => "target" \in permanent
              /\ line = 5 => "source" \in permanent
            BY <2>1, <2>4, PassedPart
        <3> QED
            BY <2>1, <2>2, <2>3, <3>1 DEF ReloadInv, ZoneInv
    <2>5. CASE Change(Parts[line])
        <3>1. /\ permanent' = permanent \cup {Parts[line]} /\ running' = running /\ late' = late
              /\ line = 1 => "zone" \notin permanent
              /\ line # 1 => "zone" \in permanent
              /\ line \in 3..5 => changed'
              /\ line \in 1..2 => changed' = changed
            BY <1>0, <2>1, <2>5, ChangedPart
        <3>2. CASE line = 1
            <4>1. "source" \notin permanent' /\ "zone" \in permanent'
                BY <3>1, <3>2, PartsAre DEF ZoneInv
            <4> QED
                BY <2>1, <2>2, <3>2, <4>1 DEF ReloadInv
        <3>3. CASE line = 2
            <4>1. /\ "zone" \in permanent' /\ "target" \in permanent'
                  /\ "source" \in permanent' <=> "source" \in permanent
                BY <3>1, <3>3, PartsAre
            <4>2. "zone" \notin running' => "source" \notin permanent'
                BY <2>3, <3>1, <3>3, <4>1
            <4>3. \/ late' \/ changed' \/ permanent' = running'
                  \/ "source" \notin permanent'
                <5>1. CASE "source" \in permanent
                    <6>1. "target" \in permanent
                        BY <5>1 DEF ZoneInv
                    <6>2. permanent' = permanent
                        BY <3>1, <3>3, <6>1, PartsAre
                    <6> QED
                        BY <2>3, <3>1, <3>3, <5>1, <6>2
                <5> QED
                    BY <4>1, <5>1
            <4> QED
                BY <2>1, <2>2, <3>3, <4>1, <4>2, <4>3 DEF ReloadInv
        <3>4. CASE line \in 3..5
            <4>1. /\ changed' /\ "zone" \in permanent' /\ "target" \in permanent'
                  /\ line = 5 => "source" \in permanent'
                  /\ line # 5 => ("source" \in permanent' <=> "source" \in permanent)
                BY <2>3, <3>1, <3>4, PartsAre
            <4>2. line' \in 2..5 /\ "zone" \notin running' => "source" \notin permanent'
                BY <2>1, <2>3, <3>1, <3>4, <4>1
            <4> QED
                BY <2>1, <2>2, <3>4, <4>1, <4>2 DEF ReloadInv
        <3> QED
            BY <2>1, <3>2, <3>3, <3>4
    <2> QED
        BY <1>4, <2>4, <2>5 DEF FirewallPart
<1>5. CASE FirewallPartRefused
    <2>1. /\ line \in 1..5 /\ InFirewall /\ StepsStay /\ env' = env /\ ZoneStays
          /\ Required(Parts[line]) <=> line \in {1, 2, 5}
        BY <1>5, PartsAre, RefusedPart DEF FirewallPartRefused, InFirewall, StepsStay, ZoneStays
    <2>2. CASE Required(Parts[line])
        <3>1. line' = 0 /\ ~changed' /\ (late' \/ permanent = running)
            BY <1>5, <2>2 DEF FirewallPartRefused, StepDone
        <3> QED
            BY <2>1, <3>1, OutOfFirewall
    <2>3. CASE ~Required(Parts[line])
        <3>1. line' = line + 1 /\ at' = at /\ changed' = changed /\ late' = late
            BY <1>5, <2>3 DEF FirewallPartRefused
        <3>2. line \in 3..4 /\ InFirewall'
            BY <2>1, <2>3, <3>1, TaskStays DEF InFirewall, AtFirewall
        <3> QED
            BY <2>1, <3>1, <3>2 DEF ReloadInv, ZoneStays
    <2> QED
        BY <2>2, <2>3
<1>6. CASE FirewallReload
    <2>1. /\ line = 6 /\ line' = 7 /\ InFirewall /\ StepsStay /\ env' = env /\ at' = at
        BY <1>6, PartsAre DEF FirewallReload, InFirewall, StepsStay, program
    <2>2. "zone" \in permanent /\ "target" \in permanent /\ "source" \in permanent
          /\ (late \/ changed \/ permanent = running)
        BY <2>1 DEF ReloadInv
    <2>3. permanent' = permanent /\ ~changed' /\ (late' \/ permanent' = running')
        <3>1. CASE changed
            BY <1>6, <3>1 DEF FirewallReload, reload
        <3>2. CASE ~changed
            BY <1>6, <2>2, <3>2 DEF FirewallReload, firewall
        <3> QED
            BY <3>1, <3>2
    <2> QED
        BY <2>1, <2>2, <2>3 DEF ReloadInv
<1>7. CASE FirewallReloadFails \/ FirewallVerifies
    <2>1. line' = 0 /\ ZoneStays /\ ~changed' /\ late' = (late \/ (changed /\ permanent # running))
        BY <1>7 DEF FirewallReloadFails, FirewallVerifies, FirewallDone, StepDone, ZoneStays
    <2>2. InFirewall /\ line \in 6..7
        <3>1. AtFirewall /\ (line = Len(Parts) + 1 \/ line = Len(Parts) + 2)
            BY <1>7 DEF FirewallReloadFails, FirewallVerifies
        <3> QED
            BY <3>1, PartsAre DEF InFirewall
    <2>3. late \/ changed \/ permanent = running
        BY <2>2 DEF ReloadInv
    <2> QED
        BY <2>1, <2>3, OutOfFirewall
<1>8. CASE FirewallReloaded
    <2>1. /\ permanent' = permanent /\ running' = permanent /\ changed' = changed
          /\ line' = line /\ StepsStay /\ env' = env /\ at' = at
        BY <1>8 DEF FirewallReloaded, ReloadElsewhere, StepsStay, program
    <2>2. InFirewall' = InFirewall
        BY <2>1, TaskStays DEF InFirewall, AtFirewall
    <2> QED
        BY <2>1, <2>2 DEF ReloadInv, ZoneInv
<1>9. CASE KeyboardInterrupt
    <2>1. /\ line' = 0 /\ ZoneStays /\ ~changed'
          /\ late' = (late \/ (InFirewall /\ permanent # running))
        BY <1>9 DEF KeyboardInterrupt, InFirewall, ZoneStays
    <2>2. InFirewall \/ late \/ permanent = running
        BY DEF ReloadInv
    <2> QED
        BY <2>1, <2>2, OutOfFirewall
<1> QED
    BY <1>1, <1>2, <1>3, <1>4, <1>5, <1>6, <1>7, <1>8, <1>9 DEF SetupNext

\* Once the step has ended with success the zone is on disk.
LEMMA OnDiskKept ==
    ASSUME SetupNext
    PROVE  permanent \subseteq permanent'
BY DEF SetupNext, CommandLine, Aborts, NodesNotReady, Skip, run_step, NothingToDo, CommandSucceeds,
   CommandFails, CommandsDone, Summarise, FirewallReads, FirewallPart, FirewallPartRefused,
   FirewallReload, FirewallReloadFails, FirewallVerifies, FirewallReloaded, KeyboardInterrupt,
   End, Refused, PassOver, Change, Set, reload, ReloadElsewhere, firewall

\* Every action keeps what the firewall step has left on disk.
LEMMA FirewallSoFarStep ==
    ASSUME ShapeInv, ZoneInv, ReloadInv, FirewallSoFar, SetupNext
    PROVE  FirewallSoFar'
<1>0. at \in Nat /\ line \in Nat /\ Len(steps) \in Nat /\ (at # 0 => outcome = "none")
    BY DEF ShapeInv, SetupTypeOK, StepsInv
<1>a. OnDisk => OnDisk'
    BY OnDiskKept DEF OnDisk
<1>b. StepsStay /\ env' = env => \A i \in Nat : Selected(i)' = Selected(i)
    BY DEF StepsStay, Selected, Steps_of
<1>1. CASE CommandLine
    <2>1. outcome' # "ok" /\ (at' = 1 \/ at' = 0)
        BY <1>1 DEF CommandLine, Idle
    <2> QED
        BY <2>1 DEF FirewallSoFar
<1>2. CASE Aborts \/ NodesNotReady \/ KeyboardInterrupt
    <2>1. at' = 0 /\ outcome' # "ok"
        BY <1>2 DEF Aborts, NodesNotReady, KeyboardInterrupt, End
    <2> QED
        BY <2>1 DEF FirewallSoFar
<1>3. CASE \/ Skip \/ CommandsDone \/ FirewallVerifies \/ FirewallReloadFails
           \/ (FirewallReads /\ Mode # "apply")
           \/ (FirewallPartRefused /\ Required(Parts[line]))
           \/ (run_step /\ ~(Task.needs \subseteq Here))
           \/ (CommandFails /\ Command.must)
    <2>1. /\ StepsStay /\ env' = env /\ at' = at + 1 /\ Running /\ outcome' = outcome
        BY <1>3 DEF Skip, CommandsDone, FirewallVerifies, FirewallReloadFails,
           FirewallReads, FirewallPartRefused, run_step, CommandFails, FirewallDone, StepDone,
           AtFirewall, AtCommand, AtLine, StepsStay, program
    <2>2. outcome' # "ok"
        BY <1>0, <2>1 DEF Running, Idle
    <2>3. ASSUME ~failed', cmdline.mode = "apply", env.firewalld, NEW i \in 1..at,
                 Selected(i).number = "1.5"
          PROVE  OnDisk'
        <3>1. ~failed
            BY <1>3, <2>3 DEF Skip, CommandsDone, FirewallVerifies, FirewallReloadFails,
               FirewallReads, FirewallPartRefused, run_step, CommandFails, FirewallDone, StepDone
        <3>2. CASE i # at
            <4>1. i \in 1..at - 1 /\ at > 0
                BY <1>0, <3>2
            <4> QED
                BY <1>a, <2>3, <3>1, <4>1 DEF FirewallSoFar
        <3>3. CASE i = at
            <4>1. Firewall /\ StepInv(Current) /\ Mode = "apply"
                BY <2>1, <2>3, <3>3, TaskInv DEF Firewall, Current
            <4>2. Enabled(Current)
                BY <4>1 DEF Enabled, is_step_enabled, StepInv, Firewall
            <4>3. FirewallVerifies
                BY <1>3, <2>3, <4>1, <4>2 DEF Skip, CommandsDone, FirewallReloadFails,
                   FirewallPartRefused, run_step, CommandFails, AtCommand, AtLine, FirewallDone, StepDone
            <4>4. verified
                BY <2>3, <4>3 DEF FirewallVerifies, FirewallDone, StepDone
            <4>5. OnDisk
                BY <4>4 DEF verified, zone_target, zone_sources, zone_exists, OnDisk, ZoneInv
            <4> QED
                BY <1>a, <4>5
        <3> QED
            BY <3>2, <3>3
    <2>4. at' - 1 = at /\ \A i \in 1..at : i \in Nat /\ Selected(i)' = Selected(i)
        BY <1>0, <1>b, <2>1
    <2>5. (cmdline.mode = "apply" /\ env.firewalld /\ ~failed)' =>
              \A i \in 1..at : Selected(i).number = "1.5" => OnDisk'
        BY <2>1, <2>3 DEF StepsStay
    <2>6. (cmdline.mode = "apply" /\ env.firewalld /\ ~failed)' =>
              \A i \in 1..at' - 1 : Selected(i)'.number = "1.5" => OnDisk'
        BY <2>4, <2>5
    <2> QED
        BY <2>2, <2>6 DEF FirewallSoFar
<1>4. CASE Summarise
    <2>1. /\ StepsStay /\ env' = env /\ at' = 0 /\ at = Len(steps) + 1
          /\ (outcome' = "ok" => ~failed)
        BY <1>0, <1>4 DEF Summarise, End, Idle, StepsStay, program, ShapeInv, SetupTypeOK
    <2>2. at > 0 /\ at - 1 = Len(steps) /\ \A i \in 1..Len(steps) : i \in Nat
        BY <1>0, <2>1
    <2> QED
        BY <1>a, <1>b, <2>1, <2>2 DEF FirewallSoFar, StepsStay
<1>5. CASE \/ (FirewallReads /\ Mode = "apply") \/ FirewallPart \/ FirewallReload
           \/ (FirewallPartRefused /\ ~Required(Parts[line])) \/ FirewallReloaded
           \/ (run_step /\ Task.needs \subseteq Here) \/ NothingToDo \/ CommandSucceeds
           \/ (CommandFails /\ ~Command.must)
    <2>1. /\ StepsStay /\ env' = env /\ at' = at /\ failed' = failed /\ outcome' = outcome
        BY <1>5 DEF FirewallReads, FirewallPart, FirewallReload, FirewallPartRefused,
           FirewallReloaded, run_step, NothingToDo, CommandSucceeds, CommandFails, StepsStay, program
    <2>2. /\ \A i \in 1..at - 1 : i \in Nat
          /\ \A i \in 1..Len(steps) : i \in Nat
        OBVIOUS
    <2> QED
        BY <1>a, <1>b, <2>1, <2>2 DEF FirewallSoFar, StepsStay
<1> QED
    BY <1>1, <1>2, <1>3, <1>4, <1>5 DEF SetupNext

\* An --apply that ends with 0 leaves the firewall's zone in force, unless an earlier run
\* was cut between a change and its reload.
THEOREM FirewallIsInForce == SetupSpec => []FirewallInForce
<1> DEFINE Strong == ShapeInv /\ ZoneInv /\ ReloadInv /\ FirewallSoFar
<1>1. SetupInit => Strong
    BY ShapeInit DEF SetupInit, FirewallInit, ZoneInv, ReloadInv, InFirewall, AtFirewall,
       Running, Idle, FirewallSoFar
<1>2. Strong /\ [SetupNext]_setupVars => Strong'
    <2>1. Strong /\ UNCHANGED setupVars => (ZoneInv /\ ReloadInv /\ FirewallSoFar)'
        <3> SUFFICES ASSUME Strong, UNCHANGED setupVars
                     PROVE  (ZoneInv /\ ReloadInv /\ FirewallSoFar)'
            OBVIOUS
        <3>1. /\ StepsStay /\ env' = env /\ at' = at /\ line' = line /\ failed' = failed
              /\ outcome' = outcome /\ permanent' = permanent /\ running' = running
              /\ changed' = changed /\ late' = late
            BY DEF setupVars, firewall, StepsStay
        <3>2. InFirewall' = InFirewall
            BY <3>1, TaskStays DEF InFirewall, AtFirewall
        <3>3. \A i \in Nat : Selected(i)' = Selected(i)
            BY <3>1 DEF StepsStay, Selected, Steps_of
        <3>4. ZoneInv' /\ ReloadInv'
            BY <3>1, <3>2 DEF ZoneInv, ReloadInv
        <3>5. /\ \A i \in 1..at - 1 : i \in Nat
              /\ \A i \in 1..Len(steps) : i \in Nat
            OBVIOUS
        <3>6. FirewallSoFar'
            BY <3>1, <3>3, <3>5 DEF FirewallSoFar, OnDisk, StepsStay
        <3> QED
            BY <3>4, <3>6
    <2> QED
        BY <2>1, ShapeStep, ShapeStutter, ZoneStep, ReloadStep, FirewallSoFarStep
<1>3. Strong => FirewallInForce
    <2> SUFFICES ASSUME Strong, outcome = "ok", cmdline.mode = "apply", env.firewalld,
                        Numbered({"1.5"}), ~late
                 PROVE  {"zone", "target", "source"} \subseteq running
        BY DEF FirewallInForce
    <2>1. at = 0
        BY DEF ShapeInv, StepsInv
    <2>2. permanent = running
        BY <2>1 DEF ReloadInv, InFirewall, AtFirewall, Running, Idle
    <2>3. PICK i \in DOMAIN steps : Selected(i).number = "1.5"
        BY DEF Numbered
    <2>4. i \in 1..Len(steps)
        BY InSeq DEF ShapeInv, StepsInv
    <2> QED
        BY <2>2, <2>3, <2>4 DEF FirewallSoFar, OnDisk
<1> QED
    BY <1>1, <1>2, <1>3, PTL DEF SetupSpec

-----------------------------------------------------------------------------
(* The modes that only look.                                               *)

\* No command of a mode other than --apply does more than the scaffold.
LEMMA ScaffoldEffect ==
    ASSUME ShapeInv, AtLine, cmdline.mode # "apply"
    PROVE  /\ Effect \in {objects, objects \cup {"scaffold"}}
           /\ cmdline.mode # "check"
<1>1. /\ Scaffolds(Task.commands) /\ line \in DOMAIN Task.commands
      /\ cmdline.mode = "check" => Task.commands = << >>
    BY TaskInv, AtLineIs DEF AtLine
<1>2. Adds(Command) \subseteq {"scaffold"} /\ Drops(Command) = {}
    BY <1>1 DEF Scaffolds, Command
<1>3. Effect = objects \cup Adds(Command)
    BY <1>2 DEF Effect, Adds, Drops
<1>4. Adds(Command) = {} \/ Adds(Command) = {"scaffold"}
    BY <1>2
<1>5. cmdline.mode # "check"
    BY <1>1
<1> QED
    BY <1>3, <1>4, <1>5

LooksOnlyStep ==
    ~Idle /\ cmdline.mode # "apply" =>
        /\ objects' \in {objects, objects \cup {"scaffold"}}
        /\ cmdline.mode = "check" => objects' = objects
        /\ permanent' = permanent

\* No step of the run does more in the other modes.
LEMMA LooksOnlyNext ==
    ASSUME ShapeInv, SetupNext
    PROVE  LooksOnlyStep
<1> SUFFICES ASSUME ~Idle, cmdline.mode # "apply"
             PROVE  /\ objects' \in {objects, objects \cup {"scaffold"}}
                    /\ cmdline.mode = "check" => objects' = objects
                    /\ permanent' = permanent
    BY DEF LooksOnlyStep
<1>1. CASE CommandSucceeds \/ CommandFails
    <2>1. AtLine /\ (objects' = objects \/ objects' = Effect) /\ permanent' = permanent
        BY <1>1 DEF CommandSucceeds, CommandFails, AtCommand, firewall
    <2> QED
        BY <2>1, ScaffoldEffect
<1>2. ~FirewallPart
    <2>1. SUFFICES ASSUME FirewallPart
                   PROVE  FALSE
        OBVIOUS
    <2>2. line # 0 /\ Running /\ Firewall
        BY <2>1, PartsAre DEF FirewallPart, AtFirewall
    <2> QED
        BY <2>2 DEF ShapeInv, StepsInv
<1>3. CASE ~CommandSucceeds /\ ~CommandFails
    <2>1. objects' = objects /\ permanent' = permanent
        BY <1>2, <1>3 DEF SetupNext, CommandLine, Aborts, Starting, NodesNotReady, Skip, run_step,
           NothingToDo, CommandsDone, Summarise, FirewallReads, FirewallPartRefused,
           FirewallReload, reload,
           FirewallReloadFails, FirewallVerifies, FirewallReloaded, ReloadElsewhere,
           KeyboardInterrupt, End, Refused, firewall
    <2> QED
        BY <2>1
<1> QED
    BY <1>1, <1>3

\* --check changes nothing and --dry-run only makes the scaffold.
THEOREM ReadOnlyModesLook == SetupSpec => ReadOnlyModesChangeNothing
<1>1. SetupInit => ShapeInv
    BY ShapeInit
<1>2. ShapeInv /\ [SetupNext]_setupVars => ShapeInv'
    BY ShapeStep, ShapeStutter
<1>3. ShapeInv /\ [SetupNext]_setupVars => [LooksOnlyStep]_setupVars
    BY LooksOnlyNext
<1> QED
    BY <1>1, <1>2, <1>3, PTL DEF SetupSpec, ReadOnlyModesChangeNothing, LooksOnlyStep

================================================================================
