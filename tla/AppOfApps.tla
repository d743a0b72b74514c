------------------------------- MODULE AppOfApps -------------------------------
(***************************************************************************)
(* What Argo CD gets to see of the toggles and the versions:               *)
(* scripts/gitops/render_app_of_apps.py, which copies the applications     *)
(* that are enabled from gitops/apps.all to gitops/apps, and               *)
(* scripts/gitops/render_overlays.py, which writes rendered/dev.yaml of    *)
(* every component with the versions of the environment.                   *)
(*                                                                         *)
(* They are started by hand and by startup.dev.py, so two of them may run  *)
(* at a time; they take no lock, write no temporary files, and may be cut  *)
(* anywhere, by which a file is left half written.  A file that is renamed *)
(* while somebody writes it takes the rest of the writing with it.         *)
(*                                                                         *)
(* Abstracted: the contents of manifests but for one version; one          *)
(* application of each kind; kustomize, which may fail; the directory      *)
(* gitops/apps, which is there; that a render which finds a file gone that *)
(* it has just seen ends with an error, as if it were cut there.           *)
(***************************************************************************)
EXTENDS ComponentVersions, FiniteSets

CONSTANTS
    Renders,     \* slots of programs that run at the same time
    Components,  \* directories under gitops/ with an overlay
    Values,      \* what a line may assign to a variable
    Shells,      \* the variables that may be exported in the shell
    Edits,       \* the lines that are put into the files
    MaxEdits     \* bound on edits of the files

APP_TOGGLE_MAP == [security |-> "CILIUM_ENABLED", casbin |-> "CASBIN_ENABLED"]
ALWAYS_INCLUDED == {"platform"}
Sorted == <<"casbin", "kafka", "platform", "security">>
Apps == {Sorted[i] : i \in DOMAIN Sorted}

Listed == ALWAYS_INCLUDED \cup DOMAIN APP_TOGGLE_MAP

NoDir == [a \in Apps |-> "no directory"]
EmptyDir == [a \in Apps |-> "absent"]
NoFile == [app |-> "none", at |-> "gone", will |-> "whole"]
FileLayers == {Layers[i] : i \in DOMAIN Layers}
Envs == [Vars -> Values \cup {Unset}]

ASSUME AppOfAppsAssumption ==
    /\ Shells \subseteq Envs
    /\ Edits \subseteq [file : FileLayers, var : Vars, value : Values]
    /\ MaxEdits \in Nat

VARIABLES
    files,     \* the three dotenv files
    apps,      \* gitops/apps: each file "whole", "part" of it, or "absent"
    all,       \* gitops/apps.all: the same of each file, or NoDir
    rendered,  \* rendered/dev.yaml: a version, or "part" or "absent"
    run,       \* the programs
    open,      \* the copy a program is writing: of which application, where the file is
               \* now, and whether it will be whole, a part, or is "mixed": either
    last,      \* how the last one ended, while none is running
    torn,      \* history of the first move: it was "cut" or failed, it was "watched" by
               \* another render, it was "doubled": two renders set out to do it
    edits      \* edits of the files so far

vars == <<files, apps, all, rendered, run, open, last, torn, edits>>

Blank == [v \in Vars |-> Unset]
Ended == [prog |-> "none", dry |-> FALSE, env |-> Blank, calm |-> FALSE, pc |-> "ended",
          todo |-> {}, kept |-> {}, failures |-> FALSE]
Unknown == [prog |-> "none", dry |-> FALSE, env |-> Blank, rc |-> 0, calm |-> FALSE]

Present == {a \in Apps : apps[a] # "absent"}
InAll == {a \in Apps : all[a] \in {"part", "whole"}}
Running == {r \in Renders : run[r].pc # "ended"}

\* A fresh checkout of before apps.all was committed, or one of after it.
Init ==
    /\ files = [l \in FileLayers |-> [v \in Vars |-> << >>]]
    /\ apps = [a \in Apps |-> "whole"]
    /\ all \in {NoDir, apps}
    /\ rendered = [c \in Components |-> "absent"]
    /\ run = [r \in Renders |-> Ended]
    /\ open = [r \in Renders |-> NoFile]
    /\ last = Unknown /\ torn = {} /\ edits = 0

Go(r, label, todo) == run' = [run EXCEPT ![r].pc = label, ![r].todo = todo]

\* Mutated form of Exit: the program is left in its slot.
ExitWithTodo(r, rc) ==
    /\ last' = [prog |-> run[r].prog, dry |-> run[r].dry, env |-> run[r].env, rc |-> rc,
                calm |-> run[r].calm]
    /\ run' = [run EXCEPT ![r].pc = "ended"]

Exit(r, rc) ==
    /\ last' = IF Running = {r}
               THEN [prog |-> run[r].prog, dry |-> run[r].dry, env |-> run[r].env, rc |-> rc,
                     calm |-> run[r].calm]
               ELSE Unknown
    /\ run' = [run EXCEPT ![r] = Ended]

\* Both programs read the three files first.  They write to different directories, so
\* that only renders of applications are let overlap.
Start(r) ==
    /\ run[r].pc = "ended"
    /\ \A q \in Running : run[q].prog = "apps"
    /\ \E shell \in Shells, prog \in {"apps", "overlays"}, dry \in BOOLEAN :
          /\ dry => prog = "apps"
          /\ prog = "overlays" => Running = {}
          /\ run' = [q \in Renders |->
                IF q = r
                THEN [Ended EXCEPT !.prog = prog, !.dry = dry, !.env = load_dotenv(files, shell),
                                   !.pc = IF prog = "apps" THEN "bootstrap" ELSE "render",
                                   !.todo = IF prog = "apps" THEN {} ELSE Components,
                                   !.calm = Running = {}]
                ELSE [run[q] EXCEPT !.calm = FALSE]]
    /\ last' = Unknown
    /\ UNCHANGED <<files, apps, all, rendered, open, torn, edits>>

-----------------------------------------------------------------------------
(* render_app_of_apps.py                                                   *)

is_app_enabled(env, app) ==
    \/ app \in ALWAYS_INCLUDED
    \/ app \in DOMAIN APP_TOGGLE_MAP /\ is_enabled(env, APP_TOGGLE_MAP[app])

Moving == {r \in Renders : run[r].pc \in {"glob", "move"}}

\* That apps.all exists means that it is complete.  A --dry-run moves the files too.
bootstrap_apps_all(r) ==
    /\ run[r].pc = "bootstrap"
    /\ IF all # NoDir
       THEN Go(r, "list", {}) /\ torn' = torn \cup (IF Moving = {} THEN {} ELSE {"watched"})
       ELSE Go(r, "mkdir", {}) /\ UNCHANGED torn
    /\ UNCHANGED <<files, apps, all, rendered, open, last, edits>>

\* Another one that has found no apps.all may have made it by now (exist_ok=True).
mkdir(r) ==
    /\ run[r].pc = "mkdir"
    /\ IF all = NoDir THEN all' = EmptyDir /\ UNCHANGED torn
                      ELSE torn' = torn \cup {"doubled"} /\ UNCHANGED all
    /\ Go(r, "glob", {})
    /\ UNCHANGED <<files, apps, rendered, open, last, edits>>

\* Mutated form of glob: only what is enabled is moved.
glob_enabled(r) ==
    /\ run[r].pc = "glob"
    /\ Go(r, "move", {a \in Present : is_app_enabled(run[r].env, a)})
    /\ UNCHANGED <<files, apps, all, rendered, open, last, torn, edits>>

glob(r) ==
    /\ run[r].pc = "glob"
    /\ Go(r, "move", Present)
    /\ UNCHANGED <<files, apps, all, rendered, open, last, torn, edits>>

\* Where the copies of an application that are being written are when gitops/apps loses it,
\* to apps.all or for good.
Displaced(a, to) ==
    [q \in Renders |->
        IF open[q].app # a THEN open[q]
        ELSE [open[q] EXCEPT !.at = CASE @ = "apps" -> to
                                      [] @ = "all" /\ to = "all" -> "gone"
                                      [] OTHER -> @]]

\* A rename, over what is in apps.all by that name.
Move(r) ==
    /\ run[r].pc = "move"
    /\ \E a \in run[r].todo :
          /\ apps[a] # "absent"
          /\ all' = [all EXCEPT ![a] = apps[a]]
          /\ apps' = [apps EXCEPT ![a] = "absent"]
          /\ open' = Displaced(a, "all")
          /\ Go(r, "move", run[r].todo \ {a})
    /\ UNCHANGED <<files, rendered, last, torn, edits>>

\* A file that is not there any more ends the program.
MoveFails(r) ==
    /\ run[r].pc = "move"
    /\ \E a \in run[r].todo : apps[a] = "absent"
    /\ torn' = torn \cup {"cut"}
    /\ Exit(r, 1)
    /\ UNCHANGED <<files, apps, all, rendered, open, edits>>

Moved(r) ==
    /\ run[r].pc = "move" /\ run[r].todo = {}
    /\ Go(r, "list", {})
    /\ UNCHANGED <<files, apps, all, rendered, open, last, torn, edits>>

\* From here a --dry-run only says what it would do.
List(r) ==
    /\ run[r].pc = "list"
    /\ IF InAll = {} \/ run[r].dry
       THEN Exit(r, IF InAll = {} THEN 1 ELSE 0)
       ELSE run' = [run EXCEPT ![r].pc = "copy", ![r].todo = InAll, ![r].kept = InAll]
            /\ UNCHANGED last
    /\ UNCHANGED <<files, apps, all, rendered, open, torn, edits>>

\* One file after the other, in the order of their names, is copied, or removed where it
\* should not be.
AtFile(r, a) ==
    /\ run[r].pc = "copy" /\ open[r] = NoFile
    /\ a \in run[r].todo
    /\ \A i, j \in DOMAIN Sorted : Sorted[i] = a /\ j < i => Sorted[j] \notin run[r].todo

Remove(r) ==
    /\ \E a \in Apps :
          /\ AtFile(r, a) /\ ~is_app_enabled(run[r].env, a)
          /\ apps' = [apps EXCEPT ![a] = "absent"]
          /\ open' = Displaced(a, "gone")
          /\ Go(r, "copy", run[r].todo \ {a})
    /\ UNCHANGED <<files, all, rendered, last, torn, edits>>

\* Mutated form of Open: a file that is there is taken for the copy.
OpenIfMissing(r) ==
    /\ \E a \in Apps :
          /\ AtFile(r, a) /\ is_app_enabled(run[r].env, a)
          /\ \/ /\ apps[a] = "absent" /\ apps' = [apps EXCEPT ![a] = "part"]
                /\ open' = [open EXCEPT ![r] = [app |-> a, at |-> "apps", will |-> all[a]]]
                /\ UNCHANGED run
             \/ /\ apps[a] # "absent" /\ Go(r, "copy", run[r].todo \ {a})
                /\ UNCHANGED <<apps, open>>
    /\ UNCHANGED <<files, all, rendered, last, torn, edits>>

\* A copy begins: both files are opened, by which the target is empty, also for those who
\* are writing it.  The source may be a file that is still being written.
Open(r) ==
    /\ \E a \in Apps :
          /\ AtFile(r, a) /\ is_app_enabled(run[r].env, a)
          /\ apps' = [apps EXCEPT ![a] = "part"]
          /\ open' = [q \in Renders |->
                IF q = r
                THEN [app |-> a, at |-> "apps",
                      will |-> IF \E w \in Renders : open[w].app = a /\ open[w].at = "all"
                               THEN "mixed" ELSE all[a]]
                ELSE IF open[q].app = a /\ open[q].at = "apps"
                     THEN [open[q] EXCEPT !.will = "mixed"] ELSE open[q]]
    /\ UNCHANGED <<files, all, rendered, run, last, torn, edits>>

\* The copy is written; it goes where the file is now.
Write(r) ==
    /\ run[r].pc = "copy" /\ open[r] # NoFile
    /\ \E content \in {"part", "whole"} :
          /\ open[r].will # "mixed" => content = open[r].will
          /\ apps' = IF open[r].at = "apps" THEN [apps EXCEPT ![open[r].app] = content] ELSE apps
          /\ all' = IF open[r].at = "all" THEN [all EXCEPT ![open[r].app] = content] ELSE all
    /\ open' = [open EXCEPT ![r] = NoFile]
    /\ Go(r, "copy", run[r].todo \ {open[r].app})
    /\ UNCHANGED <<files, rendered, last, torn, edits>>

\* Then what was not in apps.all is removed.
LookForStale(r) ==
    /\ run[r].pc = "copy" /\ run[r].todo = {}
    /\ run' = [run EXCEPT ![r].pc = "stale", ![r].todo = Present \ run[r].kept, ![r].kept = {}]
    /\ UNCHANGED <<files, apps, all, rendered, open, last, torn, edits>>

RemoveStale(r) ==
    /\ run[r].pc = "stale"
    /\ \E a \in run[r].todo :
          /\ apps' = [apps EXCEPT ![a] = "absent"]
          /\ open' = Displaced(a, "gone")
          /\ Go(r, "stale", run[r].todo \ {a})
    /\ UNCHANGED <<files, all, rendered, last, torn, edits>>

Rendered(r) ==
    /\ run[r].pc = "stale" /\ run[r].todo = {}
    /\ Exit(r, 0)
    /\ UNCHANGED <<files, apps, all, rendered, open, torn, edits>>

-----------------------------------------------------------------------------
(* render_overlays.py                                                      *)

\* kustomize may fail for one component; the others are rendered all the same.
render(r) ==
    /\ run[r].pc = "render" /\ run[r].todo # {}
    /\ \E c \in run[r].todo, built \in BOOLEAN :
          /\ rendered' = IF built
                         THEN [rendered EXCEPT ![c] = resolve(run[r].env, "ENVOY_GATEWAY_VERSION")]
                         ELSE rendered
          /\ run' = [run EXCEPT ![r].todo = @ \ {c}, ![r].failures = @ \/ ~built]
    /\ UNCHANGED <<files, apps, all, open, last, torn, edits>>

RenderEnds(r) ==
    /\ run[r].pc = "render" /\ run[r].todo = {}
    /\ Exit(r, IF run[r].failures THEN 1 ELSE 0)
    /\ UNCHANGED <<files, apps, all, rendered, open, torn, edits>>

-----------------------------------------------------------------------------
\* A program is cut; the file it was writing stays as far as it got.
Interrupt(r) ==
    /\ r \in Running
    /\ \E half \in SUBSET run[r].todo :
          /\ Cardinality(half) <= 1
          /\ rendered' = IF run[r].pc = "render"
                         THEN [c \in Components |-> IF c \in half THEN "part" ELSE rendered[c]]
                         ELSE rendered
    /\ torn' = torn \cup (IF r \in Moving THEN {"cut"} ELSE {})
    /\ run' = [run EXCEPT ![r] = Ended]
    /\ open' = [open EXCEPT ![r] = NoFile]
    /\ last' = Unknown
    /\ UNCHANGED <<files, apps, all, edits>>

\* The user replaces what a file assigns to a variable, or appends a line.  As the
\* programs read the files at their start, it does not matter that one may be running.
Edit ==
    /\ Running = {}
    /\ edits < MaxEdits /\ edits' = edits + 1
    /\ \E line \in Edits :
          \/ files' = [files EXCEPT ![line.file][line.var] = <<line.value>>]
          \/ files' = [files EXCEPT ![line.file][line.var] = Append(@, line.value)]
    /\ UNCHANGED <<apps, all, rendered, run, open, last, torn>>

Next ==
    \/ Edit
    \/ \E r \in Renders :
          \/ Start(r)
          \/ bootstrap_apps_all(r) \/ mkdir(r) \/ glob(r) \/ Move(r) \/ MoveFails(r) \/ Moved(r)
          \/ List(r) \/ Remove(r) \/ Open(r) \/ Write(r)
          \/ LookForStale(r) \/ RemoveStale(r) \/ Rendered(r)
          \/ render(r) \/ RenderEnds(r) \/ Interrupt(r)

Spec == Init /\ [][Next]_vars

-----------------------------------------------------------------------------
(* Properties.                                                             *)

Programs == [prog : {"none", "apps", "overlays"}, dry : BOOLEAN, env : Envs, calm : BOOLEAN,
             pc : {"ended", "bootstrap", "mkdir", "glob", "move", "list", "copy", "stale", "render"},
             todo : SUBSET (Apps \cup Components), kept : SUBSET Apps, failures : BOOLEAN]

\* Every variable stays in its set, and a program that ended has left its slot.
TypeOK ==
    /\ files \in [FileLayers -> [Vars -> Seq(Values)]]
    /\ apps \in [Apps -> {"absent", "part", "whole"}]
    /\ all \in [Apps -> {"absent", "part", "whole"}] \cup {NoDir}
    /\ rendered \in [Components -> {"absent", "part", DefaultVersion} \cup Values]
    /\ run \in [Renders -> Programs]
    /\ \A r \in Renders :
          /\ run[r].pc = "ended" => run[r] = Ended
          /\ run[r].todo \subseteq IF run[r].prog = "apps" THEN Apps ELSE Components
    /\ last \in [prog : {"none", "apps", "overlays"}, dry : BOOLEAN, env : Envs, rc : {0, 1},
                 calm : BOOLEAN]
    /\ open \in [Renders -> [app : Apps, at : {"apps", "all", "gone"},
                             will : {"part", "whole", "mixed"}] \cup {NoFile}]
    /\ \A r \in Renders : open[r] # NoFile =>
          run[r].pc = "copy" /\ open[r].app \in run[r].todo
    /\ torn \subseteq {"cut", "watched", "doubled"} /\ edits \in 0 .. MaxEdits

\* No application is ever in neither directory, so that no later render could bring it
\* back: however many renders set out to make the first move, and write while another one
\* moves, only if the move is cut, fails, or is watched by a render that has come later can
\* an application be lost (render_app_of_apps.py:72-81, and the removal of stale files).
NothingIsLost == torn \cap {"cut", "watched"} = {} => Apps \subseteq Present \cup InAll

Wanted(env) ==
    {"platform", "security"} \cup
        IF env["CASBIN_ENABLED"] \in {Unset, "true", "yes", "y", "1", "on"} THEN {"casbin"} ELSE {}

\* After a render that no other one overlapped and that ended with 0, gitops/apps has what
\* its environment enables of apps.all, core applications among them whatever their toggles
\* say, and of the listed ones no other - whatever interrupted or overlapping renders had
\* left.  Its files are those of apps.all, and they are whole unless two renders had set out
\* to make the first move, one of which may have moved a half-written copy of the other to
\* apps.all.  And the rendered manifests all have one version.
RenderedAsAsked ==
    last.calm /\ last.rc = 0 =>
        /\ last.prog = "apps" /\ ~last.dry =>
              /\ Present \cap Listed = Wanted(last.env) \cap InAll
              /\ \A a \in Present : apps[a] = all[a]
              /\ "doubled" \notin torn => \A a \in Present : apps[a] = "whole"
        /\ last.prog = "overlays" =>
              \A c \in Components : rendered[c] = resolve(last.env, "ENVOY_GATEWAY_VERSION")

\* What the comment on the table of toggles says (render_app_of_apps.py:32): applications
\* that it does not list are always included.  The program leaves them out.
UnlistedAreIncluded ==
    last.calm /\ last.rc = 0 /\ last.prog = "apps" /\ ~last.dry =>
        InAll \ Listed \subseteq Present

================================================================================
