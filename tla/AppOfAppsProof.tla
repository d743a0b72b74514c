---------------------------- MODULE AppOfAppsProof ----------------------------
(***************************************************************************)
(* What holds of the renders of the app-of-apps and of the overlays for    *)
(* any number of programs at a time, of components, of environments and of *)
(* edits, wherever they are cut.                                           *)
(*                                                                         *)
(*   TypeInv  the type invariant, and which program stands where;          *)
(*   CalmIsAlone  a calm program is the only one;                          *)
(*   MoveInv  what apps.all and gitops/apps have between them during the   *)
(*            first move, however many make it (gives NothingIsLost);      *)
(*   WholeInv  a first move that one render makes puts whole files into    *)
(*            apps.all, and nobody writes to them;                         *)
(*   CalmInv  what a render that runs alone has already put right, file by *)
(*            file, whatever it found (gives RenderedAsAsked, with the one *)
(*            before).                                                     *)
(***************************************************************************)
EXTENDS AppOfApps, SequenceTheorems, WellFoundedInduction, TLAPS

\* A slot is free, or holds one of the two programs at a place of that program; from
\* the move on there is an apps.all, and what a render keeps is there.
DirLabels == {"glob", "move", "list", "copy", "stale"}
AppsLabels == {"bootstrap", "mkdir", "glob", "move", "list", "copy", "stale"}
Slot(p) ==
    /\ p \in Programs
    /\ p.pc = "ended" => p = Ended
    /\ p.pc \in AppsLabels => p.prog = "apps"
    /\ p.pc = "render" => p.prog = "overlays"
    /\ p.todo \subseteq IF p.prog = "apps" THEN Apps ELSE Components

TypeInv ==
    /\ TypeOK
    /\ \A r \in Renders :
          /\ Slot(run[r])
          /\ run[r].pc \in DirLabels => all # NoDir
          /\ run[r].kept \subseteq InAll
          /\ run[r].pc = "copy" => run[r].todo \subseteq run[r].kept

\* A calm program runs alone, and an outcome is known only while nothing runs.
CalmIsAlone ==
    /\ \A r \in Renders : run[r].calm => Running = {r}
    /\ last.calm => Running = {}

\* As long as no first move was cut, failed or watched, the applications are all in
\* gitops/apps before it, in one of the two places during it, and in apps.all after it,
\* whoever moves them; what a render has yet to move is all that apps.all has not.
MoveInv ==
    torn \cap {"cut", "watched"} = {} =>
        /\ all = NoDir => Present = Apps
        /\ all # NoDir /\ InAll # Apps => Moving # {}
        /\ Apps \subseteq Present \cup InAll
        /\ \A r \in Renders :
              /\ run[r].pc = "move" => Apps \subseteq run[r].todo \cup InAll
              /\ run[r].pc \in {"list", "copy", "stale"} => InAll = Apps
              /\ run[r].pc = "copy" => run[r].kept = Apps
              /\ run[r].pc = "stale" => run[r].todo = {}

\* As long as one render at most has set out to make the first move, what is in apps.all
\* is whole, what it has yet to move is whole or gone, and no copy that is being written,
\* all of which are of applications in apps.all, gets there.
WholeInv ==
    "doubled" \notin torn =>
        /\ \A a \in Apps : all[a] # "part" /\ (a \notin InAll => apps[a] # "part")
        /\ \A r \in Renders :
              /\ run[r].pc = "glob" => InAll = {}
              /\ run[r].pc = "move" => run[r].todo \cap InAll = {}
              /\ open[r].at # "all" /\ open[r].will # "part"
        /\ \A q, r \in Moving : q = r

\* What a render that runs alone has done up to the file it is at.
Result(env, a) == IF is_app_enabled(env, a) THEN all[a] ELSE "absent"
Done(r) ==
    /\ run[r].pc = "copy" =>
          /\ run[r].kept = InAll
          /\ \A a \in InAll \ run[r].todo : apps[a] = Result(run[r].env, a)
          /\ open[r] # NoFile => /\ open[r].at = "apps"
                                 /\ open[r].will = Result(run[r].env, open[r].app)
    /\ run[r].pc = "stale" =>
          /\ \A a \in InAll : apps[a] = Result(run[r].env, a)
          /\ run[r].todo = Present \ InAll
    /\ run[r].pc = "render" =>
          \A c \in Components \ run[r].todo :
              run[r].failures \/ rendered[c] = resolve(run[r].env, "ENVOY_GATEWAY_VERSION")
CalmInv == \A r \in Renders : run[r].calm => Done(r)

-----------------------------------------------------------------------------
(* The configuration.                                                      *)

LEMMA AppNames == Apps = {"casbin", "kafka", "platform", "security"} /\ DOMAIN Sorted = 1 .. 4
BY DEF Apps, Sorted

\* The first of some lines.
LEMMA FirstLine ==
    ASSUME NEW S \in SUBSET Nat, S # {}
    PROVE  \E i \in S : \A j \in S : i <= j
<1> DEFINE Less == {pair \in Nat \X Nat : pair[1] < pair[2]}
<1>1. IsWellFoundedOn(Less, Nat)
  BY NatLessThanWellFounded DEF OpToRel
<1>2. PICK i \in S : \A j \in S : ~<<j, i>> \in Less
  <2> HIDE DEF Less
  <2>. QED BY <1>1, WFMin
<1>3. ASSUME NEW j \in S PROVE i <= j
  <2>1. i \in Nat /\ j \in Nat /\ ~(j < i)
    BY <1>2
  <2>. QED BY <2>1
<1>. QED BY <1>3

\* What the files and the shell say is an environment.
LEMMA EnvironmentLoaded ==
    ASSUME NEW fs \in [FileLayers -> [Vars -> Seq(Values)]], NEW shell \in Envs
    PROVE  load_dotenv(fs, shell) \in Envs
<1> SUFFICES ASSUME NEW var \in Vars PROVE load_dotenv(fs, shell)[var] \in Values \cup {Unset}
  BY DEF Envs, load_dotenv
<1>1. PICK lines : lines = Lines(fs, var)
  OBVIOUS
<1>2. lines \in Seq(Values)
  BY <1>1 DEF Lines, FileLayers, Layers
<1>3. PICK set : set = {i \in DOMAIN lines : lines[i] # ""}
  OBVIOUS
<1>4. CASE shell[var] # Unset
  BY <1>4 DEF load_dotenv, Envs
<1>5. CASE shell[var] = Unset /\ set = {}
  BY <1>1, <1>3, <1>5 DEF load_dotenv
<1>6. CASE shell[var] = Unset /\ set # {}
  <2>1. set \in SUBSET Nat /\ DOMAIN lines = 1 .. Len(lines)
    <3>1. DOMAIN lines = 1 .. Len(lines) /\ Len(lines) \in Nat
      BY <1>2, LenProperties
    <3>2. set \subseteq 1 .. Len(lines)
      BY <1>3, <3>1
    <3>. QED BY <3>1, <3>2
  <2>2. PICK i : i = CHOOSE k \in set : \A j \in set : k <= j
    OBVIOUS
  <2>3. i \in set
    BY <1>6, <2>1, <2>2, FirstLine
  <2>4. load_dotenv(fs, shell)[var] = lines[i]
    BY <1>1, <1>3, <1>6, <2>2 DEF load_dotenv
  <2>. QED BY <1>2, <1>3, <2>1, <2>3, <2>4, ElementOfSeq
<1>. QED BY <1>4, <1>5, <1>6

\* What an environment asks for, spelled out, is what the toggles of it enable.
LEMMA WantedIsEnabled ==
    ASSUME NEW env
    PROVE  Wanted(env) = {a \in Apps : is_app_enabled(env, a)}
BY AppNames DEF Wanted, is_app_enabled, is_enabled, truthy, ALWAYS_INCLUDED, APP_TOGGLE_MAP,
                CORE_TOGGLES, ENABLED_DEFAULTS

-----------------------------------------------------------------------------
(* How a step changes the slots.                                           *)

LEMMA Typed ==
    ASSUME TypeInv, NEW r \in Renders
    PROVE  /\ run[r] \in Programs /\ Slot(run[r]) /\ run[r].env \in Envs
           /\ run[r].todo \subseteq (Apps \cup Components) /\ run[r].kept \subseteq Apps
           /\ run[r].dry \in BOOLEAN /\ run[r].failures \in BOOLEAN /\ run[r].calm \in BOOLEAN
           /\ run[r].prog \in {"none", "apps", "overlays"}
           /\ run[r].pc \in {"ended", "render"} \cup AppsLabels
           /\ run[r].pc \in AppsLabels => run[r].todo \subseteq Apps /\ run[r].prog = "apps"
           /\ run[r].pc = "render" => run[r].todo \subseteq Components /\ run[r].prog = "overlays"
           /\ run[r].pc \in DirLabels => all # NoDir
BY DEF TypeInv, TypeOK, Slot, Programs, AppsLabels

LEMMA EndedTyped ==
    /\ Blank \in Envs /\ Slot(Ended) /\ Ended.pc = "ended" /\ ~Ended.calm
    /\ Ended.todo = {} /\ Ended.kept = {}
BY DEF Blank, Envs, Ended, Programs, Slot, AppsLabels

\* A program goes on: at another label, with another list and maybe other files that it
\* keeps, while nothing changes of any other program.
On(r, label, todo, kept) ==
    /\ run[r].pc # "ended" /\ run' \in [Renders -> Programs] /\ Slot(run'[r])
    /\ run'[r].pc = label /\ run'[r].todo = todo /\ run'[r].kept = kept
    /\ run'[r].env = run[r].env /\ run'[r].dry = run[r].dry /\ run'[r].calm = run[r].calm
    /\ \A q \in Renders \ {r} : run'[q] = run[q]

LEMMA GoesOn ==
    ASSUME TypeInv, NEW r \in Renders, NEW p \in Programs, run' = [run EXCEPT ![r] = p],
           run[r].pc \in AppsLabels, p.pc \in AppsLabels, p.todo \in SUBSET Apps,
           p.prog = run[r].prog, p.env = run[r].env, p.dry = run[r].dry, p.calm = run[r].calm
    PROVE  On(r, p.pc, p.todo, p.kept)
<1>1. run \in [Renders -> Programs]
  BY DEF TypeInv, TypeOK
<1>2. run' \in [Renders -> Programs] /\ run'[r] = p /\ \A q \in Renders \ {r} : run'[q] = run[q]
  BY <1>1
<1>3. Slot(p)
  BY Typed DEF Slot, AppsLabels
<1>. QED BY <1>2, <1>3 DEF On, AppsLabels

LEMMA Goes ==
    ASSUME TypeInv, NEW r \in Renders, NEW label \in AppsLabels, NEW todo \in SUBSET Apps,
           Go(r, label, todo), run[r].pc \in AppsLabels
    PROVE  On(r, label, todo, run[r].kept)
<1>1. PICK p : p = [[run[r] EXCEPT !.pc = label] EXCEPT !.todo = todo]
  OBVIOUS
<1>2. run' = [run EXCEPT ![r] = p]
  BY <1>1 DEF Go
<1>3. /\ p \in Programs /\ p.pc = label /\ p.todo = todo /\ p.kept = run[r].kept
      /\ p.prog = run[r].prog /\ p.env = run[r].env /\ p.dry = run[r].dry /\ p.calm = run[r].calm
  BY <1>1, Typed DEF Programs, AppsLabels
<1>4. On(r, p.pc, p.todo, p.kept)
  BY <1>2, <1>3, GoesOn
<1>. QED BY <1>3, <1>4

LEMMA GoesKeeping ==
    ASSUME TypeInv, NEW r \in Renders, NEW label \in AppsLabels, NEW todo \in SUBSET Apps,
           NEW kept \in SUBSET Apps, run[r].pc \in AppsLabels,
           run' = [run EXCEPT ![r].pc = label, ![r].todo = todo, ![r].kept = kept]
    PROVE  On(r, label, todo, kept)
<1>1. PICK p : p = [[[run[r] EXCEPT !.pc = label] EXCEPT !.todo = todo] EXCEPT !.kept = kept]
  OBVIOUS
<1>2. run' = [run EXCEPT ![r] = p]
  BY <1>1
<1>3. /\ p \in Programs /\ p.pc = label /\ p.todo = todo /\ p.kept = kept
      /\ p.prog = run[r].prog /\ p.env = run[r].env /\ p.dry = run[r].dry /\ p.calm = run[r].calm
  BY <1>1, Typed DEF Programs, AppsLabels
<1>4. On(r, p.pc, p.todo, p.kept)
  BY <1>2, <1>3, GoesOn
<1>. QED BY <1>3, <1>4

\* A component is rendered, or not.
LEMMA RendersOn ==
    ASSUME TypeInv, NEW r \in Renders, NEW c, NEW built \in BOOLEAN, run[r].pc = "render",
           run' = [run EXCEPT ![r].todo = @ \ {c}, ![r].failures = @ \/ ~built]
    PROVE  /\ On(r, "render", run[r].todo \ {c}, run[r].kept)
           /\ run'[r].failures <=> run[r].failures \/ ~built
<1>1. PICK p : p = [[run[r] EXCEPT !.todo = run[r].todo \ {c}]
                        EXCEPT !.failures = run[r].failures \/ ~built]
  OBVIOUS
<1>2. run' = [run EXCEPT ![r] = p]
  BY <1>1
<1>3. /\ p.pc = "render" /\ p.todo = run[r].todo \ {c} /\ p.kept = run[r].kept
      /\ p.failures <=> run[r].failures \/ ~built
      /\ p.prog = run[r].prog /\ p.env = run[r].env /\ p.dry = run[r].dry /\ p.calm = run[r].calm
  BY <1>1, Typed DEF Programs
<1>4. Slot(p)
  <2>1. p \in Programs
    BY <1>1, Typed DEF Programs
  <2>2. p.todo \subseteq Components /\ p.prog = "overlays"
    BY <1>3, Typed
  <2>. QED BY <1>3, <2>1, <2>2 DEF Slot, AppsLabels
<1>5. run \in [Renders -> Programs]
  BY DEF TypeInv, TypeOK
<1>6. run' \in [Renders -> Programs] /\ run'[r] = p /\ \A q \in Renders \ {r} : run'[q] = run[q]
  BY <1>2, <1>4, <1>5 DEF Slot
<1>. QED BY <1>3, <1>4, <1>6 DEF On

\* A program ends: its slot is free, and its outcome is known if it was the only one.
Outcomes == [prog : {"none", "apps", "overlays"}, dry : BOOLEAN, env : Envs, rc : {0, 1},
             calm : BOOLEAN]

LEMMA UnknownTyped == Unknown \in Outcomes /\ ~Unknown.calm
BY EndedTyped DEF Unknown, Outcomes

LEMMA Exits ==
    ASSUME TypeInv, NEW r \in Renders, NEW rc \in {0, 1}, Exit(r, rc)
    PROVE  /\ run'[r] = Ended
           /\ \A q \in Renders \ {r} : run'[q] = run[q]
           /\ run' \in [Renders -> Programs]
           /\ last' \in Outcomes
           /\ last'.calm => /\ Running = {r} /\ run[r].calm
                            /\ last'.prog = run[r].prog /\ last'.dry = run[r].dry
                            /\ last'.env = run[r].env /\ last'.rc = rc
<1>1. run' = [run EXCEPT ![r] = Ended]
  BY DEF Exit
<1>2. CASE Running = {r}
  <2>1. last' = [prog |-> run[r].prog, dry |-> run[r].dry, env |-> run[r].env, rc |-> rc,
                 calm |-> run[r].calm]
    BY <1>2 DEF Exit
  <2>. QED BY <1>1, <1>2, <2>1, Typed, EndedTyped DEF TypeInv, TypeOK, Outcomes, Slot
<1>3. CASE Running # {r}
  <2>1. last' = Unknown
    BY <1>3 DEF Exit
  <2>. QED BY <1>1, <2>1, EndedTyped, UnknownTyped DEF TypeInv, TypeOK, Slot
<1>. QED BY <1>2, <1>3

\* A program starts; what ran before is not calm any more.
LEMMA Starts ==
    ASSUME TypeInv, NEW r \in Renders, Start(r)
    PROVE  /\ Slot(run'[r]) /\ run' \in [Renders -> Programs]
           /\ run'[r].pc \in {"bootstrap", "render"}
           /\ run'[r].pc = "render" => run'[r].todo = Components
           /\ run'[r].kept = {}
           /\ run'[r].calm => Running = {}
           /\ \A q \in Renders \ {r} : /\ Slot(run'[q]) /\ ~run'[q].calm
                                       /\ run'[q].pc = run[q].pc
                                       /\ run'[q].todo = run[q].todo
                                       /\ run'[q].kept = run[q].kept
<1>1. PICK shell \in Shells, prog \in {"apps", "overlays"}, dry \in BOOLEAN :
          /\ dry => prog = "apps"
          /\ prog = "overlays" => Running = {}
          /\ run' = [q \in Renders |->
                 IF q = r
                 THEN [Ended EXCEPT !.prog = prog, !.dry = dry, !.env = load_dotenv(files, shell),
                                    !.pc = IF prog = "apps" THEN "bootstrap" ELSE "render",
                                    !.todo = IF prog = "apps" THEN {} ELSE Components,
                                    !.calm = Running = {}]
                 ELSE [run[q] EXCEPT !.calm = FALSE]]
  BY Zenon DEF Start
<1>2. load_dotenv(files, shell) \in Envs
  BY EnvironmentLoaded, AppOfAppsAssumption DEF TypeInv, TypeOK, AppOfAppsAssumption
<1>3. /\ Slot(run'[r])
      /\ run'[r].pc \in {"bootstrap", "render"}
      /\ run'[r].pc = "render" => run'[r].todo = Components
      /\ run'[r].kept = {}
      /\ run'[r].calm => Running = {}
  BY <1>1, <1>2 DEF Ended, Programs, Slot, AppsLabels
<1>4. ASSUME NEW q \in Renders \ {r}
      PROVE  /\ Slot(run'[q]) /\ ~run'[q].calm
             /\ run'[q].pc = run[q].pc /\ run'[q].todo = run[q].todo
             /\ run'[q].kept = run[q].kept
  <2>1. run'[q] = [run[q] EXCEPT !.calm = FALSE]
    BY <1>1
  <2>2. run[q] \in Programs /\ Slot(run[q])
    BY Typed
  <2>3. /\ run'[q] \in Programs /\ ~run'[q].calm /\ run'[q].pc = run[q].pc
        /\ run'[q].todo = run[q].todo /\ run'[q].prog = run[q].prog
        /\ run'[q].dry = run[q].dry /\ run'[q].env = run[q].env
        /\ run'[q].kept = run[q].kept /\ run'[q].failures = run[q].failures
    BY <2>1, <2>2 DEF Programs
  <2>4. run[q] = Ended => run'[q] = Ended
    <3>1. \A p \in Programs : p = [prog |-> p.prog, dry |-> p.dry, env |-> p.env, calm |-> p.calm,
              pc |-> p.pc, todo |-> p.todo, kept |-> p.kept, failures |-> p.failures]
      BY DEF Programs
    <3>2. run'[q].calm = FALSE
      BY <2>3 DEF Programs
    <3>3. PICK p : p = run'[q]
      OBVIOUS
    <3>4. p = [prog |-> p.prog, dry |-> p.dry, env |-> p.env, calm |-> p.calm,
               pc |-> p.pc, todo |-> p.todo, kept |-> p.kept, failures |-> p.failures]
      BY <2>3, <3>1, <3>3
    <3>5. SUFFICES ASSUME run[q] = Ended PROVE p = Ended
      BY <3>3
    <3>6. p.calm = Ended.calm
      BY <3>2, <3>3 DEF Ended
    <3>7. /\ p.prog = Ended.prog /\ p.pc = Ended.pc /\ p.dry = Ended.dry /\ p.env = Ended.env
          /\ p.todo = Ended.todo /\ p.kept = Ended.kept /\ p.failures = Ended.failures
      BY <2>3, <3>3, <3>5
    <3>8. Ended = [prog |-> Ended.prog, dry |-> Ended.dry, env |-> Ended.env, calm |-> Ended.calm,
                   pc |-> Ended.pc, todo |-> Ended.todo, kept |-> Ended.kept,
                   failures |-> Ended.failures]
      BY DEF Ended
    <3>. QED BY <3>4, <3>6, <3>7, <3>8
  <2>. QED BY <2>2, <2>3, <2>4 DEF Slot
<1>. QED BY <1>1, <1>3, <1>4 DEF Slot

-----------------------------------------------------------------------------
(* How a step changes the files.                                           *)

Kinds == [Apps -> {"absent", "part", "whole"}]
Versions == [Components -> {"absent", "part", DefaultVersion} \cup Values]
Copies == [app : Apps, at : {"apps", "all", "gone"}, will : {"part", "whole", "mixed"}]
Torn == SUBSET {"cut", "watched", "doubled"}

LEMMA DirTyped ==
    /\ EmptyDir \in Kinds /\ EmptyDir # NoDir
    /\ \A dir \in Kinds : dir # NoDir
<1>1. "casbin" \in Apps
  BY AppNames
<1>. QED BY <1>1 DEF EmptyDir, NoDir, Kinds

LEMMA FilesTyped ==
    ASSUME TypeInv
    PROVE  /\ apps \in Kinds /\ all \in Kinds \cup {NoDir} /\ (all # NoDir => all \in Kinds)
           /\ Present \subseteq Apps /\ InAll \subseteq Apps /\ (all = NoDir => InAll = {})
           /\ open \in [Renders -> Copies \cup {NoFile}]
           /\ rendered \in Versions /\ last \in Outcomes /\ torn \in Torn
           /\ \A r \in Renders : open[r] # NoFile =>
                 /\ run[r].pc = "copy" /\ open[r] \in Copies
                 /\ open[r].app \in run[r].todo /\ open[r].app \in InAll
<1>1. all = NoDir => InAll = {}
  BY DEF InAll, NoDir
<1>. QED BY <1>1 DEF TypeInv, TypeOK, Kinds, Versions, Copies, Torn, Outcomes, Present, InAll

LEMMA CopyTyped ==
    /\ NoFile \notin Copies /\ NoFile.app \notin Apps /\ NoFile.at = "gone" /\ NoFile.will = "whole"
BY AppNames DEF NoFile, Copies

\* gitops/apps loses a file.
LEMMA Vanishes ==
    ASSUME TypeInv, NEW a \in Apps, apps' = [apps EXCEPT ![a] = "absent"]
    PROVE  /\ apps' \in Kinds /\ Present' = Present \ {a} /\ apps'[a] = "absent"
           /\ \A b \in Apps \ {a} : apps'[b] = apps[b]
<1>1. apps \in Kinds
  BY FilesTyped
<1>. QED BY <1>1 DEF Kinds, Present

\* The copies that are being written stay what they are, but for where they are.
LEMMA Displacing ==
    ASSUME TypeInv, NEW a \in Apps, NEW to \in {"all", "gone"}, open' = Displaced(a, to)
    PROVE  /\ open' \in [Renders -> Copies \cup {NoFile}]
           /\ \A q \in Renders :
                 /\ open[q] = NoFile => open'[q] = NoFile
                 /\ open[q] # NoFile => open'[q] \in Copies
                 /\ open'[q].app = open[q].app /\ open'[q].will = open[q].will
                 /\ open'[q].at = "all" =>
                       open[q].at = "all" \/ (open[q].app = a /\ to = "all")
                 /\ open[q].app # a => open'[q] = open[q]
<1> SUFFICES ASSUME NEW q \in Renders
             PROVE  /\ open'[q] \in Copies \cup {NoFile}
                    /\ open[q] = NoFile => open'[q] = NoFile
                    /\ open[q] # NoFile => open'[q] \in Copies
                    /\ open'[q].app = open[q].app /\ open'[q].will = open[q].will
                    /\ open'[q].at = "all" =>
                          open[q].at = "all" \/ (open[q].app = a /\ to = "all")
                    /\ open[q].app # a => open'[q] = open[q]
  BY DEF Displaced
<1>1. open[q] \in Copies \cup {NoFile}
  BY FilesTyped
<1>2. CASE open[q].app # a
  <2>1. open'[q] = open[q]
    BY <1>2 DEF Displaced
  <2>. QED BY <1>1, <1>2, <2>1
<1>3. CASE open[q].app = a
  <2>1. open[q] \in Copies
    BY <1>1, <1>3, CopyTyped
  <2>2. PICK at : at = CASE open[q].at = "apps" -> to
                         [] open[q].at = "all" /\ to = "all" -> "gone"
                         [] OTHER -> open[q].at
    OBVIOUS
  <2>3. open'[q] = [open[q] EXCEPT !.at = at]
    BY <1>3, <2>2 DEF Displaced
  <2>4. at \in {"apps", "all", "gone"}
    BY <2>1, <2>2 DEF Copies
  <2>5. at = "all" => open[q].at = "all" \/ to = "all"
    BY <2>2
  <2>6. /\ open'[q] \in Copies /\ open'[q].at = at
        /\ open'[q].app = open[q].app /\ open'[q].will = open[q].will
    BY <2>1, <2>3, <2>4 DEF Copies
  <2>. QED BY <1>3, <2>1, <2>5, <2>6, CopyTyped
<1>. QED BY <1>2, <1>3

\* An application is moved.
LEMMA Moves ==
    ASSUME TypeInv, NEW r \in Renders, Move(r)
    PROVE  \E a \in run[r].todo :
              /\ a \in Apps /\ all \in Kinds
              /\ all' = [all EXCEPT ![a] = apps[a]] /\ all' \in Kinds /\ InAll' = InAll \cup {a}
              /\ apps[a] # "absent" /\ apps' = [apps EXCEPT ![a] = "absent"]
              /\ open' = Displaced(a, "all")
              /\ On(r, "move", run[r].todo \ {a}, run[r].kept)
<1>1. PICK a \in run[r].todo :
          /\ apps[a] # "absent"
          /\ all' = [all EXCEPT ![a] = apps[a]]
          /\ apps' = [apps EXCEPT ![a] = "absent"]
          /\ open' = Displaced(a, "all")
          /\ Go(r, "move", run[r].todo \ {a})
  BY DEF Move
<1>2. run[r].pc = "move" /\ run[r].todo \in SUBSET Apps /\ all \in Kinds /\ apps \in Kinds
  BY Typed, FilesTyped DEF Move, AppsLabels, DirLabels
<1>3. On(r, "move", run[r].todo \ {a}, run[r].kept)
  BY <1>1, <1>2, Goes DEF AppsLabels
<1>4. a \in Apps /\ apps[a] \in {"part", "whole"}
  BY <1>1, <1>2 DEF Kinds
<1>5. all' \in Kinds /\ InAll' = InAll \cup {a}
  BY <1>1, <1>2, <1>4 DEF Kinds, InAll
<1>. QED BY <1>1, <1>2, <1>3, <1>4, <1>5

LEMMA Removes ==
    ASSUME TypeInv, NEW r \in Renders, Remove(r)
    PROVE  \E a \in run[r].todo :
              /\ a \in Apps /\ run[r].pc = "copy" /\ open[r] = NoFile
              /\ ~is_app_enabled(run[r].env, a)
              /\ apps' = [apps EXCEPT ![a] = "absent"]
              /\ open' = Displaced(a, "gone")
              /\ On(r, "copy", run[r].todo \ {a}, run[r].kept)
<1>1. PICK a \in Apps :
          /\ AtFile(r, a) /\ ~is_app_enabled(run[r].env, a)
          /\ apps' = [apps EXCEPT ![a] = "absent"]
          /\ open' = Displaced(a, "gone")
          /\ Go(r, "copy", run[r].todo \ {a})
  BY DEF Remove
<1>2. run[r].pc = "copy" /\ open[r] = NoFile /\ a \in run[r].todo
  BY <1>1 DEF AtFile
<1>3. On(r, "copy", run[r].todo \ {a}, run[r].kept)
  BY <1>1, <1>2, Typed, Goes DEF AppsLabels
<1>. QED BY <1>1, <1>2, <1>3

\* A copy begins.  Only what others are writing can make it differ from the source.
LEMMA Opens ==
    ASSUME TypeInv, NEW r \in Renders, Open(r)
    PROVE  \E a \in run[r].todo :
              /\ a \in InAll /\ run[r].pc = "copy" /\ is_app_enabled(run[r].env, a)
              /\ apps' = [apps EXCEPT ![a] = "part"] /\ apps' \in Kinds
              /\ open' \in [Renders -> Copies \cup {NoFile}]
              /\ open'[r].app = a /\ open'[r].at = "apps" /\ open'[r].will \in {"mixed", all[a]}
              /\ (\A q \in Renders : open[q] = NoFile) => open'[r].will = all[a]
              /\ \A q \in Renders \ {r} :
                    /\ open[q] = NoFile => open'[q] = NoFile
                    /\ open[q] # NoFile => open'[q] \in Copies
                    /\ open'[q].app = open[q].app /\ open'[q].at = open[q].at
                    /\ open'[q].will \in {"mixed", open[q].will}
<1>1. PICK a \in Apps :
          /\ AtFile(r, a) /\ is_app_enabled(run[r].env, a)
          /\ apps' = [apps EXCEPT ![a] = "part"]
          /\ open' = [q \in Renders |->
                IF q = r
                THEN [app |-> a, at |-> "apps",
                      will |-> IF \E w \in Renders : open[w].app = a /\ open[w].at = "all"
                               THEN "mixed" ELSE all[a]]
                ELSE IF open[q].app = a /\ open[q].at = "apps"
                     THEN [open[q] EXCEPT !.will = "mixed"] ELSE open[q]]
  BY DEF Open
<1>2. run[r].pc = "copy" /\ a \in run[r].todo /\ a \in InAll
  BY <1>1 DEF AtFile, TypeInv
<1>3. all[a] \in {"part", "whole"} /\ apps' \in Kinds
  <2>1. apps \in Kinds
    BY FilesTyped
  <2>. QED BY <1>1, <1>2, <2>1 DEF InAll, Kinds
<1>4. /\ open'[r] \in Copies /\ open'[r].app = a /\ open'[r].at = "apps"
      /\ open'[r].will \in {"mixed", all[a]}
  <2>1. PICK will \in {"mixed", all[a]} : open'[r] = [app |-> a, at |-> "apps", will |-> will]
    BY <1>1
  <2>. QED BY <1>3, <2>1 DEF Copies
<1>5. ASSUME \A q \in Renders : open[q] = NoFile PROVE open'[r].will = all[a]
  <2>1. ~\E w \in Renders : open[w].app = a /\ open[w].at = "all"
    BY <1>5, CopyTyped
  <2>2. open'[r] = [app |-> a, at |-> "apps", will |-> all[a]]
    BY <1>1, <2>1
  <2>. QED BY <2>2
<1>6. ASSUME NEW q \in Renders \ {r}
      PROVE  /\ open'[q] \in Copies \cup {NoFile}
             /\ open[q] = NoFile => open'[q] = NoFile
             /\ open[q] # NoFile => open'[q] \in Copies
             /\ open'[q].app = open[q].app /\ open'[q].at = open[q].at
             /\ open'[q].will \in {"mixed", open[q].will}
  <2>1. open[q] \in Copies \cup {NoFile}
    BY FilesTyped
  <2>2. CASE open[q].app = a /\ open[q].at = "apps"
    <3>1. open[q] \in Copies /\ open'[q] = [open[q] EXCEPT !.will = "mixed"]
      BY <1>1, <2>1, <2>2, CopyTyped
    <3>. QED BY <3>1, CopyTyped DEF Copies
  <2>3. CASE ~(open[q].app = a /\ open[q].at = "apps")
    <3>1. open'[q] = open[q]
      BY <1>1, <2>3
    <3>. QED BY <2>1, <3>1
  <2>. QED BY <2>2, <2>3
<1>7. open' \in [Renders -> Copies \cup {NoFile}]
  BY <1>1, <1>4, <1>6
<1>. QED BY <1>1, <1>2, <1>3, <1>4, <1>5, <1>6, <1>7

\* A copy ends, in gitops/apps, in apps.all or in a file that has no name any more.
LEMMA Writes ==
    ASSUME TypeInv, NEW r \in Renders, Write(r)
    PROVE  \E content \in {"part", "whole"} :
              /\ run[r].pc = "copy" /\ open[r] # NoFile
              /\ open[r].app \in run[r].todo /\ open[r].app \in InAll
              /\ open[r].will # "mixed" => content = open[r].will
              /\ apps' = IF open[r].at = "apps" THEN [apps EXCEPT ![open[r].app] = content]
                                                ELSE apps
              /\ all' = IF open[r].at = "all" THEN [all EXCEPT ![open[r].app] = content]
                                              ELSE all
              /\ apps' \in Kinds /\ all' \in Kinds /\ InAll' = InAll /\ Present \subseteq Present'
              /\ open'[r] = NoFile /\ \A q \in Renders \ {r} : open'[q] = open[q]
              /\ open' \in [Renders -> Copies \cup {NoFile}]
              /\ On(r, "copy", run[r].todo \ {open[r].app}, run[r].kept)
<1>1. PICK content \in {"part", "whole"} :
          /\ open[r].will # "mixed" => content = open[r].will
          /\ apps' = IF open[r].at = "apps" THEN [apps EXCEPT ![open[r].app] = content] ELSE apps
          /\ all' = IF open[r].at = "all" THEN [all EXCEPT ![open[r].app] = content] ELSE all
  BY DEF Write
<1>2. /\ run[r].pc = "copy" /\ open[r] # NoFile /\ open[r].app \in InAll
      /\ open[r].app \in run[r].todo /\ run[r].todo \in SUBSET Apps
      /\ apps \in Kinds /\ all \in Kinds
  BY Typed, FilesTyped DEF Write, AppsLabels, DirLabels
<1>3. /\ apps' \in Kinds /\ all' \in Kinds /\ InAll' = InAll /\ Present \subseteq Present'
  BY <1>1, <1>2 DEF Kinds, InAll, Present
<1>4. On(r, "copy", run[r].todo \ {open[r].app}, run[r].kept)
  BY <1>2, Goes DEF Write, AppsLabels
<1>5. /\ open'[r] = NoFile /\ \A q \in Renders \ {r} : open'[q] = open[q]
      /\ open' \in [Renders -> Copies \cup {NoFile}]
  <2>1. open \in [Renders -> Copies \cup {NoFile}]
    BY FilesTyped
  <2>. QED BY <2>1 DEF Write
<1>. QED BY <1>1, <1>2, <1>3, <1>4, <1>5

\* A stale file is removed.
LEMMA RemovesStale ==
    ASSUME TypeInv, NEW r \in Renders, RemoveStale(r)
    PROVE  \E a \in run[r].todo :
              /\ a \in Apps /\ run[r].pc = "stale"
              /\ apps' = [apps EXCEPT ![a] = "absent"]
              /\ open' = Displaced(a, "gone")
              /\ On(r, "stale", run[r].todo \ {a}, run[r].kept)
<1>1. PICK a \in run[r].todo :
          /\ apps' = [apps EXCEPT ![a] = "absent"]
          /\ open' = Displaced(a, "gone")
          /\ Go(r, "stale", run[r].todo \ {a})
  BY DEF RemoveStale
<1>2. run[r].pc = "stale" /\ run[r].todo \in SUBSET Apps
  BY Typed DEF RemoveStale, AppsLabels
<1>3. On(r, "stale", run[r].todo \ {a}, run[r].kept)
  BY <1>1, <1>2, Goes DEF AppsLabels
<1>. QED BY <1>1, <1>2, <1>3

\* The list of apps.all is made; a --dry-run ends there.
LEMMA Lists ==
    ASSUME TypeInv, NEW r \in Renders, List(r)
    PROVE  \/ \E rc \in {0, 1} : Exit(r, rc) /\ (rc = 0 => run[r].dry)
           \/ On(r, "copy", InAll, InAll) /\ last' = last
<1>1. CASE InAll = {} \/ run[r].dry
  BY <1>1 DEF List
<1>2. CASE ~(InAll = {} \/ run[r].dry)
  <2>1. run' = [run EXCEPT ![r].pc = "copy", ![r].todo = InAll, ![r].kept = InAll] /\ last' = last
    BY <1>2 DEF List
  <2>. QED BY <2>1, FilesTyped, GoesKeeping DEF List, AppsLabels
<1>. QED BY <1>1, <1>2

LEMMA LooksForStale ==
    ASSUME TypeInv, NEW r \in Renders, LookForStale(r)
    PROVE  On(r, "stale", Present \ run[r].kept, {})
<1>1. Present \ run[r].kept \in SUBSET Apps /\ {} \in SUBSET Apps
  BY FilesTyped
<1>. QED BY <1>1, GoesKeeping DEF LookForStale, AppsLabels

-----------------------------------------------------------------------------
(* Type correctness.                                                       *)

LEMMA TypeInit == Init => TypeInv
<1> SUFFICES ASSUME Init PROVE TypeInv
  OBVIOUS
<1>1. files \in [FileLayers -> [Vars -> Seq(Values)]]
  BY DEF Init
<1>2. /\ run \in [Renders -> Programs]
      /\ \A r \in Renders : run[r] = Ended /\ Slot(run[r]) /\ open[r] = NoFile
  BY EndedTyped DEF Init, Slot
<1>3. last \in Outcomes
  BY UnknownTyped DEF Init
<1>4. /\ apps \in [Apps -> {"absent", "part", "whole"}] /\ all \in {NoDir, apps}
      /\ rendered \in [Components -> {"absent", "part", DefaultVersion} \cup Values]
      /\ torn \subseteq {"cut", "watched", "doubled"} /\ edits \in 0 .. MaxEdits
  <2>1. 0 \in 0 .. MaxEdits
    BY AppOfAppsAssumption DEF AppOfAppsAssumption
  <2>. QED BY <2>1 DEF Init
<1>5. \A r \in Renders : run[r].todo \subseteq IF run[r].prog = "apps" THEN Apps ELSE Components
  BY <1>2 DEF Slot
<1>6. open \in [Renders -> [app : Apps, at : {"apps", "all", "gone"},
                          will : {"part", "whole", "mixed"}] \cup {NoFile}]
  BY DEF Init
<1>7. TypeOK
  BY <1>1, <1>2, <1>3, <1>4, <1>5, <1>6 DEF TypeOK, Outcomes
<1>. QED BY <1>2, <1>7, EndedTyped DEF TypeInv, DirLabels

\* A step that only moves one program on, or ends it, and writes to gitops keeps the types.
LEMMA StepTyped ==
    ASSUME TypeInv, NEW r \in Renders, UNCHANGED <<files, edits>>,
           run' \in [Renders -> Programs], Slot(run'[r]),
           \A q \in Renders \ {r} : /\ Slot(run'[q]) /\ run'[q].pc = run[q].pc
                                   /\ run'[q].todo = run[q].todo /\ run'[q].kept = run[q].kept,
           run'[r].pc \in DirLabels => all' # NoDir, all # NoDir => all' # NoDir,
           InAll \subseteq InAll', run'[r].kept \subseteq InAll',
           run'[r].pc = "copy" => run'[r].todo \subseteq run'[r].kept,
           last' \in Outcomes, torn' \in Torn,
           apps' \in Kinds, all' \in Kinds \cup {NoDir}, rendered' \in Versions,
           open' \in [Renders -> Copies \cup {NoFile}],
           \A q \in Renders \ {r} : open[q] = NoFile => open'[q] = NoFile,
           \A q \in Renders \ {r} : open'[q].app = open[q].app,
           open'[r] # NoFile => run'[r].pc = "copy" /\ open'[r].app \in run'[r].todo
    PROVE  TypeInv'
<1>1. \A q \in Renders : open'[q] # NoFile => run'[q].pc = "copy" /\ open'[q].app \in run'[q].todo
  BY FilesTyped
<1>2. \A q \in Renders :
        /\ Slot(run'[q]) /\ (run'[q].pc \in DirLabels => all' # NoDir)
        /\ run'[q].kept \subseteq InAll'
        /\ run'[q].pc = "copy" => run'[q].todo \subseteq run'[q].kept
  BY DEF TypeInv
<1>3. TypeOK'
  <2>1. files' \in [FileLayers -> [Vars -> Seq(Values)]] /\ edits' \in 0 .. MaxEdits
    BY DEF TypeInv, TypeOK
  <2>2. \A q \in Renders :
          /\ run'[q].pc = "ended" => run'[q] = Ended
          /\ run'[q].todo \subseteq IF run'[q].prog = "apps" THEN Apps ELSE Components
    BY <1>2 DEF Slot
  <2>. QED BY <1>1, <2>1, <2>2 DEF TypeOK, Outcomes, Kinds, Versions, Copies, Torn
<1>. QED BY <1>2, <1>3 DEF TypeInv

\* The same of a program that goes on.
LEMMA OnTyped ==
    ASSUME TypeInv, NEW r \in Renders, NEW label, NEW todo, NEW kept,
           On(r, label, todo, kept), UNCHANGED <<files, edits>>,
           label \in DirLabels => all' # NoDir, all # NoDir => all' # NoDir,
           InAll \subseteq InAll', kept \subseteq InAll', label = "copy" => todo \subseteq kept,
           last' = last, torn' \in Torn, apps' \in Kinds, all' \in Kinds \cup {NoDir},
           rendered' \in Versions, open' \in [Renders -> Copies \cup {NoFile}],
           \A q \in Renders \ {r} : open[q] = NoFile => open'[q] = NoFile,
           \A q \in Renders \ {r} : open'[q].app = open[q].app,
           open'[r] # NoFile => label = "copy" /\ open'[r].app \in todo
    PROVE  TypeInv'
<1>1. last' \in Outcomes /\ \A q \in Renders : Slot(run[q])
  BY FilesTyped DEF TypeInv
<1>2. /\ run' \in [Renders -> Programs] /\ Slot(run'[r])
      /\ run'[r].pc = label /\ run'[r].todo = todo /\ run'[r].kept = kept
      /\ \A q \in Renders \ {r} : run'[q] = run[q]
  BY DEF On
<1>. QED BY <1>1, <1>2, StepTyped

\* The same of a program that ends, which is not writing then.
LEMMA EndTyped ==
    ASSUME TypeInv, NEW r \in Renders, run'[r] = Ended, run' \in [Renders -> Programs],
           \A q \in Renders \ {r} : run'[q] = run[q] /\ open'[q] = open[q],
           open' \in [Renders -> Copies \cup {NoFile}], open'[r] = NoFile,
           last' \in Outcomes, torn' \in Torn, rendered' \in Versions,
           UNCHANGED <<files, apps, all, edits>>
    PROVE  TypeInv'
<1>1. InAll' = InAll /\ \A q \in Renders : Slot(run[q])
  BY DEF InAll, TypeInv
<1>2. /\ Slot(run'[r]) /\ run'[r].pc \notin DirLabels /\ run'[r].pc # "copy"
      /\ run'[r].kept \subseteq InAll'
  BY EndedTyped DEF DirLabels
<1>3. apps' \in Kinds /\ all' \in Kinds \cup {NoDir}
  BY FilesTyped
<1>. QED BY <1>1, <1>2, <1>3, StepTyped

LEMMA ExitTyped ==
    ASSUME TypeInv, NEW r \in Renders, NEW rc \in {0, 1}, Exit(r, rc), run[r].pc # "copy",
           UNCHANGED <<files, apps, all, open, edits, rendered>>, torn' \in Torn
    PROVE  TypeInv'
<1>1. open[r] = NoFile /\ open \in [Renders -> Copies \cup {NoFile}] /\ rendered \in Versions
  BY FilesTyped
<1>. QED BY <1>1, Exits, EndTyped

\* What a version resolves to is one.
LEMMA VersionTyped ==
    ASSUME NEW env \in Envs
    PROVE  resolve(env, "ENVOY_GATEWAY_VERSION") \in {DefaultVersion} \cup Values
BY DEF resolve, Envs, Vars

LEMMA TypeEdit == TypeInv /\ Edit => TypeInv'
<1> SUFFICES ASSUME TypeInv, Edit PROVE TypeInv'
  OBVIOUS
<1>1. PICK line \in Edits :
          \/ files' = [files EXCEPT ![line.file][line.var] = <<line.value>>]
          \/ files' = [files EXCEPT ![line.file][line.var] = Append(@, line.value)]
  BY DEF Edit
<1>2. line.file \in FileLayers /\ line.var \in Vars /\ line.value \in Values
  BY AppOfAppsAssumption DEF AppOfAppsAssumption
<1>3. files[line.file][line.var] \in Seq(Values) /\ files \in [FileLayers -> [Vars -> Seq(Values)]]
  BY <1>2 DEF TypeInv, TypeOK
<1>4. PICK lines \in Seq(Values) : files' = [files EXCEPT ![line.file][line.var] = lines]
  <2>1. <<line.value>> \in Seq(Values) /\ Append(files[line.file][line.var], line.value) \in Seq(Values)
    BY <1>2, <1>3
  <2>. QED BY <1>1, <2>1
<1>5. files' \in [FileLayers -> [Vars -> Seq(Values)]]
  <2>1. PICK file : file = [files[line.file] EXCEPT ![line.var] = lines]
    OBVIOUS
  <2>2. files[line.file] \in [Vars -> Seq(Values)]
    BY <1>2, <1>3
  <2>3. file \in [Vars -> Seq(Values)]
    BY <2>1, <2>2
  <2>4. files' = [files EXCEPT ![line.file] = file]
    BY <1>4, <2>1
  <2>. QED BY <1>2, <1>3, <2>3, <2>4
<1>6. edits' \in 0 .. MaxEdits
  BY AppOfAppsAssumption DEF Edit, TypeInv, TypeOK, AppOfAppsAssumption
<1>. QED BY <1>5, <1>6 DEF Edit, TypeInv, TypeOK, Slot, InAll

LEMMA TypeStep == TypeInv /\ [Next]_vars => TypeInv'
<1> SUFFICES ASSUME TypeInv, [Next]_vars PROVE TypeInv'
  OBVIOUS
<1>0. /\ apps \in Kinds /\ all \in Kinds \cup {NoDir} /\ rendered \in Versions
      /\ last \in Outcomes /\ torn \in Torn /\ run \in [Renders -> Programs]
      /\ open \in [Renders -> Copies \cup {NoFile}]
      /\ \A r \in Renders : Slot(run[r]) /\ run[r].kept \subseteq InAll
      /\ \A r \in Renders : run[r].pc # "copy" => open[r] = NoFile
      /\ \A r \in Renders : run[r].pc \in AppsLabels => run[r].todo \in SUBSET Apps
      /\ \A r \in Renders : run[r].pc \in DirLabels => all # NoDir
      /\ \A r \in Renders : run[r].pc = "copy" => run[r].todo \subseteq run[r].kept
  BY FilesTyped, Typed DEF TypeInv, TypeOK
<1>1. CASE UNCHANGED vars
  BY <1>1 DEF vars, TypeInv, TypeOK, Slot, InAll
<1>2. CASE Edit
  BY <1>2, TypeEdit
<1>3. ASSUME NEW r \in Renders, Start(r) PROVE TypeInv'
  <2>1. run'[r].pc \notin DirLabels /\ run'[r].kept = {} /\ run'[r].pc # "copy"
    BY <1>3, Starts DEF DirLabels
  <2>2. /\ UNCHANGED <<files, apps, all, rendered, open, torn, edits>> /\ last' \in Outcomes
        /\ open[r] = NoFile /\ InAll' = InAll
    BY <1>0, <1>3, UnknownTyped DEF Start, InAll
  <2>3. /\ run' \in [Renders -> Programs] /\ Slot(run'[r])
        /\ \A q \in Renders \ {r} : /\ Slot(run'[q]) /\ run'[q].pc = run[q].pc
                                   /\ run'[q].todo = run[q].todo /\ run'[q].kept = run[q].kept
    BY <1>3, Starts
  <2>. QED BY <1>0, <2>1, <2>2, <2>3, StepTyped
\* A step that only goes on, not to the copying, with nothing written.
<1>4. ASSUME NEW r \in Renders, NEW label, NEW todo, NEW kept, On(r, label, todo, kept),
             UNCHANGED <<files, apps, all, rendered, open, last, edits>>, torn' \in Torn,
             run[r].pc # "copy" \/ run[r].todo = {}, label \in DirLabels => all # NoDir,
             kept \subseteq InAll, label = "copy" => todo \subseteq kept
      PROVE  TypeInv'
  <2>1. InAll' = InAll /\ open[r] = NoFile
    BY <1>4, FilesTyped DEF InAll
  <2>. QED BY <1>0, <1>4, <2>1, OnTyped
<1>5. ASSUME NEW r \in Renders, bootstrap_apps_all(r) PROVE TypeInv'
  <2>1. /\ run[r].pc = "bootstrap" /\ torn' \in Torn
        /\ UNCHANGED <<files, apps, all, rendered, open, last, edits>>
        /\ (all # NoDir /\ Go(r, "list", {})) \/ Go(r, "mkdir", {})
    BY <1>0, <1>5 DEF bootstrap_apps_all, Torn
  <2>2. (all # NoDir /\ On(r, "list", {}, run[r].kept)) \/ On(r, "mkdir", {}, run[r].kept)
    BY <2>1, Goes DEF AppsLabels
  <2>. QED BY <1>0, <1>4, <2>1, <2>2 DEF DirLabels
<1>6. ASSUME NEW r \in Renders, mkdir(r) PROVE TypeInv'
  <2>1. /\ run[r].pc = "mkdir" /\ torn' \in Torn
        /\ UNCHANGED <<files, apps, rendered, open, last, edits>>
        /\ (all = NoDir /\ all' = EmptyDir) \/ (all # NoDir /\ all' = all)
    BY <1>0, <1>6 DEF mkdir, Torn
  <2>2. On(r, "glob", {}, run[r].kept)
    BY <1>6, Goes DEF mkdir, AppsLabels
  <2>3. all' \in Kinds /\ all' # NoDir /\ InAll \subseteq InAll'
    BY <1>0, <2>1, DirTyped, FilesTyped DEF InAll
  <2>. QED BY <1>0, <2>1, <2>2, <2>3, OnTyped
<1>7. ASSUME NEW r \in Renders, glob(r) PROVE TypeInv'
  <2>1. On(r, "move", Present, run[r].kept)
    BY <1>7, FilesTyped, Goes DEF glob, AppsLabels
  <2>. QED BY <1>0, <1>4, <1>7, <2>1 DEF glob, DirLabels
<1>8. ASSUME NEW r \in Renders, Move(r) PROVE TypeInv'
  <2>1. PICK a \in run[r].todo :
            /\ a \in Apps /\ all \in Kinds
            /\ all' \in Kinds /\ InAll' = InAll \cup {a}
            /\ apps' = [apps EXCEPT ![a] = "absent"]
            /\ open' = Displaced(a, "all")
            /\ On(r, "move", run[r].todo \ {a}, run[r].kept)
    BY <1>8, Moves
  <2>2. apps' \in Kinds /\ all' # NoDir
    BY <2>1, Vanishes, DirTyped
  <2>3. /\ open' \in [Renders -> Copies \cup {NoFile}] /\ open'[r] = NoFile
        /\ \A q \in Renders : open'[q].app = open[q].app /\ (open[q] = NoFile => open'[q] = NoFile)
    BY <1>0, <1>8, <2>1, Displacing DEF Move
  <2>4. UNCHANGED <<files, rendered, last, torn, edits>>
    BY <1>8 DEF Move
  <2>. QED BY <1>0, <2>1, <2>2, <2>3, <2>4, OnTyped
<1>9. ASSUME NEW r \in Renders, MoveFails(r) PROVE TypeInv'
  <2>1. torn' \in Torn
    BY <1>0, <1>9 DEF MoveFails, Torn
  <2>. QED BY <1>9, <2>1, ExitTyped DEF MoveFails
<1>10. ASSUME NEW r \in Renders, Moved(r) PROVE TypeInv'
  <2>1. On(r, "list", {}, run[r].kept)
    BY <1>10, Goes DEF Moved, AppsLabels
  <2>. QED BY <1>0, <1>4, <1>10, <2>1 DEF Moved, DirLabels
<1>11. ASSUME NEW r \in Renders, List(r) PROVE TypeInv'
  <2>1. run[r].pc = "list" /\ UNCHANGED <<files, apps, all, rendered, open, torn, edits>>
    BY <1>11 DEF List
  <2>2. ASSUME NEW rc \in {0, 1}, Exit(r, rc) PROVE TypeInv'
    BY <1>0, <2>1, <2>2, ExitTyped
  <2>3. CASE On(r, "copy", InAll, InAll) /\ last' = last
    BY <1>0, <1>4, <2>1, <2>3 DEF DirLabels
  <2>. QED BY <1>11, <2>2, <2>3, Lists
<1>12. ASSUME NEW r \in Renders, Remove(r) PROVE TypeInv'
  <2>1. PICK a \in run[r].todo :
            /\ a \in Apps /\ run[r].pc = "copy" /\ open[r] = NoFile
            /\ apps' = [apps EXCEPT ![a] = "absent"]
            /\ open' = Displaced(a, "gone")
            /\ On(r, "copy", run[r].todo \ {a}, run[r].kept)
    BY <1>12, Removes
  <2>2. apps' \in Kinds
    BY <2>1, Vanishes
  <2>3. /\ open' \in [Renders -> Copies \cup {NoFile}] /\ open'[r] = NoFile
        /\ \A q \in Renders : open'[q].app = open[q].app /\ (open[q] = NoFile => open'[q] = NoFile)
    BY <2>1, Displacing
  <2>4. UNCHANGED <<files, all, rendered, last, torn, edits>> /\ InAll' = InAll
    BY <1>12 DEF Remove, InAll
  <2>. QED BY <1>0, <2>1, <2>2, <2>3, <2>4, OnTyped DEF DirLabels
<1>13. ASSUME NEW r \in Renders, Open(r) PROVE TypeInv'
  <2>1. PICK a \in run[r].todo :
            /\ run[r].pc = "copy" /\ apps' \in Kinds
            /\ open' \in [Renders -> Copies \cup {NoFile}] /\ open'[r].app = a
            /\ \A q \in Renders \ {r} :
                  open'[q].app = open[q].app /\ (open[q] = NoFile => open'[q] = NoFile)
    BY <1>13, Opens
  <2>2. UNCHANGED <<files, all, rendered, run, last, torn, edits>> /\ InAll' = InAll
    BY <1>13 DEF Open, InAll
  <2>. QED BY <1>0, <2>1, <2>2, StepTyped
<1>14. ASSUME NEW r \in Renders, Write(r) PROVE TypeInv'
  <2>1. /\ run[r].pc = "copy" /\ apps' \in Kinds /\ all' \in Kinds /\ InAll' = InAll
        /\ open'[r] = NoFile /\ \A q \in Renders \ {r} : open'[q] = open[q]
        /\ open' \in [Renders -> Copies \cup {NoFile}]
        /\ On(r, "copy", run[r].todo \ {open[r].app}, run[r].kept)
    BY <1>14, Writes
  <2>2. UNCHANGED <<files, rendered, last, torn, edits>> /\ all' # NoDir
    BY <1>14, <2>1, DirTyped DEF Write
  <2>. QED BY <1>0, <2>1, <2>2, OnTyped
<1>15. ASSUME NEW r \in Renders, LookForStale(r) PROVE TypeInv'
  BY <1>0, <1>4, <1>15, LooksForStale DEF LookForStale, DirLabels
<1>16. ASSUME NEW r \in Renders, RemoveStale(r) PROVE TypeInv'
  <2>1. PICK a \in run[r].todo :
            /\ a \in Apps /\ run[r].pc = "stale"
            /\ apps' = [apps EXCEPT ![a] = "absent"]
            /\ open' = Displaced(a, "gone")
            /\ On(r, "stale", run[r].todo \ {a}, run[r].kept)
    BY <1>16, RemovesStale
  <2>2. apps' \in Kinds
    BY <2>1, Vanishes
  <2>3. /\ open' \in [Renders -> Copies \cup {NoFile}] /\ open'[r] = NoFile
        /\ \A q \in Renders : open'[q].app = open[q].app /\ (open[q] = NoFile => open'[q] = NoFile)
    BY <1>0, <2>1, Displacing
  <2>4. UNCHANGED <<files, all, rendered, last, torn, edits>> /\ InAll' = InAll
    BY <1>16 DEF RemoveStale, InAll
  <2>. QED BY <1>0, <2>1, <2>2, <2>3, <2>4, OnTyped DEF DirLabels
<1>17. ASSUME NEW r \in Renders, Rendered(r) PROVE TypeInv'
  BY <1>0, <1>17, ExitTyped DEF Rendered
<1>18. ASSUME NEW r \in Renders, render(r) PROVE TypeInv'
  <2>1. PICK c \in run[r].todo, built \in BOOLEAN :
            /\ rendered' = IF built
                           THEN [rendered EXCEPT ![c] = resolve(run[r].env, "ENVOY_GATEWAY_VERSION")]
                           ELSE rendered
            /\ run' = [run EXCEPT ![r].todo = @ \ {c}, ![r].failures = @ \/ ~built]
    BY <1>18 DEF render
  <2>2. rendered' \in Versions
    <3>1. resolve(run[r].env, "ENVOY_GATEWAY_VERSION") \in {DefaultVersion} \cup Values
      BY Typed, VersionTyped
    <3>. QED BY <1>0, <2>1, <3>1 DEF Versions
  <2>3. On(r, "render", run[r].todo \ {c}, run[r].kept) /\ run[r].pc = "render"
    BY <1>18, <2>1, RendersOn DEF render
  <2>4. UNCHANGED <<files, apps, all, open, last, torn, edits>> /\ InAll' = InAll
    BY <1>18 DEF render, InAll
  <2>. QED BY <1>0, <2>2, <2>3, <2>4, OnTyped DEF DirLabels
<1>19. ASSUME NEW r \in Renders, RenderEnds(r) PROVE TypeInv'
  BY <1>0, <1>19, ExitTyped DEF RenderEnds
<1>20. ASSUME NEW r \in Renders, Interrupt(r) PROVE TypeInv'
  <2>1. /\ run'[r] = Ended /\ run' \in [Renders -> Programs]
        /\ open' \in [Renders -> Copies \cup {NoFile}] /\ open'[r] = NoFile
        /\ \A q \in Renders \ {r} : run'[q] = run[q] /\ open'[q] = open[q]
    BY <1>0, <1>20, EndedTyped DEF Interrupt, Slot
  <2>2. rendered' \in Versions
    BY <1>0, <1>20 DEF Interrupt, Versions
  <2>3. torn' \in Torn
    BY <1>0, <1>20 DEF Interrupt, Torn
  <2>. QED BY <1>0, <1>20, <2>1, <2>2, <2>3, EndTyped, UnknownTyped DEF Interrupt
<1>. QED BY <1>1, <1>2, <1>3, <1>5, <1>6, <1>7, <1>8, <1>9, <1>10, <1>11, <1>12, <1>13, <1>14,
            <1>15, <1>16, <1>17, <1>18, <1>19, <1>20 DEF Next

\* The programs, their slots and the files stay in their sets, a slot is left as a
\* program ends, and only one that copies has a copy open, of an application it has yet
\* to finish (the exits of both programs, and where they are cut).
THEOREM TypeCorrect == Spec => []TypeOK
<1>1. TypeInv => TypeOK
  BY DEF TypeInv
<1>. QED BY <1>1, TypeInit, TypeStep, PTL DEF Spec

-----------------------------------------------------------------------------
(* Who runs.                                                               *)

Step(r) ==
    \/ bootstrap_apps_all(r) \/ mkdir(r) \/ glob(r) \/ Move(r) \/ MoveFails(r) \/ Moved(r)
    \/ List(r) \/ Remove(r) \/ Open(r) \/ Write(r)
    \/ LookForStale(r) \/ RemoveStale(r) \/ Rendered(r)
    \/ render(r) \/ RenderEnds(r) \/ Interrupt(r)

Onward(r) ==
    /\ \A q \in Renders \ {r} : run'[q] = run[q]
    /\ \/ run'[r].pc # "ended" /\ run'[r].calm = run[r].calm /\ last' = last
       \/ run'[r] = Ended /\ (last'.calm => Running = {r} /\ run[r].calm)

\* A step is that of one running program, which goes on as calm as before or ends.
LEMMA StepOfOne ==
    ASSUME TypeInv, NEW r \in Renders, Step(r)
    PROVE  r \in Running /\ Onward(r)
<1>1. r \in Running
  BY DEF Step, bootstrap_apps_all, mkdir, glob, Move, MoveFails, Moved, List, Remove, Open, Write,
         AtFile, LookForStale, RemoveStale, Rendered, render, RenderEnds, Interrupt, Running
<1> SUFFICES Onward(r)
  BY <1>1
<1>2. ASSUME NEW label, NEW todo, NEW kept, On(r, label, todo, kept), label # "ended", last' = last
      PROVE  Onward(r)
  BY <1>2 DEF On, Onward
<1>3. ASSUME NEW rc \in {0, 1}, Exit(r, rc) PROVE Onward(r)
  BY <1>3, Exits DEF Onward
<1>4. CASE bootstrap_apps_all(r)
  <2>1. Go(r, "list", {}) \/ Go(r, "mkdir", {})
    BY <1>4 DEF bootstrap_apps_all
  <2>2. On(r, "list", {}, run[r].kept) \/ On(r, "mkdir", {}, run[r].kept)
    BY <1>4, <2>1, Goes DEF bootstrap_apps_all, AppsLabels
  <2>. QED BY <1>2, <1>4, <2>2 DEF bootstrap_apps_all
<1>5. CASE mkdir(r) \/ Moved(r)
  <2>1. On(r, "glob", {}, run[r].kept) \/ On(r, "list", {}, run[r].kept)
    BY <1>5, Goes DEF mkdir, Moved, AppsLabels
  <2>. QED BY <1>2, <1>5, <2>1 DEF mkdir, Moved
<1>6. CASE glob(r)
  <2>1. On(r, "move", Present, run[r].kept)
    BY <1>6, FilesTyped, Goes DEF glob, AppsLabels
  <2>. QED BY <1>2, <1>6, <2>1 DEF glob
<1>7. CASE Move(r)
  <2>1. last' = last /\ \E todo : On(r, "move", todo, run[r].kept)
    BY <1>7, Moves DEF Move
  <2>. QED BY <1>2, <2>1
<1>8. CASE List(r)
  BY <1>2, <1>3, <1>8, Lists
<1>9. CASE Remove(r) \/ Write(r)
  <2>1. last' = last /\ \E todo : On(r, "copy", todo, run[r].kept)
    BY <1>9, Removes, Writes DEF Remove, Write
  <2>. QED BY <1>2, <2>1
<1>10. CASE Open(r)
  BY <1>1, <1>10 DEF Open, Onward, Running
<1>11. CASE LookForStale(r)
  BY <1>2, <1>11, LooksForStale DEF LookForStale
<1>12. CASE RemoveStale(r)
  <2>1. last' = last /\ \E todo : On(r, "stale", todo, run[r].kept)
    BY <1>12, RemovesStale DEF RemoveStale
  <2>. QED BY <1>2, <2>1
<1>13. CASE render(r)
  <2>1. last' = last /\ \E todo : On(r, "render", todo, run[r].kept)
    BY <1>13, RendersOn DEF render
  <2>. QED BY <1>2, <2>1
<1>14. CASE MoveFails(r) \/ Rendered(r) \/ RenderEnds(r)
  BY <1>3, <1>14 DEF MoveFails, Rendered, RenderEnds
<1>15. CASE Interrupt(r)
  BY <1>15, UnknownTyped DEF Interrupt, TypeInv, TypeOK, Onward
<1>. QED BY <1>4, <1>5, <1>6, <1>7, <1>8, <1>9, <1>10, <1>11, <1>12, <1>13, <1>14, <1>15 DEF Step

LEMMA CalmIsAloneInit == Init => CalmIsAlone
BY EndedTyped, UnknownTyped DEF Init, CalmIsAlone

LEMMA CalmIsAloneStep == TypeInv /\ CalmIsAlone /\ [Next]_vars => CalmIsAlone'
<1> SUFFICES ASSUME TypeInv, CalmIsAlone, [Next]_vars PROVE CalmIsAlone'
  OBVIOUS
<1>1. CASE UNCHANGED vars \/ Edit
  BY <1>1 DEF vars, Edit, CalmIsAlone, Running
<1>2. ASSUME NEW r \in Renders, Start(r) PROVE CalmIsAlone'
  <2>1. run'[r].pc # "ended"
    BY <1>2, Starts
  <2>2. \A q \in Renders \ {r} : ~run'[q].calm /\ run'[q].pc = run[q].pc
    BY <1>2, Starts
  <2>3. run'[r].calm => Running' = {r}
    BY <1>2, <2>1, <2>2, Starts DEF Running
  <2>4. ~last'.calm
    BY <1>2, UnknownTyped DEF Start
  <2>. QED BY <2>2, <2>3, <2>4 DEF CalmIsAlone
<1>3. ASSUME NEW r \in Renders, Step(r) PROVE CalmIsAlone'
  <2>1. r \in Running /\ \A q \in Renders \ {r} : run'[q] = run[q]
    BY <1>3, StepOfOne DEF Onward
  <2>2. ~last.calm /\ \A q \in Renders \ {r} : ~run[q].calm
    BY <2>1 DEF CalmIsAlone
  <2>3. CASE run'[r].pc # "ended" /\ run'[r].calm = run[r].calm /\ last' = last
    <3>1. Running' = Running
      BY <2>1, <2>3 DEF Running
    <3>. QED BY <2>1, <2>2, <2>3, <3>1 DEF CalmIsAlone
  <2>4. CASE run'[r] = Ended /\ (last'.calm => Running = {r} /\ run[r].calm)
    <3>1. Running' = Running \ {r}
      BY <2>1, <2>4, EndedTyped DEF Running
    <3>. QED BY <2>1, <2>2, <2>4, <3>1, EndedTyped DEF CalmIsAlone
  <2>. QED BY <1>3, <2>3, <2>4, StepOfOne DEF Onward
<1>. QED BY <1>1, <1>2, <1>3 DEF Next, Step

-----------------------------------------------------------------------------
(* The first move.                                                         *)

LEMMA MoveInvInit == Init => MoveInv
<1> SUFFICES ASSUME Init PROVE MoveInv
  OBVIOUS
<1>1. Present = Apps /\ (all # NoDir => InAll = Apps)
  BY DEF Init, Present, InAll
<1>2. \A r \in Renders : run[r].pc = "ended"
  BY EndedTyped DEF Init
<1>. QED BY <1>1, <1>2 DEF MoveInv

Settled == torn \cap {"cut", "watched"} = {}

\* A step of a program that does not move, which leaves apps.all with the applications
\* it has, and gitops/apps with those that apps.all has not.
LEMMA Unmoved ==
    ASSUME TypeInv, MoveInv, Settled, NEW r \in Renders,
           InAll' = InAll, all' = NoDir <=> all = NoDir,
           all = NoDir => Present' = Present, Present \subseteq Present' \cup InAll,
           \A q \in Renders \ {r} : /\ run'[q].pc = run[q].pc /\ run'[q].todo = run[q].todo
                                   /\ run'[q].kept = run[q].kept,
           r \notin Moving, run'[r].pc \notin {"glob", "move"},
           run'[r].pc \in {"list", "copy", "stale"} => InAll = Apps,
           run'[r].pc = "copy" => run'[r].kept = Apps,
           run'[r].pc = "stale" => run'[r].todo = {}
    PROVE  MoveInv'
<1>1. Moving' = Moving
  BY DEF Moving
<1>2. \A q \in Renders :
        /\ run'[q].pc = "move" => Apps \subseteq run'[q].todo \cup InAll'
        /\ run'[q].pc \in {"list", "copy", "stale"} => InAll' = Apps
        /\ run'[q].pc = "copy" => run'[q].kept = Apps
        /\ run'[q].pc = "stale" => run'[q].todo = {}
  BY DEF MoveInv, Settled
<1>. QED BY <1>1, <1>2 DEF MoveInv, Settled

LEMMA MoveInvStep == TypeInv /\ MoveInv /\ [Next]_vars => MoveInv'
<1> SUFFICES ASSUME TypeInv, MoveInv, [Next]_vars, Settled' PROVE MoveInv'
  BY DEF MoveInv, Settled
<1>0. /\ Settled /\ Present \subseteq Apps /\ InAll \subseteq Apps
      /\ all = NoDir => Present = Apps
      /\ all # NoDir /\ InAll # Apps => Moving # {}
      /\ Apps \subseteq Present \cup InAll
      /\ \A r \in Renders :
            /\ run[r].pc = "move" => Apps \subseteq run[r].todo \cup InAll
            /\ run[r].pc \in {"list", "copy", "stale"} => InAll = Apps
            /\ run[r].pc = "copy" => run[r].kept = Apps
            /\ run[r].pc = "stale" => run[r].todo = {}
            /\ run[r].pc \in DirLabels => all # NoDir
  <2>1. torn \subseteq torn'
    BY DEF Next, Edit, Start, bootstrap_apps_all, mkdir, glob, Move, MoveFails, Moved, List, Remove,
           Open, Write, LookForStale, RemoveStale, Rendered, render, RenderEnds, Interrupt, vars
  <2>2. Settled
    BY <2>1 DEF Settled
  <2>. QED BY <2>2, FilesTyped, Typed DEF MoveInv, Settled
<1>1. CASE UNCHANGED vars \/ Edit
  BY <1>1 DEF vars, Edit, MoveInv, Present, InAll, Moving
\* The files of both directories are those they were.
<1>2. ASSUME apps' = apps, all' = all PROVE Present' = Present /\ InAll' = InAll
  BY <1>2 DEF Present, InAll
<1>3. ASSUME NEW r \in Renders, Start(r) PROVE MoveInv'
  <2>1. r \notin Moving /\ UNCHANGED <<apps, all, torn>>
    BY <1>3 DEF Start, Moving
  <2>. QED BY <1>0, <1>2, <1>3, <2>1, Starts, Unmoved
<1>4. ASSUME NEW r \in Renders, bootstrap_apps_all(r) PROVE MoveInv'
  <2>1. r \notin Moving /\ UNCHANGED <<apps, all>> /\ run[r].pc = "bootstrap"
    BY <1>4 DEF bootstrap_apps_all, Moving
  <2>2. CASE all # NoDir
    <3>1. Go(r, "list", {}) /\ Moving = {}
      BY <1>4, <2>2 DEF bootstrap_apps_all, Settled
    <3>2. On(r, "list", {}, run[r].kept) /\ InAll = Apps
      BY <1>0, <2>1, <2>2, <3>1, Goes DEF AppsLabels
    <3>. QED BY <1>0, <1>2, <2>1, <3>2, Unmoved DEF On
  <2>3. CASE all = NoDir
    <3>1. On(r, "mkdir", {}, run[r].kept)
      BY <1>4, <2>1, <2>3, Goes DEF bootstrap_apps_all, AppsLabels
    <3>. QED BY <1>0, <1>2, <2>1, <3>1, Unmoved DEF On
  <2>. QED BY <2>2, <2>3
<1>5. ASSUME NEW r \in Renders, mkdir(r) PROVE MoveInv'
  <2>1. On(r, "glob", {}, run[r].kept) /\ apps' = apps
    BY <1>5, Goes DEF mkdir, AppsLabels
  <2>2. Moving' # {} /\ Present' = Present
    BY <2>1 DEF On, Moving, Present
  <2>3. all' # NoDir /\ InAll' = InAll /\ (all = NoDir => \A q \in Renders : run[q].pc \notin DirLabels)
    <3>1. CASE all = NoDir
      <4>1. all' = EmptyDir
        BY <1>5, <3>1 DEF mkdir
      <4>2. InAll' = {} /\ InAll = {}
        BY <3>1, <4>1, FilesTyped DEF InAll, EmptyDir
      <4>. QED BY <1>0, <3>1, <4>1, <4>2, DirTyped
    <3>2. CASE all # NoDir
      BY <1>5, <3>2 DEF mkdir, InAll
    <3>. QED BY <3>1, <3>2
  <2>4. \A q \in Renders :
          /\ run'[q].pc = "move" => Apps \subseteq run'[q].todo \cup InAll'
          /\ run'[q].pc \in {"list", "copy", "stale"} => InAll' = Apps
          /\ run'[q].pc = "copy" => run'[q].kept = Apps
          /\ run'[q].pc = "stale" => run'[q].todo = {}
    BY <1>0, <2>1, <2>3 DEF On
  <2>. QED BY <1>0, <2>2, <2>3, <2>4 DEF MoveInv
<1>6. ASSUME NEW r \in Renders, glob(r) PROVE MoveInv'
  <2>1. On(r, "move", Present, run[r].kept) /\ UNCHANGED <<apps, all, torn>>
    BY <1>6, FilesTyped, Goes DEF glob, AppsLabels
  <2>2. Moving' # {} /\ Present' = Present /\ InAll' = InAll /\ all # NoDir
    BY <1>0, <1>2, <1>6, <2>1 DEF On, Moving, glob, DirLabels
  <2>3. \A q \in Renders :
          /\ run'[q].pc = "move" => Apps \subseteq run'[q].todo \cup InAll'
          /\ run'[q].pc \in {"list", "copy", "stale"} => InAll' = Apps
          /\ run'[q].pc = "copy" => run'[q].kept = Apps
          /\ run'[q].pc = "stale" => run'[q].todo = {}
    BY <1>0, <2>1, <2>2 DEF On
  <2>. QED BY <1>0, <2>1, <2>2, <2>3 DEF MoveInv
<1>7. ASSUME NEW r \in Renders, Move(r) PROVE MoveInv'
  <2>1. PICK a \in run[r].todo :
            /\ a \in Apps /\ all' \in Kinds /\ InAll' = InAll \cup {a}
            /\ apps' = [apps EXCEPT ![a] = "absent"]
            /\ On(r, "move", run[r].todo \ {a}, run[r].kept)
    BY <1>7, Moves
  <2>2. Present' = Present \ {a} /\ all' # NoDir /\ Moving' # {}
    BY <2>1, Vanishes, DirTyped DEF On, Moving
  <2>3. run[r].pc = "move"
    BY <1>7 DEF Move
  <2>4. \A q \in Renders :
          /\ run'[q].pc = "move" => Apps \subseteq run'[q].todo \cup InAll'
          /\ run'[q].pc \in {"list", "copy", "stale"} => InAll' = Apps
          /\ run'[q].pc = "copy" => run'[q].kept = Apps
          /\ run'[q].pc = "stale" => run'[q].todo = {}
    BY <1>0, <2>1, <2>3 DEF On
  <2>5. Apps \subseteq Present' \cup InAll'
    BY <1>0, <2>1, <2>2
  <2>. QED BY <2>2, <2>4, <2>5 DEF MoveInv
<1>8. ASSUME NEW r \in Renders, Moved(r) PROVE MoveInv'
  <2>1. On(r, "list", {}, run[r].kept) /\ UNCHANGED <<apps, all, torn>>
    BY <1>8, Goes DEF Moved, AppsLabels
  <2>2. Present' = Present /\ InAll' = InAll /\ InAll = Apps /\ all # NoDir
    BY <1>0, <1>2, <1>8, <2>1 DEF Moved, DirLabels
  <2>3. \A q \in Renders :
          /\ run'[q].pc = "move" => Apps \subseteq run'[q].todo \cup InAll'
          /\ run'[q].pc = "copy" => run'[q].kept = Apps
          /\ run'[q].pc = "stale" => run'[q].todo = {}
    BY <1>0, <2>1, <2>2 DEF On
  <2>. QED BY <1>0, <2>1, <2>2, <2>3 DEF MoveInv
<1>9. ASSUME NEW r \in Renders, List(r) PROVE MoveInv'
  <2>1. r \notin Moving /\ UNCHANGED <<apps, all>> /\ run[r].pc = "list" /\ InAll = Apps
    BY <1>0, <1>9 DEF List, Moving
  <2>2. ASSUME NEW rc \in {0, 1}, Exit(r, rc) PROVE MoveInv'
    BY <1>0, <1>2, <2>1, <2>2, Exits, EndedTyped, Unmoved
  <2>3. CASE On(r, "copy", InAll, InAll)
    BY <1>0, <1>2, <2>1, <2>3, Unmoved DEF On
  <2>. QED BY <1>9, <2>2, <2>3, Lists
<1>10. ASSUME NEW r \in Renders, Remove(r) PROVE MoveInv'
  <2>1. PICK a \in run[r].todo :
            /\ a \in Apps /\ run[r].pc = "copy"
            /\ apps' = [apps EXCEPT ![a] = "absent"]
            /\ On(r, "copy", run[r].todo \ {a}, run[r].kept)
    BY <1>10, Removes
  <2>2. all' = all /\ InAll' = InAll /\ Present' = Present \ {a} /\ r \notin Moving
        /\ all # NoDir /\ InAll = Apps /\ run[r].kept = Apps
    BY <1>0, <1>10, <2>1, Vanishes DEF Remove, InAll, Moving, DirLabels
  <2>. QED BY <1>0, <2>1, <2>2, Unmoved DEF On
<1>11. ASSUME NEW r \in Renders, Open(r) PROVE MoveInv'
  <2>1. PICK a \in run[r].todo : /\ run[r].pc = "copy" /\ apps' = [apps EXCEPT ![a] = "part"]
                                 /\ a \in InAll
    BY <1>11, Opens
  <2>2. all' = all /\ run' = run /\ InAll' = InAll /\ r \notin Moving
        /\ all # NoDir /\ InAll = Apps /\ run[r].kept = Apps
    BY <1>0, <1>11, <2>1 DEF Open, InAll, Moving, DirLabels
  <2>. QED BY <1>0, <2>1, <2>2, Unmoved
<1>12. ASSUME NEW r \in Renders, Write(r) PROVE MoveInv'
  <2>1. /\ run[r].pc = "copy" /\ all' \in Kinds /\ InAll' = InAll
        /\ On(r, "copy", run[r].todo \ {open[r].app}, run[r].kept)
    BY <1>12, Writes
  <2>2. all # NoDir /\ all' # NoDir /\ InAll = Apps /\ run[r].kept = Apps /\ r \notin Moving
    BY <1>0, <2>1, DirTyped DEF Moving, DirLabels
  <2>. QED BY <1>0, <2>1, <2>2, Unmoved DEF On
<1>13. ASSUME NEW r \in Renders, LookForStale(r) PROVE MoveInv'
  <2>1. /\ On(r, "stale", Present \ run[r].kept, {}) /\ UNCHANGED <<apps, all>>
        /\ run[r].pc = "copy" /\ r \notin Moving
    BY <1>13, LooksForStale DEF LookForStale, Moving
  <2>2. InAll = Apps /\ Present \ run[r].kept = {}
    BY <1>0, <2>1
  <2>. QED BY <1>0, <1>2, <2>1, <2>2, Unmoved DEF On
<1>14. ASSUME NEW r \in Renders, RemoveStale(r) PROVE MoveInv'
  BY <1>0, <1>14 DEF RemoveStale
<1>15. ASSUME NEW r \in Renders, Rendered(r) \/ RenderEnds(r) PROVE MoveInv'
  <2>1. /\ UNCHANGED <<apps, all>> /\ r \notin Moving
        /\ run'[r] = Ended /\ \A q \in Renders \ {r} : run'[q] = run[q]
    BY <1>15, Exits DEF Rendered, RenderEnds, Moving
  <2>. QED BY <1>0, <1>2, <2>1, EndedTyped, Unmoved
<1>16. ASSUME NEW r \in Renders, render(r) PROVE MoveInv'
  <2>1. /\ UNCHANGED <<apps, all>> /\ r \notin Moving
        /\ \E todo : On(r, "render", todo, run[r].kept)
    BY <1>16, RendersOn DEF render, Moving
  <2>. QED BY <1>0, <1>2, <2>1, Unmoved DEF On
<1>17. ASSUME NEW r \in Renders, Interrupt(r) PROVE MoveInv'
  <2>1. /\ UNCHANGED <<apps, all>> /\ r \notin Moving
        /\ run'[r] = Ended /\ \A q \in Renders \ {r} : run'[q] = run[q]
    BY <1>17 DEF Interrupt, TypeInv, TypeOK, Settled
  <2>. QED BY <1>0, <1>2, <2>1, EndedTyped, Unmoved
<1>18. ASSUME NEW r \in Renders, MoveFails(r) PROVE MoveInv'
  BY <1>18 DEF MoveFails, Settled
<1>. QED BY <1>1, <1>3, <1>4, <1>5, <1>6, <1>7, <1>8, <1>9, <1>10, <1>11, <1>12, <1>13, <1>14,
            <1>15, <1>16, <1>17, <1>18 DEF Next

\* No application is ever in neither directory unless a first move was cut, failed or was
\* watched by a later render, also if several renders make it at a time and write while
\* others move (render_app_of_apps.py:72-81, 109-132).
THEOREM ApplicationsKept == Spec => []NothingIsLost
<1>1. MoveInv => NothingIsLost
  BY DEF MoveInv, NothingIsLost
<1>. QED BY <1>1, TypeInit, TypeStep, MoveInvInit, MoveInvStep, PTL DEF Spec

-----------------------------------------------------------------------------
(* Whole files.                                                            *)

LEMMA WholeInvInit == Init => WholeInv
<1> SUFFICES ASSUME Init PROVE WholeInv
  OBVIOUS
<1>1. \A r \in Renders : run[r].pc = "ended" /\ open[r] = NoFile
  BY EndedTyped DEF Init
<1>2. \A a \in Apps : all[a] # "part" /\ apps[a] # "part"
  BY DEF Init, NoDir
<1>3. Moving = {}
  BY <1>1 DEF Moving
<1>. QED BY <1>1, <1>2, <1>3, CopyTyped DEF WholeInv

\* A step of a program that does not go on moving, which leaves apps.all alone, and writes
\* only to what is in apps.all.
LEMMA StaysWhole ==
    ASSUME TypeInv, WholeInv, "doubled" \notin torn, NEW r \in Renders, all' = all,
           \A a \in Apps \ InAll : apps'[a] # "part",
           \A q \in Renders \ {r} : run'[q].pc = run[q].pc /\ run'[q].todo = run[q].todo,
           run'[r].pc \notin {"glob", "move"},
           \A q \in Renders : open'[q].at # "all" /\ open'[q].will # "part"
    PROVE  WholeInv'
<1>1. InAll' = InAll /\ Moving' \subseteq Moving
  BY DEF InAll, Moving
<1>2. \A a \in Apps : all'[a] # "part" /\ (a \notin InAll' => apps'[a] # "part")
  BY <1>1 DEF WholeInv
<1>3. \A q \in Renders : /\ run'[q].pc = "glob" => InAll' = {}
                        /\ run'[q].pc = "move" => run'[q].todo \cap InAll' = {}
  BY <1>1 DEF WholeInv
<1>. QED BY <1>1, <1>2, <1>3 DEF WholeInv

LEMMA WholeInvStep == TypeInv /\ WholeInv /\ [Next]_vars => WholeInv'
<1> SUFFICES ASSUME TypeInv, WholeInv, [Next]_vars, "doubled" \notin torn' PROVE WholeInv'
  BY DEF WholeInv
<1>0. /\ "doubled" \notin torn /\ Present \subseteq Apps /\ InAll \subseteq Apps
      /\ \A a \in Apps : all[a] # "part" /\ (a \notin InAll => apps[a] # "part")
      /\ \A r \in Renders :
            /\ run[r].pc = "glob" => InAll = {}
            /\ run[r].pc = "move" => run[r].todo \cap InAll = {}
            /\ open[r].at # "all" /\ open[r].will # "part"
      /\ \A q, r \in Moving : q = r
  <2>1. torn \subseteq torn'
    BY DEF Next, Edit, Start, bootstrap_apps_all, mkdir, glob, Move, MoveFails, Moved, List, Remove,
           Open, Write, LookForStale, RemoveStale, Rendered, render, RenderEnds, Interrupt, vars
  <2>. QED BY <2>1, FilesTyped DEF WholeInv
<1>1. CASE UNCHANGED vars \/ Edit
  BY <1>1 DEF vars, Edit, WholeInv, InAll, Moving
<1>2. ASSUME NEW r \in Renders, Start(r) PROVE WholeInv'
  <2>1. UNCHANGED <<apps, all, open>>
    BY <1>2 DEF Start
  <2>. QED BY <1>0, <1>2, <2>1, Starts, StaysWhole
\* A step that does not write.
<1>3. ASSUME NEW r \in Renders, UNCHANGED <<apps, all, open>>,
             run'[r].pc \notin {"glob", "move"}, \A q \in Renders \ {r} : run'[q] = run[q]
      PROVE  WholeInv'
  BY <1>0, <1>3, StaysWhole
<1>4. ASSUME NEW r \in Renders, bootstrap_apps_all(r) PROVE WholeInv'
  <2>1. Go(r, "list", {}) \/ Go(r, "mkdir", {})
    BY <1>4 DEF bootstrap_apps_all
  <2>2. On(r, "list", {}, run[r].kept) \/ On(r, "mkdir", {}, run[r].kept)
    BY <1>4, <2>1, Goes DEF bootstrap_apps_all, AppsLabels
  <2>. QED BY <1>3, <1>4, <2>2 DEF bootstrap_apps_all, On
<1>5. ASSUME NEW r \in Renders, mkdir(r) PROVE WholeInv'
  <2>1. all = NoDir /\ all' = EmptyDir /\ UNCHANGED <<apps, open>>
    BY <1>0, <1>5 DEF mkdir
  <2>2. InAll = {} /\ InAll' = {} /\ \A a \in Apps : all'[a] # "part"
    BY <2>1, FilesTyped DEF InAll, EmptyDir
  <2>3. On(r, "glob", {}, run[r].kept)
    BY <1>5, Goes DEF mkdir, AppsLabels
  <2>4. Moving' = {r}
    BY <2>1, <2>3, Typed DEF Moving, On, DirLabels
  <2>. QED BY <1>0, <2>1, <2>2, <2>3, <2>4 DEF WholeInv, On
<1>6. ASSUME NEW r \in Renders, glob(r) PROVE WholeInv'
  <2>1. run[r].pc = "glob" /\ UNCHANGED <<apps, all, open>>
    BY <1>6 DEF glob
  <2>2. InAll = {} /\ InAll' = {}
    BY <1>0, <2>1 DEF InAll
  <2>3. On(r, "move", Present, run[r].kept)
    BY <1>6, FilesTyped, Goes DEF glob, AppsLabels
  <2>4. Moving' = Moving
    BY <2>1, <2>3 DEF Moving, On
  <2>. QED BY <1>0, <2>1, <2>2, <2>3, <2>4 DEF WholeInv, On
<1>7. ASSUME NEW r \in Renders, Move(r) PROVE WholeInv'
  <2>1. PICK a \in run[r].todo :
            /\ a \in Apps /\ all \in Kinds
            /\ all' = [all EXCEPT ![a] = apps[a]] /\ InAll' = InAll \cup {a}
            /\ apps' = [apps EXCEPT ![a] = "absent"]
            /\ open' = Displaced(a, "all")
            /\ On(r, "move", run[r].todo \ {a}, run[r].kept)
    BY <1>7, Moves
  <2>2. run[r].pc = "move" /\ a \notin InAll /\ apps[a] # "part"
    BY <1>0, <1>7, <2>1 DEF Move
  <2>3. \A b \in Apps : all'[b] # "part" /\ (b \notin InAll' => apps'[b] # "part")
    BY <1>0, <2>1, <2>2, Vanishes DEF Kinds
  <2>4. \A q \in Renders : open'[q].at # "all" /\ open'[q].will # "part"
    <3>1. \A q \in Renders : open[q].app # a
      BY <2>1, <2>2, FilesTyped, CopyTyped
    <3>. QED BY <1>0, <2>1, <3>1, Displacing
  <2>5. Moving' = Moving /\ \A q \in Renders \ {r} : run[q].pc \notin {"glob", "move"}
    BY <1>0, <2>1, <2>2 DEF Moving, On
  <2>6. /\ run'[r].pc = "move" /\ run'[r].todo \cap InAll' = {}
        /\ \A q \in Renders \ {r} : run'[q].pc \notin {"glob", "move"}
    BY <1>0, <2>1, <2>2, <2>5 DEF On
  <2>. QED BY <1>0, <2>3, <2>4, <2>5, <2>6 DEF WholeInv
<1>8. ASSUME NEW r \in Renders, Moved(r) PROVE WholeInv'
  <2>1. On(r, "list", {}, run[r].kept)
    BY <1>8, Goes DEF Moved, AppsLabels
  <2>. QED BY <1>3, <1>8, <2>1 DEF Moved, On
<1>9. ASSUME NEW r \in Renders, List(r) PROVE WholeInv'
  <2>1. ASSUME NEW rc \in {0, 1}, Exit(r, rc) PROVE WholeInv'
    BY <1>3, <1>9, <2>1, Exits, EndedTyped DEF List
  <2>2. CASE On(r, "copy", InAll, InAll)
    BY <1>3, <1>9, <2>2 DEF List, On
  <2>. QED BY <1>9, <2>1, <2>2, Lists
<1>10. ASSUME NEW r \in Renders, NEW a \in Apps, NEW label \in {"copy", "stale"}, NEW todo,
              apps' = [apps EXCEPT ![a] = "absent"], open' = Displaced(a, "gone"), all' = all,
              On(r, label, todo, run[r].kept)
       PROVE  WholeInv'
  <2>1. \A q \in Renders : open'[q].at # "all" /\ open'[q].will # "part"
    BY <1>0, <1>10, Displacing
  <2>2. \A b \in Apps \ InAll : apps'[b] # "part"
    BY <1>0, <1>10, Vanishes
  <2>. QED BY <1>0, <1>10, <2>1, <2>2, StaysWhole DEF On
<1>11. ASSUME NEW r \in Renders, Remove(r) PROVE WholeInv'
  BY <1>10, <1>11, Removes DEF Remove
<1>12. ASSUME NEW r \in Renders, RemoveStale(r) PROVE WholeInv'
  BY <1>10, <1>12, RemovesStale DEF RemoveStale
<1>13. ASSUME NEW r \in Renders, Open(r) PROVE WholeInv'
  <2>1. PICK a \in run[r].todo :
            /\ a \in InAll /\ run[r].pc = "copy"
            /\ apps' = [apps EXCEPT ![a] = "part"]
            /\ open'[r].at = "apps" /\ open'[r].will \in {"mixed", all[a]}
            /\ \A q \in Renders \ {r} : /\ open'[q].at = open[q].at
                                       /\ open'[q].will \in {"mixed", open[q].will}
    BY <1>13, Opens
  <2>2. all' = all /\ run' = run
    BY <1>13 DEF Open
  <2>3. \A b \in Apps \ InAll : apps'[b] # "part"
    BY <1>0, <2>1, FilesTyped DEF Kinds
  <2>4. \A q \in Renders : open'[q].at # "all" /\ open'[q].will # "part"
    BY <1>0, <2>1
  <2>. QED BY <1>0, <2>1, <2>2, <2>3, <2>4, StaysWhole
<1>14. ASSUME NEW r \in Renders, Write(r) PROVE WholeInv'
  <2>1. PICK content \in {"part", "whole"} :
            /\ open[r].app \in InAll
            /\ apps' = IF open[r].at = "apps" THEN [apps EXCEPT ![open[r].app] = content]
                                              ELSE apps
            /\ all' = IF open[r].at = "all" THEN [all EXCEPT ![open[r].app] = content] ELSE all
            /\ open'[r] = NoFile /\ \A q \in Renders \ {r} : open'[q] = open[q]
            /\ On(r, "copy", run[r].todo \ {open[r].app}, run[r].kept)
    BY <1>14, Writes
  <2>2. all' = all
    BY <1>0, <2>1
  <2>3. \A b \in Apps \ InAll : apps'[b] # "part"
    BY <1>0, <2>1, FilesTyped DEF Kinds
  <2>4. \A q \in Renders : open'[q].at # "all" /\ open'[q].will # "part"
    BY <1>0, <2>1, CopyTyped
  <2>. QED BY <1>0, <2>1, <2>2, <2>3, <2>4, StaysWhole DEF On
<1>15. ASSUME NEW r \in Renders, LookForStale(r) PROVE WholeInv'
  BY <1>3, <1>15, LooksForStale DEF LookForStale, On
<1>16. ASSUME NEW r \in Renders, MoveFails(r) \/ Rendered(r) \/ RenderEnds(r) PROVE WholeInv'
  <2>1. run'[r] = Ended /\ \A q \in Renders \ {r} : run'[q] = run[q]
    BY <1>16, Exits DEF MoveFails, Rendered, RenderEnds
  <2>. QED BY <1>3, <1>16, <2>1, EndedTyped DEF MoveFails, Rendered, RenderEnds
<1>17. ASSUME NEW r \in Renders, render(r) PROVE WholeInv'
  <2>1. \E todo : On(r, "render", todo, run[r].kept)
    BY <1>17, RendersOn DEF render
  <2>. QED BY <1>3, <1>17, <2>1 DEF render, On
<1>18. ASSUME NEW r \in Renders, Interrupt(r) PROVE WholeInv'
  <2>1. /\ run'[r] = Ended /\ \A q \in Renders \ {r} : run'[q] = run[q] /\ open'[q] = open[q]
        /\ open'[r] = NoFile /\ UNCHANGED <<apps, all>>
    BY <1>18, FilesTyped DEF Interrupt, TypeInv, TypeOK
  <2>2. \A q \in Renders : open'[q].at # "all" /\ open'[q].will # "part"
    BY <1>0, <2>1, CopyTyped
  <2>. QED BY <1>0, <2>1, <2>2, EndedTyped, StaysWhole
<1>. QED BY <1>1, <1>2, <1>4, <1>5, <1>6, <1>7, <1>8, <1>9, <1>11, <1>12, <1>13, <1>14,
            <1>15, <1>16, <1>17, <1>18 DEF Next

-----------------------------------------------------------------------------
(* What a render that runs alone leaves.                                   *)

\* A program that is not at one of the three loops has nothing to show for yet.
LEMMA NothingDone ==
    ASSUME NEW r \in Renders, run'[r].pc \notin {"copy", "stale", "render"}
    PROVE  Done(r)'
BY DEF Done

LEMMA DoneStep ==
    ASSUME TypeInv, NEW r \in Renders, Step(r), run'[r].calm, Done(r),
           \A q \in Renders \ {r} : open[q] = NoFile
    PROVE  Done(r)'
<1>0. /\ apps \in Kinds /\ InAll \subseteq Apps /\ Present \subseteq Apps
      /\ rendered \in Versions
      /\ \A a \in InAll : all[a] \in {"part", "whole"}
      /\ run[r].pc # "copy" => open[r] = NoFile
  BY FilesTyped DEF InAll
<1>1. ASSUME NEW rc \in {0, 1}, Exit(r, rc) PROVE FALSE
  BY <1>1, Exits, EndedTyped
\* With apps.all, what is asked for stays the same.
<1>2. ASSUME all' = all, NEW env PROVE InAll' = InAll /\ \A a : Result(env, a)' = Result(env, a)
  BY <1>2 DEF InAll, Result, is_app_enabled, is_enabled
<1>3. CASE bootstrap_apps_all(r) \/ mkdir(r) \/ glob(r) \/ Move(r) \/ Moved(r)
  <2>1. /\ run[r].pc \in AppsLabels
        /\ \/ run'[r].pc = "move"
           \/ \E label \in {"list", "mkdir", "glob"} : Go(r, label, {})
           \/ Go(r, "move", Present)
    BY <1>3, Moves DEF bootstrap_apps_all, mkdir, glob, Move, Moved, On, AppsLabels
  <2>2. run'[r].pc \notin {"copy", "stale", "render"}
    BY <1>0, <2>1, Goes DEF On, AppsLabels
  <2>. QED BY <2>2, NothingDone
<1>4. CASE List(r)
  <2>1. On(r, "copy", InAll, InAll) /\ all' = all /\ open' = open /\ open[r] = NoFile
    BY <1>0, <1>1, <1>4, Lists DEF List
  <2>. QED BY <1>2, <2>1 DEF Done, On
<1>5. CASE Remove(r)
  <2>1. PICK a \in run[r].todo :
            /\ a \in Apps /\ run[r].pc = "copy" /\ open[r] = NoFile
            /\ ~is_app_enabled(run[r].env, a)
            /\ apps' = [apps EXCEPT ![a] = "absent"]
            /\ open' = Displaced(a, "gone")
            /\ On(r, "copy", run[r].todo \ {a}, run[r].kept)
    BY <1>5, Removes
  <2>2. open'[r] = NoFile /\ all' = all
    BY <1>5, <2>1, Displacing DEF Remove
  <2>3. apps'[a] = Result(run[r].env, a) /\ \A b \in Apps \ {a} : apps'[b] = apps[b]
    BY <2>1, Vanishes DEF Result
  <2>4. \A b \in InAll \ (run[r].todo \ {a}) : apps'[b] = Result(run[r].env, b)
    BY <1>0, <2>1, <2>3 DEF Done
  <2>. QED BY <1>2, <2>1, <2>2, <2>4 DEF Done, On
<1>6. CASE Open(r)
  <2>1. PICK a \in run[r].todo :
            /\ a \in InAll /\ run[r].pc = "copy" /\ is_app_enabled(run[r].env, a)
            /\ apps' = [apps EXCEPT ![a] = "part"]
            /\ open'[r].app = a /\ open'[r].at = "apps"
            /\ (\A q \in Renders : open[q] = NoFile) => open'[r].will = all[a]
    BY <1>6, Opens
  <2>2. all' = all /\ run' = run /\ open[r] = NoFile
    BY <1>6 DEF Open, AtFile
  <2>3. open'[r].will = Result(run[r].env, open'[r].app)
    BY <2>1, <2>2 DEF Result
  <2>4. \A b \in InAll \ run[r].todo : apps'[b] = Result(run[r].env, b)
    BY <1>0, <2>1 DEF Done, Kinds
  <2>. QED BY <1>2, <2>1, <2>2, <2>3, <2>4 DEF Done
<1>7. CASE Write(r)
  <2>1. PICK content \in {"part", "whole"} :
            /\ run[r].pc = "copy" /\ open[r] # NoFile
            /\ open[r].app \in run[r].todo /\ open[r].app \in InAll
            /\ open[r].will # "mixed" => content = open[r].will
            /\ apps' = IF open[r].at = "apps" THEN [apps EXCEPT ![open[r].app] = content]
                                              ELSE apps
            /\ all' = IF open[r].at = "all" THEN [all EXCEPT ![open[r].app] = content]
                                            ELSE all
            /\ open'[r] = NoFile
            /\ On(r, "copy", run[r].todo \ {open[r].app}, run[r].kept)
    BY <1>7, Writes
  <2>2. PICK a \in InAll : a = open[r].app
    BY <2>1
  <2>3. open[r].at = "apps" /\ open[r].will = Result(run[r].env, a)
    BY <2>1, <2>2 DEF Done
  <2>4. content = Result(run[r].env, a) /\ all' = all
    <3>1. Result(run[r].env, a) # "mixed"
      BY <1>0 DEF Result
    <3>. QED BY <2>1, <2>3, <3>1
  <2>5. \A b \in InAll \ (run[r].todo \ {a}) : apps'[b] = Result(run[r].env, b)
    BY <1>0, <2>1, <2>2, <2>3, <2>4 DEF Done, Kinds
  <2>. QED BY <1>2, <2>1, <2>2, <2>4, <2>5 DEF Done, On
<1>8. CASE LookForStale(r)
  <2>1. /\ On(r, "stale", Present \ run[r].kept, {}) /\ UNCHANGED <<apps, all>>
        /\ run[r].pc = "copy" /\ run[r].todo = {}
    BY <1>8, LooksForStale DEF LookForStale
  <2>2. run[r].kept = InAll /\ (\A a \in InAll : apps[a] = Result(run[r].env, a))
        /\ Present' = Present
    BY <2>1 DEF Done, Present
  <2>. QED BY <1>2, <2>1, <2>2 DEF Done, On
<1>9. CASE RemoveStale(r)
  <2>1. PICK a \in run[r].todo :
            /\ a \in Apps /\ run[r].pc = "stale"
            /\ apps' = [apps EXCEPT ![a] = "absent"]
            /\ On(r, "stale", run[r].todo \ {a}, run[r].kept)
    BY <1>9, RemovesStale
  <2>2. all' = all
    BY <1>9 DEF RemoveStale
  <2>3. (\A b \in InAll : apps[b] = Result(run[r].env, b)) /\ run[r].todo = Present \ InAll
    BY <2>1 DEF Done
  <2>4. Present' = Present \ {a} /\ \A b \in InAll : apps'[b] = apps[b]
    BY <1>0, <2>1, <2>3, Vanishes
  <2>. QED BY <1>2, <2>1, <2>2, <2>3, <2>4 DEF Done, On
<1>10. CASE render(r)
  <2>1. PICK c \in run[r].todo, built \in BOOLEAN :
            /\ rendered' = IF built
                           THEN [rendered EXCEPT ![c] = resolve(run[r].env, "ENVOY_GATEWAY_VERSION")]
                           ELSE rendered
            /\ run' = [run EXCEPT ![r].todo = @ \ {c}, ![r].failures = @ \/ ~built]
    BY <1>10 DEF render
  <2>2. /\ run[r].pc = "render" /\ run'[r].pc = "render" /\ run'[r].todo = run[r].todo \ {c}
        /\ run'[r].failures <=> run[r].failures \/ ~built
        /\ run'[r].env = run[r].env
    BY <1>10, <2>1, RendersOn DEF render, On
  <2>3. ASSUME NEW d \in Components \ (run[r].todo \ {c}), ~run'[r].failures
        PROVE  rendered'[d] = resolve(run[r].env, "ENVOY_GATEWAY_VERSION")
    <3>1. rendered' = [rendered EXCEPT ![c] = resolve(run[r].env, "ENVOY_GATEWAY_VERSION")]
      BY <2>1, <2>2, <2>3
    <3>2. d # c => d \notin run[r].todo /\ ~run[r].failures
      BY <2>2, <2>3
    <3>. QED BY <1>0, <2>2, <2>3, <3>1, <3>2 DEF Done, Versions
  <2>. QED BY <2>2, <2>3 DEF Done
<1>11. CASE MoveFails(r) \/ Rendered(r) \/ RenderEnds(r)
  BY <1>1, <1>11 DEF MoveFails, Rendered, RenderEnds
<1>12. CASE Interrupt(r)
  <2>1. run'[r] = Ended
    BY <1>12 DEF Interrupt, TypeInv, TypeOK
  <2>. QED BY <2>1, EndedTyped
<1>. QED BY <1>3, <1>4, <1>5, <1>6, <1>7, <1>8, <1>9, <1>10, <1>11, <1>12 DEF Step

LEMMA CalmInvInit == Init => CalmInv
BY EndedTyped DEF Init, CalmInv

LEMMA CalmInvStep == TypeInv /\ CalmIsAlone /\ CalmInv /\ [Next]_vars => CalmInv'
<1> SUFFICES ASSUME TypeInv, CalmIsAlone, CalmInv, [Next]_vars,
                    NEW r \in Renders, run'[r].calm
             PROVE  Done(r)'
  BY DEF CalmInv
<1>1. CASE UNCHANGED vars \/ Edit
  <2>1. UNCHANGED <<apps, all, rendered, run, open>> /\ Done(r)
    BY <1>1 DEF vars, Edit, CalmInv
  <2>. QED BY <2>1 DEF Done, Present, InAll, Result, is_app_enabled, is_enabled
<1>2. ASSUME NEW q \in Renders, Start(q) PROVE Done(r)'
  <2>1. q = r
    BY <1>2, Starts
  <2>2. run'[r].pc = "bootstrap" \/ (run'[r].pc = "render" /\ run'[r].todo = Components)
    BY <1>2, <2>1, Starts
  <2>. QED BY <2>2 DEF Done
<1>3. ASSUME NEW q \in Renders, Step(q) PROVE Done(r)'
  <2>1. q \in Running /\ \A p \in Renders \ {q} : run'[p] = run[p]
    BY <1>3, StepOfOne DEF Onward
  <2>2. q = r
    BY <2>1 DEF CalmIsAlone
  <2>3. run[r].calm
    BY <1>3, <2>2, StepOfOne, EndedTyped DEF Onward
  <2>4. \A p \in Renders \ {r} : open[p] = NoFile
    BY <2>3, FilesTyped DEF CalmIsAlone, Running
  <2>. QED BY <1>3, <2>2, <2>3, <2>4, DoneStep DEF CalmInv
<1>. QED BY <1>1, <1>2, <1>3 DEF Next, Step

-----------------------------------------------------------------------------
(* What its outcome says.                                                  *)

\* A render that ends with 0 has done everything.
LEMMA OutcomeStep ==
    TypeInv /\ CalmIsAlone /\ WholeInv /\ CalmInv /\ RenderedAsAsked /\ [Next]_vars
        => RenderedAsAsked'
<1> SUFFICES ASSUME TypeInv, CalmIsAlone, WholeInv, CalmInv, RenderedAsAsked, [Next]_vars,
                    last'.calm, last'.rc = 0
             PROVE  RenderedAsAsked'
  BY DEF RenderedAsAsked
<1>1. CASE UNCHANGED vars \/ Edit
  BY <1>1 DEF vars, Edit, RenderedAsAsked, Present, InAll
<1>2. ASSUME NEW r \in Renders, Start(r) PROVE RenderedAsAsked'
  BY <1>2, UnknownTyped DEF Start
<1>3. ASSUME NEW r \in Renders, Step(r) PROVE RenderedAsAsked'
  <2>1. ASSUME NEW rc \in {0, 1}, Exit(r, rc)
        PROVE  /\ run[r].calm /\ rc = 0 /\ last'.prog = run[r].prog /\ last'.dry = run[r].dry
               /\ last'.env = run[r].env
    BY <2>1, Exits
  <2>2. last' # last
    BY <1>3, StepOfOne DEF CalmIsAlone
  <2>3. CASE Rendered(r)
    <3>1. Exit(r, 0) /\ run[r].todo = {} /\ run[r].pc = "stale"
          /\ UNCHANGED <<apps, all, rendered, torn>>
      BY <2>3 DEF Rendered
    <3>2. /\ last'.prog = "apps" /\ last'.env = run[r].env /\ run[r].calm
      BY <2>1, <3>1, Typed DEF AppsLabels
    <3>3. /\ \A a \in InAll : apps[a] = Result(run[r].env, a)
          /\ Present \subseteq InAll
      BY <3>1, <3>2 DEF CalmInv, Done
    <3>4. InAll \subseteq Apps /\ \A a \in InAll : all[a] # "absent"
      BY FilesTyped DEF InAll
    <3>5. \A a \in InAll : a \in Present <=> is_app_enabled(run[r].env, a)
      BY <3>3, <3>4 DEF Present, Result
    <3>6. Present \cap Listed = Wanted(run[r].env) \cap InAll
      <4>1. Present = Wanted(run[r].env) \cap InAll
        BY <3>3, <3>4, <3>5, WantedIsEnabled
      <4>2. Wanted(run[r].env) \subseteq Listed
        BY DEF Wanted, Listed, ALWAYS_INCLUDED, APP_TOGGLE_MAP
      <4>. QED BY <4>1, <4>2
    <3>7. \A a \in Present : apps[a] = all[a]
      BY <3>3, <3>5 DEF Result
    <3>8. "doubled" \notin torn => \A a \in Present : apps[a] = "whole"
      BY <3>3, <3>4, <3>7 DEF WholeInv, InAll
    <3>9. Present' = Present /\ InAll' = InAll
      BY <3>1 DEF Present, InAll
    <3>. QED BY <3>1, <3>2, <3>6, <3>7, <3>8, <3>9 DEF RenderedAsAsked
  <2>4. CASE RenderEnds(r)
    <3>1. PICK rc \in {0, 1} : /\ Exit(r, rc) /\ (rc = 0 => ~run[r].failures)
                               /\ run[r].todo = {} /\ run[r].pc = "render"
                               /\ UNCHANGED <<apps, all, rendered>>
      BY <2>4 DEF RenderEnds
    <3>2. /\ last'.prog = "overlays" /\ last'.env = run[r].env /\ run[r].calm /\ ~run[r].failures
      BY <2>1, <3>1, Typed
    <3>3. \A c \in Components : rendered[c] = resolve(run[r].env, "ENVOY_GATEWAY_VERSION")
      BY <3>1, <3>2 DEF CalmInv, Done
    <3>. QED BY <3>1, <3>2, <3>3 DEF RenderedAsAsked
  <2>5. CASE List(r)
    <3>1. PICK rc \in {0, 1} : Exit(r, rc) /\ (rc = 0 => run[r].dry)
      BY <2>2, <2>5, Lists
    <3>2. last'.prog = "apps" /\ last'.dry
      BY <2>1, <2>5, <3>1, Typed DEF List, AppsLabels
    <3>. QED BY <3>2 DEF RenderedAsAsked
  <2>6. CASE Interrupt(r)
    BY <2>6, UnknownTyped DEF Interrupt
  <2>7. CASE MoveFails(r)
    BY <2>1, <2>7 DEF MoveFails
  <2>8. CASE \/ bootstrap_apps_all(r) \/ mkdir(r) \/ glob(r) \/ Move(r) \/ Moved(r) \/ Remove(r)
             \/ Open(r) \/ Write(r) \/ LookForStale(r) \/ RemoveStale(r) \/ render(r)
    BY <2>2, <2>8 DEF bootstrap_apps_all, mkdir, glob, Move, Moved, Remove, Open, Write,
                      LookForStale, RemoveStale, render
  <2>. QED BY <1>3, <2>3, <2>4, <2>5, <2>6, <2>7, <2>8 DEF Step
<1>. QED BY <1>1, <1>2, <1>3 DEF Next, Step

\* A render that no other one overlapped and that ended with 0 has left what its
\* environment asks for as apps.all has it, whatever it found, and whole files unless two
\* renders had set out to make the first move; and an overlay render the one version
\* (render_app_of_apps.py:72-142, render_overlays.py:79-117).
THEOREM RendersRepair == Spec => []RenderedAsAsked
<1>1. Init => RenderedAsAsked
  BY UnknownTyped DEF Init, RenderedAsAsked
<1>. QED BY <1>1, TypeInit, TypeStep, CalmIsAloneInit, CalmIsAloneStep, WholeInvInit, WholeInvStep,
            CalmInvInit, CalmInvStep, OutcomeStep, PTL DEF Spec

===============================================================================
