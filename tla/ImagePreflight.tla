----------------------------- MODULE ImagePreflight -----------------------------
(***************************************************************************)
(* scripts/services/image-preflight.py: it compares the images of the      *)
(* catalogue with the local docker and with the registry that mirror-image *)
(* fills, and pulls what is missing.  It asks about each image once, at    *)
(* the start, while mirrors go on.                                         *)
(*                                                                         *)
(* Abstracted: the report, components (any part of the catalogue may be    *)
(* asked for), images that are built here (the catalogue has none).        *)
(***************************************************************************)
EXTENDS MirrorImage

CONSTANTS
    Images,  \* the catalogue
    Bare,    \* those whose names have no path: nginx, alpine
    Options  \* options of a call

\* Where an image may be in the registry.
mirror_repo_candidates(i) ==
    {<<i, "plain">>} \cup IF i \in Bare THEN {<<i, "library">>} ELSE {}

ASSUME PreflightAssumption ==
    /\ Options \subseteq [check : BOOLEAN, pull : BOOLEAN, load : BOOLEAN, force : BOOLEAN]
    /\ Bare \subseteq Images
    /\ Repos = UNION {mirror_repo_candidates(i) : i \in Images}

VARIABLES
    local,    \* images of the docker of the host
    markers,  \* images with a marker file
    preflight \* the program, or the last one that ran

vars == <<mirrorVars, local, markers, preflight>>

NoStatus == [local |-> FALSE, mirrored |-> "unknown"]
NoOptions == [check |-> FALSE, pull |-> FALSE, load |-> FALSE, force |-> FALSE]
Idle == [pc |-> "ended", opts |-> NoOptions, asked |-> {}, todo |-> {},
         status |-> [i \in Images |-> NoStatus], failures |-> FALSE, code |-> 0]

Init ==
    /\ MirrorInit
    /\ local \in SUBSET Images /\ markers = {}
    /\ preflight = Idle

\* A program that failed leaves nothing behind that anyone looks at.
Exit(code) == preflight' = IF code = 0 THEN [preflight EXCEPT !.pc = "ended"] ELSE Idle

StartPreflight ==
    /\ preflight.pc = "ended"
    /\ \E opts \in Options, asked \in (SUBSET Images) \ {{}} :
          preflight' = [Idle EXCEPT !.pc = "look", !.opts = opts, !.asked = asked, !.todo = asked]
    /\ UNCHANGED <<mirrorVars, local, markers>>

\* Of the paths of an image, some are answered with the list of their tags and some with an
\* error, which is an answer too, also where the tag is there; no answer is "unknown".
check_mirror_tag(listed, refused) ==
    IF listed \cap tags # {} THEN "yes"
    ELSE IF listed \cup refused # {} THEN "no" ELSE "unknown"

\* The images are looked at one by one.
check_images ==
    /\ preflight.pc = "look" /\ preflight.todo # {}
    /\ \E i \in preflight.todo :
          \E listed, refused \in SUBSET mirror_repo_candidates(i) :
             preflight' = [preflight EXCEPT
                !.todo = @ \ {i},
                !.status[i] = [local |-> i \in local,
                               mirrored |-> check_mirror_tag(listed, refused)]]
    /\ UNCHANGED <<mirrorVars, local, markers>>

\* With all of them known, the gate decides about the exit code, if it is asked.
Gate ==
    /\ preflight.pc = "look" /\ preflight.todo = {}
    /\ LET blocked == {i \in preflight.asked : preflight.status[i].mirrored = "no"}
           code == IF preflight.opts.check /\ blocked # {} THEN 1 ELSE 0 IN
       IF preflight.opts.pull
       THEN preflight' = [preflight EXCEPT !.pc = "pull", !.todo = preflight.asked, !.code = code]
       ELSE IF preflight.opts.load
       THEN preflight' = [preflight EXCEPT !.pc = "load", !.code = code]
       ELSE Exit(code)
    /\ UNCHANGED <<mirrorVars, local, markers>>

Pulled(i, failed) ==
    preflight' = [preflight EXCEPT !.todo = @ \ {i}, !.failures = @ \/ failed]

\* Mutated form of InMirror: no answer is not a no.
InMirrorPerhaps(i) == preflight.status[i].mirrored # "no" /\ ~preflight.status[i].local

InMirror(i) == preflight.status[i].mirrored = "yes" /\ ~preflight.status[i].local

\* An image that nodes get from the mirror is marked and not pulled; one that docker has
\* is neither, unless it is forced.
pull_missing ==
    /\ preflight.pc = "pull"
    /\ \E i \in preflight.todo :
          \/ /\ InMirror(i)
             /\ markers' = markers \cup {i} /\ UNCHANGED local
             /\ Pulled(i, FALSE)
          \/ /\ ~InMirror(i) /\ preflight.status[i].local /\ ~preflight.opts.force
             /\ UNCHANGED <<local, markers>>
             /\ Pulled(i, FALSE)
          \/ /\ ~InMirror(i) /\ (preflight.status[i].local => preflight.opts.force)
             /\ \/ UNCHANGED <<local, markers>> /\ Pulled(i, TRUE)
                \/ /\ local' = local \cup {i} /\ markers' = markers \cup {i}
                   /\ Pulled(i, FALSE)
    /\ UNCHANGED mirrorVars

PullEnds ==
    /\ preflight.pc = "pull" /\ preflight.todo = {}
    /\ IF preflight.failures THEN Exit(1)
       ELSE IF preflight.opts.load THEN preflight' = [preflight EXCEPT !.pc = "load"]
       ELSE Exit(preflight.code)
    /\ UNCHANGED <<mirrorVars, local, markers>>

\* Only images that were local at the start are loaded; sudo takes TALOSCONFIG for the
\* command, so that none of them is.
load_images_to_cluster ==
    /\ preflight.pc = "load"
    /\ \E endpoint \in BOOLEAN :
          LET failed == IF endpoint THEN {i \in preflight.asked : preflight.status[i].local}
                        ELSE preflight.asked
          IN Exit(IF failed # {} THEN 1 ELSE preflight.code)
    /\ UNCHANGED <<mirrorVars, local, markers>>

KillPreflight ==
    /\ preflight.pc # "ended" /\ Exit(1)
    /\ UNCHANGED <<mirrorVars, local, markers>>

\* The user builds or tags an image, or between two calls removes one; what the last
\* call said of it does not count any more.
ChangeDocker ==
    /\ \E i \in Images :
          \/ /\ preflight.pc = "ended"
             /\ local' = local \ {i} /\ preflight' = Idle
          \/ local' = local \cup {i} /\ UNCHANGED preflight
    /\ UNCHANGED <<mirrorVars, markers>>

Next ==
    \/ MirrorNext /\ UNCHANGED <<local, markers, preflight>>
    \/ StartPreflight \/ check_images \/ Gate \/ pull_missing \/ PullEnds
    \/ load_images_to_cluster \/ KillPreflight \/ ChangeDocker

Spec == Init /\ [][Next]_vars

-----------------------------------------------------------------------------
(* Properties.                                                             *)

\* Every variable stays in its set.
TypeOK ==
    /\ MirrorTypeOK
    /\ local \subseteq Images /\ markers \subseteq Images
    /\ preflight \in
          [pc : {"look", "pull", "load", "ended"}, opts : Options \cup {NoOptions},
           asked : SUBSET Images, todo : SUBSET Images,
           status : [Images -> [local : BOOLEAN, mirrored : {"yes", "no", "unknown"}]],
           failures : BOOLEAN, code : {0, 1}]

Succeeded(option) == preflight.pc = "ended" /\ preflight.opts[option]

\* When the gate lets a cluster be made, the registry has the whole of every image that
\* it answered for, under one of the paths that were asked about - if manifests or blobs
\* are checked by anyone.
GateMeansPullable ==
    Succeeded("check") /\ (strict \/ lengths) =>
        \A i \in preflight.asked :
            \/ preflight.status[i].mirrored = "unknown"
            \/ \E r \in mirror_repo_candidates(i) : r \in tags /\ Complete(r)

\* After a successful pull every image is in docker, or in the registry
\* where the nodes may look; and it has its marker, without which its component is not installed,
\* unless docker had it already.
PulledMeansAvailable ==
    Succeeded("pull") =>
        \A i \in preflight.asked :
            /\ i \in local \/ mirror_repo_candidates(i) \cap tags # {}
            /\ i \in markers \/ preflight.status[i].local
================================================================================
