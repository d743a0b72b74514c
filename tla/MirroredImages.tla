---------------------------- MODULE MirroredImages ----------------------------
(***************************************************************************)
(* What the programs that fill the local registry promise to the nodes,    *)
(* which pull from nowhere else: a repository serves nothing, and from     *)
(* some moment on the complete image, however often a program that fills   *)
(* it was cut, failed, or ran twice at a time.                             *)
(***************************************************************************)
CONSTANT Repos

VARIABLES
    serves,   \* serves[r]: "nothing", the "image", or a "broken" one
    unchecked \* neither this side nor the registry checks what is uploaded

Init ==
    /\ serves = [r \in Repos |-> "nothing"]
    /\ unchecked \in BOOLEAN

Fill(r) ==
    /\ serves[r] = "nothing"
    /\ \E what \in {"image"} \cup IF unchecked THEN {"broken"} ELSE {} :
          serves' = [serves EXCEPT ![r] = what]

\* A broken image is repaired by another upload of the blobs that it lacks.
Repair(r) ==
    /\ serves[r] = "broken"
    /\ serves' = [serves EXCEPT ![r] = "image"]

Next == \E r \in Repos : (Fill(r) \/ Repair(r)) /\ UNCHANGED unchecked

Spec == Init /\ [][Next]_<<serves, unchecked>>
===============================================================================
