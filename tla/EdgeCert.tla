------------------------------- MODULE EdgeCert --------------------------------
(***************************************************************************)
(* scripts/gitops/gen-edge-cert.py --apply: the certificate of the edge,   *)
(* kept as two files in the home directory, and the Secret with a copy of  *)
(* it that the gateway serves.                                             *)
(*                                                                         *)
(* openssl and kubectl are not part of the repository.  A key pair is a    *)
(* model value; a certificate carries its key and whether its name and its *)
(* dates are right.  openssl writes the key file before the certificate;   *)
(* kubectl create reads both files, refuses a pair that does not match,    *)
(* and refuses a Secret that exists.                                       *)
(*                                                                         *)
(* Abstracted: --check and --dry-run, which change nothing, messages, and  *)
(* the permissions of the files.                                           *)
(***************************************************************************)
EXTENDS Naturals

CONSTANTS
    Keys,      \* key pairs; at most three are in use when a command starts
    None,      \* no file, no Secret
    MaxFaults  \* bound on what goes wrong: failures, interrupts, lost files and clusters

Certs == [key : Keys, fit : BOOLEAN]

ASSUME EdgeCertAssumption ==
    /\ None \notin Keys \cup Certs
    /\ MaxFaults \in Nat
    /\ \A a, b, c \in Keys \cup {None} : \E new \in Keys : new \notin {a, b, c}

VARIABLES
    disk,       \* tls.key and tls.crt in ~/.hpdc/certs
    served,     \* the certificate in Secret hpdc-edge-tls
    namespace,  \* whether namespace envoy-gateway-system exists
    job,        \* the command in the terminal
    pc,         \* where it stands; "shell" when there is none
    made,       \* the key pair the running openssl has made
    calm,       \* nothing failed and nobody interfered since the command began
    last,       \* how it ended, until something else happens
    faults      \* how much went wrong so far

secret == <<disk, served, namespace, made>>
outcome == <<calm, faults>>

Idle == [prog |-> "none", force |-> FALSE, broken |-> FALSE]
Unknown == [job |-> Idle, rc |-> 0, calm |-> FALSE]

KeysOf(cert) == IF cert = None THEN {} ELSE {cert.key}
Unused == Keys \ ({disk.key} \cup KeysOf(disk.crt) \cup KeysOf(served))

Goto(label) == pc' = label
Stay == UNCHANGED <<job, last>>
Fine == UNCHANGED outcome
Fails == faults < MaxFaults /\ faults' = faults + 1 /\ calm' = FALSE

Exit(rc) ==
    /\ Goto("shell")
    /\ last' = [job |-> job, rc |-> rc, calm |-> calm']
    /\ job' = Idle

\* Step 04 calls the installer of the gateway next.
Succeed == IF job.prog = "step04" THEN Goto("crds") /\ Stay ELSE Exit(0)

-----------------------------------------------------------------------------
\* _validate_cert_pair: the dates, the name, and that the two files match.
Matches == disk.crt # None /\ disk.key = disk.crt.key
validate_cert_pair == Matches /\ disk.crt.fit

\* Mutated form of cert_state: one file of the two is enough to be judged.
cert_state_either ==
    IF disk.key = None /\ disk.crt = None THEN "missing"
    ELSE IF validate_cert_pair THEN "valid" ELSE "invalid"

cert_state ==
    IF disk.key = None \/ disk.crt = None THEN "missing"
    ELSE IF validate_cert_pair THEN "valid" ELSE "invalid"

\* apply decides once, from the files; an invalid pair is replaced with --force only.
Judge ==
    /\ pc = "judge"
    /\ Fine /\ UNCHANGED secret
    /\ IF cert_state = "valid" THEN Goto("probe") /\ Stay
       ELSE IF cert_state = "missing" \/ job.force THEN Goto("key") /\ Stay
       ELSE Exit(1)

\* _generate_cert: one call of openssl, which may be cut between its two files.
GenerateKey ==
    /\ pc = "key"
    /\ made' = CHOOSE k \in Unused : TRUE
    /\ disk' = [disk EXCEPT !.key = made']
    /\ Goto("crt")
    /\ Stay /\ Fine /\ UNCHANGED <<served, namespace>>

\* Mutated form of GenerateCert: the key of the finished openssl is kept.
GenerateCertAgain ==
    /\ pc = "crt"
    /\ disk' = [disk EXCEPT !.crt = [key |-> made, fit |-> TRUE]]
    /\ Goto("verify")
    /\ Stay /\ Fine /\ UNCHANGED <<served, namespace, made>>

GenerateCert ==
    /\ pc = "crt"
    /\ disk' = [disk EXCEPT !.crt = [key |-> made, fit |-> TRUE]]
    /\ made' = None
    /\ Goto("verify")
    /\ Stay /\ Fine /\ UNCHANGED <<served, namespace>>

Verify ==
    /\ pc = "verify"
    /\ Fine /\ UNCHANGED secret
    /\ IF validate_cert_pair THEN Goto("probe") /\ Stay ELSE Exit(1)

-----------------------------------------------------------------------------
has_kubectl_cluster ==
    /\ pc = "probe"
    /\ Goto("namespace")
    /\ Stay /\ Fine /\ UNCHANGED secret

ensure_namespace ==
    /\ pc = "namespace"
    /\ namespace' = TRUE
    /\ Goto("lookup")
    /\ Stay /\ Fine /\ UNCHANGED <<disk, served, made>>

\* Any error of kubectl get is taken for the absence of the Secret.
secret_exists ==
    /\ pc = "lookup"
    /\ \/ Fine /\ Goto(IF served # None THEN "compare" ELSE "create")
       \/ Fails /\ Goto("create")
    /\ Stay /\ UNCHANGED secret

\* openssl pkey has no option -modulus, so the comparison of the keys never succeeds.
SameModulus == FALSE
secret_matches_disk == served = disk.crt /\ SameModulus

ensure_secret ==
    /\ pc = "compare"
    /\ \/ Fine /\ IF secret_matches_disk THEN Succeed ELSE Goto("delete") /\ Stay
       \/ Fails /\ Goto("delete") /\ Stay
    /\ UNCHANGED secret

\* Whether it was deleted is not asked.
DeleteSecret ==
    /\ pc = "delete"
    /\ \/ Fine /\ served' = None
       \/ Fails /\ served' \in {served, None}
    /\ Goto("create")
    /\ Stay /\ UNCHANGED <<disk, namespace, made>>

create_secret ==
    LET possible == namespace /\ served = None /\ Matches IN
    /\ pc = "create"
    /\ \/ Fine /\ IF possible THEN served' = disk.crt /\ Succeed
                              ELSE Exit(1) /\ UNCHANGED served
       \/ Fails /\ Exit(1) /\ served' \in {served} \cup IF possible THEN {disk.crt} ELSE {}
    /\ UNCHANGED <<disk, namespace, made>>

\* A missing tool or manifest, openssl, or kubectl ends the program; a namespace may
\* have been created all the same.
EdgeCertFails ==
    /\ pc \in {"judge", "key", "crt", "probe", "namespace"}
    /\ Fails /\ Exit(1)
    /\ namespace' \in {namespace} \cup IF pc = "namespace" THEN {TRUE} ELSE {}
    /\ made' = None
    /\ UNCHANGED <<disk, served>>

EdgeCertNext ==
    \/ Judge \/ GenerateKey \/ GenerateCert \/ Verify
    \/ has_kubectl_cluster \/ ensure_namespace \/ secret_exists \/ ensure_secret
    \/ DeleteSecret \/ create_secret \/ EdgeCertFails
================================================================================
