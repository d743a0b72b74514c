----------------------------- MODULE GatewayCerts ------------------------------
(***************************************************************************)
(* The certificates of the gateway: those of the edge (EdgeCert) and those *)
(* by which the operator and the proxy of Envoy Gateway know each other,   *)
(* which scripts/gitops/install-envoy-gateway-dev.py --apply keeps in      *)
(* /tmp/eg-certs and copies into two Secrets.  Step 04 runs both programs. *)
(*                                                                         *)
(* Around them: the user and the clean-up of /tmp, who remove files at any *)
(* time, time, and startup.dev.py, which replaces the cluster.             *)
(*                                                                         *)
(* Abstracted: the key and the certificate of a name are written by the    *)
(* same run, so their match is not recorded; the CRDs and the manifest but *)
(* for the namespace in it.                                                *)
(***************************************************************************)
EXTENDS EdgeCert

CONSTANTS CAs  \* certificate authorities; a command starts only if one is unused

Names == {"envoy-gateway", "envoy"}
Empty == "empty"  \* what openssl leaves of a certificate that it cannot sign

ASSUME GatewayCertsAssumption == CAs \cap {None, Empty} = {} /\ None # Empty

VARIABLES
    tmp,      \* /tmp/eg-certs: ca.key, ca.crt, and key and certificate of each name
    secrets,  \* the Secret of each name: its certificate and its ca.crt
    name,     \* the name the installer is at
    failed,   \* whether anything is in its list of failures
    spoiled   \* a single file was lost, or left empty, since the directory was empty

operator == <<tmp, secrets, name, failed, spoiled>>
vars == <<secret, job, pc, last, outcome, operator>>

Nothing == [cakey |-> None, ca |-> None, key |-> [n \in Names |-> FALSE],
            crt |-> [n \in Names |-> None]]

UnusedCAs ==
    CAs \ ({tmp.cakey, tmp.ca} \cup {tmp.crt[n] : n \in Names}
           \cup UNION {{secrets[n].crt, secrets[n].ca} : n \in {m \in Names : secrets[m] # None}})

Init ==
    /\ disk = [key |-> None, crt |-> None] /\ served = None /\ namespace = FALSE
    /\ job = Idle /\ pc = "shell" /\ made = None
    /\ calm = FALSE /\ last = Unknown /\ faults = 0
    /\ tmp = Nothing /\ secrets = [n \in Names |-> None]
    /\ name = "envoy-gateway" /\ failed = FALSE /\ spoiled = FALSE

Start ==
    /\ pc = "shell"
    /\ UnusedCAs # {}
    /\ \E prog \in {"edge", "step04", "gateway"}, force \in BOOLEAN :
          /\ force => prog = "edge"
          /\ job' = [prog |-> prog, force |-> force,
                     broken |-> disk.key # None /\ disk.crt # None /\ ~validate_cert_pair
                                /\ ~force]
          /\ Goto(IF prog = "gateway" THEN "crds" ELSE "judge")
    /\ calm' = TRUE /\ last' = Unknown
    /\ name' = "envoy-gateway" /\ failed' = FALSE
    /\ UNCHANGED <<secret, faults, tmp, secrets, spoiled>>

-----------------------------------------------------------------------------
(* install-envoy-gateway-dev.py                                            *)

apply_crds ==
    /\ pc = "crds"
    /\ Goto("ca")
    /\ Stay /\ Fine /\ UNCHANGED <<secret, operator>>

\* Mutated form of CaMissing: a new authority every time.
CaAlwaysMissing == TRUE

CaMissing == tmp.ca = None

LookForCA ==
    /\ pc = "ca"
    /\ Goto(IF CaMissing THEN "cakey" ELSE "leaf")
    /\ Stay /\ Fine /\ UNCHANGED <<secret, operator>>

GenerateCaKey ==
    /\ pc = "cakey"
    /\ tmp' = [tmp EXCEPT !.cakey = CHOOSE ca \in UnusedCAs : TRUE]
    /\ Goto("cacrt")
    /\ Stay /\ Fine /\ UNCHANGED <<secret, secrets, name, failed, spoiled>>

GenerateCa ==
    /\ pc = "cacrt"
    /\ tmp' = [tmp EXCEPT !.ca = tmp.cakey]
    /\ Goto("leaf")
    /\ Stay /\ Fine /\ UNCHANGED <<secret, secrets, name, failed, spoiled>>

LookForLeaf ==
    /\ pc = "leaf"
    /\ Goto(IF tmp.crt[name] = None THEN "csr" ELSE "look")
    /\ Stay /\ Fine /\ UNCHANGED <<secret, operator>>

\* On to the second name, or to the manifest if there were no failures.
NextName(fails) ==
    /\ failed' = (failed \/ fails)
    /\ IF name = "envoy-gateway" THEN name' = "envoy" /\ Goto("leaf") /\ Stay
       ELSE /\ UNCHANGED name
            /\ IF failed' THEN Exit(1) ELSE Goto("manifest") /\ Stay

RequestCert ==
    /\ pc = "csr"
    /\ \/ Fine /\ tmp' = [tmp EXCEPT !.key[name] = TRUE]
          /\ Goto("sign") /\ Stay /\ UNCHANGED <<name, failed>>
       \/ Fails /\ NextName(TRUE)
          /\ \E written \in {tmp.key[name], TRUE} : tmp' = [tmp EXCEPT !.key[name] = written]
    /\ UNCHANGED <<secret, secrets, spoiled>>

\* There is no san.cnf, so the first attempt fails, and the second one counts.  It
\* opens the file of the certificate before it finds out that it cannot sign.
SignCert ==
    /\ pc = "sign"
    /\ \/ /\ Fine /\ tmp.ca # None /\ tmp.cakey = tmp.ca
          /\ tmp' = [tmp EXCEPT !.crt[name] = tmp.ca]
          /\ Goto("look") /\ Stay /\ UNCHANGED <<name, failed, spoiled>>
       \/ /\ Fine /\ tmp.ca # None /\ tmp.cakey # tmp.ca
          /\ tmp' = [tmp EXCEPT !.crt[name] = Empty]
          /\ NextName(TRUE) /\ spoiled' = TRUE
       \/ /\ Fine /\ tmp.ca = None
          /\ NextName(TRUE) /\ UNCHANGED <<tmp, spoiled>>
       \/ /\ Fails
          /\ NextName(TRUE)
          /\ \E crt \in {None, Empty} :
                /\ tmp' = [tmp EXCEPT !.crt[name] = crt]
                /\ spoiled' = (spoiled \/ crt = Empty)
    /\ UNCHANGED <<secret, secrets>>

LookForSecret ==
    /\ pc = "look"
    /\ \/ Fine /\ Goto(IF secrets[name] # None THEN "drop" ELSE "put")
       \/ Fails /\ Goto("put")
    /\ Stay /\ UNCHANGED <<secret, operator>>

DropSecret ==
    /\ pc = "drop"
    /\ \/ Fine /\ secrets' = [secrets EXCEPT ![name] = None]
       \/ Fails /\ secrets' \in {secrets, [secrets EXCEPT ![name] = None]}
    /\ Goto("put")
    /\ Stay /\ UNCHANGED <<secret, tmp, name, failed, spoiled>>

\* kubectl does not look into the files.
PutSecret ==
    LET possible == /\ namespace /\ secrets[name] = None
                    /\ tmp.key[name] /\ tmp.crt[name] # None /\ tmp.ca # None
        done == [secrets EXCEPT ![name] = [crt |-> tmp.crt[name], ca |-> tmp.ca]]
    IN
    /\ pc = "put"
    /\ \/ Fine /\ NextName(~possible) /\ secrets' = IF possible THEN done ELSE secrets
       \/ Fails /\ NextName(TRUE) /\ secrets' \in {secrets} \cup IF possible THEN {done} ELSE {}
    /\ UNCHANGED <<secret, tmp, spoiled>>

\* The manifest declares the namespace.
apply_envoy_gateway ==
    /\ pc = "manifest"
    /\ namespace' = TRUE
    /\ Fine /\ Exit(0)
    /\ UNCHANGED <<disk, served, made, operator>>

\* A failing command, or a variable that is not set, ends the program.
InstallFails ==
    /\ pc \in {"crds", "cakey", "cacrt", "manifest"}
    /\ Fails /\ Exit(1)
    /\ namespace' \in {namespace} \cup IF pc = "manifest" THEN {TRUE} ELSE {}
    /\ UNCHANGED <<disk, served, made, operator>>

InstallNext ==
    \/ apply_crds \/ LookForCA \/ GenerateCaKey \/ GenerateCa
    \/ LookForLeaf \/ RequestCert \/ SignCert
    \/ LookForSecret \/ DropSecret \/ PutSecret
    \/ apply_envoy_gateway \/ InstallFails

-----------------------------------------------------------------------------
(* What happens around the programs.                                       *)

Disturbs == Fails /\ last' = Unknown /\ UNCHANGED <<job, pc, name, failed>>

Interrupt ==
    /\ pc # "shell"
    /\ Fails /\ last' = Unknown
    /\ Goto("shell") /\ job' = Idle /\ made' = None
    /\ UNCHANGED <<disk, served, namespace, operator>>

LoseEdgeFile ==
    /\ \E file \in {"key", "crt"} : disk[file] # None /\ disk' = [disk EXCEPT ![file] = None]
    /\ Disturbs /\ UNCHANGED <<served, namespace, made, tmp, secrets, spoiled>>

Expired(cert) == IF cert = None THEN None ELSE [cert EXCEPT !.fit = FALSE]

CertExpires ==
    /\ disk.crt # None /\ disk.crt.fit
    /\ disk' = [disk EXCEPT !.crt = Expired(disk.crt)]
    /\ served' = IF served = disk.crt THEN Expired(served) ELSE served
    /\ Disturbs /\ UNCHANGED <<namespace, made, tmp, secrets, spoiled>>

LoseOperatorFile ==
    /\ \/ \E file \in {"cakey", "ca"} :
             tmp[file] # None /\ tmp' = [tmp EXCEPT ![file] = None]
       \/ \E n \in Names : tmp.key[n] /\ tmp' = [tmp EXCEPT !.key[n] = FALSE]
       \/ \E n \in Names : tmp.crt[n] # None /\ tmp' = [tmp EXCEPT !.crt[n] = None]
    /\ spoiled' = TRUE
    /\ Disturbs /\ UNCHANGED <<secret, secrets>>

ClearTmp ==
    /\ pc = "shell" /\ tmp # Nothing
    /\ tmp' = Nothing /\ spoiled' = FALSE
    /\ Disturbs /\ UNCHANGED <<secret, secrets>>

NewCluster ==
    /\ namespace
    /\ served' = None /\ secrets' = [n \in Names |-> None] /\ namespace' = FALSE
    /\ Disturbs /\ UNCHANGED <<disk, made, tmp, spoiled>>

Next ==
    \/ Start
    \/ EdgeCertNext /\ UNCHANGED operator
    \/ InstallNext
    \/ Interrupt \/ LoseEdgeFile \/ CertExpires \/ LoseOperatorFile \/ ClearTmp \/ NewCluster

Spec == Init /\ [][Next]_vars
-----------------------------------------------------------------------------
(* Properties.                                                             *)

Labels == {"shell", "judge", "key", "crt", "verify", "probe", "namespace", "lookup",
           "compare", "delete", "create", "crds", "ca", "cakey", "cacrt", "leaf", "csr",
           "sign", "look", "drop", "put", "manifest"}
Jobs == [prog : {"none", "edge", "step04", "gateway"}, force : BOOLEAN, broken : BOOLEAN]
LeafCerts == CAs \cup {None, Empty}

\* Every variable stays in its set, and openssl is running exactly where the program
\* waits for its second file.
TypeOK ==
    /\ disk \in [key : Keys \cup {None}, crt : Certs \cup {None}]
    /\ served \in Certs \cup {None}
    /\ namespace \in BOOLEAN /\ calm \in BOOLEAN
    /\ failed \in BOOLEAN /\ spoiled \in BOOLEAN
    /\ job \in Jobs /\ pc \in Labels
    /\ made \in Keys \cup {None} /\ (pc = "crt" <=> made # None)
    /\ last \in [job : Jobs, rc : {0, 1}, calm : BOOLEAN]
    /\ faults \in 0 .. MaxFaults
    /\ tmp \in [cakey : CAs \cup {None}, ca : CAs \cup {None},
                 key : [Names -> BOOLEAN], crt : [Names -> LeafCerts]]
    /\ secrets \in [Names -> [crt : LeafCerts, ca : CAs] \cup {None}]
    /\ name \in Names

\* Whatever interrupts, failures, lost files and new clusters have left behind, one
\* undisturbed apply makes the gateway serve the pair on disk, with a valid name and
\* date (gen-edge-cert.py:441-475) - unless it found two files that are no valid pair
\* and was not given --force.
ApplyRepairs ==
    last.calm /\ last.job.prog \in {"edge", "step04"} /\ ~last.job.broken =>
        /\ served = disk.crt /\ validate_cert_pair
        /\ last.job.prog = "edge" => last.rc = 0

\* The two Secrets of the operator carry certificates of the one authority whose
\* certificate they carry too.
Trusted ==
    \E ca \in CAs : \A n \in Names : secrets[n] = [crt |-> ca, ca |-> ca]

\* "Both share the same CA so the proxy can verify the operator's cert"
\* (install-envoy-gateway-dev.py:41): interrupts and failures of kubectl alone cannot
\* break it.  As long as no single file of /tmp/eg-certs was lost or left empty, an
\* undisturbed step 04 repairs what they left (gen-edge-cert makes the namespace), and
\* without it an install either does so or fails.
InstallRepairs ==
    last.calm /\ ~spoiled =>
        /\ last.job.prog = "step04" /\ ~last.job.broken => last.rc = 0 /\ Trusted
        /\ last.job.prog = "gateway" /\ last.rc = 0 => Trusted
================================================================================
