--------------------------- MODULE GatewayCertsProof ---------------------------
(***************************************************************************)
(* What one undisturbed run of the certificate programs leaves, for any    *)
(* number of keys, authorities and mishaps before it.                      *)
(*                                                                         *)
(*   TypeInv     the type invariant, which program stands where, and that  *)
(*               a program which is going to make an authority finds one;  *)
(*   EdgeInv     what a calm apply has put right up to the statement it    *)
(*               stands at (gives ApplyRepairs);                           *)
(*   FilesInv    how the files of the operator hang together as long as no *)
(*               single one was lost or left empty, cut runs among them;   *)
(*   InstallInv  what a calm install has put right, name by name (gives    *)
(*               InstallRepairs).                                          *)
(***************************************************************************)
EXTENDS GatewayCerts, TLAPS

EdgeLabels == {"judge", "key", "crt", "verify", "probe", "namespace", "lookup", "compare",
               "delete", "create"}
CALabels == {"crds", "ca", "cakey", "cacrt"}
LeafLabels == {"leaf", "csr", "sign", "look", "drop", "put"}
InstallLabels == CALabels \cup LeafLabels \cup {"manifest"}

TypeInv ==
    /\ TypeOK
    /\ pc \in EdgeLabels => job.prog \in {"edge", "step04"}
    /\ pc \in InstallLabels => job.prog \in {"step04", "gateway"}
    /\ pc \in EdgeLabels \cup CALabels => name = "envoy-gateway"
    /\ pc \in EdgeLabels \cup {"crds", "ca", "cakey"} => UnusedCAs # {}
    /\ last.calm => pc = "shell"

\* An apply that nothing has disturbed, and that was not started on two files which are
\* no valid pair without being allowed to replace them.
Repairing == calm /\ job.prog \in {"edge", "step04"} /\ ~job.broken

EdgeInv ==
    /\ Repairing =>
          /\ pc = "judge" => disk.key = None \/ disk.crt = None \/ validate_cert_pair \/ job.force
          /\ pc = "crt" => disk.key = made
          /\ pc \in (EdgeLabels \ {"judge", "key", "crt"}) \cup InstallLabels => validate_cert_pair
          /\ pc \in {"lookup", "compare", "delete", "create"} \cup InstallLabels => namespace
          /\ pc = "create" => served = None
          /\ pc \in InstallLabels => served = disk.crt
    /\ ApplyRepairs

\* The key of the authority is that of its certificate, which has signed every
\* certificate there is; a certificate has its key beside it.
FilesInv ==
    ~spoiled =>
        /\ tmp.ca = None \/ tmp.cakey = tmp.ca
        /\ \A n \in Names : tmp.crt[n] # None => tmp.crt[n] = tmp.ca /\ tmp.key[n]
        /\ pc \in {"cakey", "cacrt"} => tmp.ca = None
        /\ pc = "cacrt" => tmp.cakey # None
        /\ pc \in LeafLabels \cup {"manifest"} => tmp.ca # None
        /\ pc = "sign" => tmp.key[name]
        /\ pc \in {"look", "drop", "put"} => tmp.crt[name] # None

Installed(n) == secrets[n] = [crt |-> tmp.ca, ca |-> tmp.ca]
InstallInv ==
    /\ calm /\ ~spoiled =>
          /\ pc = "put" => secrets[name] = None
          /\ pc \in LeafLabels /\ name = "envoy" /\ ~failed => Installed("envoy-gateway")
          /\ pc = "manifest" => \A n \in Names : Installed(n)
          /\ Repairing /\ pc # "shell" => ~failed
    /\ InstallRepairs

-----------------------------------------------------------------------------
(* Types.                                                                  *)

TmpDirs == [cakey : CAs \cup {None}, ca : CAs \cup {None},
            key : [Names -> BOOLEAN], crt : [Names -> LeafCerts]]
Copies == [Names -> [crt : LeafCerts, ca : CAs] \cup {None}]

LEMMA Beginnings ==
    /\ Idle \in Jobs /\ Idle.prog = "none"
    /\ Unknown \in [job : Jobs, rc : {0, 1}, calm : BOOLEAN] /\ ~Unknown.calm
    /\ Nothing \in TmpDirs
    /\ Nothing.ca = None /\ \A n \in Names : Nothing.crt[n] = None
    /\ "envoy-gateway" \in Names /\ "envoy" \in Names
BY DEF Idle, Jobs, Unknown, Nothing, Names, LeafCerts, TmpDirs

\* There is a key that openssl can make.
LEMMA FreshKey ==
    ASSUME TypeOK
    PROVE  (CHOOSE k \in Unused : TRUE) \in Keys
<1>1. PICK a \in Keys \cup {None} : a = disk.key
  BY DEF TypeOK
<1>2. PICK b \in Keys \cup {None} : KeysOf(disk.crt) \subseteq {b}
  BY DEF TypeOK, KeysOf, Certs
<1>3. PICK c \in Keys \cup {None} : KeysOf(served) \subseteq {c}
  BY DEF TypeOK, KeysOf, Certs
<1>4. PICK new \in Keys : new \notin {a, b, c}
  BY EdgeCertAssumption
<1>5. new \in Unused
  BY <1>1, <1>2, <1>3, <1>4 DEF Unused
<1>. QED BY <1>5 DEF Unused

\* The end of a program.
LEMMA Exits ==
    ASSUME TypeOK, calm' \in BOOLEAN, NEW rc \in {0, 1}, Exit(rc)
    PROVE  /\ pc' = "shell" /\ job' = Idle
           /\ last' = [job |-> job, rc |-> rc, calm |-> calm']
           /\ last' \in [job : Jobs, rc : {0, 1}, calm : BOOLEAN]
           /\ last'.job = job /\ last'.rc = rc /\ last'.calm = calm'
BY DEF Exit, Goto, TypeOK

LEMMA Outcomes ==
    ASSUME TypeOK
    PROVE  /\ Fine => calm' = calm /\ calm' \in BOOLEAN /\ faults' \in 0 .. MaxFaults
           /\ Fails => ~calm' /\ calm' \in BOOLEAN /\ faults' \in 0 .. MaxFaults
<1>1. Fine => calm' = calm /\ faults' = faults
  BY DEF Fine, outcome
<1>2. Fails => faults' = faults + 1 /\ faults < MaxFaults /\ calm' = FALSE
  BY DEF Fails
<1>3. faults \in 0 .. MaxFaults /\ MaxFaults \in Nat /\ calm \in BOOLEAN
  BY EdgeCertAssumption DEF TypeOK
<1>4. Fails => faults' \in 0 .. MaxFaults
  BY <1>2, <1>3
<1>. QED BY <1>1, <1>2, <1>3, <1>4

LEMMA TypeInit == Init => TypeInv
<1> SUFFICES ASSUME Init PROVE TypeInv
  OBVIOUS
<1>1. secrets \in Copies
  BY DEF Init, Copies
<1>2. faults \in 0 .. MaxFaults
  BY EdgeCertAssumption DEF Init
<1>3. disk \in [key : Keys \cup {None}, crt : Certs \cup {None}] /\ served \in Certs \cup {None}
  BY DEF Init
<1>. QED BY <1>1, <1>2, <1>3, Beginnings
            DEF TmpDirs, Copies, Init, TypeInv, TypeOK, EdgeLabels, CALabels, LeafLabels,
                InstallLabels, Labels

LEMMA StartTyped == TypeInv /\ Start => TypeInv'
<1> SUFFICES ASSUME TypeInv, Start PROVE TypeInv'
  OBVIOUS
<1>1. PICK prog \in {"edge", "step04", "gateway"}, force \in BOOLEAN, broken \in BOOLEAN :
          /\ job' = [prog |-> prog, force |-> force, broken |-> broken]
          /\ pc' = IF prog = "gateway" THEN "crds" ELSE "judge"
  BY DEF Start, Goto
<1>2. job' \in Jobs /\ job'.prog = prog
  BY <1>1 DEF Jobs
<1>3. UnusedCAs # {} /\ UnusedCAs' = UnusedCAs
  BY DEF Start, UnusedCAs
<1>4. /\ last' = Unknown /\ calm' \in BOOLEAN
      /\ name' = "envoy-gateway" /\ failed' = FALSE
      /\ UNCHANGED <<disk, served, namespace, made, faults, tmp, secrets, spoiled>>
  BY DEF Start, secret
<1>5. pc' \in {"crds", "judge"} /\ pc # "crt"
  BY <1>1 DEF Start
<1>6. TypeOK'
  <2>1. last' \in [job : Jobs, rc : {0, 1}, calm : BOOLEAN] /\ name' \in Names
    BY <1>4, Beginnings
  <2>. QED BY <1>2, <1>4, <1>5, <2>1 DEF TypeInv, TypeOK, Labels
<1>. QED BY <1>1, <1>2, <1>3, <1>4, <1>6, Beginnings
         DEF TypeInv, EdgeLabels, CALabels, LeafLabels, InstallLabels

\* A program goes on within the statements of gen-edge-cert.py.
LEMMA EdgeTyped == TypeInv /\ EdgeCertNext /\ UNCHANGED operator => TypeInv'
<1> SUFFICES ASSUME TypeInv, EdgeCertNext, UNCHANGED operator PROVE TypeInv'
  OBVIOUS
<1> USE DEF EdgeLabels, CALabels, LeafLabels, InstallLabels
<1>1. /\ UnusedCAs' = UnusedCAs /\ name' = name /\ failed' = failed /\ spoiled' = spoiled
      /\ tmp' = tmp /\ secrets' = secrets
  BY DEF operator, UnusedCAs
<1>2. calm' \in BOOLEAN /\ faults' \in 0 .. MaxFaults
  BY Outcomes
     DEF TypeInv, EdgeCertNext, Judge, GenerateKey, GenerateCert, Verify, has_kubectl_cluster,
         ensure_namespace, secret_exists, ensure_secret, DeleteSecret, create_secret, EdgeCertFails
<1>3. Judge => TypeInv'
  BY <1>1, <1>2, Beginnings, Exits DEF Judge, TypeInv, TypeOK, secret, Goto, Stay, Labels
<1>4. GenerateKey => TypeInv'
  <2> SUFFICES ASSUME GenerateKey PROVE TypeInv'
    OBVIOUS
  <2>1. made' \in Keys
    BY FreshKey DEF GenerateKey, TypeInv
  <2>2. disk' \in [key : Keys \cup {None}, crt : Certs \cup {None}]
    BY <2>1 DEF GenerateKey, TypeInv, TypeOK
  <2>3. made' # None
    BY <2>1, EdgeCertAssumption
  <2>4. pc = "key" /\ pc' = "crt" /\ job' = job /\ last' = last /\ served' = served /\ namespace' = namespace
    BY DEF GenerateKey, Goto, Stay
  <2>. QED BY <1>1, <1>2, <2>1, <2>2, <2>3, <2>4
           DEF TypeInv, TypeOK, Labels
<1>5. GenerateCert => TypeInv'
  <2> SUFFICES ASSUME GenerateCert PROVE TypeInv'
    OBVIOUS
  <2>1. made \in Keys
    BY DEF GenerateCert, TypeInv, TypeOK
  <2>2. [key |-> made, fit |-> TRUE] \in Certs
    BY <2>1 DEF Certs
  <2>3. disk' \in [key : Keys \cup {None}, crt : Certs \cup {None}]
    BY <2>2 DEF GenerateCert, TypeInv, TypeOK
  <2>. QED BY <1>1, <1>2, <2>3 DEF GenerateCert, TypeInv, TypeOK, Goto, Stay, Labels
<1>6. Verify => TypeInv'
  BY <1>1, <1>2, Beginnings, Exits DEF Verify, TypeInv, TypeOK, secret, Goto, Stay, Labels
<1>7. has_kubectl_cluster \/ ensure_namespace \/ secret_exists \/ DeleteSecret => TypeInv'
  BY <1>1, <1>2
     DEF has_kubectl_cluster, ensure_namespace, secret_exists, DeleteSecret,
         TypeInv, TypeOK, secret, Goto, Stay, Labels
<1>8. ensure_secret => TypeInv'
  BY <1>1, <1>2 DEF ensure_secret, secret_matches_disk, SameModulus, TypeInv, TypeOK, secret,
                    Goto, Stay, Labels
<1>9. create_secret => TypeInv'
  <2> SUFFICES ASSUME create_secret PROVE TypeInv'
    OBVIOUS
  <2>1. served' \in Certs \cup {None}
    BY DEF create_secret, TypeInv, TypeOK
  <2>2. CASE Exit(0) \/ Exit(1)
    BY <1>1, <1>2, <2>1, <2>2, Beginnings, Exits DEF create_secret, TypeInv, TypeOK, Labels
  <2>3. CASE job.prog = "step04" /\ Goto("crds") /\ Stay
    BY <1>1, <1>2, <2>1, <2>3 DEF create_secret, TypeInv, TypeOK, Goto, Stay, Labels
  <2>. QED BY <2>2, <2>3 DEF create_secret, Succeed
<1>10. EdgeCertFails => TypeInv'
  BY <1>1, <1>2, Beginnings, Exits DEF EdgeCertFails, TypeInv, TypeOK, Labels
<1>. QED BY <1>3, <1>4, <1>5, <1>6, <1>7, <1>8, <1>9, <1>10 DEF EdgeCertNext

\* One file of /tmp/eg-certs changes, and no other.
LEMMA FileChanges ==
    ASSUME TypeOK, NEW n \in Names
    PROVE  /\ \A x \in BOOLEAN : tmp' = [tmp EXCEPT !.key[n] = x] =>
                 /\ tmp' \in TmpDirs /\ tmp'.ca = tmp.ca /\ tmp'.cakey = tmp.cakey
                 /\ tmp'.crt = tmp.crt /\ tmp'.key = [tmp.key EXCEPT ![n] = x]
           /\ \A x \in LeafCerts : tmp' = [tmp EXCEPT !.crt[n] = x] =>
                 /\ tmp' \in TmpDirs /\ tmp'.ca = tmp.ca /\ tmp'.cakey = tmp.cakey
                 /\ tmp'.crt = [tmp.crt EXCEPT ![n] = x] /\ tmp'.key = tmp.key
           /\ \A x \in CAs \cup {None} : tmp' = [tmp EXCEPT !.cakey = x] =>
                 /\ tmp' \in TmpDirs /\ tmp'.ca = tmp.ca /\ tmp'.cakey = x
                 /\ tmp'.crt = tmp.crt /\ tmp'.key = tmp.key
           /\ \A x \in CAs \cup {None} : tmp' = [tmp EXCEPT !.ca = x] =>
                 /\ tmp' \in TmpDirs /\ tmp'.ca = x /\ tmp'.cakey = tmp.cakey
                 /\ tmp'.crt = tmp.crt /\ tmp'.key = tmp.key
<1>1. tmp \in TmpDirs
  BY DEF TypeOK, TmpDirs
<1>. QED BY <1>1 DEF TmpDirs

\* On to the next name: the program stays in its loop, goes on to the manifest, or ends.
LEMMA NextNames ==
    ASSUME TypeOK, calm' \in BOOLEAN, NEW fails \in BOOLEAN, NextName(fails)
    PROVE  /\ failed' \in BOOLEAN /\ (failed' <=> failed \/ fails) /\ name' \in Names
           /\ \/ /\ name = "envoy-gateway" /\ name' = "envoy" /\ pc' = "leaf"
                 /\ job' = job /\ last' = last
              \/ /\ name = "envoy" /\ name' = name /\ ~failed' /\ pc' = "manifest"
                 /\ job' = job /\ last' = last
              \/ /\ name = "envoy" /\ name' = name /\ failed' /\ pc' = "shell" /\ job' = Idle
                 /\ last' = [job |-> job, rc |-> 1, calm |-> calm']
                 /\ last' \in [job : Jobs, rc : {0, 1}, calm : BOOLEAN]
BY Exits DEF NextName, TypeOK, Names, Goto, Stay

\* A program goes on within the loop over the names.
LEMMA LoopTyped ==
    ASSUME TypeInv, RequestCert \/ SignCert \/ PutSecret
    PROVE  TypeInv'
<1> USE DEF EdgeLabels, CALabels, LeafLabels, InstallLabels
<1>1. /\ calm' \in BOOLEAN /\ faults' \in 0 .. MaxFaults
      /\ disk' = disk /\ served' = served /\ namespace' = namespace /\ made' = made
      /\ spoiled' \in BOOLEAN /\ pc \in {"csr", "sign", "put"}
  BY Outcomes DEF TypeInv, TypeOK, RequestCert, SignCert, PutSecret, secret
<1>2. tmp' \in TmpDirs /\ secrets' \in Copies
  <2>0. tmp \in TmpDirs /\ secrets \in Copies /\ name \in Names
    BY DEF TypeInv, TypeOK, TmpDirs, Copies
  <2>1. CASE RequestCert
    <3>1. \E x \in BOOLEAN : tmp' = [tmp EXCEPT !.key[name] = x]
      BY <2>0, <2>1 DEF RequestCert, TmpDirs
    <3>. QED BY <2>0, <2>1, <3>1, FileChanges DEF RequestCert, TypeInv
  <2>2. CASE SignCert
    <3>1. tmp' = tmp \/ \E x \in LeafCerts : tmp' = [tmp EXCEPT !.crt[name] = x]
      BY <2>0, <2>2 DEF SignCert, TmpDirs, LeafCerts
    <3>. QED BY <2>0, <2>2, <3>1, FileChanges DEF SignCert, TypeInv
  <2>3. CASE PutSecret
    <3>1. \/ secrets' = secrets
          \/ /\ tmp.ca # None
             /\ secrets' = [secrets EXCEPT ![name] = [crt |-> tmp.crt[name], ca |-> tmp.ca]]
      BY <2>3 DEF PutSecret
    <3>2. tmp.ca # None => [crt |-> tmp.crt[name], ca |-> tmp.ca] \in [crt : LeafCerts, ca : CAs]
      BY <2>0 DEF TmpDirs
    <3>. QED BY <2>0, <2>3, <3>1, <3>2 DEF PutSecret, Copies
  <2>. QED BY <2>1, <2>2, <2>3
<1>3. \/ /\ pc' \in {"sign", "look"} /\ job' = job /\ last' = last
         /\ name' = name /\ failed' = failed
      \/ \E fails \in BOOLEAN : NextName(fails)
  BY DEF RequestCert, SignCert, PutSecret, Goto, Stay
<1>. QED BY <1>1, <1>2, <1>3, NextNames, Beginnings DEF TmpDirs, Copies, TypeInv, TypeOK, Labels

\* A program goes on within install-envoy-gateway-dev.py.
LEMMA InstallTyped == TypeInv /\ InstallNext => TypeInv'
<1> SUFFICES ASSUME TypeInv, InstallNext PROVE TypeInv'
  OBVIOUS
<1> USE DEF EdgeLabels, CALabels, LeafLabels, InstallLabels
<1>1. /\ calm' \in BOOLEAN /\ faults' \in 0 .. MaxFaults
  BY Outcomes
     DEF TypeInv, InstallNext, apply_crds, LookForCA, GenerateCaKey, GenerateCa, LookForLeaf,
         RequestCert, SignCert, LookForSecret, DropSecret, PutSecret, apply_envoy_gateway,
         InstallFails
<1>2. ASSUME apply_crds \/ LookForCA \/ LookForLeaf \/ LookForSecret PROVE TypeInv'
  <2>1. UNCHANGED <<secret, operator, job, last>> /\ UnusedCAs' = UnusedCAs
    BY <1>2 DEF apply_crds, LookForCA, LookForLeaf, LookForSecret, Stay, UnusedCAs, operator
  <2>. QED BY <1>1, <1>2, <2>1
           DEF apply_crds, LookForCA, LookForLeaf, LookForSecret, Goto, operator, secret, TypeInv,
               TypeOK, Labels
<1>3. ASSUME GenerateCaKey \/ GenerateCa PROVE TypeInv'
  <2>1. \E x \in CAs \cup {None} : tmp' = [tmp EXCEPT !.cakey = x] \/ tmp' = [tmp EXCEPT !.ca = x]
    <3>1. pc = "cakey" => (CHOOSE ca \in UnusedCAs : TRUE) \in CAs
      BY DEF TypeInv, UnusedCAs
    <3>2. tmp.cakey \in CAs \cup {None}
      BY DEF TypeInv, TypeOK
    <3>. QED BY <1>3, <3>1, <3>2 DEF GenerateCaKey, GenerateCa
  <2>2. tmp' \in TmpDirs
    BY <2>1, FileChanges, Beginnings DEF TypeInv
  <2>. QED BY <1>1, <1>3, <2>2
           DEF GenerateCaKey, GenerateCa, Goto, Stay, secret, TmpDirs, TypeInv, TypeOK, Labels
<1>4. ASSUME DropSecret PROVE TypeInv'
  <2>1. secrets' \in Copies
    BY <1>4 DEF DropSecret, TypeInv, TypeOK, Copies
  <2>. QED BY <1>1, <1>4, <2>1
           DEF DropSecret, Goto, Stay, secret, Copies, TypeInv, TypeOK, Labels
<1>5. ASSUME apply_envoy_gateway \/ InstallFails PROVE TypeInv'
  BY <1>1, <1>5, Exits, Beginnings
     DEF apply_envoy_gateway, InstallFails, operator, TypeInv, TypeOK, Labels
<1>. QED BY LoopTyped, <1>2, <1>3, <1>4, <1>5 DEF InstallNext

\* What happens around the programs.
LEMMA DisturbedTyped ==
    ASSUME TypeInv,
           Interrupt \/ LoseEdgeFile \/ CertExpires \/ LoseOperatorFile \/ ClearTmp \/ NewCluster
    PROVE  TypeInv'
<1> USE DEF EdgeLabels, CALabels, LeafLabels, InstallLabels
<1>1. calm' \in BOOLEAN /\ faults' \in 0 .. MaxFaults /\ last' = Unknown
  BY Outcomes
     DEF TypeInv, Interrupt, LoseEdgeFile, CertExpires, LoseOperatorFile, ClearTmp, NewCluster,
                  Disturbs
<1>2. CASE Interrupt
  BY <1>1, <1>2, Beginnings DEF Interrupt, Goto, operator, TypeInv, TypeOK, Labels
<1>3. ASSUME Disturbs PROVE job' = job /\ pc' = pc /\ name' = name /\ failed' = failed
  BY <1>3 DEF Disturbs
<1>4. CASE LoseEdgeFile
  <2>1. disk' \in [key : Keys \cup {None}, crt : Certs \cup {None}]
    BY <1>4 DEF LoseEdgeFile, TypeInv, TypeOK
  <2>2. UnusedCAs' = UnusedCAs
    BY <1>4 DEF LoseEdgeFile, UnusedCAs
  <2>. QED BY <1>1, <1>3, <1>4, <2>1, <2>2, Beginnings DEF LoseEdgeFile, TypeInv, TypeOK
<1>5. CASE CertExpires
  <2>1. Expired(disk.crt) \in Certs
    BY <1>5 DEF CertExpires, Expired, TypeInv, TypeOK, Certs
  <2>2. disk' \in [key : Keys \cup {None}, crt : Certs \cup {None}] /\ served' \in Certs \cup {None}
    BY <1>5, <2>1 DEF CertExpires, TypeInv, TypeOK
  <2>3. UnusedCAs' = UnusedCAs
    BY <1>5 DEF CertExpires, UnusedCAs
  <2>. QED BY <1>1, <1>3, <1>5, <2>2, <2>3, Beginnings DEF CertExpires, TypeInv, TypeOK
<1>6. CASE LoseOperatorFile
  <2>1. tmp \in TmpDirs /\ None \in LeafCerts
    BY DEF TypeInv, TypeOK, TmpDirs, LeafCerts
  <2>2. /\ tmp' \in TmpDirs
        /\ tmp'.cakey \in {tmp.cakey, None} /\ tmp'.ca \in {tmp.ca, None}
        /\ \A n \in Names : tmp'.crt[n] \in {tmp.crt[n], None}
    <3>1. CASE tmp' = [tmp EXCEPT !["cakey"] = None] \/ tmp' = [tmp EXCEPT !["ca"] = None]
      BY <2>1, <3>1 DEF TmpDirs
    <3>2. ASSUME NEW n \in Names, tmp' = [tmp EXCEPT !.key[n] = FALSE]
          PROVE  tmp' \in TmpDirs /\ tmp'.ca = tmp.ca /\ tmp'.cakey = tmp.cakey /\ tmp'.crt = tmp.crt
      BY <3>2, FileChanges DEF TypeInv
    <3>3. ASSUME NEW n \in Names, tmp' = [tmp EXCEPT !.crt[n] = None]
          PROVE  /\ tmp' \in TmpDirs /\ tmp'.ca = tmp.ca /\ tmp'.cakey = tmp.cakey
                 /\ tmp'.crt = [tmp.crt EXCEPT ![n] = None]
      BY <2>1, <3>3, FileChanges DEF TypeInv
    <3>4. tmp.crt \in [Names -> LeafCerts]
      BY <2>1 DEF TmpDirs
    <3>. QED BY <1>6, <3>1, <3>2, <3>3, <3>4 DEF LoseOperatorFile
  <2>3. UnusedCAs \subseteq UnusedCAs'
    BY <1>6, <2>2, GatewayCertsAssumption DEF LoseOperatorFile, UnusedCAs
  <2>. QED BY <1>1, <1>3, <1>6, <2>2, <2>3, Beginnings
           DEF LoseOperatorFile, TmpDirs, secret, TypeInv, TypeOK
<1>7. CASE ClearTmp
  BY <1>1, <1>3, <1>7, Beginnings DEF ClearTmp, TmpDirs, secret, TypeInv, TypeOK
<1>8. CASE NewCluster
  <2>1. secrets' \in Copies /\ \A n \in Names : secrets'[n] = None
    BY <1>8 DEF NewCluster, Copies
  <2>2. UnusedCAs \subseteq UnusedCAs'
    BY <1>8, <2>1 DEF NewCluster, UnusedCAs
  <2>3. /\ secrets' \in [Names -> [crt : LeafCerts, ca : CAs] \cup {None}]
        /\ UNCHANGED <<disk, made, tmp, spoiled, job, pc, name, failed>>
        /\ served' = None /\ namespace' = FALSE
    BY <1>3, <1>8, <2>1 DEF NewCluster, Copies
  <2>4. TypeOK'
    <3>1. last' \in [job : Jobs, rc : {0, 1}, calm : BOOLEAN]
      BY <1>1, Beginnings
    <3>. QED BY <1>1, <2>3, <3>1 DEF TypeInv, TypeOK
  <2>5. ~last'.calm /\ pc' = pc /\ job' = job /\ name' = name
    BY <1>1, <2>3, Beginnings
  <2>6. UnusedCAs # {} => UnusedCAs' # {}
    BY <2>2
  <2>. QED BY <2>4, <2>5, <2>6 DEF TypeInv
<1>. QED BY <1>2, <1>4, <1>5, <1>6, <1>7, <1>8

LEMMA TypeStep == TypeInv /\ [Next]_vars => TypeInv'
<1>1. TypeInv /\ UNCHANGED vars => TypeInv'
  BY DEF vars, secret, outcome, operator, TypeInv, TypeOK, UnusedCAs
<1>. QED BY <1>1, StartTyped, EdgeTyped, InstallTyped, DisturbedTyped DEF Next

\* Type correctness, and openssl always finds a key or an authority that is not in use.
THEOREM TypeCorrect == Spec => []TypeOK
<1>1. TypeInv => TypeOK
  BY DEF TypeInv
<1>. QED BY <1>1, TypeInit, TypeStep, PTL DEF Spec

-----------------------------------------------------------------------------
(* What an apply repairs.                                                  *)

LEMMA EdgeInvInit == Init => EdgeInv
BY DEF Init, EdgeInv, Repairing, ApplyRepairs, Unknown

\* Nothing is promised while a program runs, or after a mishap.
LEMMA NothingPromised ==
    ASSUME TypeInv, (pc # "shell" /\ last' = last) \/ ~last'.calm
    PROVE  ApplyRepairs' /\ InstallRepairs'
BY DEF TypeInv, ApplyRepairs, InstallRepairs

\* A program ends with what it owes.
LEMMA EndRepaired ==
    ASSUME TypeInv, calm' \in BOOLEAN, NEW rc \in {0, 1}, Exit(rc),
           calm' /\ job.prog \in {"edge", "step04"} /\ ~job.broken =>
               served' = disk.crt' /\ validate_cert_pair' /\ (job.prog = "edge" => rc = 0)
    PROVE  EdgeInv'
<1>1. /\ job' = Idle /\ last'.job = job /\ last'.rc = rc /\ last'.calm = calm'
  BY Exits DEF TypeInv
<1>2. ~Repairing'
  BY <1>1 DEF Repairing, Idle
<1>3. ApplyRepairs'
  BY <1>1 DEF ApplyRepairs
<1>. QED BY <1>2, <1>3 DEF EdgeInv

LEMMA EdgeInvEdge == TypeInv /\ EdgeInv /\ EdgeCertNext /\ UNCHANGED operator => EdgeInv'
<1> SUFFICES ASSUME TypeInv, EdgeInv, EdgeCertNext, UNCHANGED operator PROVE EdgeInv'
  OBVIOUS
<1> USE DEF EdgeLabels, CALabels, LeafLabels, InstallLabels
<1>1. calm' \in BOOLEAN /\ (Fine => calm' = calm) /\ (Fails => ~calm')
  BY Outcomes
     DEF TypeInv, EdgeCertNext, Judge, GenerateKey, GenerateCert, Verify, has_kubectl_cluster,
         ensure_namespace, secret_exists, ensure_secret, DeleteSecret, create_secret, EdgeCertFails
<1>2. ASSUME Fails PROVE EdgeInv'
  <2>1. ~calm' /\ ~Repairing'
    BY <1>1, <1>2 DEF Repairing
  <2>2. ~last'.calm
    BY <1>1, <1>2, Exits
       DEF TypeInv, EdgeCertNext, Judge, GenerateKey, GenerateCert, Verify, has_kubectl_cluster,
           ensure_namespace, secret_exists, ensure_secret, DeleteSecret, create_secret,
           EdgeCertFails,
           Stay, Succeed
  <2>. QED BY <2>1, <2>2, NothingPromised DEF EdgeInv
<1>3. CASE Judge
  <2>1. CASE Stay
    <3>1. ApplyRepairs'
      BY <1>3, <2>1, NothingPromised DEF Judge, Stay
    <3>. QED BY <1>1, <1>3, <2>1, <3>1
                DEF Judge, Stay, secret, Goto, cert_state, EdgeInv, Repairing, validate_cert_pair,
                    Matches
  <2>2. CASE Exit(1)
    <3>1. ~(calm' /\ job.prog \in {"edge", "step04"} /\ ~job.broken)
      BY <1>1, <1>3, <2>2
         DEF Judge, Exit, Stay, Goto, cert_state, EdgeInv, Repairing, validate_cert_pair, Matches
    <3>. QED BY <1>1, <2>2, <3>1, EndRepaired
  <2>. QED BY <1>3, <2>1, <2>2 DEF Judge
<1>4. CASE GenerateKey \/ GenerateCert \/ has_kubectl_cluster
  <2>1. ApplyRepairs'
    BY <1>4, NothingPromised DEF GenerateKey, GenerateCert, has_kubectl_cluster, Stay
  <2>2. /\ disk \in [key : Keys \cup {None}, crt : Certs \cup {None}]
        /\ pc = "crt" => [key |-> made, fit |-> TRUE] # None
    <3>1. pc = "crt" => [key |-> made, fit |-> TRUE] \in Certs
      BY DEF TypeInv, TypeOK, Certs
    <3>2. disk \in [key : Keys \cup {None}, crt : Certs \cup {None}]
      BY DEF TypeInv, TypeOK
    <3>3. None \notin Certs
      BY EdgeCertAssumption
    <3>. QED BY <3>1, <3>2, <3>3
  <2>. QED BY <1>1, <1>4, <2>1, <2>2
              DEF GenerateKey, GenerateCert, has_kubectl_cluster, Stay, secret, Goto, EdgeInv,
                  Repairing,
               validate_cert_pair, Matches
<1>5. CASE Verify
  <2>1. CASE Stay
    <3>1. ApplyRepairs'
      BY <1>5, <2>1, NothingPromised DEF Verify, Stay
    <3>. QED BY <1>1, <1>5, <2>1, <3>1
             DEF Verify, Stay, Exit, secret, Goto, EdgeInv, Repairing, validate_cert_pair, Matches
  <2>2. CASE Exit(1) /\ ~validate_cert_pair
    BY <1>1, <1>5, <2>2, EndRepaired DEF Verify, EdgeInv, Repairing
  <2>. QED BY <1>5, <2>1, <2>2 DEF Verify
<1>6. CASE (ensure_namespace \/ secret_exists \/ ensure_secret \/ DeleteSecret) /\ Fine
  <2>1. Stay /\ disk' = disk /\ pc \in {"namespace", "lookup", "compare", "delete"}
    BY <1>6
          DEF ensure_namespace, secret_exists, ensure_secret, DeleteSecret, secret,
              secret_matches_disk, SameModulus
  <2>2. (pc # "namespace" => namespace' = namespace) /\ (pc = "namespace" => namespace')
    BY <1>6 DEF ensure_namespace, secret_exists, ensure_secret, DeleteSecret, secret
  <2>3. /\ pc' \in {"lookup", "compare", "delete", "create"}
        /\ ~Fails => (pc' = "create" => served' = None)
    BY <1>6
       DEF ensure_namespace, secret_exists, ensure_secret, DeleteSecret, secret, Goto,
           secret_matches_disk, SameModulus
  <2>4. validate_cert_pair' = validate_cert_pair /\ (Repairing' => Repairing)
    BY <1>1, <1>6, <2>1 DEF validate_cert_pair, Matches, Repairing, Stay
  <2>5. ApplyRepairs'
    BY <2>1, NothingPromised DEF Stay
  <2>6. CASE ~Fails
    BY <2>1, <2>2, <2>3, <2>4, <2>5, <2>6 DEF EdgeInv
  <2>. QED BY <1>2, <2>6
<1>7. CASE create_secret /\ Fine
  <2>1. /\ disk' = disk /\ namespace' = namespace /\ validate_cert_pair' = validate_cert_pair
    BY <1>7 DEF create_secret, validate_cert_pair, Matches
  <2>2. Repairing => namespace /\ served = None /\ validate_cert_pair
    BY <1>7 DEF create_secret, EdgeInv
  <2>3. CASE served' = disk.crt /\ Exit(0)
    BY <1>1, <1>7, <2>1, <2>2, <2>3, EndRepaired DEF Repairing
  <2>4. CASE served' = disk.crt /\ Goto("crds") /\ Stay
    <3>1. ApplyRepairs'
      BY <1>7, <2>4, NothingPromised DEF create_secret, Stay
    <3>. QED BY <1>1, <1>7, <2>1, <2>2, <2>4, <3>1 DEF Goto, Stay, EdgeInv, Repairing
  <2>5. CASE Exit(1) /\ ~(namespace /\ served = None /\ Matches)
    BY <1>1, <1>7, <2>2, <2>5, EndRepaired DEF Repairing, validate_cert_pair
  <2>. QED BY <1>7, <2>3, <2>4, <2>5, <1>2 DEF create_secret, Succeed
<1>8. CASE EdgeCertFails
  BY <1>2, <1>8 DEF EdgeCertFails
<1>. QED BY <1>2, <1>3, <1>4, <1>5, <1>6, <1>7, <1>8
            DEF EdgeCertNext, ensure_namespace, secret_exists, ensure_secret, DeleteSecret,
                create_secret

LEMMA EdgeInvInstall == TypeInv /\ EdgeInv /\ InstallNext => EdgeInv'
<1> SUFFICES ASSUME TypeInv, EdgeInv, InstallNext PROVE EdgeInv'
  OBVIOUS
<1> USE DEF EdgeLabels, CALabels, LeafLabels, InstallLabels
<1>1. /\ calm' \in BOOLEAN /\ (calm' => calm)
      /\ disk' = disk /\ served' = served /\ (namespace => namespace')
      /\ pc \in InstallLabels
  <2>1. Fine \/ Fails
    BY DEF InstallNext, apply_crds, LookForCA, GenerateCaKey, GenerateCa, LookForLeaf, RequestCert,
           SignCert, LookForSecret, DropSecret, PutSecret, apply_envoy_gateway, InstallFails
  <2>2. pc \in InstallLabels
    BY DEF InstallNext, apply_crds, LookForCA, GenerateCaKey, GenerateCa, LookForLeaf, RequestCert,
           SignCert, LookForSecret, DropSecret, PutSecret, apply_envoy_gateway, InstallFails
  <2>3. disk' = disk /\ served' = served /\ (namespace => namespace')
    <3>1. CASE InstallFails
      BY <3>1 DEF InstallFails
    <3>2. CASE apply_envoy_gateway
      BY <3>2 DEF apply_envoy_gateway
    <3>3. CASE UNCHANGED secret
      BY <3>3 DEF secret
    <3>4. UNCHANGED secret \/ apply_envoy_gateway \/ InstallFails
      BY
         DEF InstallNext, apply_crds, LookForCA, GenerateCaKey, GenerateCa, LookForLeaf,
             RequestCert,
             SignCert, LookForSecret, DropSecret, PutSecret
    <3>. QED BY <3>1, <3>2, <3>3, <3>4
  <2>. QED BY <2>1, <2>2, <2>3, Outcomes DEF TypeInv
<1>2. validate_cert_pair' = validate_cert_pair
  BY <1>1 DEF validate_cert_pair, Matches
<1>3. \/ job' = job /\ last' = last /\ pc' \in InstallLabels
      \/ Exit(0) /\ job.prog \in {"step04", "gateway"}
      \/ Exit(1) /\ job.prog \in {"step04", "gateway"}
  <2>1. job.prog \in {"step04", "gateway"}
    BY <1>1 DEF TypeInv
  <2>2. ASSUME NEW fails \in BOOLEAN, NextName(fails)
        PROVE  (job' = job /\ last' = last /\ pc' \in InstallLabels) \/ Exit(1)
    BY <2>2 DEF NextName, Goto, Stay
  <2>. QED BY <2>1, <2>2
       DEF InstallNext, apply_crds, LookForCA, GenerateCaKey, GenerateCa, LookForLeaf,
           RequestCert, SignCert, LookForSecret, DropSecret, PutSecret, apply_envoy_gateway,
           InstallFails,
           Goto, Stay
<1>4. CASE job' = job /\ last' = last /\ pc' \in InstallLabels
  <2>1. ApplyRepairs'
    BY <1>1, <1>4, NothingPromised
  <2>. QED BY <1>1, <1>2, <1>4, <2>1 DEF EdgeInv, Repairing
<1>5. ASSUME NEW rc \in {0, 1}, Exit(rc), job.prog \in {"step04", "gateway"} PROVE EdgeInv'
  BY <1>1, <1>2, <1>5, EndRepaired DEF EdgeInv, Repairing
<1>. QED BY <1>3, <1>4, <1>5

LEMMA EdgeInvStep == TypeInv /\ EdgeInv /\ [Next]_vars => EdgeInv'
<1> SUFFICES ASSUME TypeInv, EdgeInv, [Next]_vars PROVE EdgeInv'
  OBVIOUS
<1>1. CASE UNCHANGED vars
  BY <1>1 DEF vars, secret, outcome, EdgeInv, Repairing, ApplyRepairs, validate_cert_pair, Matches
<1>2. CASE Start
  <2>1. ~last'.calm /\ disk' = disk /\ pc' \in {"crds", "judge"}
    BY <1>2, Beginnings DEF Start, secret, Goto
  <2>2. /\ job'.prog \in {"edge", "step04"} => pc' = "judge"
        /\ ~job'.broken => disk.key = None \/ disk.crt = None \/ validate_cert_pair \/ job'.force
    <3>1. PICK prog \in {"edge", "step04", "gateway"}, force \in BOOLEAN :
              /\ job' = [prog |-> prog, force |-> force,
                         broken |-> disk.key # None /\ disk.crt # None /\ ~validate_cert_pair /\ ~force]
              /\ pc' = IF prog = "gateway" THEN "crds" ELSE "judge"
      BY <1>2 DEF Start, Goto
    <3>2. job'.prog = prog /\ job'.force = force
      BY <3>1
    <3>3. job'.broken <=> disk.key # None /\ disk.crt # None /\ ~validate_cert_pair /\ ~force
      BY <3>1
    <3>. QED BY <3>1, <3>2, <3>3
  <2>3. validate_cert_pair' = validate_cert_pair
    BY <2>1 DEF validate_cert_pair, Matches
  <2>4. ApplyRepairs'
    BY <2>1, NothingPromised
  <2>. QED BY <2>1, <2>2, <2>3, <2>4
              DEF EdgeInv, Repairing, EdgeLabels, InstallLabels, CALabels, LeafLabels
<1>3. CASE Interrupt \/ LoseEdgeFile \/ CertExpires \/ LoseOperatorFile \/ ClearTmp \/ NewCluster
  <2>1. ~calm' /\ ~last'.calm
    BY <1>3, Beginnings
          DEF Interrupt, LoseEdgeFile, CertExpires, LoseOperatorFile, ClearTmp, NewCluster,
              Disturbs, Fails
  <2>. QED BY <2>1, NothingPromised DEF EdgeInv, Repairing
<1>. QED BY <1>1, <1>2, <1>3, EdgeInvEdge, EdgeInvInstall DEF Next

\* Whatever mishaps there were before it, one undisturbed apply makes the gateway serve
\* the pair on disk, with the right name and dates (gen-edge-cert.py:441-475), unless it
\* was started on two files that are no valid pair and was not to replace them.
THEOREM ApplyMakesItServed == Spec => []ApplyRepairs
<1>1. EdgeInv => ApplyRepairs
  BY DEF EdgeInv
<1>. QED BY <1>1, TypeInit, TypeStep, EdgeInvInit, EdgeInvStep, PTL DEF Spec

-----------------------------------------------------------------------------
(* What an install repairs.                                                *)

LEMMA FilesInvInit == Init => FilesInv
BY Beginnings DEF Init, FilesInv, LeafLabels

\* The files stay, and the program goes where nothing more is known of them.
LEMMA FilesStay ==
    ASSUME FilesInv, tmp' = tmp, spoiled' = spoiled,
           pc' \in {"shell", "crds", "ca"} \cup EdgeLabels
    PROVE  FilesInv'
BY DEF FilesInv, EdgeLabels, LeafLabels

\* The authority comes first, then a key, and then the certificate for it.
LEMMA FilesInvInstall == TypeInv /\ FilesInv /\ InstallNext => FilesInv'
<1> SUFFICES ASSUME TypeInv, FilesInv, InstallNext, ~spoiled' PROVE FilesInv'
  BY DEF FilesInv
<1> USE DEF LeafLabels
<1>1. /\ calm' \in BOOLEAN /\ name \in Names /\ TypeOK /\ tmp \in TmpDirs
  BY Outcomes
        DEF TypeInv, TypeOK, TmpDirs, InstallNext, apply_crds, LookForCA, GenerateCaKey,
            GenerateCa, LookForLeaf,
         RequestCert, SignCert, LookForSecret, DropSecret, PutSecret, apply_envoy_gateway,
         InstallFails
<1>2. CASE apply_crds \/ apply_envoy_gateway \/ InstallFails
  <2>1. tmp' = tmp /\ spoiled' = spoiled /\ pc' \in {"ca", "shell"}
    BY <1>2 DEF apply_crds, apply_envoy_gateway, InstallFails, operator, Exit, Goto
  <2>. QED BY <2>1, FilesStay
<1>3. CASE LookForCA \/ LookForLeaf \/ LookForSecret \/ DropSecret
  BY <1>3 DEF LookForCA, CaMissing, LookForLeaf, LookForSecret, DropSecret, operator, Goto, FilesInv
<1>4. CASE GenerateCaKey
  <2>1. PICK x \in CAs : tmp' = [tmp EXCEPT !.cakey = x]
    BY <1>4 DEF GenerateCaKey, TypeInv, UnusedCAs
  <2>2. tmp'.ca = tmp.ca /\ tmp'.cakey = x /\ tmp'.crt = tmp.crt /\ tmp'.key = tmp.key /\ x # None
    BY <1>1, <2>1, FileChanges, Beginnings, GatewayCertsAssumption
  <2>. QED BY <1>4, <2>2 DEF GenerateCaKey, Goto, FilesInv
<1>5. CASE GenerateCa
  <2>1. /\ tmp'.ca = tmp.cakey /\ tmp'.cakey = tmp.cakey
        /\ tmp'.crt = tmp.crt /\ tmp'.key = tmp.key
    BY <1>1, <1>5, FileChanges, Beginnings DEF GenerateCa, TmpDirs
  <2>. QED BY <1>5, <2>1 DEF GenerateCa, Goto, FilesInv
<1>6. CASE RequestCert
  <2>1. PICK x \in BOOLEAN : tmp' = [tmp EXCEPT !.key[name] = x] /\ (tmp.key[name] => x)
                             /\ (pc' = "sign" => x)
    BY <1>1, <1>6, NextNames DEF RequestCert, TmpDirs
  <2>2. /\ tmp'.ca = tmp.ca /\ tmp'.cakey = tmp.cakey
        /\ tmp'.crt = tmp.crt /\ tmp'.key = [tmp.key EXCEPT ![name] = x]
    BY <1>1, <2>1, FileChanges
  <2>3. (pc' = "sign" /\ name' = name) \/ pc' \in {"leaf", "manifest", "shell"}
    BY <1>1, <1>6, NextNames DEF RequestCert, Goto
  <2>4. \A n \in Names : tmp.key[n] => tmp'.key[n]
    BY <1>1, <2>1, <2>2 DEF TmpDirs
  <2>5. pc' = "sign" => tmp'.key[name]
    BY <1>1, <2>1, <2>2 DEF TmpDirs
  <2>. QED BY <1>6, <2>2, <2>3, <2>4, <2>5 DEF RequestCert, FilesInv
<1>7. CASE SignCert
  <2>1. pc = "sign" /\ ~spoiled /\ tmp.ca # None /\ tmp.cakey = tmp.ca /\ tmp.key[name]
    <3>1. \/ spoiled' = spoiled \/ spoiled' = TRUE
          \/ \E crt \in {None, Empty} : spoiled' = (spoiled \/ crt = Empty)
      BY <1>7 DEF SignCert
    <3>2. ~spoiled
      BY <3>1, Zenon
    <3>3. pc = "sign"
      BY <1>7 DEF SignCert
    <3>. QED BY <3>2, <3>3 DEF FilesInv
  <2>2. \/ tmp' = [tmp EXCEPT !.crt[name] = tmp.ca] /\ pc' = "look" /\ name' = name
        \/ tmp' = [tmp EXCEPT !.crt[name] = None] /\ pc' \in {"leaf", "manifest", "shell"}
    BY <1>1, <1>7, <2>1, NextNames DEF SignCert, Goto
  <2>3. PICK x \in {tmp.ca, None} :
            /\ tmp' = [tmp EXCEPT !.crt[name] = x]
            /\ \/ x = tmp.ca /\ pc' = "look" /\ name' = name
               \/ pc' \in {"leaf", "manifest", "shell"}
    BY <2>2
  <2>4. /\ tmp'.ca = tmp.ca /\ tmp'.cakey = tmp.cakey
        /\ tmp'.crt = [tmp.crt EXCEPT ![name] = x] /\ tmp'.key = tmp.key
    BY <1>1, <2>3, FileChanges DEF TmpDirs, LeafCerts
  <2>. QED BY <1>1, <2>1, <2>3, <2>4 DEF FilesInv, TmpDirs
<1>8. CASE PutSecret
  <2>1. tmp' = tmp /\ spoiled' = spoiled /\ pc = "put" /\ pc' \in {"leaf", "manifest", "shell"}
    BY <1>1, <1>8, NextNames DEF PutSecret
  <2>. QED BY <2>1 DEF FilesInv
<1>. QED BY <1>2, <1>3, <1>4, <1>5, <1>6, <1>7, <1>8 DEF InstallNext

LEMMA FilesInvStep == TypeInv /\ FilesInv /\ [Next]_vars => FilesInv'
<1> SUFFICES ASSUME TypeInv, FilesInv, [Next]_vars PROVE FilesInv'
  OBVIOUS
<1>1. CASE UNCHANGED vars
  BY <1>1 DEF vars, operator, FilesInv
<1>2. CASE Start
  BY <1>2, FilesStay DEF Start, Goto, EdgeLabels
<1>3. CASE EdgeCertNext /\ UNCHANGED operator
  <2>1. pc' \in {"shell", "crds"} \cup EdgeLabels
    BY <1>3 DEF EdgeCertNext, Judge, GenerateKey, GenerateCert, Verify, has_kubectl_cluster,
                ensure_namespace, secret_exists, ensure_secret, DeleteSecret, create_secret,
                EdgeCertFails,
                Succeed, Exit, Goto, EdgeLabels
  <2>. QED BY <1>3, <2>1, FilesStay DEF operator
<1>4. CASE LoseOperatorFile
  BY <1>4 DEF LoseOperatorFile, FilesInv
<1>5. CASE ClearTmp
  BY <1>5, Beginnings DEF ClearTmp, Disturbs, FilesInv, LeafLabels
<1>6. CASE LoseEdgeFile \/ CertExpires \/ NewCluster
  BY <1>6 DEF LoseEdgeFile, CertExpires, NewCluster, Disturbs, FilesInv
<1>7. CASE Interrupt
  BY <1>7, FilesStay DEF Interrupt, operator, Goto
<1>. QED BY <1>1, <1>2, <1>3, <1>4, <1>5, <1>6, <1>7, FilesInvInstall DEF Next

LEMMA InstallInvInit == Init => InstallInv
BY DEF Init, InstallInv, InstallRepairs, Unknown, LeafLabels

\* After a mishap nothing is known any more.
LEMMA MishapInstall ==
    ASSUME TypeInv, ~calm', ~last'.calm
    PROVE  InstallInv'
BY NothingPromised DEF InstallInv

\* A calm step 04 goes through gen-edge-cert.py to the end.
LEMMA StepGoesOn ==
    ASSUME TypeInv, EdgeInv, EdgeCertNext, calm', job.prog = "step04", ~job.broken
    PROVE  /\ job' = job /\ last' = last
           /\ calm /\ pc \in EdgeLabels /\ pc' \in EdgeLabels \cup {"crds"}
<1> USE DEF EdgeLabels, CALabels, LeafLabels, InstallLabels
<1>1. calm /\ Fine /\ ~Fails /\ Repairing
  <2>1. Fine \/ Fails
    BY DEF EdgeCertNext, Judge, GenerateKey, GenerateCert, Verify, has_kubectl_cluster,
         ensure_namespace, secret_exists, ensure_secret, DeleteSecret, create_secret, EdgeCertFails
  <2>. QED BY <2>1, Outcomes DEF TypeInv, Repairing
<1>2. CASE Judge
  <2>1. cert_state = "valid" \/ cert_state = "missing" \/ job.force
    BY <1>1, <1>2 DEF Judge, cert_state, EdgeInv, validate_cert_pair, Matches
  <2>. QED BY <1>1, <1>2, <2>1 DEF Judge, Goto, Stay
<1>3. CASE Verify
  BY <1>1, <1>3 DEF Verify, EdgeInv, Goto, Stay
<1>4. CASE create_secret
  <2>1. namespace /\ served = None /\ Matches
    BY <1>1, <1>4 DEF create_secret, EdgeInv, validate_cert_pair
  <2>. QED BY <1>1, <1>4, <2>1 DEF create_secret, Succeed, Goto, Stay
<1>5. CASE GenerateKey \/ GenerateCert \/ has_kubectl_cluster \/ ensure_namespace \/ secret_exists \/ DeleteSecret
  BY <1>1, <1>5 DEF GenerateKey, GenerateCert, has_kubectl_cluster, ensure_namespace, secret_exists,
                    DeleteSecret, Goto, Stay
<1>6. CASE ensure_secret
  BY <1>1, <1>6 DEF ensure_secret, secret_matches_disk, SameModulus, Goto, Stay
<1>7. ~EdgeCertFails
  BY <1>1 DEF EdgeCertFails
<1>. QED BY <1>1, <1>2, <1>3, <1>4, <1>5, <1>6, <1>7 DEF EdgeCertNext

LEMMA InstallInvEdge ==
    TypeInv /\ EdgeInv /\ InstallInv /\ EdgeCertNext /\ UNCHANGED operator => InstallInv'
<1> SUFFICES ASSUME TypeInv, EdgeInv, InstallInv, EdgeCertNext, UNCHANGED operator PROVE InstallInv'
  OBVIOUS
<1>1. calm' \in BOOLEAN /\ (Fails => ~calm') /\ (Fine => calm' = calm) /\ (Fine \/ Fails)
  <2>1. Fine \/ Fails
    BY DEF EdgeCertNext, Judge, GenerateKey, GenerateCert, Verify, has_kubectl_cluster,
         ensure_namespace, secret_exists, ensure_secret, DeleteSecret, create_secret, EdgeCertFails
  <2>. QED BY <2>1, Outcomes DEF TypeInv
<1>2. /\ pc \in EdgeLabels /\ pc' \in {"shell", "crds"} \cup EdgeLabels
      /\ (job' = job /\ last' = last) \/ \E rc \in {0, 1} : Exit(rc)
  BY DEF EdgeCertNext, Judge, GenerateKey, GenerateCert, Verify, has_kubectl_cluster,
         ensure_namespace, secret_exists, ensure_secret, DeleteSecret, create_secret, EdgeCertFails,
         Succeed, Stay, Exit, Goto, EdgeLabels
<1>3. CASE job' = job /\ last' = last
  <2>1. InstallRepairs'
    BY <1>2, <1>3, NothingPromised DEF EdgeLabels
  <2>2. calm' /\ ~spoiled' /\ Repairing' => ~failed'
    BY <1>1, <1>2, <1>3 DEF InstallInv, Repairing, operator, EdgeLabels
  <2>. QED BY <1>2, <2>1, <2>2 DEF InstallInv, EdgeLabels, LeafLabels
<1>4. ASSUME NEW rc \in {0, 1}, Exit(rc) PROVE InstallInv'
  <2>1. /\ pc' = "shell" /\ last'.job = job /\ last'.rc = rc /\ last'.calm = calm' /\ job' = Idle
    BY <1>1, <1>4, Exits DEF TypeInv
  <2>2. ~(calm' /\ job.prog = "step04" /\ ~job.broken)
    BY <2>1, StepGoesOn DEF EdgeLabels
  <2>3. job.prog # "gateway"
    BY <1>2 DEF TypeInv
  <2>4. InstallRepairs'
    BY <2>1, <2>2, <2>3 DEF InstallRepairs
  <2>. QED BY <2>1, <2>4 DEF InstallInv, LeafLabels
<1>. QED BY <1>2, <1>3, <1>4

LEMMA InstallInvInstall ==
    TypeInv /\ EdgeInv /\ FilesInv /\ InstallInv /\ InstallNext => InstallInv'
<1> SUFFICES ASSUME TypeInv, EdgeInv, FilesInv, InstallInv, InstallNext PROVE InstallInv'
  OBVIOUS
<1> USE DEF LeafLabels
<1>1. /\ calm' \in BOOLEAN /\ (Fails => ~calm') /\ (Fine => calm' = calm) /\ (Fine \/ Fails)
      /\ TypeOK /\ name \in Names /\ tmp \in TmpDirs /\ secrets \in Copies
  <2>1. Fine \/ Fails
    BY DEF InstallNext, apply_crds, LookForCA, GenerateCaKey, GenerateCa, LookForLeaf, RequestCert,
           SignCert, LookForSecret, DropSecret, PutSecret, apply_envoy_gateway, InstallFails
  <2>. QED BY <2>1, Outcomes DEF TypeInv, TypeOK, TmpDirs, Copies
<1>0. ~last'.calm \/ last'.calm = calm'
  <2>1. CASE last' = last /\ pc # "shell"
    BY <2>1 DEF TypeInv
  <2>2. ASSUME NEW rc \in {0, 1}, Exit(rc) PROVE last'.calm = calm'
    BY <1>1, <2>2, Exits
  <2>3. ASSUME NEW fails \in BOOLEAN, NextName(fails) PROVE last' = last \/ \E rc \in {0, 1} : Exit(rc)
    BY <2>3 DEF NextName, Stay
  <2>4. last' = last \/ \E rc \in {0, 1} : Exit(rc)
    BY <2>3
       DEF InstallNext, apply_crds, LookForCA, GenerateCaKey, GenerateCa, LookForLeaf, RequestCert,
           SignCert, LookForSecret, DropSecret, PutSecret, apply_envoy_gateway, InstallFails, Stay
  <2>5. pc # "shell"
    BY DEF InstallNext, apply_crds, LookForCA, GenerateCaKey, GenerateCa, LookForLeaf, RequestCert,
           SignCert, LookForSecret, DropSecret, PutSecret, apply_envoy_gateway, InstallFails
  <2>. QED BY <2>1, <2>2, <2>4, <2>5
<1>2. ASSUME ~calm' \/ spoiled' PROVE InstallInv'
  BY <1>0, <1>2 DEF InstallInv, InstallRepairs
<1>3. CASE apply_crds \/ LookForCA \/ LookForLeaf \/ (LookForSecret /\ ~Fails)
  <2>1. UNCHANGED operator /\ job' = job /\ last' = last /\ pc # "shell"
    BY <1>3 DEF apply_crds, LookForCA, LookForLeaf, LookForSecret, Stay
  <2>2. InstallRepairs'
    BY <2>1, NothingPromised
  <2>3. /\ pc' = "put" => secrets[name] = None
        /\ pc' # "manifest" /\ (pc' \in LeafLabels => pc \in LeafLabels \/ name = "envoy-gateway")
    BY <1>3 DEF apply_crds, LookForCA, LookForLeaf, LookForSecret, Goto, TypeInv, CALabels
  <2>4. calm' => calm
    BY <1>1
  <2>. QED BY <1>1, <2>1, <2>2, <2>3, <2>4 DEF operator, InstallInv, Repairing, Installed
<1>4. CASE GenerateCaKey \/ GenerateCa
  <2>1. /\ UNCHANGED <<secrets, name, failed, spoiled, job, last>> /\ pc # "shell"
        /\ name = "envoy-gateway" /\ pc' \in {"cacrt", "leaf"}
    BY <1>4 DEF GenerateCaKey, GenerateCa, Stay, Goto, TypeInv, CALabels
  <2>2. InstallRepairs'
    BY <2>1, NothingPromised
  <2>3. calm' => calm
    BY <1>1
  <2>. QED BY <1>1, <2>1, <2>2, <2>3 DEF InstallInv, Repairing
<1>5. CASE (RequestCert \/ SignCert) /\ ~Fails /\ ~spoiled'
  <2>1. ~spoiled
    <3>1. CASE RequestCert
      BY <1>5, <3>1 DEF RequestCert
    <3>2. CASE SignCert
      BY <1>5, <3>2 DEF SignCert
    <3>. QED BY <1>5, <3>1, <3>2
  <2>2. /\ UNCHANGED <<secrets, name, failed, spoiled, job, last>> /\ pc \in {"csr", "sign"}
        /\ pc' \in {"sign", "look"} /\ tmp'.ca = tmp.ca
    <3>1. CASE RequestCert
      BY <1>1, <1>5, <3>1, FileChanges DEF RequestCert, Stay, Goto
    <3>2. CASE SignCert
      <4>1. pc = "sign" /\ tmp.ca # None /\ tmp.cakey = tmp.ca
        BY <2>1, <3>2 DEF SignCert, FilesInv
      <4>2. tmp' = [tmp EXCEPT !.crt[name] = tmp.ca] /\ tmp.ca \in LeafCerts
        BY <1>1, <1>5, <3>2, <4>1 DEF SignCert, TmpDirs, LeafCerts
      <4>. QED BY <1>1, <1>5, <3>2, <4>1, <4>2, FileChanges DEF SignCert, Stay, Goto
    <3>. QED BY <1>5, <3>1, <3>2
  <2>3. InstallRepairs'
    BY <2>2, NothingPromised
  <2>4. calm' => calm
    BY <1>1
  <2>. QED BY <1>1, <2>2, <2>3, <2>4 DEF InstallInv, Repairing, Installed
<1>6. CASE DropSecret /\ ~Fails
  <2>1. /\ UNCHANGED <<tmp, name, failed, spoiled, job, last>> /\ pc = "drop" /\ pc' = "put"
        /\ secrets' = [secrets EXCEPT ![name] = None]
    BY <1>6 DEF DropSecret, Stay, Goto
  <2>2. secrets'[name] = None /\ \A n \in Names \ {name} : secrets'[n] = secrets[n]
    BY <1>1, <2>1 DEF Copies
  <2>3. InstallRepairs'
    BY <2>1, NothingPromised
  <2>4. calm' => calm
    BY <1>1
  <2>. QED BY <1>1, <2>1, <2>2, <2>3, <2>4, Beginnings DEF InstallInv, Repairing, Installed
<1>7. CASE PutSecret /\ ~Fails /\ calm' /\ ~spoiled'
  <2>1. /\ UNCHANGED <<tmp, spoiled>> /\ pc = "put" /\ calm /\ ~spoiled
        /\ secrets[name] = None /\ tmp.key[name] /\ tmp.crt[name] = tmp.ca /\ tmp.ca # None
    <3>1. UNCHANGED <<tmp, spoiled>> /\ pc = "put" /\ calm
      BY <1>1, <1>7 DEF PutSecret
    <3>2. ~spoiled
      BY <1>7, <3>1
    <3>. QED BY <1>1, <3>1, <3>2 DEF FilesInv, InstallInv
  <2>2. Repairing => namespace /\ ~failed
    BY <2>1 DEF EdgeInv, InstallInv, InstallLabels
  <2>3. CASE namespace
    <3>1. /\ NextName(FALSE)
          /\ secrets' = [secrets EXCEPT ![name] = [crt |-> tmp.crt[name], ca |-> tmp.ca]]
      BY <1>7, <2>1, <2>3 DEF PutSecret
    <3>2. /\ secrets'[name] = [crt |-> tmp.ca, ca |-> tmp.ca]
          /\ \A n \in Names \ {name} : secrets'[n] = secrets[n]
      BY <1>1, <2>1, <3>1 DEF Copies
    <3>3. failed' <=> failed
      BY <1>1, <3>1, NextNames
    <3>4. CASE name = "envoy-gateway"
      <4>1. name' = "envoy" /\ pc' = "leaf" /\ job' = job /\ last' = last
        BY <1>1, <3>1, <3>4, NextNames
      <4>2. InstallRepairs'
        BY <2>1, <4>1, NothingPromised
      <4>. QED BY <2>1, <2>2, <3>2, <3>3, <3>4, <4>1, <4>2 DEF InstallInv, Repairing, Installed
    <3>5. CASE name = "envoy" /\ ~failed
      <4>1. name' = "envoy" /\ pc' = "manifest" /\ job' = job /\ last' = last
        BY <1>1, <3>1, <3>3, <3>5, NextNames
      <4>2. InstallRepairs'
        BY <2>1, <4>1, NothingPromised
      <4>3. Installed("envoy-gateway")
        BY <2>1, <3>5 DEF InstallInv
      <4>4. Installed("envoy-gateway")' /\ Installed("envoy")'
        BY <2>1, <3>2, <3>5, <4>3, Beginnings DEF Installed
      <4>. QED BY <2>1, <3>3, <3>5, <4>1, <4>2, <4>4 DEF InstallInv, Names
    <3>6. CASE name = "envoy" /\ failed
      <4>1. /\ pc' = "shell" /\ job' = Idle
            /\ last' = [job |-> job, rc |-> 1, calm |-> calm']
        BY <1>1, <3>1, <3>3, <3>6, NextNames
      <4>2. last'.job = job /\ last'.rc = 1
        BY <4>1
      <4>3. ~Repairing
        BY <2>2, <3>6
      <4>4. InstallRepairs'
        BY <2>1, <4>2, <4>3 DEF InstallRepairs, Repairing
      <4>. QED BY <4>1, <4>4 DEF InstallInv, Repairing, Idle
    <3>. QED BY <1>1, <3>4, <3>5, <3>6 DEF Names
  <2>4. CASE ~namespace
    <3>1. NextName(TRUE) /\ ~Repairing
      BY <1>7, <2>2, <2>4 DEF PutSecret
    <3>2. \/ /\ name' = "envoy" /\ failed' /\ pc' = "leaf" /\ job' = job /\ last' = last
          \/ /\ failed' /\ pc' = "shell" /\ job' = Idle
             /\ last' = [job |-> job, rc |-> 1, calm |-> calm']
      BY <1>1, <3>1, NextNames
    <3>3. CASE pc' = "leaf" /\ job' = job /\ last' = last /\ failed'
      <4>1. InstallRepairs'
        BY <2>1, <3>3, NothingPromised
      <4>. QED BY <2>1, <3>1, <3>3, <4>1 DEF InstallInv, Repairing
    <3>4. CASE pc' = "shell" /\ job' = Idle /\ last' = [job |-> job, rc |-> 1, calm |-> calm']
      <4>1. last'.job = job /\ last'.rc = 1
        BY <3>4
      <4>2. InstallRepairs'
        BY <2>1, <3>1, <4>1 DEF InstallRepairs, Repairing
      <4>. QED BY <3>4, <4>2 DEF InstallInv, Repairing, Idle
    <3>. QED BY <3>2, <3>3, <3>4
  <2>. QED BY <2>3, <2>4
<1>8. CASE apply_envoy_gateway
  <2>1. UNCHANGED operator /\ pc = "manifest" /\ Exit(0) /\ Fine
    BY <1>8 DEF apply_envoy_gateway
  <2>2. /\ pc' = "shell" /\ job' = Idle /\ last'.job = job /\ last'.rc = 0 /\ last'.calm = calm'
    BY <1>1, <2>1, Exits
  <2>3. ASSUME calm', ~spoiled' PROVE Trusted'
    <3>1. \A n \in Names : secrets'[n] = [crt |-> tmp.ca, ca |-> tmp.ca]
      BY <1>1, <2>1, <2>3 DEF operator, InstallInv, Installed
    <3>2. tmp.ca \in CAs
      BY <1>1, <2>1, <2>3 DEF operator, FilesInv, TmpDirs
    <3>. QED BY <3>1, <3>2 DEF Trusted
  <2>4. InstallRepairs'
    BY <2>2, <2>3 DEF InstallRepairs
  <2>. QED BY <2>2, <2>4 DEF InstallInv, Repairing, Idle
<1>. QED BY <1>1, <1>2, <1>3, <1>4, <1>5, <1>6, <1>7, <1>8 DEF InstallNext, InstallFails

LEMMA InstallInvStep == TypeInv /\ EdgeInv /\ FilesInv /\ InstallInv /\ [Next]_vars => InstallInv'
<1> SUFFICES ASSUME TypeInv, EdgeInv, FilesInv, InstallInv, [Next]_vars PROVE InstallInv'
  OBVIOUS
<1>1. CASE UNCHANGED vars
  BY <1>1 DEF vars, outcome, operator, InstallInv, InstallRepairs, Installed, Repairing, Trusted
<1>2. CASE Start
  <2>1. ~last'.calm /\ ~failed' /\ pc' \in {"crds", "judge"}
    BY <1>2, Beginnings DEF Start, Goto
  <2>2. InstallRepairs'
    BY <2>1, NothingPromised
  <2>. QED BY <2>1, <2>2 DEF InstallInv, LeafLabels
<1>3. CASE Interrupt \/ LoseEdgeFile \/ CertExpires \/ LoseOperatorFile \/ ClearTmp \/ NewCluster
  <2>1. ~calm' /\ ~last'.calm
    BY <1>3, Beginnings
          DEF Interrupt, LoseEdgeFile, CertExpires, LoseOperatorFile, ClearTmp, NewCluster,
              Disturbs, Fails
  <2>. QED BY <2>1, MishapInstall
<1>. QED BY <1>1, <1>2, <1>3, InstallInvEdge, InstallInvInstall DEF Next

\* "Both share the same CA so the proxy can verify the operator's cert"
\* (install-envoy-gateway-dev.py:41): whatever interrupts and failures of kubectl left,
\* an undisturbed step 04 makes both Secrets carry certificates of one authority, and an
\* install without it does so or fails, as long as no single file of the directory was
\* lost or left empty.
THEOREM InstallMakesThemTrusted == Spec => []InstallRepairs
<1>1. InstallInv => InstallRepairs
  BY DEF InstallInv
<1>. QED BY <1>1, TypeInit, TypeStep, EdgeInvInit, EdgeInvStep, FilesInvInit, FilesInvStep,
            InstallInvInit, InstallInvStep, PTL DEF Spec

================================================================================
