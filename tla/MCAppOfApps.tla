------------------------------ MODULE MCAppOfApps ------------------------------
(* AppOfApps for TLC: in some behaviours two renders of applications overlap, *)
(* in environments that may differ in one toggle; in the others all programs  *)
(* run in many environments, one at a time.                                   *)
EXTENDS AppOfApps, TLC

VARIABLE overlap  \* which of the two it is

MCValues == {"", "true", "off", "1.9.0", "2.0.0"}
Symmetry == Permutations(Renders)

CiliumOff == [Blank EXCEPT !["CILIUM_ENABLED"] = "off"]
CasbinOff == [file |-> ".env.components", var |-> "CASBIN_ENABLED", value |-> "off"]

MCShells == {CiliumOff, [Blank EXCEPT !["CASBIN_ENABLED"] = "true"],
             [CiliumOff EXCEPT !["ENVOY_GATEWAY_VERSION"] = "1.9.0"]}
MCEdits ==
    {CasbinOff, [CasbinOff EXCEPT !.file = ".env", !.value = "true"],
     [CasbinOff EXCEPT !.value = ""],
     [file |-> ".env.versions", var |-> "ENVOY_GATEWAY_VERSION", value |-> "2.0.0"]}

Plain == [l \in FileLayers |-> [v \in Vars |-> << >>]]
FewEnvironments ==
    /\ files \in {Plain, [Plain EXCEPT ![CasbinOff.file][CasbinOff.var] = <<CasbinOff.value>>]}
    /\ edits <= 1
    /\ \A r \in Running : run[r].prog = "apps" /\ run[r].env = load_dotenv(files, CiliumOff)

MCNext ==
    /\ Next /\ UNCHANGED overlap
    /\ IF overlap THEN FewEnvironments' ELSE Cardinality(Running') <= 1

MCInit == Init /\ overlap \in BOOLEAN
MCSpec == MCInit /\ [][MCNext]_<<vars, overlap>>
================================================================================
