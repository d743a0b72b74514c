--------------------------- MODULE ComponentVersions ---------------------------
(***************************************************************************)
(* scripts/gitops/component_versions.py: how the toggles and the versions  *)
(* are found that all other programs use.                                  *)
(*                                                                         *)
(* A dotenv file is what its lines assign to a variable, in their order.   *)
(* Abstracted: the syntax of a line; all but one toggle of a kind and one  *)
(* version; the network addresses that are derived from the subnet.        *)
(***************************************************************************)
EXTENDS Integers, Sequences

CONSTANT Unset

Layers == <<".env", ".env.components", ".env.versions">>
Vars == {"CILIUM_ENABLED", "CASBIN_ENABLED", "ENVOY_GATEWAY_VERSION"}

\* What the lines of the three files assign to a variable, first file first.
Lines(files, var) ==
    files[Layers[1]][var] \o files[Layers[2]][var] \o files[Layers[3]][var]

\* Every line goes through os.environ.setdefault: the environment wins, then the
\* first line with a value, within a file as among the files.
load_dotenv(files, shell) ==
    [var \in Vars |->
        LET lines == Lines(files, var)
            set == {i \in DOMAIN lines : lines[i] # ""}
        IN IF shell[var] # Unset THEN shell[var]
           ELSE IF set = {} THEN Unset ELSE lines[CHOOSE i \in set : \A j \in set : i <= j]]

CORE_TOGGLES == {"CILIUM_ENABLED"}
ENABLED_DEFAULTS == {"CILIUM_ENABLED", "CASBIN_ENABLED"}
truthy(value) == value \in {"true", "yes", "y", "1", "on"}

\* Mutated form of is_enabled: the guard for core components is bypassed.
is_enabled_bypassed(env, var) ==
    IF env[var] # Unset THEN truthy(env[var]) ELSE var \in ENABLED_DEFAULTS

is_enabled(env, var) ==
    \/ var \in CORE_TOGGLES
    \/ IF env[var] # Unset THEN truthy(env[var]) ELSE var \in ENABLED_DEFAULTS

DefaultVersion == "1.9.0"
resolve(env, var) == IF env[var] \in {Unset, ""} THEN DefaultVersion ELSE env[var]

================================================================================
