------------------------------ MODULE Kubeconfigs ------------------------------
(***************************************************************************)
(* The kubeconfig files that bootstrap_talos_dev.py reads, prunes, patches *)
(* and writes, and what a kubectl call with one of them reaches.           *)
(*                                                                         *)
(* A context belongs to the Talos cluster that was created last ("fresh"), *)
(* to one before it ("stale") or to a cluster that has nothing to do with  *)
(* this repository ("foreign").  All Talos clusters have the same name,    *)
(* which is all that pruning sees.                                         *)
(***************************************************************************)

Contexts == {"foreign", "stale", "fresh"}

(* "absent": no file; "torn": does not parse as YAML; "null": the key contexts  *)
(* has no value, as an interrupted talosctl leaves it.  "own": the servers are  *)
(* those that the contexts came with.                                           *)
Configs == [form : {"absent", "torn", "null", "map"},
            names : SUBSET Contexts,
            current : Contexts \cup {"none"},
            server : {"own", "stale", "fresh"}]

Config(form) == [form |-> form, names |-> {}, current |-> "none", server |-> "own"]
Single(name) == [form |-> "map", names |-> {name}, current |-> name, server |-> "own"]
Absent == Config("absent")
Empty == Config("map")

\* talosctl merges the credentials of a new cluster and makes them current.
Merged(c) == [form |-> "map", names |-> c.names \cup {"fresh"}, current |-> "fresh",
              server |-> c.server]

Old(name) == IF name = "fresh" THEN "stale" ELSE name

\* What a file says once there is a newer cluster.
Aged(c) == [c EXCEPT !.names = {Old(n) : n \in @}, !.current = Old(@), !.server = Old(@)]

ours(name) == name \in {"stale", "fresh"}  \* the name starts with the cluster's name

\* Mutated form of prune: the current context stays what it is.
prune_names_only(c) ==
    IF c.form = "torn" THEN Empty ELSE [c EXCEPT !.names = {n \in @ : ~ours(n)}]

\* A file that does not parse is taken for an empty one.
prune(c) ==
    IF c.form = "torn" THEN Empty
    ELSE LET kept == {n \in c.names : ~ours(n)}
         IN [c EXCEPT !.names = kept,
                      !.current = IF ~ours(@) THEN @
                                  ELSE IF kept = {} THEN "none" ELSE "foreign"]

\* Mutated form of patch_servers: the servers stay what they are.
patch_servers_nothing(c) == c

\* Every entry is pointed at the API server of the new cluster.
patch_servers(c) == IF c.names = {} THEN c ELSE [c EXCEPT !.server = "fresh"]

\* Whether the API server that the current context names accepts its credentials.
Reaches(c, up) ==
    /\ c.form = "map"
    /\ \/ c.current = "foreign" /\ c.server = "own"
       \/ c.current = "fresh" /\ c.server \in {"own", "fresh"} /\ up
================================================================================
