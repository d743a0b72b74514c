----------------------------- MODULE MCEntityLogs ------------------------------
(* The two command line services of the entities for TLC: single calls on one *)
(* entity, and bulk calls that mix operations, name an unknown entity type,   *)
(* or contain a forbidden operation; and deliveries of changes.  They write   *)
(* logs of their own, so that TLC looks at one while the other is at rest.    *)
EXTENDS EntityStore, ChangeProcessor, TLC

op(operation, entity, data) == [operation |-> operation, entity |-> entity, data |-> data]
Single(actor, o) == [bulk |-> FALSE, actor |-> actor, ops |-> <<o>>]
Bulk(actor, os) == [bulk |-> TRUE, actor |-> actor, ops |-> os]

MCCalls ==
    { Single("carol@hpdc", op(o, "acme", "v1")) : o \in {"create", "delete"} }
    \cup { Single("alice@hpdc", op(o, "acme", "v2")) : o \in {"create", "update"} }
    \cup { Single("dave@hpdc", op(o, "acme", "v1")) : o \in {"read", "create"} }
    \cup { Bulk("carol@hpdc", <<op("update", "acme", "v1"), op("delete", "acme", "v1")>>),
           Bulk("alice@hpdc", <<op("read", "acme", "v1"), op("create", "gadget", "v2")>>),
           Bulk("alice@hpdc", <<op("create", "acme", "v1"), op("delete", "acme", "v1")>>) }

LogsInit == Init /\ FeedInit
LogsNext ==
    \/ FeedInit /\ Next /\ UNCHANGED feedVars
    \/ Init /\ FeedNext /\ UNCHANGED vars

LogsSpec == LogsInit /\ [][LogsNext]_<<vars, feedVars>>

Symmetry == Permutations(Procs) \cup Permutations(Changes)
================================================================================
