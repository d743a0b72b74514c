------------------------------ MODULE EntityStore ------------------------------
(***************************************************************************)
(* scripts/services/entity-api.py: create, read, update, delete and bulk   *)
(* calls on entities, one JSON file per entity, and the log of mutations.  *)
(*                                                                         *)
(* Each call is a process of its own.  Calls may overlap, take no lock,    *)
(* and end early when they are killed or an exception is not caught.  A    *)
(* file is written by opening it, which empties it, and then filling it.   *)
(*                                                                         *)
(* Abstracted: the fields of a document, so that a change diff is the pair *)
(* of the contents before and after; timestamps, latencies and ids of log  *)
(* entries; a call whose data is not JSON, which ends before it writes.    *)
(***************************************************************************)
EXTENDS Naturals, Sequences, FiniteSets

CONSTANTS
    Procs,     \* slots of concurrently running calls
    Entities,  \* entity type and id, as one value
    Known,     \* those of a type that entity-crud.yaml lists
    Values,    \* documents
    Calls,     \* the calls made: [bulk, actor, ops]
    MaxLog     \* bound on the length of the mutation log

ASSUME StoreConstants ==
    /\ Known \subseteq Entities
    /\ MaxLog \in Nat
    /\ {"absent", "torn"} \cap Values = {}

Operations == {"create", "read", "update", "delete"}
Ops == [operation : Operations, entity : Entities, data : Values]
Contents == Values \cup {"absent", "torn"}

ASSUME CallShapes ==
    \A c \in Calls : /\ c.ops \in Seq(Ops)
                     /\ ~c.bulk => Len(c.ops) = 1

VARIABLES
    entities,   \* the files: content, "torn" (not a document) or "absent"
    mutations,  \* mutations.ndjson: <<[entity, operation, from, to, result], ...>>
    pc,         \* where the call in a slot stands
    call,       \* its arguments
    todo,       \* the operations it has still to perform, the current one first
    before,     \* what it read as the entity before the change
    orphaned,   \* whether the file it has open was removed
    tainted,    \* history: entities changed by a call that ended without logging it
    contested   \* history: entities changed by two calls at a time

vars == <<entities, mutations, pc, call, todo, before, orphaned, tainted, contested>>

NoCall == [bulk |-> FALSE, actor |-> "none", ops |-> <<>>]
Results == {"success", "unauthorized", "not_found", "unknown_operation"}
Mutations == [entity : Entities, operation : Operations, from : Contents, to : Contents,
              result : Results]
Labels == {"idle", "authorize", "next", "exists", "load", "decide", "open", "fill", "unlink",
           "log"}

Init ==
    /\ entities = [e \in Entities |-> "absent"]
    /\ mutations = <<>>
    /\ pc = [p \in Procs |-> "idle"]
    /\ call = [p \in Procs |-> NoCall]
    /\ todo = [p \in Procs |-> <<>>]
    /\ before = [p \in Procs |-> "absent"]
    /\ orphaned = [p \in Procs |-> FALSE]
    /\ tainted = {}
    /\ contested = {}

\* spec.operations and spec.users of entity-crud.yaml
get_actor_role(actor) ==
    CASE actor = "alice@hpdc" -> "oncall"
      [] actor = "bob@hpdc"   -> "platform-engineer"
      [] actor = "carol@hpdc" -> "admin"
      [] actor = "dave@hpdc"  -> "observer"
      [] OTHER                -> "None"

roles(operation) ==
    CASE operation \in {"create", "update"} -> {"oncall", "platform-engineer", "admin"}
      [] operation = "read"   -> {"oncall", "platform-engineer", "admin", "observer"}
      [] operation = "delete" -> {"admin"}

is_authorized(operation, actor) == get_actor_role(actor) \in roles(operation)

Goto(p, label) == pc' = [pc EXCEPT ![p] = label]
Exit(p) ==
    /\ Goto(p, "idle")
    /\ call' = [call EXCEPT ![p] = NoCall]
    /\ todo' = [todo EXCEPT ![p] = <<>>]
    /\ before' = [before EXCEPT ![p] = "absent"]
    /\ orphaned' = [orphaned EXCEPT ![p] = FALSE]
Now(p) == Head(todo[p])
File(p) == entities[Now(p).entity]

\* One line of the log.
log_mutation(op, from, to, result) ==
    /\ Len(mutations) < MaxLog
    /\ mutations' = Append(mutations, [entity |-> op.entity, operation |-> op.operation,
                                       from |-> from, to |-> to, result |-> result])

\* Mutated form of Proceed: a bulk call goes on after its last operation.
ProceedPastEnd(p) ==
    IF call[p].bulk
    THEN /\ todo' = [todo EXCEPT ![p] = Tail(@)]
         /\ before' = [before EXCEPT ![p] = "absent"]
         /\ orphaned' = [orphaned EXCEPT ![p] = FALSE]
         /\ Goto(p, "next")
         /\ UNCHANGED call
    ELSE Exit(p)

\* The operation is over: a single call ends, a bulk call goes on with the next.
Proceed(p) ==
    IF call[p].bulk /\ Len(todo[p]) > 1
    THEN /\ todo' = [todo EXCEPT ![p] = Tail(@)]
         /\ before' = [before EXCEPT ![p] = "absent"]
         /\ orphaned' = [orphaned EXCEPT ![p] = FALSE]
         /\ Goto(p, "next")
         /\ UNCHANGED call
    ELSE Exit(p)

-----------------------------------------------------------------------------
(* A call starts and is authorized.                                        *)

\* Only a single call looks at the entity type; an unknown one ends it (exit 400).
validate_entity_type(c) == c.bulk \/ c.ops[1].entity \in Known

Invoke(p) ==
    /\ pc[p] = "idle"
    /\ \E c \in Calls :
          /\ validate_entity_type(c)
          /\ call' = [call EXCEPT ![p] = c]
          /\ todo' = [todo EXCEPT ![p] = c.ops]
    /\ Goto(p, "authorize")
    /\ UNCHANGED <<entities, mutations, before, orphaned, tainted, contested>>

Unauthorized(p) == {i \in DOMAIN todo[p] : ~is_authorized(todo[p][i].operation, call[p].actor)}

\* Mutated form of Refuse: the operations before the forbidden one are kept.
RefuseRest(p) ==
    /\ pc[p] = "authorize"
    /\ Unauthorized(p) # {}
    /\ LET i == CHOOSE i \in Unauthorized(p) : \A j \in Unauthorized(p) : i <= j
       IN /\ log_mutation(todo[p][i], "absent", "absent", "unauthorized")
          /\ todo' = [todo EXCEPT ![p] = SubSeq(@, 1, i - 1)]
    /\ Goto(p, IF Len(todo'[p]) = 0 THEN "idle" ELSE "next")
    /\ call' = [call EXCEPT ![p] = IF Len(todo'[p]) = 0 THEN NoCall ELSE @]
    /\ UNCHANGED <<entities, before, orphaned, tainted, contested>>

\* The first operation the actor may not perform is logged, and none is performed.
Refuse(p) ==
    /\ pc[p] = "authorize"
    /\ Unauthorized(p) # {}
    /\ LET first == CHOOSE i \in Unauthorized(p) : \A j \in Unauthorized(p) : i <= j
       IN log_mutation(todo[p][first], "absent", "absent", "unauthorized")
    /\ Exit(p)
    /\ UNCHANGED <<entities, tainted, contested>>

Admit(p) ==
    /\ pc[p] = "authorize"
    /\ Unauthorized(p) = {}
    /\ IF todo[p] = <<>> THEN Exit(p) ELSE Goto(p, "next") /\ UNCHANGED <<call, todo, before, orphaned>>
    /\ UNCHANGED <<entities, mutations, tainted, contested>>

-----------------------------------------------------------------------------
(* One operation.                                                          *)

\* A single create does not look at what is there; everything else does.
StartOperation(p) ==
    /\ pc[p] = "next"
    /\ Goto(p, IF ~call[p].bulk /\ Now(p).operation = "create" THEN "open" ELSE "exists")
    /\ UNCHANGED <<entities, mutations, call, todo, before, orphaned, tainted, contested>>

CheckExists(p) ==
    /\ pc[p] = "exists"
    /\ Goto(p, IF File(p) = "absent" THEN "decide" ELSE "load")
    /\ UNCHANGED <<entities, mutations, call, todo, before, orphaned, tainted, contested>>

Load(p) ==
    /\ pc[p] = "load"
    /\ File(p) \in Values
    /\ before' = [before EXCEPT ![p] = File(p)]
    /\ Goto(p, "decide")
    /\ UNCHANGED <<entities, mutations, call, todo, orphaned, tainted, contested>>

\* The file has been removed meanwhile, or is not a document: the exception ends the
\* call, and with it the rest of a bulk.
LoadFails(p) ==
    /\ pc[p] = "load"
    /\ File(p) \notin Values
    /\ Exit(p)
    /\ UNCHANGED <<entities, mutations, tainted, contested>>

Writes(op) == op.operation \in {"create", "update"}

\* A single update or delete of an entity that is not there ends (exit 404), and so
\* does every single read.
ExitWithoutChange(p) ==
    /\ pc[p] = "decide" /\ ~call[p].bulk
    /\ Now(p).operation = "read" \/ before[p] = "absent"
    /\ Exit(p)
    /\ UNCHANGED <<entities, mutations, tainted, contested>>

\* A bulk call logs what it does not perform and goes on.
SkipInBulk(p) ==
    /\ pc[p] = "decide" /\ call[p].bulk
    /\ \/ Now(p).operation = "read"
          /\ log_mutation(Now(p), "absent", "absent", "unknown_operation")
       \/ Now(p).operation = "update" /\ before[p] = "absent"
          /\ log_mutation(Now(p), "absent", "absent", "not_found")
       \/ Now(p).operation = "delete" /\ before[p] = "absent"
          /\ log_mutation(Now(p), "absent", "absent", "success")
    /\ Proceed(p)
    /\ UNCHANGED <<entities, tainted, contested>>

Decide(p) ==
    /\ pc[p] = "decide"
    /\ \/ Now(p).operation = "create" /\ Goto(p, "open")
       \/ Now(p).operation = "update" /\ before[p] # "absent" /\ Goto(p, "open")
       \/ Now(p).operation = "delete" /\ before[p] # "absent" /\ Goto(p, "unlink")
    /\ UNCHANGED <<entities, mutations, call, todo, before, orphaned, tainted, contested>>

\* The entity, if another call is between a change of it and the log entry, or is
\* about to log that there was nothing to delete.
Overlapped(p) ==
    {e \in {Now(p).entity} : \E q \in Procs \ {p} :
        \/ pc[q] \in {"fill", "log"} /\ Now(q).entity = e
        \/ /\ pc[q] = "decide" /\ Now(q).entity = e
           /\ Now(q).operation = "delete" /\ before[q] = "absent"}

\* Opening the file for writing makes it, or empties it.
Open(p) ==
    /\ pc[p] = "open"
    /\ entities' = [entities EXCEPT ![Now(p).entity] = "torn"]
    /\ contested' = contested \cup Overlapped(p)
    /\ Goto(p, "fill")
    /\ UNCHANGED <<mutations, call, todo, before, orphaned, tainted>>

\* What is written into a file that was removed is lost.  In a file that another
\* call has filled since, the rest of a longer document may remain.
Fill(p) ==
    /\ pc[p] = "fill"
    /\ IF orphaned[p] THEN UNCHANGED entities
       ELSE \E content \in {Now(p).data} \cup IF File(p) \in Values THEN {"torn"} ELSE {} :
               entities' = [entities EXCEPT ![Now(p).entity] = content]
    /\ Goto(p, "log")
    /\ UNCHANGED <<mutations, call, todo, before, orphaned, tainted, contested>>

Unlink(p) ==
    /\ pc[p] = "unlink"
    /\ File(p) # "absent"
    /\ entities' = [entities EXCEPT ![Now(p).entity] = "absent"]
    /\ orphaned' = [q \in Procs |-> orphaned[q] \/ (pc[q] = "fill" /\ Now(q).entity = Now(p).entity)]
    /\ contested' = contested \cup Overlapped(p)
    /\ Goto(p, "log")
    /\ UNCHANGED <<mutations, call, todo, before, tainted>>

\* Another call has removed the file: the exception ends the call.
UnlinkFails(p) ==
    /\ pc[p] = "unlink"
    /\ File(p) = "absent"
    /\ Exit(p)
    /\ UNCHANGED <<entities, mutations, tainted, contested>>

\* The diff of a create is taken from nothing, whatever was there.
ChangeFrom(p) == IF Now(p).operation = "create" THEN "absent" ELSE before[p]
ChangeTo(p) == IF Now(p).operation = "delete" THEN "absent" ELSE Now(p).data

\* Mutated form of LogSuccess: a bulk call logs its last operation only.
LogSuccessAtEnd(p) ==
    /\ pc[p] = "log"
    /\ IF Len(todo[p]) > 1 THEN UNCHANGED mutations
       ELSE log_mutation(Now(p), ChangeFrom(p), ChangeTo(p), "success")
    /\ Proceed(p)
    /\ UNCHANGED <<entities, tainted, contested>>

LogSuccess(p) ==
    /\ pc[p] = "log"
    /\ log_mutation(Now(p), ChangeFrom(p), ChangeTo(p), "success")
    /\ Proceed(p)
    /\ UNCHANGED <<entities, tainted, contested>>

\* The process is killed; its changes stay.
Kill(p) ==
    /\ pc[p] # "idle"
    /\ tainted' = IF pc[p] \in {"fill", "log"} THEN tainted \cup {Now(p).entity} ELSE tainted
    /\ Exit(p)
    /\ UNCHANGED <<entities, mutations, contested>>

Next == \E p \in Procs :
    \/ Invoke(p) \/ Refuse(p) \/ Admit(p) \/ StartOperation(p) \/ CheckExists(p) \/ Load(p)
    \/ LoadFails(p) \/ ExitWithoutChange(p) \/ SkipInBulk(p) \/ Decide(p) \/ Open(p)
    \/ Fill(p) \/ Unlink(p) \/ UnlinkFails(p) \/ LogSuccess(p) \/ Kill(p)

Spec == Init /\ [][Next]_vars

-----------------------------------------------------------------------------
(* Properties                                                              *)

\* Files, log and calls have the shapes the program gives them; in particular a
\* call never works on an operation it does not have.
TypeOK ==
    /\ entities \in [Entities -> Contents]
    /\ mutations \in Seq(Mutations)
    /\ pc \in [Procs -> Labels]
    /\ call \in [Procs -> Calls \cup {NoCall}]
    /\ todo \in [Procs -> Seq(Ops)]
    /\ \A p \in Procs : pc[p] \notin {"idle", "authorize"} => todo[p] # <<>>
    /\ before \in [Procs -> Contents]
    /\ orphaned \in [Procs -> BOOLEAN]
    /\ tainted \cup contested \subseteq Entities

Successes(e) == {i \in DOMAIN mutations : mutations[i].entity = e /\ mutations[i].result = "success"}
LastLogged(e) ==
    IF Successes(e) = {} THEN "absent"
    ELSE mutations[CHOOSE i \in Successes(e) : \A j \in Successes(e) : j <= i].to
Changing(e) == \E p \in Procs : pc[p] \in {"fill", "log"} /\ Now(p).entity = e

LastEntryIsStored ==
    \A e \in Entities \ (tainted \cup contested) :
        ~Changing(e) => entities[e] = LastLogged(e)

DocumentsAreLogged ==
    \A e \in Entities : entities[e] \in Values /\ e \notin tainted =>
        \/ \E i \in Successes(e) : mutations[i].to = entities[e]
        \/ \E p \in Procs : pc[p] = "log" /\ Now(p).entity = e /\ Now(p).data = entities[e]

\* What the log says last of an entity is what is stored, unless a call is between
\* the two or was killed there, or two calls changed the entity at a time.  And where
\* calls did overlap, a document in the store is still one that a call has logged or
\* is about to log, even if another call logged a later one.
LogExplainsStore == LastEntryIsStored /\ DocumentsAreLogged

\* A bulk call one of whose operations is forbidden performs none of them.
NothingOfForbiddenBulk ==
    \A p \in Procs : pc[p] \notin {"idle", "authorize"} =>
        \A i \in DOMAIN call[p].ops : is_authorized(call[p].ops[i].operation, call[p].actor)

===============================================================================
