---------------------------- MODULE ChangeProcessor ----------------------------
(***************************************************************************)
(* scripts/services/entity-change-processor.py: change events of the       *)
(* entity stores, deduplicated on their source change id, with a dead      *)
(* letter queue for those that fail.                                       *)
(*                                                                         *)
(* Every event is handled by a process of its own (a CLI call).  Processes *)
(* may overlap, take no lock on the two logs, may be killed between any    *)
(* two of their file accesses, and the feed may deliver an event again.    *)
(*                                                                         *)
(* Abstracted: the contents of a change, time (kept: whether the reaction  *)
(* budget was exceeded) and the text of the log entries.                   *)
(***************************************************************************)
EXTENDS Naturals, Sequences, FiniteSets

CONSTANTS
    Handlers, \* slots of concurrently running calls
    Changes,  \* source change ids
    MaxFeed   \* bound on the length of each log

ASSUME ChangeConstants == MaxFeed \in Nat

VARIABLES
    processed,  \* processed.ndjson: the ids, in order
    deadLetter, \* dead_letter.ndjson: [id, result], in order
    place,      \* where the call in a slot stands
    event,      \* the event it handles
    acked       \* history: ids for which some call exited with 0

feedVars == <<processed, deadLetter, place, event, acked>>

Events == [id : Changes, force_failure : BOOLEAN]
NoEvent == [id |-> "none"]
Failures == {"failed", "budget_exceeded"}

FeedInit ==
    /\ processed = <<>>
    /\ deadLetter = <<>>
    /\ place = [p \in Handlers |-> "idle"]
    /\ event = [p \in Handlers |-> NoEvent]
    /\ acked = {}

Processed == {processed[i] : i \in DOMAIN processed}
Dead == {deadLetter[i].id : i \in DOMAIN deadLetter}

EndCall(p) == place' = [place EXCEPT ![p] = "idle"] /\ event' = [event EXCEPT ![p] = NoEvent]

\* A call starts.  Events that are not JSON, of an unknown source or without an id
\* end it before the logs are touched and are not modelled further.
Deliver(p) ==
    /\ place[p] = "idle"
    /\ \E e \in Events : event' = [event EXCEPT ![p] = e]
    /\ place' = [place EXCEPT ![p] = "dedupe"]
    /\ UNCHANGED <<processed, deadLetter, acked>>

\* Mutated form of is_processed: a dead letter counts as handled.
is_processed_or_dead(c) == c \in Processed \cup Dead

\* Mutated form of is_processed: the log is not consulted.
is_processed_never(c) == FALSE

is_processed(c) == c \in Processed

Skip(p) ==
    /\ place[p] = "dedupe"
    /\ is_processed(event[p].id)
    /\ acked' = acked \cup {event[p].id}
    /\ EndCall(p)
    /\ UNCHANGED <<processed, deadLetter>>

StartReaction(p) ==
    /\ place[p] = "dedupe"
    /\ ~is_processed(event[p].id)
    /\ place' = [place EXCEPT ![p] = "react"]
    /\ UNCHANGED <<processed, deadLetter, event, acked>>

\* Mutated form of BuryEvent: the entry is queued before its result is set.
BuryEventUnlabelled(p) ==
    /\ place[p] = "react"
    /\ Len(deadLetter) < MaxFeed
    /\ deadLetter' = Append(deadLetter, [id |-> event[p].id, result |-> "unset"])
    /\ EndCall(p)
    /\ UNCHANGED <<processed, acked>>

\* The reaction failed or took too long: the event goes to the dead letter queue
\* at its first attempt, and the call exits with 1.
BuryEvent(p) ==
    /\ place[p] = "react"
    /\ Len(deadLetter) < MaxFeed
    /\ LET result == IF event[p].force_failure THEN "failed" ELSE "budget_exceeded"
       IN deadLetter' = Append(deadLetter, [id |-> event[p].id, result |-> result])
    /\ EndCall(p)
    /\ UNCHANGED <<processed, acked>>

\* Within the budget.
RecordProcessed(p) ==
    /\ place[p] = "react"
    /\ ~event[p].force_failure
    /\ Len(processed) < MaxFeed
    /\ processed' = Append(processed, event[p].id)
    /\ place' = [place EXCEPT ![p] = "report"]
    /\ UNCHANGED <<deadLetter, event, acked>>

\* The call exits with 0.
Report(p) ==
    /\ place[p] = "report"
    /\ acked' = acked \cup {event[p].id}
    /\ EndCall(p)
    /\ UNCHANGED <<processed, deadLetter>>

\* The process is killed; what it has appended stays.
KillCall(p) ==
    /\ place[p] # "idle"
    /\ EndCall(p)
    /\ UNCHANGED <<processed, deadLetter, acked>>

Handle(p) == Skip(p) \/ StartReaction(p) \/ BuryEvent(p) \/ RecordProcessed(p) \/ Report(p)

FeedNext == \E p \in Handlers : Deliver(p) \/ Handle(p) \/ KillCall(p)

FeedSpec == FeedInit /\ [][FeedNext]_feedVars

-----------------------------------------------------------------------------
(* Properties                                                              *)

\* The logs hold ids of changes and labelled failures, and a slot holds an event
\* exactly while a call runs in it.
FeedTypeOK ==
    /\ processed \in Seq(Changes)
    /\ deadLetter \in Seq([id : Changes, result : Failures])
    /\ place \in [Handlers -> {"idle", "dedupe", "react", "report"}]
    /\ event \in [Handlers -> Events \cup {NoEvent}]
    /\ \A p \in Handlers : event[p] = NoEvent <=> place[p] = "idle"
    /\ acked \subseteq Changes

\* A change whose handling was reported to the feed (exit code 0) has been recorded
\* as processed, however its deliveries overlap, die, fail first or are repeated.
AckedIsProcessed == acked \subseteq Processed

\* Once a change is recorded as processed and no call that looked before is left,
\* the change is settled and stays so: however often it is delivered again, no call
\* sets out to process it, and it gets no further entry in either log.
EntriesOf(c) == <<{i \in DOMAIN processed : processed[i] = c},
                  {i \in DOMAIN deadLetter : deadLetter[i].id = c}>>
Settled(c) == c \in Processed /\ ~\E p \in Handlers : place[p] = "react" /\ event[p].id = c
SettledStaysSettled ==
    [][\A c \in Changes : Settled(c) => Settled(c)' /\ EntriesOf(c)' = EntriesOf(c)]_feedVars

-----------------------------------------------------------------------------
(* Calls that do not overlap implement the exactly-once feed: the log and the dead *)
(* letters of ExactlyOnceFeed are the two files.                                   *)

Feed == INSTANCE ExactlyOnceFeed WITH log <- processed, failed <- deadLetter

\* With one call at a time, which may die at any point and be repeated, every step
\* of the program is a step of the feed or leaves both files alone.
ImplementsExactlyOnceFeed == Feed!Spec

===============================================================================
