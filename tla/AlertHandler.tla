----------------------------- MODULE AlertHandler -----------------------------
(***************************************************************************)
(* scripts/services/alert-handler.py: human actions on alerts, with the    *)
(* state of the alerts in state.ndjson and the audit trail in audit.ndjson.*)
(*                                                                         *)
(* Each action is a process of its own (a CLI call).  Processes may        *)
(* overlap, take no lock on the files, and may be killed between any two   *)
(* of their file accesses.  The actions, their source states, roles and    *)
(* users are those of gitops/alerts/base/alert-handler-actions.yaml, which *)
(* the process loads before it looks at the alert.                         *)
(*                                                                         *)
(* Abstracted: timestamps, correlation ids, notes and the text of reasons  *)
(* (kept: whether a reason was given).                                     *)
(***************************************************************************)
EXTENDS Naturals, Sequences, FiniteSets

CONSTANTS
    Procs,     \* slots of concurrently running calls
    AlertIds,  \* alerts acted on
    Actors,    \* the identities that act
    MaxLines,  \* bound on the lines of state.ndjson
    MaxAudit   \* bound on the lines of audit.ndjson

ASSUME HandlerConstants == MaxLines \in Nat /\ MaxAudit \in Nat

VARIABLES
    stateLog,  \* state.ndjson: <<[alert, state], ...>>
    audit,     \* audit.ndjson: <<[alert, before, after, result], ...>>
    pc,        \* where the call in a slot stands
    call,      \* what it acts on, the state it has read and what it decided
    unaudited  \* history: how often a line was saved by a call killed before auditing it

vars == <<stateLog, audit, pc, call, unaudited>>

staff == {"oncall", "platform-engineer", "admin"}

\* spec.actions of alert-handler-actions.yaml
actions ==
    [ acknowledge |-> [from |-> {"initial", "investigating"}, to |-> "acknowledged",
                       requires_reason |-> FALSE, roles |-> staff],
      investigate |-> [from |-> {"acknowledged"}, to |-> "investigating",
                       requires_reason |-> FALSE, roles |-> staff],
      add_note    |-> [from |-> {"initial", "acknowledged", "investigating", "resolved"},
                       to |-> "same", requires_reason |-> FALSE,
                       roles |-> staff \cup {"observer"}],
      resolve     |-> [from |-> {"acknowledged", "investigating"}, to |-> "resolved",
                       requires_reason |-> TRUE, roles |-> staff],
      close       |-> [from |-> {"resolved", "initial", "acknowledged", "investigating"},
                       to |-> "closed", requires_reason |-> TRUE, roles |-> {"admin"}],
      reopen      |-> [from |-> {"resolved", "closed"}, to |-> "initial",
                       requires_reason |-> TRUE, roles |-> staff] ]

Actions == {"acknowledge", "investigate", "add_note", "resolve", "close", "reopen"}

\* spec.users; the role of an actor that is not listed is None.
get_actor_role(actor) ==
    CASE actor = "alice@hpdc" -> "oncall"
      [] actor = "bob@hpdc"   -> "platform-engineer"
      [] actor = "carol@hpdc" -> "admin"
      [] actor = "dave@hpdc"  -> "observer"
      [] OTHER                -> "None"

\* The stages of spec.allowed_transitions, a table the program never consults.
KnownStages == {"initial", "acknowledged", "investigating", "resolved", "closed"}
Stages == KnownStages \cup {"same"}

SavedLines == [alert : AlertIds, state : Stages]
Results == {"unauthorized", "invalid_transition", "missing_reason", "success"}
Calls == [alert : AlertIds, action : Actions, before : Stages, result : Results]
NoCall == [action |-> "none"]
AuditEntries == [alert : AlertIds, before : Stages, after : Stages, result : Results]

Init ==
    /\ stateLog = <<>>
    /\ audit = <<>>
    /\ pc = [p \in Procs |-> "idle"]
    /\ call = [p \in Procs |-> NoCall]
    /\ unaudited = [l \in SavedLines |-> 0]

LinesOf(a) == {i \in DOMAIN stateLog : stateLog[i].alert = a}

\* Mutated form of load_alert_state: an alert without a line has no state.
load_alert_state_undefaulted(a) ==
    IF LinesOf(a) = {} THEN "None"
    ELSE LET first == CHOOSE i \in LinesOf(a) : \A j \in LinesOf(a) : i <= j
         IN stateLog[first].state

\* The scan of the log returns at the first line of the alert.
load_alert_state(a) ==
    IF LinesOf(a) = {} THEN "initial"
    ELSE LET first == CHOOSE i \in LinesOf(a) : \A j \in LinesOf(a) : i <= j
         IN stateLog[first].state

is_authorized(action, actor) == get_actor_role(actor) \in actions[action].roles

\* What a call decides from its arguments and the state it has read.
Verdict(action, actor, reason, before) ==
    IF ~is_authorized(action, actor) THEN "unauthorized"
    ELSE IF before \notin actions[action].from THEN "invalid_transition"
    ELSE IF actions[action].requires_reason /\ ~reason THEN "missing_reason"
    ELSE "success"

SavedLine(c) == [alert |-> c.alert, state |-> actions[c.action].to]
AuditEntry(c) ==
    [alert |-> c.alert, before |-> c.before, result |-> c.result,
     after |-> IF c.result = "success" THEN actions[c.action].to ELSE c.before]

Finish(p) == pc' = [pc EXCEPT ![p] = "idle"] /\ call' = [call EXCEPT ![p] = NoCall]

\* A call starts: it reads the state of the alert and decides.  Others may change
\* the state before the call writes.
Invoke(p) ==
    /\ pc[p] = "idle"
    /\ \E a \in AlertIds, action \in Actions, actor \in Actors, reason \in BOOLEAN :
          LET before == load_alert_state(a)
          IN call' = [call EXCEPT ![p] =
                        [alert |-> a, action |-> action, before |-> before,
                         result |-> Verdict(action, actor, reason, before)]]
    /\ pc' = [pc EXCEPT ![p] = "decided"]
    /\ UNCHANGED <<stateLog, audit, unaudited>>

\* A refused attempt is audited and changes nothing else.
Refuse(p) ==
    /\ pc[p] = "decided"
    /\ call[p].result # "success"
    /\ Len(audit) < MaxAudit
    /\ audit' = Append(audit, AuditEntry(call[p]))
    /\ Finish(p)
    /\ UNCHANGED <<stateLog, unaudited>>

save_alert_state(p) ==
    /\ pc[p] = "decided"
    /\ call[p].result = "success"
    /\ Len(stateLog) < MaxLines
    /\ stateLog' = Append(stateLog, SavedLine(call[p]))
    /\ pc' = [pc EXCEPT ![p] = "audit"]
    /\ UNCHANGED <<audit, call, unaudited>>

\* Mutated form of record_success: notes are saved but not audited.
record_success_without_notes(p) ==
    /\ pc[p] = "audit"
    /\ Len(audit) < MaxAudit
    /\ audit' = IF call[p].action = "add_note" THEN audit
                ELSE Append(audit, AuditEntry(call[p]))
    /\ Finish(p)
    /\ UNCHANGED <<stateLog, unaudited>>

record_success(p) ==
    /\ pc[p] = "audit"
    /\ Len(audit) < MaxAudit
    /\ audit' = Append(audit, AuditEntry(call[p]))
    /\ Finish(p)
    /\ UNCHANGED <<stateLog, unaudited>>

\* The process is killed; what it has appended stays.
Kill(p) ==
    /\ pc[p] # "idle"
    /\ unaudited' = IF pc[p] = "audit"
                    THEN [unaudited EXCEPT ![SavedLine(call[p])] = @ + 1]
                    ELSE unaudited
    /\ Finish(p)
    /\ UNCHANGED <<stateLog, audit>>

Next == \E p \in Procs :
    Invoke(p) \/ Refuse(p) \/ save_alert_state(p) \/ record_success(p) \/ Kill(p)

Spec == Init /\ [][Next]_vars

-----------------------------------------------------------------------------
(* Properties                                                              *)

\* The log, the trail and the calls have the shapes the program gives them; in
\* particular a call always reads one of the six states.
TypeOK ==
    /\ stateLog \in Seq(SavedLines)
    /\ audit \in Seq(AuditEntries)
    /\ pc \in [Procs -> {"idle", "decided", "audit"}]
    /\ call \in [Procs -> Calls \cup {NoCall}]
    /\ \A p \in Procs : call[p] = NoCall <=> pc[p] = "idle"
    /\ unaudited \in [SavedLines -> Nat]

Successes(l) == {i \in DOMAIN audit : audit[i].result = "success"
                                      /\ [alert |-> audit[i].alert, state |-> audit[i].after] = l}
Unfinished(l) == {p \in Procs : pc[p] = "audit" /\ SavedLine(call[p]) = l}

\* The two files agree line by line: a state that was saved is in the trail as a
\* success, or its call is between the two writes, or it was killed there; and
\* the trail never claims a success whose state is not in state.ndjson.
AuditMatchesState ==
    \A l \in SavedLines :
        Cardinality({i \in DOMAIN stateLog : stateLog[i] = l})
          = Cardinality(Successes(l)) + Cardinality(Unfinished(l)) + unaudited[l]

\* What the story promises (5-4-manage-human-alert-handling-with-audit-trail.md:17):
\* an alert that an operator resolves is in state resolved.  The program finds the
\* state of the first line instead (line 40).
ResolvedIsFound ==
    \A a \in AlertIds : \A i \in LinesOf(a) :
        stateLog[i].state = "resolved" /\ (\A j \in LinesOf(a) : j <= i) =>
            load_alert_state(a) = "resolved"
===============================================================================
