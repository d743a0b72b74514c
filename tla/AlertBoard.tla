------------------------------ MODULE AlertBoard ------------------------------
(***************************************************************************)
(* What the alert routes of the edge service promise to their clients,     *)
(* without handlers, threads or partially finished requests: a board of    *)
(* alerts that move one stage at a time, a memory of the source changes    *)
(* already processed, and a topic that carries each accepted alert once,   *)
(* in the order of acceptance - except for those whose publication failed. *)
(*                                                                         *)
(* The promise is the one the acceptance scaffold states (P0-005, P0-006   *)
(* and P0-007 of tests/atdd/api/test_p0_alert_pipeline.py); the lifecycle  *)
(* table is ALERT_TRANSITIONS of scripts/services/events-ingest.py.        *)
(***************************************************************************)
EXTENDS Sequences

CONSTANTS
    AlertIds,   \* alert ids a client may choose
    SourceIds,  \* source change ids (the idempotency keys)
    None        \* absence of an alert or of a source id

VARIABLES
    board,      \* board[a]: None, or the stage of alert a and the stages it entered
    seen,       \* seen[s]: the alert accepted for source change s, or None
    pending,    \* the event of the alert accepted last, until it is published
    published   \* the events on the topic alerts.incoming

boardVars == <<board, seen, pending, published>>

AlertStates == {"initial", "acknowledged", "investigating", "resolved", "closed"}

ALERT_TRANSITIONS ==
    [ initial       |-> {"acknowledged"},
      acknowledged  |-> {"investigating"},
      investigating |-> {"resolved"},
      resolved      |-> {"closed"},
      closed        |-> {} ]

BoardInit ==
    /\ board = [a \in AlertIds |-> None]
    /\ seen = [s \in SourceIds |-> None]
    /\ pending = {}
    /\ published = <<>>

\* An alert is accepted once per source change: it (re)starts at "initial", and
\* its event is to be published before anything else happens.  Without a source
\* id there is nothing to deduplicate on.
Accept(a, s) ==
    /\ pending = {}
    /\ s # None => seen[s] = None
    /\ board' = [board EXCEPT ![a] = [state |-> "initial", history |-> <<>>]]
    /\ seen' = IF s = None THEN seen ELSE [seen EXCEPT ![s] = a]
    /\ pending' = {[alert |-> a, source |-> s]}
    /\ UNCHANGED published

\* The event reaches the topic, or publishing fails and it never does: the
\* acceptance stands, and the source change is not accepted again.
Publish ==
    /\ \E e \in pending : published' = Append(published, e)
    /\ pending' = {}
    /\ UNCHANGED <<board, seen>>

Lose ==
    /\ pending # {}
    /\ pending' = {}
    /\ UNCHANGED <<board, seen, published>>

\* An alert moves to a successor stage, and its history records the move.
Advance(a, target) ==
    /\ pending = {}
    /\ board[a] # None
    /\ target \in ALERT_TRANSITIONS[board[a].state]
    /\ board' = [board EXCEPT ![a] = [state |-> target,
                                      history |-> Append(@.history, target)]]
    /\ UNCHANGED <<seen, pending, published>>

BoardNext ==
    \/ \E a \in AlertIds :
           \/ \E s \in SourceIds \cup {None} : Accept(a, s)
           \/ \E target \in AlertStates : Advance(a, target)
    \/ Publish
    \/ Lose

BoardSpec == BoardInit /\ [][BoardNext]_boardVars
===============================================================================
