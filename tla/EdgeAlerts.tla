------------------------------ MODULE EdgeAlerts ------------------------------
(***************************************************************************)
(* The alert routes of the edge service, scripts/services/events-ingest.py: *)
(* POST /alerts, POST /alerts/{id}/transition and GET /alerts.             *)
(*                                                                         *)
(* EdgeServer is a ThreadingHTTPServer: every request runs in a thread of  *)
(* its own, and the handlers share the dictionaries server.alerts and      *)
(* server.idempotency without a lock.  Each handler is therefore split at  *)
(* every access to shared state; a thread of the model is a slot in which  *)
(* requests run one after the other.                                       *)
(*                                                                         *)
(* server.alerts maps an alert id to a *reference* to a Python dict, and a *)
(* transition keeps using the reference it fetched even when a create has  *)
(* put another dict in its place.  The dicts are the members of Records,   *)
(* their contents are in heap.                                             *)
(*                                                                         *)
(* Abstracted: the body of an alert beyond its two ids, actor and reason   *)
(* of a transition, timestamps, and the JSON of replies (kept: the status  *)
(* code).                                                                  *)
(***************************************************************************)
EXTENDS Naturals, Sequences, FiniteSets

CONSTANTS
    Threads,    \* slots of concurrently running request handlers
    AlertIds,   \* alert ids clients choose
    SourceIds,  \* source_change_id values clients send
    Records,    \* identities of the alert dicts; bounds the number of creations
    None,       \* None of Python: no alert, no record, no source id, no target
    MaxHistory  \* bound on the length of a history, so that TLC terminates

VARIABLES
    alerts,       \* server.alerts: alert id -> record reference
    idempotency,  \* server.idempotency: source id -> alert id
    heap,         \* contents of the records; alert = None when not allocated
    topic,        \* topics/alerts.incoming.ndjson
    pc,           \* where the handler in a slot stands
    local,        \* its local variables
    reply,        \* status code it has sent; Dropped: it died without one
    lost          \* history variable: how many handlers died on line 239

vars == <<alerts, idempotency, heap, topic, pc, local, reply, lost>>

AlertStates == {"initial", "acknowledged", "investigating", "resolved", "closed"}

ASSUME EdgeConstants ==
    /\ None \notin AlertIds \cup SourceIds \cup Records \cup AlertStates
    /\ None \notin [state : AlertStates, history : Seq(AlertStates)]
    /\ MaxHistory \in Nat

ALERT_TRANSITIONS ==
    [ initial       |-> {"acknowledged"},
      acknowledged  |-> {"investigating"},
      investigating |-> {"resolved"},
      resolved      |-> {"closed"},
      closed        |-> {} ]

Silent == 0       \* nothing sent yet
Dropped == 500    \* the handler raised: the connection is closed, nothing is sent
Refused == 400    \* or 401: both before anything is looked up
Codes == {Silent, 200, 202, Refused, 404, 409, Dropped}

Labels == {"idle", "check", "replay", "insert", "remember", "announce",
           "fetch", "judge", "set", "append", "done"}

Locals == [alert : AlertIds \cup {None}, source : SourceIds \cup {None},
           target : AlertStates \cup {None}, rec : Records \cup {None}]
Blank == [alert |-> None, source |-> None, target |-> None, rec |-> None]

RecordContents == [alert : AlertIds \cup {None}, source : SourceIds \cup {None},
                   state : AlertStates, history : Seq(AlertStates)]
Free == [alert |-> None, source |-> None, state |-> "initial", history |-> <<>>]
Allocated == {r \in Records : heap[r].alert # None}

Init ==
    /\ alerts = [a \in AlertIds |-> None]
    /\ idempotency = [s \in SourceIds |-> None]
    /\ heap = [r \in Records |-> Free]
    /\ topic = <<>>
    /\ pc = [t \in Threads |-> "idle"]
    /\ local = [t \in Threads |-> Blank]
    /\ reply = [t \in Threads |-> Silent]
    /\ lost = 0

Goto(t, label) == pc' = [pc EXCEPT ![t] = label]
Answer(t, code) == Goto(t, "done") /\ reply' = [reply EXCEPT ![t] = code]

-----------------------------------------------------------------------------
(* Requests arrive.                                                        *)

\* Bounds: enough free records for every create in flight, enough room in the
\* histories for every transition in flight.
Creating == {t \in Threads : pc[t] \in {"check", "replay", "insert"}}
RoomForCreate == Cardinality(Creating) < Cardinality(Records \ Allocated)
RoomForTransition ==
    \A r \in Records : Len(heap[r].history) + Cardinality(Threads) <= MaxHistory

\* Wrong credentials, or a body that is not JSON, too large or without an
\* alert_id, are answered.  JSON that is no object (the .get of lines 219 and
\* 255) and an alert_id or a source_change_id that cannot be a key (lines 236
\* and 224) raise, and nothing is.  Shared state is not touched either way.
Reject(t) ==
    /\ pc[t] = "idle"
    /\ \E code \in {Refused, Dropped} : Answer(t, code)
    /\ UNCHANGED <<alerts, idempotency, heap, topic, local, lost>>

ReceiveCreate(t) ==
    /\ pc[t] = "idle"
    /\ RoomForCreate
    /\ \E a \in AlertIds, s \in SourceIds \cup {None} :
          local' = [local EXCEPT ![t] = [Blank EXCEPT !.alert = a, !.source = s]]
    /\ Goto(t, "check")
    /\ UNCHANGED <<alerts, idempotency, heap, topic, reply, lost>>

ReceiveTransition(t) ==
    /\ pc[t] = "idle"
    /\ RoomForTransition
    /\ \E a \in AlertIds, target \in AlertStates :
          local' = [local EXCEPT ![t] = [Blank EXCEPT !.alert = a, !.target = target]]
    /\ Goto(t, "fetch")
    /\ UNCHANGED <<alerts, idempotency, heap, topic, reply, lost>>

-----------------------------------------------------------------------------
(* _create_alert                                                           *)

\* Mutated form of CheckSource: it reserves the source id before the alert exists.
CheckSourceReserving(t) ==
    LET s == local[t].source
        fresh == s # None /\ idempotency[s] = None
    IN
    /\ pc[t] = "check"
    /\ idempotency' = IF fresh THEN [idempotency EXCEPT ![s] = local[t].alert] ELSE idempotency
    /\ Goto(t, IF s = None \/ fresh THEN "insert" ELSE "replay")
    /\ UNCHANGED <<alerts, heap, topic, local, reply, lost>>

\* Has this source change been processed?  The answer is used after other
\* threads may have run.
CheckSource(t) ==
    LET s == local[t].source IN
    /\ pc[t] = "check"
    /\ Goto(t, IF s # None /\ idempotency[s] # None THEN "replay" ELSE "insert")
    /\ UNCHANGED <<alerts, idempotency, heap, topic, local, reply, lost>>

\* The original alert is looked up by subscription: a missing key is a
\* KeyError that nothing catches.
Replay(t) ==
    LET original == idempotency[local[t].source] IN
    /\ pc[t] = "replay"
    /\ Answer(t, IF alerts[original] = None THEN Dropped ELSE 200)
    /\ UNCHANGED <<alerts, idempotency, heap, topic, local, lost>>

NewRecord(t) == [alert |-> local[t].alert, source |-> local[t].source,
                 state |-> "initial", history |-> <<>>]

\* Mutated form of InsertAlert: remembering and announcing have both slipped
\* into the "if source_change_id" block.
InsertAlertUnannounced(t) ==
    /\ pc[t] = "insert"
    /\ \E r \in Records \ Allocated :
          /\ heap' = [heap EXCEPT ![r] = NewRecord(t)]
          /\ alerts' = [alerts EXCEPT ![local[t].alert] = r]
          /\ local' = [local EXCEPT ![t].rec = r]
    /\ IF local[t].source = None
       THEN Answer(t, 202)
       ELSE Goto(t, "remember") /\ UNCHANGED reply
    /\ UNCHANGED <<idempotency, topic, lost>>

\* A new record takes the place of whatever the id referred to before.
InsertAlert(t) ==
    /\ pc[t] = "insert"
    /\ \E r \in Records \ Allocated :
          /\ heap' = [heap EXCEPT ![r] = NewRecord(t)]
          /\ alerts' = [alerts EXCEPT ![local[t].alert] = r]
          /\ local' = [local EXCEPT ![t].rec = r]
    /\ Goto(t, IF local[t].source = None THEN "announce" ELSE "remember")
    /\ UNCHANGED <<idempotency, topic, reply, lost>>

\* Mutated form of RememberSource: the map holds the record, not its id.
RememberSourceRecord(t) ==
    /\ pc[t] = "remember"
    /\ idempotency' = [idempotency EXCEPT ![local[t].source] = local[t].rec]
    /\ Goto(t, "announce")
    /\ UNCHANGED <<alerts, heap, topic, local, reply, lost>>

RememberSource(t) ==
    /\ pc[t] = "remember"
    /\ idempotency' = [idempotency EXCEPT ![local[t].source] = local[t].alert]
    /\ Goto(t, "announce")
    /\ UNCHANGED <<alerts, heap, topic, local, reply, lost>>

\* The enriched event is appended to the topic log, then the client is told.
Announce(t) ==
    /\ pc[t] = "announce"
    /\ topic' = Append(topic, [alert |-> local[t].alert, source |-> local[t].source])
    /\ Answer(t, 202)
    /\ UNCHANGED <<alerts, idempotency, heap, local, lost>>

\* Nobody catches what line 239 may raise: a device_id that cannot be a key or
\* metadata that is no object in _enriched_event, a topic file that cannot be
\* written in _log_ndjson.  The alert stays stored and its source remembered.
FailToAnnounce(t) ==
    /\ pc[t] = "announce"
    /\ Answer(t, Dropped)
    /\ lost' = lost + 1
    /\ UNCHANGED <<alerts, idempotency, heap, topic, local>>

-----------------------------------------------------------------------------
(* _transition_alert                                                       *)

FetchRecord(t) ==
    LET r == alerts[local[t].alert] IN
    /\ pc[t] = "fetch"
    /\ \/ /\ r = None
          /\ Answer(t, 404)
          /\ UNCHANGED local
       \/ /\ r # None
          /\ local' = [local EXCEPT ![t].rec = r]
          /\ Goto(t, "judge")
          /\ UNCHANGED reply
    /\ UNCHANGED <<alerts, idempotency, heap, topic, lost>>

\* Mutated form of JudgeTransition: any other stage is accepted.
JudgeTransitionLoosely(t) ==
    LET current == heap[local[t].rec].state IN
    /\ pc[t] = "judge"
    /\ \/ /\ local[t].target = current
          /\ Answer(t, 409)
       \/ /\ local[t].target # current
          /\ Goto(t, "set")
          /\ UNCHANGED reply
    /\ UNCHANGED <<alerts, idempotency, heap, topic, local, lost>>

JudgeTransition(t) ==
    LET current == heap[local[t].rec].state IN
    /\ pc[t] = "judge"
    /\ \/ /\ local[t].target \notin ALERT_TRANSITIONS[current]
          /\ Answer(t, 409)
       \/ /\ local[t].target \in ALERT_TRANSITIONS[current]
          /\ Goto(t, "set")
          /\ UNCHANGED reply
    /\ UNCHANGED <<alerts, idempotency, heap, topic, local, lost>>

SetState(t) ==
    /\ pc[t] = "set"
    /\ heap' = [heap EXCEPT ![local[t].rec].state = local[t].target]
    /\ Goto(t, "append")
    /\ UNCHANGED <<alerts, idempotency, topic, local, reply, lost>>

AppendHistory(t) ==
    /\ pc[t] = "append"
    /\ heap' = [heap EXCEPT ![local[t].rec].history = Append(@, local[t].target)]
    /\ Answer(t, 200)
    /\ UNCHANGED <<alerts, idempotency, topic, local, lost>>

-----------------------------------------------------------------------------
(* The thread ends with its connection; the slot takes another request.    *)

Close(t) ==
    /\ pc[t] = "done"
    /\ Goto(t, "idle")
    /\ local' = [local EXCEPT ![t] = Blank]
    /\ reply' = [reply EXCEPT ![t] = Silent]
    /\ UNCHANGED <<alerts, idempotency, heap, topic, lost>>

\* The steps a handler takes once it has a request.
Handle(t) ==
    \/ CheckSource(t)
    \/ Replay(t)
    \/ InsertAlert(t)
    \/ RememberSource(t)
    \/ Announce(t)
    \/ FailToAnnounce(t)
    \/ FetchRecord(t)
    \/ JudgeTransition(t)
    \/ SetState(t)
    \/ AppendHistory(t)
    \/ Close(t)

Receive(t) == Reject(t) \/ ReceiveCreate(t) \/ ReceiveTransition(t)

Next == \E t \in Threads : Receive(t) \/ Handle(t)

Spec == Init /\ [][Next]_vars

\* A handler holds no lock and waits for nobody, so the scheduler lets each one
\* run to its end; no client is obliged to send a request.
FairSpec == Spec /\ \A t \in Threads : WF_vars(Handle(t))

-----------------------------------------------------------------------------
(* Properties.                                                             *)

\* Every variable stays in its set; in particular a handler past its lookup
\* holds the values its next statement uses.
TypeOK ==
    /\ alerts \in [AlertIds -> Records \cup {None}]
    /\ idempotency \in [SourceIds -> AlertIds \cup {None}]
    /\ heap \in [Records -> RecordContents]
    /\ topic \in Seq([alert : AlertIds, source : SourceIds \cup {None}])
    /\ pc \in [Threads -> Labels]
    /\ local \in [Threads -> Locals]
    /\ reply \in [Threads -> Codes]
    /\ lost \in Nat

\* The duplicate branch of _create_alert (lines 224-227) subscripts
\* server.alerts with what the idempotency map holds: whatever the handlers in
\* flight are doing, that id must name a stored alert, and one that was really
\* created for this source change.
IdempotencyNamesOwnAlert ==
    \A s \in SourceIds : idempotency[s] # None =>
        /\ alerts[idempotency[s]] # None
        /\ \E r \in Records : heap[r].alert = idempotency[s] /\ heap[r].source = s

\* The topic agrees with the store: every record ever created is announced on
\* alerts.incoming exactly once, unless its handler is still on its way there
\* (lines 236-239) or died of announcing it - also when another create replaced
\* it in server.alerts.
EveryCreationAnnounced ==
    Cardinality(Allocated) =
        Len(topic) + Cardinality({t \in Threads : pc[t] \in {"remember", "announce"}})
                   + lost

Stages(history) == {history[i] : i \in 1 .. Len(history)}

\* The stages record r has been put in, whether or not the handler that did it
\* has reached the append on line 261.
Entered(r) ==
    {"initial"} \cup Stages(heap[r].history)
                \cup {local[t].target : t \in {u \in Threads : pc[u] = "append"
                                                               /\ local[u].rec = r}}

\* However transitions of one alert race (the check on line 257 is stale by
\* line 260), no alert reaches a stage without having been in a stage that
\* leads to it: nothing is closed that was not resolved before, and so on back
\* to "initial".
NoStageSkipped ==
    \A r \in Allocated : \A s \in Entered(r) \ {"initial"} :
        \E p \in Entered(r) : s \in ALERT_TRANSITIONS[p]

\* The documents promise (test_p0_alert_pipeline.py:8, P0-006) that duplicate
\* deliveries are processed exactly once: a source change makes one alert.  The
\* code tests on line 224 and remembers on line 238.
OneAlertPerSource ==
    \A r, q \in Allocated : heap[r].source = heap[q].source => r = q \/ heap[r].source = None

\* The alert of this request is stored, only its announcement went wrong.
DiedAnnouncing(t) == reply[t] = Dropped /\ local[t].target = None /\ local[t].rec # None

\* A request that passed the first checks gets its reply: no handler hangs, and
\* none dies but of announcing - in particular not of a KeyError on line 226.
EveryRequestAnswered ==
    \A t \in Threads :
        (pc[t] \in {"check", "fetch"}) ~>
            (pc[t] = "done" /\ (reply[t] \notin {Silent, Dropped} \/ DiedAnnouncing(t)))

-----------------------------------------------------------------------------
(* The routes implement AlertBoard as long as requests do not overlap,     *)
(* which is how the acceptance tests call them.                            *)
(*                                                                         *)
(* The abstract operation takes effect where the handler publishes its     *)
(* first change to shared state: a create at the insertion into            *)
(* server.alerts (line 236), a transition at the assignment of the state   *)
(* (line 260).  What the handler still owes (the idempotency entry, the    *)
(* history entry) is added by the mapping; the event it is about to append *)
(* to the topic is the one pending on the board.                           *)

Owing(labels) == {t \in Threads : pc[t] \in labels}

BoardOf(a) ==
    IF alerts[a] = None THEN None
    ELSE LET r == alerts[a]
             owed == {t \in Owing({"append"}) : local[t].rec = r}
         IN [state   |-> heap[r].state,
             history |-> IF owed = {} THEN heap[r].history
                         ELSE Append(heap[r].history, local[CHOOSE t \in owed : TRUE].target)]

SeenOf(s) ==
    LET owed == {t \in Owing({"remember"}) : local[t].source = s}
    IN IF owed = {} THEN idempotency[s] ELSE local[CHOOSE t \in owed : TRUE].alert

Pending ==
    {[alert |-> local[t].alert, source |-> local[t].source] :
        t \in Owing({"remember", "announce"})}

Board == INSTANCE AlertBoard
    WITH board     <- [a \in AlertIds |-> BoardOf(a)],
         seen      <- [s \in SourceIds |-> SeenOf(s)],
         pending   <- Pending,
         published <- topic

\* With one handler at a time, every step of the service is a step of the board
\* or no step of it: one acceptance per source change, its event on the topic
\* before the next acceptance or never, stages in order, and a history that
\* lists exactly the stages entered.
ImplementsAlertBoard == Board!BoardSpec
===============================================================================
