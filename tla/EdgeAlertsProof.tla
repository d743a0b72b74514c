---------------------------- MODULE EdgeAlertsProof ---------------------------
(***************************************************************************)
(* Proofs about EdgeAlerts for any number of handlers, ids and records.    *)
(*                                                                         *)
(* Three inductive invariants, each resting on the one before:             *)
(*   HandlerInv  what a handler knows at each statement (gives TypeOK);    *)
(*   StoreInv    how alerts, idempotency and records hang together (gives  *)
(*               IdempotencyNamesOwnAlert);                                *)
(*   StageInv    which stages a record must have entered (gives            *)
(*               NoStageSkipped).                                          *)
(*                                                                         *)
(* Requests that do not overlap implement the promised board               *)
(* (SequentialBoard).  Less is enough for two of its promises: SourceInv   *)
(* and MoveInv say what one lock per source change, or per record, would   *)
(* give (OnceUnderLock, HistoryUnderLock).  The last part is about the     *)
(* back-pressure numbers of the same server, for any number of handlers,   *)
(* lags and batch sizes.                                                   *)
(***************************************************************************)
EXTENDS EdgeAlerts, EdgeBackpressure, FiniteSetTheorems, TLAPS

\* What the local variables of a handler hold, by the statement it stands at.
HandlerInv ==
    /\ TypeOK
    /\ \A t \in Threads :
        /\ pc[t] \in {"check", "replay", "insert", "remember", "announce"}
              => local[t].alert # None
        /\ pc[t] \in {"replay", "remember"} => local[t].source # None
        /\ pc[t] \in {"fetch", "judge", "set", "append"} => local[t].target # None
        /\ pc[t] = "fetch" => local[t].alert # None
        /\ pc[t] \in {"remember", "judge", "set", "append"} => local[t].rec # None

\* References in server.alerts and in handlers are to allocated records, and a
\* handler about to remember its source has stored its alert.
StoreInv ==
    /\ HandlerInv
    /\ \A a \in AlertIds : alerts[a] # None => alerts[a] \in Allocated
    /\ \A t \in Threads :
        /\ pc[t] \in {"judge", "set", "append"} => local[t].rec \in Allocated
        /\ pc[t] = "remember" =>
              /\ alerts[local[t].alert] # None
              /\ heap[local[t].rec].alert = local[t].alert
              /\ heap[local[t].rec].source = local[t].source
    /\ IdempotencyNamesOwnAlert

\* A record is in a stage it has entered; a handler about to set a stage judged
\* it against a stage the record has entered, if it is not there any more.
StageInv ==
    /\ \A r \in Allocated : heap[r].state \in Entered(r)
    /\ \A t \in Threads : \A r \in Records : pc[t] = "set" /\ local[t].rec = r =>
          \E p \in Entered(r) : local[t].target \in ALERT_TRANSITIONS[p]
    /\ NoStageSkipped

-----------------------------------------------------------------------------
(* What a step of a handler does to the control variables.                 *)

\* The heap, the history of which is a sequence, keeps its type when a record
\* is allocated, moved to a stage or extended.
LEMMA HeapUpdates ==
    ASSUME NEW h \in [Records -> RecordContents], NEW r \in Records
    PROVE  /\ \A c \in RecordContents : [h EXCEPT ![r] = c] \in [Records -> RecordContents]
           /\ \A s \in AlertStates :
                 /\ [h EXCEPT ![r].state = s] \in [Records -> RecordContents]
                 /\ [h EXCEPT ![r].history = Append(@, s)] \in [Records -> RecordContents]
<1> DEFINE Contents(a, o, s, l) == [alert |-> a, source |-> o, state |-> s, history |-> l]
<1>1. \A s \in AlertStates : Append(h[r].history, s) \in Seq(AlertStates)
    BY DEF RecordContents
<1>2. \A s \in AlertStates : [h[r] EXCEPT !.state = s] \in RecordContents
    BY DEF RecordContents
<1>3. \A s \in AlertStates : [h[r] EXCEPT !.history = Append(@, s)] \in RecordContents
    BY <1>1 DEF RecordContents
<1>4. \A c \in RecordContents : [h EXCEPT ![r] = c] \in [Records -> RecordContents]
    OBVIOUS
<1> QED BY <1>2, <1>3, <1>4

\* Every handler keeps its own books: type correctness needs to know, at each
\* statement, which locals are set.
LEMMA HandlerInvInductive == HandlerInv /\ [Next]_vars => HandlerInv'
<1> SUFFICES ASSUME HandlerInv, [Next]_vars PROVE HandlerInv'
    OBVIOUS
<1> USE EdgeConstants DEF HandlerInv, EdgeConstants
<1>u. CASE UNCHANGED vars
    BY <1>u DEF vars, TypeOK
<1>n. ASSUME NEW t \in Threads, Receive(t) \/ Handle(t) PROVE HandlerInv'
    <2> USE DEF TypeOK, Goto, Answer, Labels, Codes, Locals, Blank, Silent, Dropped, Refused
    <2>1. CASE Reject(t)
        BY <2>1 DEF Reject
    <2>2. CASE ReceiveCreate(t)
        <3>1. PICK a \in AlertIds, s \in SourceIds \cup {None} :
                local' = [local EXCEPT ![t] = [Blank EXCEPT !.alert = a, !.source = s]]
            BY <2>2 DEF ReceiveCreate
        <3>2. [Blank EXCEPT !.alert = a, !.source = s] \in Locals
            OBVIOUS
        <3> QED BY <2>2, <3>1, <3>2 DEF ReceiveCreate
    <2>3. CASE ReceiveTransition(t)
        <3>1. PICK a \in AlertIds, target \in AlertStates :
                local' = [local EXCEPT ![t] = [Blank EXCEPT !.alert = a, !.target = target]]
            BY <2>3 DEF ReceiveTransition
        <3>2. target # None
            OBVIOUS
        <3>3. [Blank EXCEPT !.alert = a, !.target = target] \in Locals
            OBVIOUS
        <3> QED BY <2>3, <3>1, <3>2, <3>3 DEF ReceiveTransition
    <2>4. CASE CheckSource(t)
        BY <2>4 DEF CheckSource
    <2>5. CASE Replay(t)
        BY <2>5 DEF Replay
    <2>6. CASE InsertAlert(t)
        <3> USE <2>6
        <3>1. PICK r \in Records \ Allocated :
                /\ heap' = [heap EXCEPT ![r] = NewRecord(t)]
                /\ alerts' = [alerts EXCEPT ![local[t].alert] = r]
                /\ local' = [local EXCEPT ![t].rec = r]
            BY DEF InsertAlert
        <3>2. NewRecord(t) \in RecordContents
            BY DEF NewRecord, RecordContents, AlertStates
        <3>3. heap' \in [Records -> RecordContents]
            BY <3>1, <3>2, HeapUpdates
        <3>4. [local[t] EXCEPT !.rec = r] \in Locals /\ r # None
            OBVIOUS
        <3>5. local' = [local EXCEPT ![t] = [local[t] EXCEPT !.rec = r]]
            BY <3>1
        <3>6. local' \in [Threads -> Locals]
            <4> HIDE DEF Locals
            <4> QED BY <3>4, <3>5
        <3>7. TypeOK'
            BY <3>1, <3>3, <3>6 DEF InsertAlert
        <3> QED BY <3>4, <3>5, <3>7 DEF InsertAlert
    <2>7. CASE RememberSource(t)
        BY <2>7 DEF RememberSource
    <2>8. CASE Announce(t)
        <3>1. [alert |-> local[t].alert, source |-> local[t].source]
                 \in [alert : AlertIds, source : SourceIds \cup {None}]
            BY <2>8 DEF Announce
        <3>2. topic' \in Seq([alert : AlertIds, source : SourceIds \cup {None}])
            BY <2>8, <3>1 DEF Announce
        <3> QED BY <2>8, <3>2 DEF Announce
    <2>8a. CASE FailToAnnounce(t)
        BY <2>8a DEF FailToAnnounce
    <2>9. CASE FetchRecord(t)
        <3>1. CASE alerts[local[t].alert] = None
            <4>1. /\ UNCHANGED <<alerts, idempotency, heap, topic, local, lost>>
                  /\ pc' = [pc EXCEPT ![t] = "done"] /\ reply' = [reply EXCEPT ![t] = 404]
                BY <2>9, <3>1 DEF FetchRecord
            <4> QED BY <4>1
        <3>2. CASE alerts[local[t].alert] # None
            <4> DEFINE r == alerts[local[t].alert]
            <4>1. r \in Records
                BY <2>9, <3>2 DEF FetchRecord
            <4>2. [local[t] EXCEPT !.rec = r] \in Locals
                <5>1. local[t] \in Locals
                    OBVIOUS
                <5>2. \A l \in Locals : [l EXCEPT !.rec = r] \in Locals
                    BY <4>1
                <5> HIDE DEF Locals
                <5> QED BY <5>1, <5>2
            <4>3. local' = [local EXCEPT ![t] = [local[t] EXCEPT !.rec = r]]
                BY <2>9, <3>2 DEF FetchRecord
            <4>4. local' \in [Threads -> Locals]
                <5> HIDE DEF Locals
                <5> QED BY <4>2, <4>3
            <4>5. /\ pc' = [pc EXCEPT ![t] = "judge"]
                  /\ UNCHANGED <<alerts, idempotency, heap, topic, reply, lost>>
                BY <2>9, <3>2 DEF FetchRecord
            <4>6. TypeOK'
                BY <4>4, <4>5
            <4> QED BY <2>9, <4>1, <4>3, <4>5, <4>6 DEF FetchRecord
        <3> QED BY <3>1, <3>2
    <2>10. CASE JudgeTransition(t)
        <3>1. UNCHANGED <<alerts, idempotency, heap, topic, local, lost>> /\ pc[t] = "judge"
            BY <2>10 DEF JudgeTransition
        <3>2. CASE pc' = [pc EXCEPT ![t] = "done"] /\ reply' = [reply EXCEPT ![t] = 409]
            BY <3>1, <3>2
        <3>3. CASE pc' = [pc EXCEPT ![t] = "set"] /\ UNCHANGED reply
            BY <3>1, <3>3
        <3> QED BY <2>10, <3>2, <3>3 DEF JudgeTransition
    <2>11. CASE SetState(t)
        <3>1. local[t].rec \in Records /\ local[t].target \in AlertStates
            BY <2>11 DEF SetState
        <3>2. heap' \in [Records -> RecordContents]
            BY <2>11, <3>1, HeapUpdates DEF SetState
        <3> QED BY <2>11, <3>2 DEF SetState
    <2>12. CASE AppendHistory(t)
        <3>1. local[t].rec \in Records /\ local[t].target \in AlertStates
            BY <2>12 DEF AppendHistory
        <3>2. heap' \in [Records -> RecordContents]
            BY <2>12, <3>1, HeapUpdates DEF AppendHistory
        <3> QED BY <2>12, <3>2 DEF AppendHistory
    <2>13. CASE Close(t)
        BY <2>13 DEF Close
    <2> QED
        BY <1>n, <2>1, <2>2, <2>3, <2>4, <2>5, <2>6, <2>7, <2>8, <2>8a, <2>9, <2>10,
           <2>11, <2>12, <2>13 DEF Receive, Handle
<1> QED BY <1>u, <1>n DEF Next

\* Initially no handler runs and nothing is stored.
LEMMA HandlerInvInit == Init => HandlerInv
<1> SUFFICES ASSUME Init PROVE HandlerInv
    OBVIOUS
<1>1. Free \in RecordContents
    BY DEF Free, RecordContents, AlertStates
<1>2. TypeOK
    BY <1>1 DEF Init, TypeOK, Labels, Locals, Blank, Codes, Silent
<1> QED BY <1>2 DEF HandlerInv, Init

\* TypeOK is an invariant of the alert routes: in particular no handler of
\* events-ingest.py uses an unset local, however requests interleave.
THEOREM TypeCorrect == Spec => []TypeOK
<1>1. Spec => []HandlerInv
    BY HandlerInvInit, HandlerInvInductive, PTL DEF Spec
<1>2. HandlerInv => TypeOK
    BY DEF HandlerInv
<1> QED BY <1>1, <1>2, PTL

-----------------------------------------------------------------------------
(* The store.                                                              *)

\* Setting a stage and extending a history leave the ids in the records alone.
LEMMA TransitionKeepsIds ==
    ASSUME HandlerInv, NEW t \in Threads, SetState(t) \/ AppendHistory(t)
    PROVE  \A r \in Records : heap'[r].alert = heap[r].alert /\ heap'[r].source = heap[r].source
<1>1. heap \in [Records -> RecordContents]
    BY DEF HandlerInv, TypeOK
<1>2. CASE heap' = [heap EXCEPT ![local[t].rec].state = local[t].target]
    BY <1>1, <1>2 DEF RecordContents
<1>3. CASE heap' = [heap EXCEPT ![local[t].rec].history = Append(@, local[t].target)]
    BY <1>1, <1>3 DEF RecordContents
<1> QED BY <1>2, <1>3 DEF SetState, AppendHistory

\* The store invariant survives each step, with one case per kind of change:
\* control only, a new record, a remembered source, a moved record.
LEMMA StoreInvInductive == StoreInv /\ [Next]_vars => StoreInv'
<1> SUFFICES ASSUME StoreInv, [Next]_vars PROVE StoreInv'
    OBVIOUS
<1>h. HandlerInv /\ HandlerInv'
    BY HandlerInvInductive DEF StoreInv
<1> USE EdgeConstants DEF EdgeConstants, Allocated
<1>u. CASE UNCHANGED vars
    BY <1>u, <1>h DEF vars, StoreInv, IdempotencyNamesOwnAlert
<1>n. ASSUME NEW t \in Threads, Receive(t) \/ Handle(t) PROVE StoreInv'
    <2> USE DEF Goto, Answer
    <2>0. TypeOK /\ TypeOK'
        BY <1>h DEF HandlerInv
    <2>1. CASE /\ UNCHANGED <<alerts, idempotency, heap>>
               /\ \A u \in Threads \ {t} : pc'[u] = pc[u] /\ local'[u] = local[u]
               /\ pc'[t] # "remember"
               /\ pc'[t] \in {"judge", "set", "append"} => local'[t].rec \in Allocated
        <3>1. IdempotencyNamesOwnAlert'
            BY <2>1 DEF StoreInv, IdempotencyNamesOwnAlert
        <3>2. \A a \in AlertIds : alerts'[a] # None => alerts'[a] \in Allocated'
            BY <2>1 DEF StoreInv
        <3>3. \A u \in Threads :
                 /\ pc'[u] \in {"judge", "set", "append"} => local'[u].rec \in Allocated'
                 /\ pc'[u] = "remember" => u # t
            BY <2>1 DEF StoreInv
        <3> QED BY <1>h, <2>1, <3>1, <3>2, <3>3 DEF StoreInv
    <2>2. CASE Reject(t) \/ ReceiveCreate(t) \/ ReceiveTransition(t)
        <3>1. /\ UNCHANGED <<alerts, idempotency, heap>>
              /\ \E label \in {"done", "check", "fetch"} : pc' = [pc EXCEPT ![t] = label]
            BY <2>2 DEF Reject, ReceiveCreate, ReceiveTransition
        <3>2. \A u \in Threads \ {t} : local'[u] = local[u]
            BY <2>0, <2>2 DEF Reject, ReceiveCreate, ReceiveTransition, TypeOK
        <3> QED BY <2>0, <2>1, <3>1, <3>2 DEF TypeOK
    <2>3. CASE CheckSource(t) \/ Replay(t) \/ Announce(t) \/ FailToAnnounce(t) \/ Close(t)
        BY <2>0, <2>1, <2>3 DEF CheckSource, Replay, Announce, FailToAnnounce, Close, TypeOK
    <2>4. CASE FetchRecord(t)
        <3>1. alerts[local[t].alert] # None => alerts[local[t].alert] \in Allocated
            BY <1>h, <2>0, <2>4 DEF FetchRecord, StoreInv, HandlerInv, TypeOK, Locals
        <3> QED BY <2>0, <2>1, <2>4, <3>1 DEF FetchRecord, TypeOK, Locals
    <2>5. CASE JudgeTransition(t)
        <3>1. local[t].rec \in Allocated
            BY <2>5 DEF JudgeTransition, StoreInv
        <3> QED BY <2>0, <2>1, <2>5, <3>1 DEF JudgeTransition, TypeOK
    <2>6. CASE InsertAlert(t)
        <3> DEFINE a == local[t].alert
        <3>1. PICK r \in Records \ Allocated :
                /\ heap' = [heap EXCEPT ![r] = NewRecord(t)]
                /\ alerts' = [alerts EXCEPT ![a] = r]
                /\ local' = [local EXCEPT ![t].rec = r]
            BY <2>6 DEF InsertAlert
        <3>2. a \in AlertIds /\ local[t] \in Locals
            BY <1>h, <2>0, <2>6 DEF InsertAlert, HandlerInv, TypeOK, Locals
        <3>3. /\ heap'[r].alert = a /\ heap'[r].source = local[t].source
              /\ \A q \in Records \ {r} : heap'[q] = heap[q]
              /\ r # None
            BY <2>0, <3>1 DEF NewRecord, TypeOK
        <3>4. /\ alerts'[a] = r
              /\ \A b \in AlertIds \ {a} : alerts'[b] = alerts[b]
            BY <2>0, <3>1, <3>2 DEF TypeOK
        <3>5. /\ local'[t].rec = r /\ local'[t].alert = a /\ local'[t].source = local[t].source
              /\ \A u \in Threads \ {t} : local'[u] = local[u] /\ pc'[u] = pc[u]
              /\ pc'[t] \in {"announce", "remember"}
              /\ UNCHANGED idempotency
            BY <2>0, <2>6, <3>1, <3>2 DEF InsertAlert, TypeOK, Locals
        <3>6. \A q \in Allocated : q # r /\ q \in Allocated'
            BY <3>1, <3>3
        <3>7. r \in Allocated'
            BY <3>2, <3>3
        <3>8. \A b \in AlertIds : alerts'[b] # None => alerts'[b] \in Allocated'
            BY <3>4, <3>6, <3>7 DEF StoreInv
        <3>9. \A u \in Threads : pc'[u] \in {"judge", "set", "append"} => local'[u].rec \in Allocated'
            BY <3>5, <3>6 DEF StoreInv
        <3>10. ASSUME NEW u \in Threads, pc'[u] = "remember"
               PROVE  /\ alerts'[local'[u].alert] # None
                      /\ heap'[local'[u].rec].alert = local'[u].alert
                      /\ heap'[local'[u].rec].source = local'[u].source
            <4>1. CASE u = t
                BY <3>3, <3>4, <3>5, <4>1
            <4>2. CASE u # t
                <5>1. pc[u] = "remember" /\ local'[u] = local[u]
                    BY <3>5, <3>10, <4>2
                <5>2. /\ local[u].alert \in AlertIds /\ local[u].rec \in Records
                      /\ local[u].rec # r
                    BY <1>h, <2>0, <3>1, <5>1 DEF HandlerInv, StoreInv, TypeOK, Locals
                <5> QED BY <3>3, <3>4, <5>1, <5>2 DEF StoreInv
            <4> QED BY <4>1, <4>2
        <3>11. IdempotencyNamesOwnAlert'
            BY <3>1, <3>3, <3>4, <3>5 DEF StoreInv, IdempotencyNamesOwnAlert
        <3> QED BY <1>h, <3>8, <3>9, <3>10, <3>11 DEF StoreInv
    <2>7. CASE RememberSource(t)
        <3>1. /\ pc[t] = "remember"
              /\ local[t].alert \in AlertIds /\ local[t].rec \in Records
            BY <1>h, <2>0, <2>7 DEF RememberSource, HandlerInv, TypeOK, Locals
        <3>2. IdempotencyNamesOwnAlert'
            BY <2>0, <2>7, <3>1 DEF RememberSource, StoreInv, IdempotencyNamesOwnAlert, TypeOK
        <3> QED BY <1>h, <2>0, <2>7, <3>2 DEF RememberSource, StoreInv, TypeOK
    <2>8. CASE SetState(t) \/ AppendHistory(t)
        <3>1. \A r \in Records : heap'[r].alert = heap[r].alert /\ heap'[r].source = heap[r].source
            BY <1>h, <2>8, TransitionKeepsIds
        <3>2. /\ UNCHANGED <<alerts, idempotency, local>>
              /\ \A u \in Threads \ {t} : pc'[u] = pc[u]
              /\ pc[t] \in {"set", "append"} /\ pc'[t] \in {"append", "done"}
            BY <2>0, <2>8 DEF SetState, AppendHistory, TypeOK
        <3>3. \A u \in Threads : pc'[u] = "remember" => local[u].rec \in Records
            BY <1>h, <2>0, <3>2 DEF HandlerInv, TypeOK, Locals
        <3>4. Allocated' = Allocated
            BY <3>1
        <3>5. IdempotencyNamesOwnAlert'
            BY <3>1, <3>2 DEF StoreInv, IdempotencyNamesOwnAlert
        <3> QED BY <1>h, <3>1, <3>2, <3>3, <3>4, <3>5 DEF StoreInv
    <2> QED
        BY <1>n, <2>2, <2>3, <2>4, <2>5, <2>6, <2>7, <2>8 DEF Receive, Handle
<1> QED BY <1>u, <1>n DEF Next

\* Initially nothing is stored.
LEMMA StoreInvInit == Init => StoreInv
<1> SUFFICES ASSUME Init PROVE StoreInv
    OBVIOUS
<1>1. HandlerInv
    BY HandlerInvInit
<1> QED BY <1>1 DEF Init, StoreInv, IdempotencyNamesOwnAlert

\* The lookup of a duplicate in _create_alert (lines 224-227) never misses: in
\* every state of every run, the idempotency map leads to a stored alert and
\* names an alert created for that source change.
THEOREM DuplicatesFindTheirAlert == Spec => []IdempotencyNamesOwnAlert
<1>1. Spec => []StoreInv
    BY StoreInvInit, StoreInvInductive, PTL DEF Spec
<1>2. StoreInv => IdempotencyNamesOwnAlert
    BY DEF StoreInv
<1> QED BY <1>1, <1>2, PTL

-----------------------------------------------------------------------------
(* The stages.                                                             *)

\* The stages of a history, by its length.
LEMMA HistoryGrows ==
    ASSUME NEW h \in Seq(AlertStates), NEW s \in AlertStates
    PROVE  Stages(Append(h, s)) = Stages(h) \cup {s}
<1>1. Len(Append(h, s)) = Len(h) + 1 /\ Len(h) \in Nat
    OBVIOUS
<1>2. \A i \in 1 .. Len(h) : Append(h, s)[i] = h[i]
    OBVIOUS
<1>3. Append(h, s)[Len(h) + 1] = s
    OBVIOUS
<1>4. 1 .. Len(h) + 1 = 1 .. Len(h) \cup {Len(h) + 1}
    BY <1>1
<1> QED BY <1>1, <1>2, <1>3, <1>4 DEF Stages

\* A step that changes no history and moves no handler into or out of the
\* append leaves the entered stages of every record as they are.
LEMMA EnteredFrame ==
    ASSUME NEW r \in Records,
           heap'[r].history = heap[r].history,
           \A u \in Threads : /\ pc'[u] = "append" <=> pc[u] = "append"
                              /\ pc[u] = "append" => local'[u] = local[u]
    PROVE  Entered(r)' = Entered(r)
BY DEF Entered

\* StageInv survives each step.  Only three steps touch it: a new record is in
\* "initial"; SetState enters the stage it judged; AppendHistory moves that
\* stage from the handler into the history.
LEMMA StageInvInductive == StoreInv /\ StageInv /\ [Next]_vars => StageInv'
<1> SUFFICES ASSUME StoreInv, StageInv, [Next]_vars PROVE StageInv'
    OBVIOUS
<1>h. TypeOK /\ TypeOK' /\ HandlerInv
    BY HandlerInvInductive DEF StoreInv, HandlerInv
<1> USE EdgeConstants DEF EdgeConstants
<1>f. CASE /\ \A r \in Records : heap'[r] = heap[r]
           /\ \A u \in Threads : /\ pc'[u] = "append" <=> pc[u] = "append"
                                 /\ pc[u] = "append" => local'[u] = local[u]
           /\ \A u \in Threads : pc'[u] = "set" =>
                 /\ local'[u] = local[u]
                 /\ pc[u] = "set" \/ local[u].target \in ALERT_TRANSITIONS[heap[local[u].rec].state]
                 /\ local[u].rec \in Allocated
    <2>1. \A r \in Records : Entered(r)' = Entered(r)
        BY <1>f, EnteredFrame
    <2>2. Allocated' = Allocated
        BY <1>f DEF Allocated
    <2>3. \A r \in Allocated' : heap'[r].state \in Entered(r)'
        BY <1>f, <2>1, <2>2 DEF StageInv, Allocated
    <2>4. ASSUME NEW u \in Threads, NEW r \in Records, pc'[u] = "set", local'[u].rec = r
          PROVE  \E p \in Entered(r)' : local'[u].target \in ALERT_TRANSITIONS[p]
        <3>1. local'[u] = local[u] /\ r \in Allocated
            BY <1>f, <2>4
        <3>2. \E p \in Entered(r) : local[u].target \in ALERT_TRANSITIONS[p]
            BY <1>f, <2>4, <3>1 DEF StageInv
        <3> QED BY <2>1, <3>1, <3>2
    <2>5. NoStageSkipped'
        BY <2>1, <2>2 DEF StageInv, NoStageSkipped, Allocated
    <2> QED BY <2>3, <2>4, <2>5 DEF StageInv
<1>u. CASE UNCHANGED vars
    <2>1. \A u \in Threads : pc[u] = "set" => local[u].rec \in Allocated
        BY DEF StoreInv
    <2> QED BY <1>f, <1>u, <2>1 DEF vars
<1>n. ASSUME NEW t \in Threads, Receive(t) \/ Handle(t) PROVE StageInv'
    <2> USE DEF Goto, Answer
    <2>1. ASSUME heap' = heap,
                 pc[t] \notin {"set", "append"}, pc'[t] # "append",
                 \A u \in Threads \ {t} : pc'[u] = pc[u] /\ local'[u] = local[u],
                 pc'[t] = "set" =>
                    /\ local'[t] = local[t]
                    /\ local[t].target \in ALERT_TRANSITIONS[heap[local[t].rec].state]
                    /\ local[t].rec \in Allocated
          PROVE  StageInv'
        <3>1. \A u \in Threads : pc[u] = "set" => local[u].rec \in Allocated
            BY DEF StoreInv
        <3> QED BY <1>f, <2>1, <3>1
    <2>2. CASE Reject(t) \/ ReceiveCreate(t) \/ ReceiveTransition(t)
        <3>1. /\ heap' = heap /\ pc[t] = "idle"
              /\ \E label \in {"done", "check", "fetch"} : pc' = [pc EXCEPT ![t] = label]
            BY <2>2 DEF Reject, ReceiveCreate, ReceiveTransition
        <3>2. \A u \in Threads \ {t} : local'[u] = local[u]
            BY <1>h, <2>2 DEF Reject, ReceiveCreate, ReceiveTransition, TypeOK
        <3> QED BY <1>h, <2>1, <3>1, <3>2 DEF TypeOK
    <2>3. CASE CheckSource(t) \/ Replay(t) \/ RememberSource(t) \/ Announce(t) \/ FailToAnnounce(t)
              \/ Close(t)
        <3>1. \A u \in Threads \ {t} : pc'[u] = pc[u] /\ local'[u] = local[u]
            BY <1>h, <2>3 DEF CheckSource, Replay, RememberSource, Announce, FailToAnnounce, Close, TypeOK
        <3>2. /\ heap' = heap
              /\ pc[t] \in {"check", "replay", "remember", "announce", "done"}
              /\ pc'[t] \in {"replay", "insert", "announce", "done", "idle"}
            BY <1>h, <2>3 DEF CheckSource, Replay, RememberSource, Announce, FailToAnnounce, Close, TypeOK
        <3> QED BY <2>1, <3>1, <3>2
    <2>4. CASE FetchRecord(t)
        <3>1. \A u \in Threads \ {t} : pc'[u] = pc[u] /\ local'[u] = local[u]
            BY <1>h, <2>4 DEF FetchRecord, TypeOK
        <3>2. heap' = heap /\ pc[t] = "fetch" /\ pc'[t] \in {"done", "judge"}
            BY <1>h, <2>4 DEF FetchRecord, TypeOK
        <3> QED BY <2>1, <3>1, <3>2
    <2>5. CASE JudgeTransition(t)
        <3>1. pc[t] = "judge" /\ local[t].rec \in Allocated
            BY <2>5 DEF JudgeTransition, StoreInv
        <3>2. \A u \in Threads \ {t} : pc'[u] = pc[u]
            BY <1>h, <2>5 DEF JudgeTransition, TypeOK
        <3>3. UNCHANGED <<heap, local>> /\ pc'[t] \in {"done", "set"}
            BY <1>h, <2>5 DEF JudgeTransition, TypeOK
        <3>4. pc'[t] = "set" => local[t].target \in ALERT_TRANSITIONS[heap[local[t].rec].state]
            BY <1>h, <2>5 DEF JudgeTransition, TypeOK
        <3> QED BY <2>1, <3>1, <3>2, <3>3, <3>4
    <2>6. CASE InsertAlert(t)
        <3>1. PICK r \in Records \ Allocated :
                /\ heap' = [heap EXCEPT ![r] = NewRecord(t)]
                /\ local' = [local EXCEPT ![t].rec = r]
            BY <2>6 DEF InsertAlert
        <3>2. /\ pc[t] = "insert" /\ pc'[t] \in {"announce", "remember"}
              /\ \A u \in Threads \ {t} : pc'[u] = pc[u] /\ local'[u] = local[u]
            BY <1>h, <2>6, <3>1 DEF InsertAlert, TypeOK
        <3>3. heap'[r].history = <<>> /\ heap'[r].state = "initial"
            BY <1>h, <3>1 DEF NewRecord, TypeOK
        <3>4. \A q \in Records \ {r} : heap'[q] = heap[q]
            BY <1>h, <3>1 DEF TypeOK
        <3>5. \A u \in Threads : pc'[u] \in {"set", "append"} => u # t /\ local[u].rec \in Allocated
            BY <3>2 DEF StoreInv
        <3>6. Entered(r)' = {"initial"}
            BY <3>1, <3>2, <3>3, <3>5 DEF Entered, Stages
        <3>7. \A q \in Records \ {r} : Entered(q)' = Entered(q)
            BY <3>2, <3>4, EnteredFrame
        <3>8. \A q \in Allocated' : q = r \/ q \in Allocated
            BY <3>4 DEF Allocated
        <3>9. \A q \in Allocated' : heap'[q].state \in Entered(q)'
            BY <3>3, <3>4, <3>6, <3>7, <3>8 DEF StageInv, Allocated
        <3>10. ASSUME NEW u \in Threads, NEW q \in Records, pc'[u] = "set", local'[u].rec = q
               PROVE  \E p \in Entered(q)' : local'[u].target \in ALERT_TRANSITIONS[p]
            <4>1. u # t /\ pc[u] = "set" /\ local'[u] = local[u] /\ q \in Allocated
                BY <3>2, <3>5, <3>10
            <4> QED BY <3>1, <3>7, <3>10, <4>1 DEF StageInv
        <3>11. NoStageSkipped'
            BY <3>6, <3>7, <3>8 DEF StageInv, NoStageSkipped, Allocated
        <3> QED BY <3>9, <3>10, <3>11 DEF StageInv
    <2>7. CASE SetState(t)
        <3>0. /\ pc[t] = "set"
              /\ local[t].rec \in Records /\ local[t].target \in AlertStates
            BY <1>h, <2>7 DEF SetState, HandlerInv, TypeOK, Locals
        <3> PICK r \in Records, s \in AlertStates : r = local[t].rec /\ s = local[t].target
            BY <3>0
        <3>1. /\ pc[t] = "set" /\ pc' = [pc EXCEPT ![t] = "append"]
              /\ UNCHANGED local
              /\ heap' = [heap EXCEPT ![r].state = s]
            BY <2>7 DEF SetState
        <3>2. r \in Allocated
            BY <3>1 DEF StoreInv
        <3>3. /\ heap'[r].history = heap[r].history /\ heap'[r].state = s
              /\ \A q \in Records : heap'[q].alert = heap[q].alert
              /\ \A q \in Records \ {r} : heap'[q] = heap[q]
            BY <1>h, <3>1, <3>2 DEF TypeOK, RecordContents
        <3>4. Entered(r)' = Entered(r) \cup {s}
            BY <1>h, <3>1, <3>3 DEF Entered, TypeOK
        <3>5. ASSUME NEW q \in Records \ {r} PROVE Entered(q)' = Entered(q)
            BY <1>h, <3>1, <3>3 DEF Entered, TypeOK
        <3>6. \E p \in Entered(r) : s \in ALERT_TRANSITIONS[p]
            BY <3>1, <3>2 DEF StageInv
        <3>7. Allocated' = Allocated
            BY <3>3 DEF Allocated
        <3>8. \A q \in Allocated' : heap'[q].state \in Entered(q)'
            BY <3>3, <3>4, <3>5, <3>7 DEF StageInv, Allocated
        <3>9. ASSUME NEW u \in Threads, NEW q \in Records, pc'[u] = "set", local'[u].rec = q
              PROVE  \E p \in Entered(q)' : local'[u].target \in ALERT_TRANSITIONS[p]
            <4>1. pc[u] = "set" /\ local[u].rec = q
                BY <1>h, <3>1, <3>9 DEF TypeOK
            <4>2. \E p \in Entered(q) : local[u].target \in ALERT_TRANSITIONS[p]
                BY <4>1 DEF StageInv
            <4> QED BY <3>1, <3>4, <3>5, <4>2
        <3>10. NoStageSkipped'
            BY <3>4, <3>5, <3>6, <3>7 DEF StageInv, NoStageSkipped, Allocated
        <3> QED BY <3>8, <3>9, <3>10 DEF StageInv
    <2>8. CASE AppendHistory(t)
        <3>0. /\ pc[t] = "append"
              /\ local[t].rec \in Records /\ local[t].target \in AlertStates
            BY <1>h, <2>8 DEF AppendHistory, HandlerInv, TypeOK, Locals
        <3> PICK r \in Records, s \in AlertStates : r = local[t].rec /\ s = local[t].target
            BY <3>0
        <3>1. /\ pc[t] = "append" /\ pc' = [pc EXCEPT ![t] = "done"]
              /\ UNCHANGED local
              /\ heap' = [heap EXCEPT ![r].history = Append(@, s)]
            BY <2>8 DEF AppendHistory
        <3>3. /\ heap'[r].history = Append(heap[r].history, s)
              /\ \A q \in Records : /\ heap'[q].alert = heap[q].alert
                                    /\ heap'[q].state = heap[q].state
              /\ \A q \in Records \ {r} : heap'[q] = heap[q]
            <4> DEFINE new == [heap[r] EXCEPT !.history = Append(heap[r].history, s)]
            <4>1. heap \in [Records -> RecordContents]
                BY <1>h DEF TypeOK
            <4>2. heap' = [heap EXCEPT ![r] = new]
                BY <3>1
            <4>3. heap'[r] = new /\ \A q \in Records \ {r} : heap'[q] = heap[q]
                BY <4>1, <4>2
            <4>4. /\ new.history = Append(heap[r].history, s)
                  /\ new.alert = heap[r].alert /\ new.state = heap[r].state
                BY <1>h DEF TypeOK, RecordContents
            <4> QED BY <4>3, <4>4
        <3>4. Stages(heap'[r].history) = Stages(heap[r].history) \cup {s}
            <4>1. heap[r].history \in Seq(AlertStates)
                BY <1>h DEF TypeOK, RecordContents
            <4> QED BY <3>3, <4>1, HistoryGrows
        <3>5. Entered(r)' = Entered(r)
            <4> DEFINE P == {local[v].target : v \in {u \in Threads : pc[u] = "append"
                                                                    /\ local[u].rec = r}}
                       Q == {local'[v].target : v \in {u \in Threads : pc'[u] = "append"
                                                                     /\ local'[u].rec = r}}
            <4>1. P = Q \cup {s}
                <5>1. pc'[t] = "done" /\ \A u \in Threads \ {t} : pc'[u] = pc[u]
                    BY <1>h, <3>1 DEF TypeOK
                <5>2. local' = local /\ pc[t] = "append" /\ local[t].rec = r /\ local[t].target = s
                    BY <3>0, <3>1
                <5> QED BY <5>1, <5>2
            <4>2. /\ Entered(r) = {"initial"} \cup Stages(heap[r].history) \cup P
                  /\ Entered(r)' = {"initial"} \cup Stages(heap'[r].history) \cup Q
                BY DEF Entered
            <4> HIDE DEF P, Q
            <4> QED BY <3>4, <4>1, <4>2
        <3>6. ASSUME NEW q \in Records \ {r} PROVE Entered(q)' = Entered(q)
            BY <1>h, <3>1, <3>3 DEF Entered, TypeOK
        <3>7. \A q \in Records : Entered(q)' = Entered(q)
            BY <3>5, <3>6
        <3>8. Allocated' = Allocated
            BY <3>3 DEF Allocated
        <3>9. \A q \in Allocated' : heap'[q].state \in Entered(q)'
            BY <3>3, <3>7, <3>8 DEF StageInv, Allocated
        <3>10. ASSUME NEW u \in Threads, NEW q \in Records, pc'[u] = "set", local'[u].rec = q
               PROVE  \E p \in Entered(q)' : local'[u].target \in ALERT_TRANSITIONS[p]
            <4>1. pc[u] = "set" /\ local[u].rec = q
                BY <1>h, <3>1, <3>10 DEF TypeOK
            <4> QED BY <3>1, <3>7, <4>1 DEF StageInv
        <3>11. NoStageSkipped'
            BY <3>7, <3>8 DEF StageInv, NoStageSkipped, Allocated
        <3> QED BY <3>9, <3>10, <3>11 DEF StageInv
    <2> QED
        BY <1>n, <2>2, <2>3, <2>4, <2>5, <2>6, <2>7, <2>8 DEF Receive, Handle
<1> QED BY <1>u, <1>n DEF Next

\* Initially there is no record and no handler.
LEMMA StageInvInit == Init => StageInv
<1> SUFFICES ASSUME Init PROVE StageInv
    OBVIOUS
<1>1. Allocated = {}
    BY DEF Init, Allocated, Free
<1> QED BY <1>1 DEF Init, StageInv, NoStageSkipped

\* However many transition requests race on however many alerts, no alert of
\* events-ingest.py reaches a stage without having passed the stages before it.
THEOREM StagesInOrder == Spec => []NoStageSkipped
<1>1. Init => StoreInv /\ StageInv
    BY StoreInvInit, StageInvInit
<1>2. StoreInv /\ StageInv /\ [Next]_vars => (StoreInv /\ StageInv)'
    BY StoreInvInductive, StageInvInductive
<1>3. StageInv => NoStageSkipped
    BY DEF StageInv
<1> QED BY <1>1, <1>2, <1>3, PTL DEF Spec

-----------------------------------------------------------------------------
(* The topic.                                                              *)

\* The handlers that have stored an alert and not announced it yet.
Announcing == {t \in Threads : pc[t] \in {"remember", "announce"}}

\* There are as many records as events, handlers on their way to one and handlers that
\* died of it; what has been
\* counted so far is finite, however many handlers and records there are.
AnnounceInv ==
    /\ IsFiniteSet(Allocated) /\ IsFiniteSet(Announcing)
    /\ EveryCreationAnnounced

\* A step keeps the count, adds to both sides, or moves from one summand to the other.
LEMMA AnnounceInductive == StoreInv /\ AnnounceInv /\ [Next]_vars => AnnounceInv'
<1> SUFFICES ASSUME StoreInv, AnnounceInv, [Next]_vars PROVE AnnounceInv'
    OBVIOUS
<1>h. TypeOK /\ HandlerInv
    BY DEF StoreInv, HandlerInv
<1>c. /\ Cardinality(Allocated) = Len(topic) + Cardinality(Announcing) + lost /\ lost \in Nat
      /\ IsFiniteSet(Allocated) /\ IsFiniteSet(Announcing)
      /\ Cardinality(Allocated) \in Nat /\ Cardinality(Announcing) \in Nat /\ Len(topic) \in Nat
    BY <1>h, FS_CardinalityType DEF AnnounceInv, EveryCreationAnnounced, Announcing, TypeOK
<1>q. ASSUME UNCHANGED <<topic, lost>>, Allocated' = Allocated, Announcing' = Announcing PROVE AnnounceInv'
    BY <1>c, <1>q DEF AnnounceInv, EveryCreationAnnounced, Announcing
<1>u. CASE UNCHANGED vars
    BY <1>q, <1>u DEF vars, Allocated, Announcing
<1>n. ASSUME NEW t \in Threads, Receive(t) \/ Handle(t) PROVE AnnounceInv'
    <2>0. ASSUME NEW label \in Labels, pc' = [pc EXCEPT ![t] = label]
          PROVE  /\ Announcing \ {t} = Announcing' \ {t}
                 /\ t \in Announcing' <=> label \in {"remember", "announce"}
        BY <1>h, <2>0 DEF Announcing, TypeOK
    <2>1. ASSUME UNCHANGED <<topic, lost>>, Allocated' = Allocated,
                 pc[t] \notin {"remember", "announce"}, 
                 NEW label \in Labels \ {"remember", "announce"}, pc' = [pc EXCEPT ![t] = label]
          PROVE  AnnounceInv'
        <3>1. Announcing' = Announcing
            BY <2>0, <2>1 DEF Announcing
        <3> QED BY <1>q, <2>1, <3>1
    <2>2. CASE Reject(t) \/ ReceiveCreate(t) \/ ReceiveTransition(t)
        <3>1. UNCHANGED <<topic, lost, heap>> /\ pc[t] \in {"idle"}
            BY <2>2 DEF Reject, ReceiveCreate, ReceiveTransition
        <3>2. \E label \in {"done", "check", "fetch"} : pc' = [pc EXCEPT ![t] = label]
            BY <2>2 DEF Reject, ReceiveCreate, ReceiveTransition, Goto, Answer
        <3> QED BY <2>1, <3>1, <3>2 DEF Allocated, Labels
    <2>3. CASE CheckSource(t) \/ Replay(t) \/ FetchRecord(t) \/ JudgeTransition(t) \/ Close(t)
        BY <2>1, <2>3 DEF CheckSource, Replay, FetchRecord, JudgeTransition, Close, Goto, Answer,
                          Allocated, Labels
    <2>4. CASE SetState(t) \/ AppendHistory(t)
        <3>1. Allocated' = Allocated
            BY <1>h, <2>4, TransitionKeepsIds DEF Allocated
        <3> QED BY <2>1, <2>4, <3>1 DEF SetState, AppendHistory, Goto, Answer, Labels
    <2>5. CASE InsertAlert(t)
        <3>1. PICK r \in Records \ Allocated : heap' = [heap EXCEPT ![r] = NewRecord(t)]
            BY <2>5 DEF InsertAlert
        <3>2. local[t].alert # None
            BY <1>h, <2>5 DEF InsertAlert, HandlerInv
        <3>3. Allocated' = Allocated \cup {r}
            BY <1>h, <3>1, <3>2 DEF Allocated, NewRecord, TypeOK
        <3>4. PICK label \in {"announce", "remember"} : pc' = [pc EXCEPT ![t] = label]
            BY <2>5 DEF InsertAlert, Goto
        <3>5. t \notin Announcing /\ Announcing' = Announcing \cup {t}
            <4>1. pc[t] = "insert" /\ label \in Labels
                BY <2>5, <3>4 DEF InsertAlert, Labels
            <4>2. t \notin Announcing
                BY <4>1 DEF Announcing
            <4>3. t \in Announcing' /\ Announcing \ {t} = Announcing' \ {t}
                BY <2>0, <3>4, <4>1
            <4> QED BY <4>2, <4>3
        <3>6. /\ IsFiniteSet(Allocated') /\ Cardinality(Allocated') = Cardinality(Allocated) + 1
              /\ IsFiniteSet(Announcing') /\ Cardinality(Announcing') = Cardinality(Announcing) + 1
            BY <1>c, <3>1, <3>3, <3>5, FS_AddElement
        <3>7. topic' = topic /\ lost' = lost
            BY <2>5 DEF InsertAlert
        <3> QED BY <1>c, <3>6, <3>7 DEF AnnounceInv, EveryCreationAnnounced, Announcing
    <2>6. CASE RememberSource(t)
        <3>1. /\ pc' = [pc EXCEPT ![t] = "announce"] /\ pc[t] = "remember"
              /\ UNCHANGED <<topic, lost, heap>>
            BY <2>6 DEF RememberSource, Goto
        <3>2. Announcing' = Announcing
            BY <2>0, <3>1 DEF Announcing, Labels
        <3> QED BY <1>q, <3>1, <3>2 DEF Allocated
    <2>7. CASE Announce(t)
        <3>1. /\ pc' = [pc EXCEPT ![t] = "done"] /\ pc[t] = "announce" /\ UNCHANGED <<heap, lost>>
              /\ topic' = Append(topic, [alert |-> local[t].alert, source |-> local[t].source])
            BY <2>7 DEF Announce, Answer, Goto
        <3>2. t \in Announcing /\ Announcing' = Announcing \ {t}
            BY <2>0, <3>1 DEF Announcing, Labels
        <3>3. IsFiniteSet(Announcing') /\ Cardinality(Announcing') = Cardinality(Announcing) - 1
            BY <1>c, <3>2, FS_RemoveElement
        <3>4. Len(topic') = Len(topic) + 1
            BY <1>h, <3>1 DEF TypeOK
        <3>5. Allocated' = Allocated
            BY <3>1 DEF Allocated
        <3> QED BY <1>c, <3>1, <3>3, <3>4, <3>5 DEF AnnounceInv, EveryCreationAnnounced, Announcing
    <2>8. CASE FailToAnnounce(t)
        <3>1. /\ pc' = [pc EXCEPT ![t] = "done"] /\ pc[t] = "announce"
              /\ lost' = lost + 1 /\ UNCHANGED <<topic, heap>>
            BY <2>8 DEF FailToAnnounce, Answer, Goto
        <3>2. t \in Announcing /\ Announcing' = Announcing \ {t}
            BY <2>0, <3>1 DEF Announcing, Labels
        <3>3. IsFiniteSet(Announcing') /\ Cardinality(Announcing') = Cardinality(Announcing) - 1
            BY <1>c, <3>2, FS_RemoveElement
        <3>4. Allocated' = Allocated
            BY <3>1 DEF Allocated
        <3> QED BY <1>c, <3>1, <3>3, <3>4 DEF AnnounceInv, EveryCreationAnnounced, Announcing
    <2> QED
        BY <1>n, <2>2, <2>3, <2>4, <2>5, <2>6, <2>7, <2>8 DEF Receive, Handle
<1> QED BY <1>u, <1>n DEF Next

LEMMA AnnounceInit == Init => AnnounceInv
<1> SUFFICES ASSUME Init PROVE AnnounceInv
    OBVIOUS
<1>1. Allocated = {} /\ Announcing = {} /\ Len(topic) = 0 /\ lost = 0
    BY DEF Init, Allocated, Announcing, Free
<1> QED BY <1>1, FS_EmptySet DEF AnnounceInv, EveryCreationAnnounced, Announcing

\* Every record that _create_alert ever stored is announced on alerts.incoming exactly
\* once, unless its handler is still on the way there or died of an exception on line
\* 239, however creates race and replace each other.
THEOREM CreationsAnnounced == Spec => []EveryCreationAnnounced
<1>1. Init => StoreInv /\ AnnounceInv
    BY StoreInvInit, AnnounceInit
<1>2. StoreInv /\ AnnounceInv /\ [Next]_vars => (StoreInv /\ AnnounceInv)'
    BY StoreInvInductive, AnnounceInductive
<1>3. AnnounceInv => EveryCreationAnnounced
    BY DEF AnnounceInv
<1> QED BY <1>1, <1>2, <1>3, PTL DEF Spec
-----------------------------------------------------------------------------
(* The routes implement AlertBoard as long as requests do not overlap.     *)
(* What a handler looked up is then still true when it acts on it          *)
(* (Unchallenged), and that is all that overlapping requests break.        *)

AtWork(t) == pc[t] \notin {"idle", "done"}
OneAtATime == \A t, u \in Threads : AtWork(t) /\ AtWork(u) => t = u

\* The stored alerts are found under their own ids, and what a handler found of
\* the idempotency map, of server.alerts and of the stage holds until it acts.
Unchallenged ==
    /\ \A a \in AlertIds : alerts[a] # None => heap[alerts[a]].alert = a
    /\ \A t \in Threads :
        /\ pc[t] = "insert" /\ local[t].source # None => idempotency[local[t].source] = None
        /\ pc[t] \in {"judge", "set", "append"} => /\ local[t].alert # None
                                                   /\ alerts[local[t].alert] = local[t].rec
        /\ pc[t] = "set" => local[t].target \in ALERT_TRANSITIONS[heap[local[t].rec].state]

-----------------------------------------------------------------------------
(* What a step changes.                                                    *)

\* The others are between requests while one handler works.
LEMMA OthersRest ==
    ASSUME OneAtATime, NEW t \in Threads, AtWork(t)
    PROVE  \A u \in Threads \ {t} : pc[u] \in {"idle", "done"}
BY DEF OneAtATime, AtWork

\* A handler at work, the only one, moves on; the others stay where they are.
LEMMA OneMoves ==
    ASSUME TypeOK, NEW t \in Threads, Receive(t) \/ Handle(t)
    PROVE  /\ \A u \in Threads \ {t} : pc'[u] = pc[u] /\ local'[u] = local[u]
           /\ pc'[t] \in Labels
<1> USE DEF Goto, Answer, TypeOK, Labels
<1>1. CASE Receive(t)
  <2>1. \E label \in Labels : pc' = [pc EXCEPT ![t] = label]
    BY <1>1 DEF Receive, Reject, ReceiveCreate, ReceiveTransition
  <2>2. \A u \in Threads \ {t} : local'[u] = local[u]
    <3>1. CASE Reject(t)
      BY <3>1 DEF Reject
    <3>2. CASE ReceiveCreate(t)
      <4>1. PICK request : local' = [local EXCEPT ![t] = request]
        BY <3>2, Zenon DEF ReceiveCreate
      <4>. QED BY <4>1
    <3>3. CASE ReceiveTransition(t)
      <4>1. PICK request : local' = [local EXCEPT ![t] = request]
        BY <3>3, Zenon DEF ReceiveTransition
      <4>. QED BY <4>1
    <3>. QED BY <1>1, <3>1, <3>2, <3>3 DEF Receive
  <2>. QED BY <2>1, <2>2
<1>2. CASE CheckSource(t) \/ Replay(t) \/ RememberSource(t) \/ Announce(t) \/ FailToAnnounce(t)
              \/ Close(t)
  BY <1>2 DEF CheckSource, Replay, RememberSource, Announce, FailToAnnounce, Close
<1>3. CASE InsertAlert(t) \/ FetchRecord(t)
  BY <1>3 DEF InsertAlert, FetchRecord
<1>4. CASE JudgeTransition(t) \/ SetState(t) \/ AppendHistory(t)
  BY <1>4 DEF JudgeTransition, SetState, AppendHistory
<1>. QED BY <1>1, <1>2, <1>3, <1>4 DEF Handle

\* Of several handlers one is chosen.
LEMMA OneIsChosen ==
    /\ \A S : S # {} => (CHOOSE t \in S : TRUE) \in S
    /\ \A t : (CHOOSE u \in {t} : TRUE) = t
<1>1. ASSUME NEW S, S # {} PROVE (CHOOSE t \in S : TRUE) \in S
  <2>1. PICK x : x \in S
    BY <1>1
  <2>. QED BY <2>1
<1>. QED BY <1>1

\* Steps before the alert is stored or moved, and after it was announced or logged, are
\* no steps of the board.
LEMMA QuietStep ==
    ASSUME TypeOK, NEW t \in Threads, Receive(t) \/ Handle(t),
           UNCHANGED <<alerts, idempotency, heap, topic>>,
           pc[t] \notin {"remember", "announce", "append"},
           pc'[t] \notin {"remember", "announce", "append"}
    PROVE  /\ \A a \in AlertIds : BoardOf(a)' = BoardOf(a)
           /\ \A s \in SourceIds : SeenOf(s)' = SeenOf(s)
           /\ Pending' = Pending
<1>1. \A u \in Threads \ {t} : pc'[u] = pc[u] /\ local'[u] = local[u]
  BY OneMoves
<1>2. ASSUME NEW L \in SUBSET {"remember", "announce", "append"}
      PROVE  Owing(L)' = Owing(L) /\ t \notin Owing(L)
  BY <1>1 DEF Owing
<1>3. ASSUME NEW a \in AlertIds PROVE BoardOf(a)' = BoardOf(a)
  <2> DEFINE r == alerts[a]
             owed == {u \in Owing({"append"}) : local[u].rec = r}
  <2>1. owed' = owed /\ t \notin owed /\ owed \subseteq Threads
    BY <1>1, <1>2 DEF Owing
  <2>2. owed # {} => local'[CHOOSE u \in owed : TRUE] = local[CHOOSE u \in owed : TRUE]
    <3> HIDE DEF owed
    <3>. QED BY <1>1, <2>1, OneIsChosen
  <2>3. BoardOf(a) = IF r = None THEN None
                     ELSE [state |-> heap[r].state,
                           history |-> IF owed = {} THEN heap[r].history
                                       ELSE Append(heap[r].history, local[CHOOSE u \in owed : TRUE].target)]
    BY DEF BoardOf
  <2>4. BoardOf(a)' = IF r' = None THEN None
                      ELSE [state |-> heap'[r'].state,
                            history |-> IF owed' = {} THEN heap'[r'].history
                                        ELSE Append(heap'[r'].history, local'[CHOOSE u \in owed' : TRUE].target)]
    BY DEF BoardOf
  <2>5. r' = r
    OBVIOUS
  <2>. HIDE DEF r, owed
  <2>6. CASE r = None \/ owed = {}
    BY <2>1, <2>3, <2>4, <2>5, <2>6
  <2>7. CASE r # None /\ owed # {}
    BY <2>1, <2>2, <2>3, <2>4, <2>5, <2>7
  <2>. QED BY <2>6, <2>7
<1>4. ASSUME NEW s \in SourceIds PROVE SeenOf(s)' = SeenOf(s)
  <2> DEFINE owed == {u \in Owing({"remember"}) : local[u].source = s}
  <2>1. owed' = owed /\ t \notin owed /\ owed \subseteq Threads
    BY <1>1, <1>2 DEF Owing
  <2>2. owed # {} => local'[CHOOSE u \in owed : TRUE] = local[CHOOSE u \in owed : TRUE]
    <3> HIDE DEF owed
    <3>. QED BY <1>1, <2>1, OneIsChosen
  <2>3. SeenOf(s) = IF owed = {} THEN idempotency[s] ELSE local[CHOOSE u \in owed : TRUE].alert
    BY DEF SeenOf
  <2>4. SeenOf(s)' = IF owed' = {} THEN idempotency'[s] ELSE local'[CHOOSE u \in owed' : TRUE].alert
    BY DEF SeenOf
  <2>. HIDE DEF owed
  <2>. QED BY <2>1, <2>2, <2>3, <2>4
<1>5. Pending' = Pending
  <2> DEFINE owed == Owing({"remember", "announce"})
             of(u) == [alert |-> local[u].alert, source |-> local[u].source]
  <2>1. owed' = owed /\ \A u \in owed : local'[u] = local[u]
    BY <1>1, <1>2 DEF Owing
  <2>2. Pending = {of(u) : u \in owed} /\ Pending' = {of(u)' : u \in owed'}
    BY DEF Pending
  <2>. HIDE DEF owed
  <2>. QED BY <2>1, <2>2
<1>. QED BY <1>3, <1>4, <1>5

\* What the mapping makes of the state when all handlers but t are between requests.
Rest(t) == \A u \in Threads \ {t} : pc[u] \in {"idle", "done"}
Mapped(t) ==
    /\ \A a \in AlertIds :
          BoardOf(a) = IF alerts[a] = None THEN None
                       ELSE [state   |-> heap[alerts[a]].state,
                             history |-> IF pc[t] = "append" /\ local[t].rec = alerts[a]
                                         THEN Append(heap[alerts[a]].history, local[t].target)
                                         ELSE heap[alerts[a]].history]
    /\ \A s \in SourceIds :
          SeenOf(s) = IF pc[t] = "remember" /\ local[t].source = s
                      THEN local[t].alert ELSE idempotency[s]
    /\ Pending = IF pc[t] \in {"remember", "announce"}
                 THEN {[alert |-> local[t].alert, source |-> local[t].source]}
                 ELSE {}

\* While handler t works, what it owes is all that the mapping adds.
LEMMA Owed == \A t \in Threads : Rest(t) => Mapped(t)
<1> SUFFICES ASSUME NEW t \in Threads, Rest(t) PROVE Mapped(t)
  OBVIOUS
<1> USE DEF Rest
<1>1. \A L \in SUBSET {"append", "remember", "announce"} :
        Owing(L) = IF pc[t] \in L THEN {t} ELSE {}
  BY DEF Owing
<1>2. (CHOOSE u \in {t} : TRUE) = t
  BY OneIsChosen
<1>3. ASSUME NEW a \in AlertIds
      PROVE  {u \in Owing({"append"}) : local[u].rec = alerts[a]}
               = IF pc[t] = "append" /\ local[t].rec = alerts[a] THEN {t} ELSE {}
  BY <1>1
<1>4. ASSUME NEW s \in SourceIds
      PROVE  {u \in Owing({"remember"}) : local[u].source = s}
               = IF pc[t] = "remember" /\ local[t].source = s THEN {t} ELSE {}
  BY <1>1
<1>5. Owing({"remember", "announce"}) = IF pc[t] \in {"remember", "announce"} THEN {t} ELSE {}
  BY <1>1
<1>7. ASSUME NEW a \in AlertIds
      PROVE  BoardOf(a) = IF alerts[a] = None THEN None
                          ELSE [state   |-> heap[alerts[a]].state,
                                history |-> IF pc[t] = "append" /\ local[t].rec = alerts[a]
                                            THEN Append(heap[alerts[a]].history, local[t].target)
                                            ELSE heap[alerts[a]].history]
  <2>1. CASE pc[t] = "append" /\ local[t].rec = alerts[a]
    BY <1>2, <1>3, <2>1 DEF BoardOf
  <2>2. CASE ~(pc[t] = "append" /\ local[t].rec = alerts[a])
    BY <1>3, <2>2 DEF BoardOf
  <2>. QED BY <2>1, <2>2
<1>8. ASSUME NEW s \in SourceIds
      PROVE  SeenOf(s) = IF pc[t] = "remember" /\ local[t].source = s
                         THEN local[t].alert ELSE idempotency[s]
  BY <1>2, <1>4 DEF SeenOf
<1>9. Pending = IF pc[t] \in {"remember", "announce"}
                THEN {[alert |-> local[t].alert, source |-> local[t].source]}
                ELSE {}
  BY <1>5 DEF Pending
<1>. QED BY <1>7, <1>8, <1>9 DEF Mapped

\* The same after a step.
LEMMA OwedNext == (\A t \in Threads : Rest(t) => Mapped(t))'
BY Owed, PTL

-----------------------------------------------------------------------------
(* Nobody interferes.                                                      *)

\* What a handler found holds until it acts on it, because the others do not
\* act in between.
LEMMA UnchallengedStep ==
    ASSUME StoreInv, Unchallenged, OneAtATime, OneAtATime', NEW t \in Threads,
           Receive(t) \/ Handle(t)
    PROVE  Unchallenged'
<1> USE EdgeConstants DEF EdgeConstants, Allocated
<1>0. /\ TypeOK /\ \A a \in AlertIds : alerts[a] # None => alerts[a] \in Allocated
      /\ HandlerInv
  BY DEF StoreInv, HandlerInv
<1>m. \A u \in Threads \ {t} : pc'[u] = pc[u] /\ local'[u] = local[u]
  BY <1>0, OneMoves
<1>1. CASE /\ UNCHANGED <<alerts, idempotency, heap>>
           /\ pc'[t] = "insert" /\ local'[t].source # None => idempotency[local'[t].source] = None
           /\ pc'[t] \in {"judge", "set", "append"} => /\ local'[t].alert # None
                                                        /\ alerts[local'[t].alert] = local'[t].rec
           /\ pc'[t] = "set" => local'[t].target \in ALERT_TRANSITIONS[heap[local'[t].rec].state]
  BY <1>1, <1>m DEF Unchallenged
<1>2. CASE Reject(t) \/ ReceiveCreate(t) \/ ReceiveTransition(t) \/ Replay(t) \/ Announce(t)
           \/ FailToAnnounce(t) \/ Close(t)
  <2>1. pc'[t] \in {"done", "check", "fetch", "idle"} /\ UNCHANGED <<alerts, idempotency, heap>>
    BY <1>0, <1>2 DEF Reject, ReceiveCreate, ReceiveTransition, Replay, Announce,
                      FailToAnnounce, Close, Goto, Answer, TypeOK
  <2>. QED BY <1>1, <2>1
<1>3. CASE CheckSource(t)
  BY <1>0, <1>1, <1>3 DEF CheckSource, Goto, TypeOK
<1>4. CASE FetchRecord(t)
  <2>1. local[t].alert \in AlertIds /\ local[t] \in Locals
    BY <1>0, <1>4 DEF FetchRecord, HandlerInv, TypeOK, Locals
  <2>2. UNCHANGED <<alerts, idempotency, heap>>
    BY <1>4 DEF FetchRecord
  <2>3. CASE alerts[local[t].alert] = None
    <3>1. pc' = [pc EXCEPT ![t] = "done"]
      <4>1. Answer(t, 404)
        BY <1>4, <2>3 DEF FetchRecord
      <4>. QED BY <4>1 DEF Answer, Goto
    <3>2. pc'[t] = "done"
      BY <1>0, <3>1 DEF TypeOK
    <3>. QED BY <1>1, <2>2, <3>2
  <2>4. CASE alerts[local[t].alert] # None
    <3>1. pc'[t] = "judge"
      BY <1>0, <1>4, <2>4 DEF FetchRecord, Goto, TypeOK
    <3>2. local'[t].rec = alerts[local[t].alert] /\ local'[t].alert = local[t].alert
      BY <1>0, <1>4, <2>1, <2>4 DEF FetchRecord, TypeOK, Locals
    <3>3. local[t].alert # None
      BY <2>1
    <3>. QED BY <1>1, <2>2, <3>1, <3>2, <3>3
  <2>. QED BY <2>3, <2>4
<1>5. CASE JudgeTransition(t)
  BY <1>0, <1>1, <1>5 DEF JudgeTransition, Goto, Answer, TypeOK, Unchallenged
<1>w. AtWork(t) => Rest(t) /\ Rest(t)'
  BY <1>m, OthersRest DEF Rest
<1>6. CASE InsertAlert(t)
  <2> DEFINE a == local[t].alert
  <2>1. PICK r \in Records \ Allocated :
          /\ heap' = [heap EXCEPT ![r] = NewRecord(t)]
          /\ alerts' = [alerts EXCEPT ![a] = r]
    BY <1>6 DEF InsertAlert
  <2>2. a \in AlertIds
    BY <1>0, <1>6 DEF InsertAlert, HandlerInv, TypeOK, Locals
  <2>3. heap'[r].alert = a /\ \A q \in Records \ {r} : heap'[q] = heap[q]
    BY <1>0, <2>1 DEF NewRecord, TypeOK
  <2>4. \A b \in AlertIds : alerts'[b] # None => heap'[alerts'[b]].alert = b
    BY <1>0, <2>1, <2>2, <2>3 DEF Unchallenged, TypeOK
  <2>5. \A u \in Threads : pc'[u] \in {"announce", "remember", "idle", "done"}
    BY <1>0, <1>6, <1>w DEF Rest, AtWork, InsertAlert, Goto, TypeOK
  <2>. QED BY <2>4, <2>5 DEF Unchallenged
<1>7. CASE RememberSource(t)
  <2>1. \A u \in Threads : pc'[u] \in {"announce", "idle", "done"}
    BY <1>0, <1>7, <1>w DEF Rest, AtWork, RememberSource, Goto, TypeOK
  <2>. QED BY <1>7, <2>1 DEF Unchallenged, RememberSource
<1>8. CASE SetState(t) \/ AppendHistory(t)
  <2>1. \A r \in Records : heap'[r].alert = heap[r].alert /\ UNCHANGED <<alerts, local>>
    BY <1>0, <1>8, TransitionKeepsIds DEF SetState, AppendHistory
  <2>2. \A u \in Threads : pc'[u] \in {"append", "idle", "done"}
    BY <1>0, <1>8, <1>w DEF Rest, AtWork, SetState, AppendHistory, Goto, Answer, TypeOK
  <2>3. pc[t] \in {"set", "append"} /\ UNCHANGED <<alerts, local>>
    BY <1>8 DEF SetState, AppendHistory
  <2>4. \A b \in AlertIds : alerts'[b] # None => heap'[alerts'[b]].alert = b
    BY <1>0, <2>1, <2>3 DEF Unchallenged
  <2>5. \A u \in Threads : pc'[u] = "append" => u = t
    BY <1>w, <2>3 DEF Rest, AtWork
  <2>. QED BY <2>2, <2>3, <2>4, <2>5 DEF Unchallenged
<1>. QED BY <1>2, <1>3, <1>4, <1>5, <1>6, <1>7, <1>8 DEF Receive, Handle

\* Nothing is stored and no handler works at the start.
LEMMA UnchallengedInit == Init => Unchallenged /\ Board!BoardInit
BY DEF Init, Unchallenged, Board!BoardInit, BoardOf, SeenOf, Pending, Owing

-----------------------------------------------------------------------------
(* Every step is a step of the board or none.                              *)

BoardState == <<[a \in AlertIds |-> BoardOf(a)], [s \in SourceIds |-> SeenOf(s)], Pending, topic>>

\* A create is accepted where it inserts the alert, a transition advances it
\* where it sets the state.
LEMMA BoardStep ==
    ASSUME StoreInv, Unchallenged, OneAtATime, OneAtATime', NEW t \in Threads,
           Receive(t) \/ Handle(t)
    PROVE  Board!BoardNext \/ UNCHANGED BoardState
<1> USE EdgeConstants DEF EdgeConstants, Allocated
<1>0. /\ TypeOK /\ \A a \in AlertIds : alerts[a] # None => alerts[a] \in Allocated
      /\ HandlerInv
  BY DEF StoreInv, HandlerInv
<1>m. \A u \in Threads \ {t} : pc'[u] = pc[u] /\ local'[u] = local[u]
  BY <1>0, OneMoves
<1>w. AtWork(t) => Mapped(t) /\ Mapped(t)'
  BY <1>m, OthersRest, Owed, OwedNext DEF Rest
<1>1. CASE \/ Reject(t) \/ ReceiveCreate(t) \/ ReceiveTransition(t) \/ CheckSource(t)
           \/ Replay(t) \/ FetchRecord(t) \/ JudgeTransition(t) \/ Close(t)
  <2>1. /\ UNCHANGED <<alerts, idempotency, heap, topic>>
        /\ pc[t] \notin {"remember", "announce", "append"}
        /\ pc'[t] \notin {"remember", "announce", "append"}
    <3>1. CASE Reject(t) \/ ReceiveCreate(t) \/ ReceiveTransition(t) \/ Replay(t) \/ Close(t)
      <4>1. /\ UNCHANGED <<alerts, idempotency, heap, topic>>
            /\ pc[t] \in {"idle", "replay", "done"}
        BY <3>1 DEF Reject, ReceiveCreate, ReceiveTransition, Replay, Close
      <4>2. \E label \in {"done", "check", "fetch", "idle"} : pc' = [pc EXCEPT ![t] = label]
        BY <3>1 DEF Reject, ReceiveCreate, ReceiveTransition, Replay, Close, Goto, Answer
      <4>3. pc'[t] \in {"done", "check", "fetch", "idle"}
        BY <1>0, <4>2 DEF TypeOK
      <4>. QED BY <4>1, <4>3
    <3>2. CASE CheckSource(t) \/ FetchRecord(t) \/ JudgeTransition(t)
      BY <1>0, <3>2 DEF CheckSource, FetchRecord, JudgeTransition, Goto, Answer, TypeOK
    <3>. QED BY <1>1, <3>1, <3>2
  <2>. QED BY <1>0, <2>1, QuietStep DEF BoardState
<1>2. CASE InsertAlert(t)
  <2> DEFINE a == local[t].alert
             s == local[t].source
  <2>1. PICK r \in Records \ Allocated :
          /\ heap' = [heap EXCEPT ![r] = NewRecord(t)]
          /\ alerts' = [alerts EXCEPT ![a] = r]
          /\ local' = [local EXCEPT ![t].rec = r]
    BY <1>2 DEF InsertAlert
  <2>2. a \in AlertIds /\ s \in SourceIds \cup {None}
    BY <1>0, <1>2 DEF InsertAlert, HandlerInv, TypeOK, Locals
  <2>3. /\ heap'[r].state = "initial" /\ heap'[r].history = <<>>
        /\ \A q \in Records \ {r} : heap'[q] = heap[q]
    BY <1>0, <2>1 DEF NewRecord, TypeOK
  <2>4. pc[t] = "insert" /\ Mapped(t) /\ Mapped(t)' /\ UNCHANGED <<idempotency, topic>>
    BY <1>2, <1>w DEF InsertAlert, AtWork
  <2>5. /\ pc'[t] = IF s = None THEN "announce" ELSE "remember"
        /\ local'[t].alert = a /\ local'[t].source = s
    BY <1>0, <1>2, <2>1 DEF InsertAlert, Goto, TypeOK, Locals
  <2>6. \A b \in AlertIds :
          BoardOf(b)' = IF b = a THEN [state |-> "initial", history |-> <<>>] ELSE BoardOf(b)
    <3>1. ASSUME NEW b \in AlertIds
          PROVE  /\ BoardOf(b) = IF alerts[b] = None THEN None
                                 ELSE [state   |-> heap[alerts[b]].state,
                                       history |-> heap[alerts[b]].history]
                 /\ BoardOf(b)' = IF alerts'[b] = None THEN None
                                  ELSE [state   |-> heap'[alerts'[b]].state,
                                        history |-> heap'[alerts'[b]].history]
      <4>1. pc[t] # "append" /\ pc'[t] # "append"
        BY <2>4, <2>5
      <4>. QED BY <2>4, <4>1 DEF Mapped
    <3>2. alerts'[a] = r /\ r # None /\ \A b \in AlertIds \ {a} : alerts'[b] = alerts[b]
      BY <1>0, <2>1, <2>2 DEF TypeOK
    <3>3. \A b \in AlertIds : alerts[b] # None => heap'[alerts[b]] = heap[alerts[b]]
      BY <1>0, <2>1, <2>3
    <3>4. ASSUME NEW b \in AlertIds \ {a} PROVE BoardOf(b)' = BoardOf(b)
      BY <3>1, <3>2, <3>3, <3>4
    <3>5. ASSUME NEW b \in AlertIds, b = a
          PROVE  BoardOf(b)' = [state |-> "initial", history |-> <<>>]
      <4>1. alerts'[b] = r /\ r # None
        BY <3>2, <3>5
      <4>. QED BY <2>3, <3>1, <4>1
    <3>6. ASSUME NEW b \in AlertIds
          PROVE  BoardOf(b)' = IF b = a THEN [state |-> "initial", history |-> <<>>] ELSE BoardOf(b)
      BY <3>4, <3>5
    <3>. QED BY <3>6
  <2>7. \A c \in SourceIds : SeenOf(c)' = IF c = s THEN a ELSE SeenOf(c)
    BY <2>4, <2>5 DEF Mapped
  <2>8. s # None => SeenOf(s) = None
    BY <2>2, <2>4 DEF Mapped, Unchallenged
  <2>9. Pending = {} /\ Pending' = {[alert |-> a, source |-> s]} /\ topic' = topic
    BY <2>4, <2>5 DEF Mapped
  <2>10. Board!Accept(a, s)
    BY <2>2, <2>6, <2>7, <2>8, <2>9 DEF Board!Accept
  <2>. QED BY <2>2, <2>10 DEF Board!BoardNext
<1>3. CASE RememberSource(t)
  <2>1. /\ pc[t] = "remember" /\ pc'[t] = "announce" /\ Mapped(t) /\ Mapped(t)'
        /\ UNCHANGED <<alerts, heap, topic, local>>
    BY <1>0, <1>3, <1>w DEF RememberSource, Goto, TypeOK, AtWork
  <2>2. idempotency' = [idempotency EXCEPT ![local[t].source] = local[t].alert]
    BY <1>3 DEF RememberSource
  <2>3. \A c \in SourceIds : SeenOf(c)' = SeenOf(c)
    BY <1>0, <2>1, <2>2 DEF Mapped, TypeOK
  <2>4. (\A b \in AlertIds : BoardOf(b)' = BoardOf(b)) /\ Pending' = Pending
    BY <2>1 DEF Mapped
  <2>. QED BY <2>1, <2>3, <2>4 DEF BoardState
<1>4. CASE Announce(t)
  <2>1. /\ pc[t] = "announce" /\ pc'[t] = "done" /\ Mapped(t) /\ Mapped(t)'
        /\ UNCHANGED <<alerts, idempotency, heap, local>>
        /\ topic' = Append(topic, [alert |-> local[t].alert, source |-> local[t].source])
    BY <1>0, <1>4, <1>w DEF Announce, Answer, Goto, TypeOK, AtWork
  <2>2. \A b \in AlertIds : BoardOf(b)' = BoardOf(b)
    BY <2>1 DEF Mapped
  <2>3. \A c \in SourceIds : SeenOf(c)' = SeenOf(c)
    BY <2>1 DEF Mapped
  <2>4. /\ Pending = {[alert |-> local[t].alert, source |-> local[t].source]}
        /\ Pending' = {}
    BY <2>1 DEF Mapped
  <2>5. Board!Publish
    BY <2>1, <2>2, <2>3, <2>4 DEF Board!Publish
  <2>. QED BY <2>5 DEF Board!BoardNext
<1>4a. CASE FailToAnnounce(t)
  <2>1. /\ pc[t] = "announce" /\ pc'[t] = "done" /\ Mapped(t) /\ Mapped(t)'
        /\ UNCHANGED <<alerts, idempotency, heap, topic, local>>
    BY <1>0, <1>4a, <1>w DEF FailToAnnounce, Answer, Goto, TypeOK, AtWork
  <2>2. \A b \in AlertIds : BoardOf(b)' = BoardOf(b)
    BY <2>1 DEF Mapped
  <2>3. \A c \in SourceIds : SeenOf(c)' = SeenOf(c)
    BY <2>1 DEF Mapped
  <2>4. Pending # {} /\ Pending' = {}
    BY <2>1 DEF Mapped
  <2>5. Board!Lose
    BY <2>1, <2>2, <2>3, <2>4 DEF Board!Lose
  <2>. QED BY <2>5 DEF Board!BoardNext
<1>5. CASE SetState(t)
  <2>0. PICK a \in AlertIds, r \in Records, target \in AlertStates :
          local[t].alert = a /\ local[t].rec = r /\ local[t].target = target
    BY <1>0, <1>5 DEF SetState, Unchallenged, HandlerInv, TypeOK, Locals
  <2>1. /\ pc[t] = "set" /\ pc'[t] = "append" /\ Mapped(t) /\ Mapped(t)'
        /\ UNCHANGED <<alerts, idempotency, topic, local>>
        /\ heap' = [heap EXCEPT ![r].state = target]
    BY <1>0, <1>5, <1>w, <2>0 DEF SetState, Goto, TypeOK, AtWork
  <2>2. alerts[a] = r /\ target \in ALERT_TRANSITIONS[heap[r].state]
    BY <2>0, <2>1 DEF Unchallenged
  <2>3. \A b \in AlertIds \ {a} : alerts[b] # r
    BY <2>2 DEF Unchallenged
  <2>4. /\ heap'[r].state = target /\ heap'[r].history = heap[r].history
        /\ \A q \in Records \ {r} : heap'[q] = heap[q]
    BY <1>0, <2>1, <2>2 DEF TypeOK, RecordContents
  <2>5. BoardOf(a) = [state |-> heap[r].state, history |-> heap[r].history]
    BY <2>1, <2>2 DEF Mapped
  <2>6. BoardOf(a)' = [state |-> target, history |-> Append(heap[r].history, target)]
    <3>1. BoardOf(a)' = [state |-> heap'[r].state, history |-> Append(heap'[r].history, target)]
      BY <2>0, <2>1, <2>2 DEF Mapped
    <3>. QED BY <2>4, <3>1
  <2>7. ASSUME NEW b \in AlertIds \ {a} PROVE BoardOf(b)' = BoardOf(b)
    <3>1. alerts[b] # r /\ alerts[b] \in Records \cup {None}
      BY <1>0, <2>3 DEF TypeOK
    <3>2. alerts[b] # None => heap'[alerts[b]] = heap[alerts[b]]
      BY <2>4, <3>1
    <3>3. BoardOf(b) = IF alerts[b] = None THEN None
                       ELSE [state |-> heap[alerts[b]].state, history |-> heap[alerts[b]].history]
      BY <2>1 DEF Mapped
    <3>4. BoardOf(b)' = IF alerts[b] = None THEN None
                        ELSE [state |-> heap'[alerts[b]].state, history |-> heap'[alerts[b]].history]
      BY <2>0, <2>1, <3>1 DEF Mapped
    <3>. QED BY <3>2, <3>3, <3>4
  <2>8. (\A c \in SourceIds : SeenOf(c)' = SeenOf(c)) /\ Pending = {} /\ Pending' = {}
    BY <2>1 DEF Mapped
  <2>9. BoardOf(a) # None
    <3>1. BoardOf(a) \in [state : AlertStates, history : Seq(AlertStates)]
      BY <1>0, <2>2, <2>5 DEF TypeOK, RecordContents
    <3>. QED BY <3>1
  <2>10. Board!Advance(a, target)
    <3> DEFINE before == [b \in AlertIds |-> BoardOf(b)]
               after  == [b \in AlertIds |-> BoardOf(b)']
    <3>1. before[a].state = heap[r].state /\ before[a].history = heap[r].history /\ before[a] # None
      BY <2>2, <2>5, <2>9
    <3>2. after = [before EXCEPT ![a] = [state |-> target, history |-> Append(before[a].history, target)]]
      <4>1. before[a].history = heap[r].history
        BY <3>1
      <4>2. \A b \in AlertIds :
              after[b] = IF b = a THEN [state |-> target, history |-> Append(heap[r].history, target)]
                         ELSE before[b]
        BY <2>6, <2>7
      <4>3. after = [b \in AlertIds |-> after[b]] /\ before = [b \in AlertIds |-> before[b]]
        OBVIOUS
      <4>. HIDE DEF before, after
      <4>. QED BY <4>1, <4>2, <4>3
    <3>3. target \in Board!ALERT_TRANSITIONS[before[a].state]
      BY <2>2, <3>1 DEF Board!ALERT_TRANSITIONS, ALERT_TRANSITIONS
    <3>. QED BY <2>1, <2>8, <3>1, <3>2, <3>3 DEF Board!Advance
  <2>. QED BY <2>2, <2>10 DEF Board!BoardNext, Board!AlertStates, AlertStates
<1>6. CASE AppendHistory(t)
  <2>2. PICK r \in Records, target \in AlertStates : local[t].rec = r /\ local[t].target = target
    BY <1>0, <1>6 DEF AppendHistory, HandlerInv, TypeOK, Locals
  <2>1. /\ pc[t] = "append" /\ pc'[t] = "done" /\ Mapped(t) /\ Mapped(t)'
        /\ UNCHANGED <<alerts, idempotency, topic, local>>
        /\ heap' = [heap EXCEPT ![r].history = Append(@, target)]
    BY <1>0, <1>6, <1>w, <2>2 DEF AppendHistory, Answer, Goto, TypeOK, AtWork
  <2>3. /\ heap'[r].state = heap[r].state
        /\ heap'[r].history = Append(heap[r].history, target)
        /\ \A q \in Records \ {r} : heap'[q] = heap[q]
    BY <1>0, <2>1, <2>2 DEF TypeOK, RecordContents
  <2>4. ASSUME NEW b \in AlertIds PROVE BoardOf(b)' = BoardOf(b)
    <3>1. alerts[b] \in Records \cup {None}
      BY <1>0 DEF TypeOK
    <3>2. CASE alerts[b] = r
      <4>1. BoardOf(b) = [state |-> heap[r].state, history |-> Append(heap[r].history, target)]
        BY <2>1, <2>2, <3>2 DEF Mapped
      <4>2. BoardOf(b)' = [state |-> heap'[r].state, history |-> heap'[r].history]
        BY <2>1, <2>2, <3>2 DEF Mapped
      <4>. QED BY <2>3, <4>1, <4>2
    <3>3. CASE alerts[b] # r
      BY <2>1, <2>2, <2>3, <3>1, <3>3 DEF Mapped
    <3>. QED BY <3>2, <3>3
  <2>5. (\A c \in SourceIds : SeenOf(c)' = SeenOf(c)) /\ Pending' = Pending
    BY <2>1 DEF Mapped
  <2>. QED BY <2>1, <2>4, <2>5 DEF BoardState
<1>. QED BY <1>1, <1>2, <1>3, <1>4, <1>4a, <1>5, <1>6 DEF Receive, Handle

\* With one handler at a time every step of the service is a step of the board or no
\* step of it: one acceptance per source change, its event on the topic before anything
\* else is accepted (or never, when announcing it failed), stages in order, a history
\* that lists exactly the stages entered.  What duplicates an alert or forks a history is
\* the overlap of requests and nothing else.
THEOREM SequentialBoard == Spec /\ []OneAtATime => ImplementsAlertBoard
<1>1. Init => StoreInv /\ Unchallenged /\ Board!BoardInit
  BY StoreInvInit, UnchallengedInit
<1>2. StoreInv /\ Unchallenged /\ OneAtATime /\ OneAtATime' /\ [Next]_vars
        => StoreInv' /\ Unchallenged' /\ [Board!BoardNext]_BoardState
  <2> SUFFICES ASSUME StoreInv, Unchallenged, OneAtATime, OneAtATime', [Next]_vars
               PROVE  Unchallenged' /\ (Board!BoardNext \/ UNCHANGED BoardState)
    BY StoreInvInductive
  <2>1. CASE UNCHANGED vars
    BY <2>1 DEF vars, Unchallenged, BoardState, BoardOf, SeenOf, Pending, Owing
  <2>2. CASE Next
    BY <2>2, UnchallengedStep, BoardStep DEF Next
  <2>. QED BY <2>1, <2>2
<1>3. UNCHANGED BoardState <=> UNCHANGED Board!boardVars
  BY DEF BoardState, Board!boardVars
<1>. QED BY <1>1, <1>2, <1>3, PTL DEF Spec, ImplementsAlertBoard, Board!BoardSpec

-----------------------------------------------------------------------------
(* What a lock per source change would give.                               *)

\* The look at the idempotency map and the statement that writes it (lines 224-238) taken
\* as one: of the handlers that have found a source change new and have not remembered it
\* yet, no two hold the same one.  All else may overlap, and every handler may be late.
Deciding == {"insert", "remember"}
SourcesApart ==
    \A t, u \in Threads :
        pc[t] \in Deciding /\ pc[u] \in Deciding /\ local[t].source = local[u].source =>
            t = u \/ local[t].source = None

\* A source change makes at most one alert (OneAlertPerSource), announced at most once.
OneEntryPerSource ==
    \A i, j \in 1 .. Len(topic) :
        topic[i].source = topic[j].source => i = j \/ topic[i].source = None
ProcessedOnce == OneAlertPerSource /\ OneEntryPerSource

\* A source change is in the map unless the handler of its record is about to put it there.
RecordsRemembered ==
    \A r \in Allocated : heap[r].source # None /\ idempotency[heap[r].source] = None =>
        \E t \in Threads : pc[t] = "remember" /\ local[t].source = heap[r].source

EntriesRemembered ==
    \A i \in 1 .. Len(topic) : topic[i].source # None => idempotency[topic[i].source] # None

\* What a handler knows of the source change it holds.
SourceKnown(t) ==
    LET s == local[t].source IN
    s # None =>
        /\ pc[t] \in Deciding => idempotency[s] = None
        /\ pc[t] = "announce" =>
              /\ idempotency[s] # None
              /\ \A i \in 1 .. Len(topic) : topic[i].source # s
              /\ \A u \in Threads : pc[u] = "announce" /\ local[u].source = s => u = t

SourceInv ==
    /\ ProcessedOnce
    /\ RecordsRemembered
    /\ EntriesRemembered
    /\ \A t \in Threads : SourceKnown(t)

\* Steps that neither make, remember nor announce an alert.
LEMMA QuietKeepsSources ==
    ASSUME SourceInv, NEW t \in Threads, UNCHANGED <<idempotency, topic>>,
           \A r \in Records : heap'[r].alert = heap[r].alert /\ heap'[r].source = heap[r].source,
           \A u \in Threads \ {t} : pc'[u] = pc[u] /\ local'[u] = local[u],
           pc[t] # "remember", pc'[t] \notin {"remember", "announce"},
           pc'[t] = "insert" /\ local'[t].source # None => idempotency[local'[t].source] = None
    PROVE  SourceInv'
<1>1. Allocated' = Allocated
  BY DEF Allocated
<1>2. ProcessedOnce'
  <2>1. OneAlertPerSource'
    BY <1>1 DEF SourceInv, ProcessedOnce, OneAlertPerSource, Allocated
  <2>. QED BY <2>1 DEF SourceInv, ProcessedOnce, OneEntryPerSource
<1>3. RecordsRemembered'
  <2> SUFFICES ASSUME NEW r \in Allocated, heap[r].source # None,
                      idempotency[heap[r].source] = None
               PROVE  \E u \in Threads : pc'[u] = "remember" /\ local'[u].source = heap[r].source
    BY <1>1 DEF RecordsRemembered, Allocated
  <2>1. PICK u \in Threads : pc[u] = "remember" /\ local[u].source = heap[r].source
    BY DEF SourceInv, RecordsRemembered
  <2>. QED BY <2>1
<1>4. EntriesRemembered'
  BY DEF SourceInv, EntriesRemembered
<1>5. SourceKnown(t)'
  BY DEF SourceKnown, Deciding
<1>6. ASSUME NEW u \in Threads \ {t} PROVE SourceKnown(u)'
  <2>1. SourceKnown(u)
    BY DEF SourceInv
  <2>. QED BY <2>1 DEF SourceKnown
<1>. QED BY <1>2, <1>3, <1>4, <1>5, <1>6 DEF SourceInv

\* An alert made of a source change that no other handler decides about is its first.
LEMMA InsertKeepsSources ==
    ASSUME StoreInv, SourceInv, SourcesApart, NEW t \in Threads, InsertAlert(t)
    PROVE  SourceInv'
<1>0. TypeOK /\ pc[t] = "insert"
  BY DEF StoreInv, HandlerInv, InsertAlert
<1> DEFINE s == local[t].source
<1>1. PICK r \in Records \ Allocated :
          heap' = [heap EXCEPT ![r] = NewRecord(t)] /\ local' = [local EXCEPT ![t].rec = r]
  BY Zenon DEF InsertAlert
<1>2. local[t].alert # None /\ local[t] \in Locals
  BY <1>0 DEF StoreInv, HandlerInv, TypeOK
<1>3. heap'[r] = NewRecord(t) /\ \A q \in Records \ {r} : heap'[q] = heap[q]
  BY <1>0, <1>1 DEF TypeOK
<1>4. heap'[r].source = s /\ heap'[r].alert = local[t].alert
  BY <1>3 DEF NewRecord
<1>5. Allocated' = Allocated \cup {r}
  BY <1>1, <1>2, <1>3, <1>4 DEF Allocated
<1>6. UNCHANGED <<idempotency, topic>>
  BY DEF InsertAlert
<1>7. pc' = [pc EXCEPT ![t] = IF s = None THEN "announce" ELSE "remember"]
  BY DEF InsertAlert, Goto
<1>8. /\ pc'[t] = IF s = None THEN "announce" ELSE "remember"
      /\ \A u \in Threads \ {t} : pc'[u] = pc[u]
  BY <1>0, <1>7 DEF TypeOK
<1>9. \A u \in Threads : local'[u].source = local[u].source
  <2>1. local'[t].source = local[t].source
    BY <1>0, <1>1, <1>2 DEF TypeOK, Locals
  <2>. QED BY <1>0, <1>1, <2>1 DEF TypeOK
<1>10. s # None => idempotency[s] = None
  BY <1>0 DEF SourceInv, SourceKnown, Deciding
<1>11. s # None => \A q \in Allocated : heap[q].source # s
  <2> SUFFICES ASSUME s # None, NEW q \in Allocated, heap[q].source = s PROVE FALSE
    OBVIOUS
  <2>1. PICK u \in Threads : pc[u] = "remember" /\ local[u].source = s
    BY <1>10 DEF SourceInv, RecordsRemembered
  <2>. QED BY <1>0, <2>1 DEF SourcesApart, Deciding
<1>12. OneAlertPerSource'
  <2> SUFFICES ASSUME NEW p \in Allocated \cup {r}, NEW q \in Allocated \cup {r},
                      heap'[p].source = heap'[q].source
               PROVE  p = q \/ heap'[p].source = None
    BY <1>5 DEF OneAlertPerSource
  <2>1. \A x \in Allocated : x \in Records \ {r} /\ heap'[x] = heap[x]
    BY <1>1, <1>3 DEF Allocated
  <2>2. CASE p \in Allocated /\ q \in Allocated
    BY <2>1, <2>2 DEF SourceInv, ProcessedOnce, OneAlertPerSource
  <2>3. CASE p = r \/ q = r
    BY <1>4, <1>11, <2>1, <2>3
  <2>. QED BY <2>2, <2>3
<1>13. RecordsRemembered'
  <2> SUFFICES ASSUME NEW q \in Allocated \cup {r}, heap'[q].source # None,
                      idempotency[heap'[q].source] = None
               PROVE  \E u \in Threads : pc'[u] = "remember" /\ local'[u].source = heap'[q].source
    BY <1>5, <1>6 DEF RecordsRemembered
  <2>1. CASE q = r
    BY <1>4, <1>8, <1>9, <2>1
  <2>2. CASE q # r
    <3>1. q \in Allocated /\ heap'[q] = heap[q]
      BY <1>3, <2>2 DEF Allocated
    <3>2. PICK u \in Threads : pc[u] = "remember" /\ local[u].source = heap[q].source
      BY <3>1 DEF SourceInv, RecordsRemembered
    <3>3. u # t
      BY <1>0, <3>2
    <3>. QED BY <1>8, <1>9, <3>1, <3>2, <3>3
  <2>. QED BY <2>1, <2>2
<1>14. OneEntryPerSource' /\ EntriesRemembered'
  BY <1>6 DEF SourceInv, ProcessedOnce, OneEntryPerSource, EntriesRemembered
<1>15. ASSUME NEW u \in Threads PROVE SourceKnown(u)'
  <2>1. CASE u = t
    BY <1>6, <1>8, <1>9, <1>10, <2>1 DEF SourceKnown, Deciding
  <2>2. CASE u # t
    <3>1. SourceKnown(u)
      BY DEF SourceInv
    <3>2. pc'[t] = "announce" => local'[t].source = None
      BY <1>8, <1>9
    <3>. QED BY <1>6, <1>8, <1>9, <2>2, <3>1, <3>2 DEF SourceKnown
  <2>. QED BY <2>1, <2>2
<1>. QED BY <1>12, <1>13, <1>14, <1>15 DEF SourceInv, ProcessedOnce

\* The one handler that decided about a source change remembers it.
LEMMA RememberKeepsSources ==
    ASSUME StoreInv, SourceInv, SourcesApart, NEW t \in Threads, RememberSource(t)
    PROVE  SourceInv'
<1> DEFINE s == local[t].source
<1>0. TypeOK /\ pc[t] = "remember" /\ s # None
  BY DEF StoreInv, HandlerInv, RememberSource
<1>1. s \in SourceIds /\ local[t].alert # None
  BY <1>0 DEF StoreInv, HandlerInv, TypeOK, Locals
<1>2. UNCHANGED <<alerts, heap, topic, local>> /\ Allocated' = Allocated
  BY DEF RememberSource, Allocated
<1>3. pc'[t] = "announce" /\ \A u \in Threads \ {t} : pc'[u] = pc[u]
  BY <1>0 DEF RememberSource, Goto, TypeOK
<1>4. idempotency'[s] # None
  BY <1>0, <1>1 DEF RememberSource, TypeOK
<1>5. \A c \in SourceIds \ {s} : idempotency'[c] = idempotency[c]
  BY <1>0, <1>1 DEF RememberSource, TypeOK
<1>6. idempotency[s] = None
  BY <1>0 DEF SourceInv, SourceKnown, Deciding
<1>7. ProcessedOnce'
  BY <1>2 DEF SourceInv, ProcessedOnce, OneAlertPerSource, OneEntryPerSource
<1>8. RecordsRemembered'
  <2> SUFFICES ASSUME NEW r \in Allocated, heap[r].source # None,
                      idempotency'[heap[r].source] = None
               PROVE  \E u \in Threads : pc'[u] = "remember" /\ local[u].source = heap[r].source
    BY <1>2 DEF RecordsRemembered
  <2>1. heap[r].source \in SourceIds \ {s}
    BY <1>0, <1>4 DEF TypeOK, Allocated, RecordContents
  <2>2. idempotency[heap[r].source] = None
    BY <1>5, <2>1
  <2>3. PICK u \in Threads : pc[u] = "remember" /\ local[u].source = heap[r].source
    BY <2>2 DEF SourceInv, RecordsRemembered
  <2>4. u # t
    BY <2>1, <2>3
  <2>. QED BY <1>3, <2>3, <2>4
<1>9. EntriesRemembered'
  <2> SUFFICES ASSUME NEW i \in 1 .. Len(topic), topic[i].source # None
               PROVE  idempotency'[topic[i].source] # None
    BY <1>2 DEF EntriesRemembered
  <2>1. topic[i].source \in SourceIds
    <3> DEFINE Entries == [alert : AlertIds, source : SourceIds \cup {None}]
    <3>1. topic \in Seq(Entries)
      BY <1>0 DEF TypeOK
    <3>2. topic[i] \in Entries
      <4> HIDE DEF Entries
      <4>. QED BY <3>1
    <3>. QED BY <3>2
  <2>2. idempotency[topic[i].source] # None
    BY DEF SourceInv, EntriesRemembered
  <2>. QED BY <1>4, <1>5, <2>1, <2>2
<1>10. ASSUME NEW u \in Threads, local[u].source # None PROVE SourceKnown(u)'
  <2>1. SourceKnown(u) /\ local[u].source \in SourceIds
    BY <1>0, <1>10 DEF SourceInv, TypeOK, Locals
  <2>2. CASE u = t
    <3>1. \A i \in 1 .. Len(topic) : topic[i].source # s
      BY <1>0, <1>6 DEF SourceInv, EntriesRemembered
    <3>2. \A v \in Threads : pc'[v] = "announce" /\ local[v].source = s => v = t
      <4> SUFFICES ASSUME NEW v \in Threads \ {t}, pc[v] = "announce", local[v].source = s
                   PROVE  FALSE
        BY <1>3
      <4>. QED BY <1>0, <1>6 DEF SourceInv, SourceKnown
    <3>. QED BY <1>2, <1>3, <1>4, <2>2, <3>1, <3>2 DEF SourceKnown, Deciding
  <2>3. CASE u # t /\ local[u].source = s
    <3>1. pc[u] \notin Deciding
      BY <1>0, <2>3 DEF SourcesApart, Deciding
    <3>2. pc[u] # "announce"
      BY <1>0, <1>6, <2>1, <2>3 DEF SourceKnown
    <3>. QED BY <1>2, <1>3, <2>3, <3>1, <3>2 DEF SourceKnown
  <2>4. CASE u # t /\ local[u].source # s
    <3>1. idempotency'[local[u].source] = idempotency[local[u].source]
      BY <1>5, <2>1, <2>4
    <3>. QED BY <1>2, <1>3, <2>1, <2>4, <3>1 DEF SourceKnown
  <2>. QED BY <2>2, <2>3, <2>4
<1>11. ASSUME NEW u \in Threads PROVE SourceKnown(u)'
  <2>1. CASE local[u].source = None
    BY <1>2, <2>1 DEF SourceKnown
  <2>. QED BY <1>10, <2>1
<1>. QED BY <1>7, <1>8, <1>9, <1>11 DEF SourceInv

\* An announced source change has no entry before and no other handler on its way there.
LEMMA AnnounceKeepsSources ==
    ASSUME StoreInv, SourceInv, NEW t \in Threads, Announce(t)
    PROVE  SourceInv'
<1> DEFINE s == local[t].source
           n == Len(topic)
<1>0. TypeOK /\ pc[t] = "announce"
  BY DEF StoreInv, HandlerInv, Announce
<1>1. UNCHANGED <<idempotency, heap, local>> /\ Allocated' = Allocated
  BY DEF Announce, Allocated
<1>2. pc'[t] = "done" /\ \A u \in Threads \ {t} : pc'[u] = pc[u]
  BY <1>0 DEF Announce, Answer, Goto, TypeOK
<1>3. /\ n \in Nat /\ Len(topic') = n + 1
      /\ topic'[n + 1].source = s
      /\ \A i \in 1 .. n : topic'[i] = topic[i]
  <2> DEFINE entry == [alert |-> local[t].alert, source |-> s]
             Entries == [alert : AlertIds, source : SourceIds \cup {None}]
  <2>1. topic \in Seq(Entries) /\ entry \in Entries
    BY <1>0 DEF StoreInv, HandlerInv, TypeOK, Locals
  <2>2. topic' = Append(topic, entry) /\ entry.source = s
    BY DEF Announce
  <2> HIDE DEF entry, Entries
  <2>. QED BY <2>1, <2>2
<1>4. \A i \in 1 .. n + 1 : i \in 1 .. n \/ i = n + 1
  BY <1>3
<1> HIDE DEF s, n
<1>5. s # None => idempotency[s] # None /\ \A i \in 1 .. n : topic[i].source # s
  BY <1>0 DEF SourceInv, SourceKnown, s, n
<1>6. OneEntryPerSource'
  <2> SUFFICES ASSUME NEW i \in 1 .. n + 1, NEW j \in 1 .. n + 1,
                      topic'[i].source = topic'[j].source
               PROVE  i = j \/ topic'[i].source = None
    BY <1>3 DEF OneEntryPerSource
  <2>1. CASE i \in 1 .. n /\ j \in 1 .. n
    BY <1>3, <2>1 DEF SourceInv, ProcessedOnce, OneEntryPerSource, n
  <2>2. CASE i = n + 1 /\ j \in 1 .. n
    BY <1>3, <1>5, <2>2
  <2>3. CASE i \in 1 .. n /\ j = n + 1
    BY <1>3, <1>5, <2>3
  <2>. QED BY <1>4, <2>1, <2>2, <2>3
<1>7. OneAlertPerSource'
  BY <1>1 DEF SourceInv, ProcessedOnce, OneAlertPerSource
<1>8. RecordsRemembered'
  <2> SUFFICES ASSUME NEW r \in Allocated, heap[r].source # None,
                      idempotency[heap[r].source] = None
               PROVE  \E u \in Threads : pc'[u] = "remember" /\ local[u].source = heap[r].source
    BY <1>1 DEF RecordsRemembered
  <2>1. PICK u \in Threads : pc[u] = "remember" /\ local[u].source = heap[r].source
    BY DEF SourceInv, RecordsRemembered
  <2>2. u # t
    BY <1>0, <2>1
  <2>. QED BY <1>2, <2>1, <2>2
<1>9. EntriesRemembered'
  <2> SUFFICES ASSUME NEW i \in 1 .. n + 1, topic'[i].source # None
               PROVE  idempotency[topic'[i].source] # None
    BY <1>1, <1>3 DEF EntriesRemembered
  <2>1. CASE i \in 1 .. n
    BY <1>3, <2>1 DEF SourceInv, EntriesRemembered, n
  <2>2. CASE i = n + 1
    BY <1>3, <1>5, <2>2
  <2>. QED BY <1>4, <2>1, <2>2
<1>10. ASSUME NEW u \in Threads PROVE SourceKnown(u)'
  <2>1. CASE u = t
    BY <1>1, <1>2, <2>1 DEF SourceKnown, Deciding
  <2>2. CASE u # t
    <3>1. SourceKnown(u) /\ SourceKnown(t)
      BY DEF SourceInv
    <3>2. ASSUME local[u].source # None, pc[u] = "announce"
          PROVE  \A i \in 1 .. n + 1 : topic'[i].source # local[u].source
      <4>1. s # local[u].source
        BY <1>0, <2>2, <3>1, <3>2 DEF SourceKnown, s
      <4>2. \A i \in 1 .. n : topic[i].source # local[u].source
        BY <3>1, <3>2 DEF SourceKnown, n
      <4>. QED BY <1>3, <1>4, <4>1, <4>2
    <3>3. ASSUME NEW v \in Threads, pc'[v] = "announce" PROVE pc[v] = "announce"
      BY <1>2, <3>3
    <3>. QED BY <1>1, <1>2, <1>3, <2>2, <3>1, <3>2, <3>3 DEF SourceKnown
  <2>. QED BY <2>1, <2>2
<1>. QED BY <1>6, <1>7, <1>8, <1>9, <1>10 DEF SourceInv, ProcessedOnce

LEMMA SourceStep ==
    ASSUME StoreInv, SourceInv, SourcesApart, [Next]_vars
    PROVE  SourceInv'
<1>0. HandlerInv /\ TypeOK
  BY DEF StoreInv, HandlerInv
<1>1. CASE UNCHANGED vars
  BY <1>1 DEF vars, SourceInv, ProcessedOnce, OneAlertPerSource, OneEntryPerSource,
              RecordsRemembered, EntriesRemembered, SourceKnown, Allocated
<1>2. ASSUME NEW t \in Threads, Receive(t) \/ Handle(t) PROVE SourceInv'
  <2> DEFINE Others == \A u \in Threads \ {t} : pc'[u] = pc[u] /\ local'[u] = local[u]
  <2>1. Others
    BY <1>0, <1>2, OneMoves
  <2>2. CASE Reject(t) \/ ReceiveCreate(t) \/ ReceiveTransition(t) \/ Replay(t)
             \/ FailToAnnounce(t) \/ Close(t)
    <3>1. UNCHANGED <<idempotency, topic, heap>>
      BY <2>2 DEF Reject, ReceiveCreate, ReceiveTransition, Replay, FailToAnnounce, Close
    <3>2. pc[t] # "remember" /\ pc'[t] \notin {"insert", "remember", "announce"}
      BY <1>0, <2>2 DEF Reject, ReceiveCreate, ReceiveTransition, Replay, FailToAnnounce, Close,
                        Goto, Answer, TypeOK
    <3>. QED BY <2>1, <3>1, <3>2, QuietKeepsSources
  <2>3. CASE CheckSource(t)
    <3>1. UNCHANGED <<idempotency, topic, heap, local>> /\ pc[t] = "check"
      BY <2>3 DEF CheckSource
    <3>2. /\ pc'[t] \in {"replay", "insert"}
          /\ pc'[t] = "insert" /\ local[t].source # None => idempotency[local[t].source] = None
      BY <1>0, <2>3 DEF CheckSource, Goto, TypeOK
    <3>. QED BY <2>1, <3>1, <3>2, QuietKeepsSources
  <2>4. CASE FetchRecord(t) \/ JudgeTransition(t)
    <3>1. UNCHANGED <<idempotency, topic, heap>>
      BY <2>4 DEF FetchRecord, JudgeTransition
    <3>2. pc[t] # "remember" /\ pc'[t] \notin {"insert", "remember", "announce"}
      BY <1>0, <2>4 DEF FetchRecord, JudgeTransition, Goto, Answer, TypeOK
    <3>. QED BY <2>1, <3>1, <3>2, QuietKeepsSources
  <2>5. CASE SetState(t) \/ AppendHistory(t)
    <3>1. UNCHANGED <<idempotency, topic>>
      BY <2>5 DEF SetState, AppendHistory
    <3>2. pc[t] # "remember" /\ pc'[t] \notin {"insert", "remember", "announce"}
      BY <1>0, <2>5 DEF SetState, AppendHistory, Goto, Answer, TypeOK
    <3>3. \A r \in Records : heap'[r].alert = heap[r].alert /\ heap'[r].source = heap[r].source
      BY <1>0, <2>5, TransitionKeepsIds
    <3>. QED BY <2>1, <3>1, <3>2, <3>3, QuietKeepsSources
  <2>. QED
    BY <1>2, <2>2, <2>3, <2>4, <2>5, InsertKeepsSources, RememberKeepsSources,
       AnnounceKeepsSources DEF Receive, Handle
<1>. QED BY <1>1, <1>2 DEF Next

\* If a handler held its source change from the look-up on line 224 to line 238, a source
\* change would be processed once however requests overlap, retry and come late: one alert
\* and one entry on alerts.incoming (P0-006).  What the code lacks for that is this lock.
THEOREM OnceUnderLock == Spec /\ []SourcesApart => []ProcessedOnce
<1>1. Init => SourceInv
  BY DEF Init, SourceInv, ProcessedOnce, OneAlertPerSource, OneEntryPerSource,
         RecordsRemembered, EntriesRemembered, SourceKnown, Allocated, Free, Deciding, Blank
<1>2. SourceInv => ProcessedOnce
  BY DEF SourceInv
<1>. QED BY <1>1, <1>2, StoreInvInit, StoreInvInductive, SourceStep, PTL DEF Spec

-----------------------------------------------------------------------------
(* What a lock per alert would give.                                       *)

\* The check of a transition and the two statements that carry it out (lines 256-261)
\* taken as one: no two handlers are between them with the same record.
Moving == {"set", "append"}
TransitionsApart ==
    \A t, u \in Threads :
        pc[t] \in Moving /\ pc[u] \in Moving /\ local[t].rec = local[u].rec => t = u

Stage(h) == IF h = <<>> THEN "initial" ELSE h[Len(h)]
Before(h, i) == IF i = 1 THEN "initial" ELSE h[i - 1]

\* Each stage of a history follows from the one before it.
InOrder(h) == \A i \in 1 .. Len(h) : h[i] \in ALERT_TRANSITIONS[Before(h, i)]

\* The histories are walks through the stages, and an alert is where its history ends,
\* unless a handler is about to write the last stage down.
HistoriesTellStages ==
    \A r \in Allocated :
        /\ InOrder(heap[r].history)
        /\ \/ heap[r].state = Stage(heap[r].history)
           \/ \E t \in Threads : pc[t] = "append" /\ local[t].rec = r

\* What a handler that was let through knows of its record.
MoveKnown(t) ==
    LET r == heap[local[t].rec] IN
    /\ pc[t] = "set" => local[t].target \in ALERT_TRANSITIONS[r.state] /\ r.state = Stage(r.history)
    /\ pc[t] = "append" => r.state = local[t].target
                           /\ local[t].target \in ALERT_TRANSITIONS[Stage(r.history)]

MoveInv == HistoriesTellStages /\ \A t \in Threads : MoveKnown(t)

\* Steps that move no alert, but may make one.
LEMMA QuietKeepsMoves ==
    ASSUME StoreInv, MoveInv, NEW t \in Threads,
           \A u \in Threads \ {t} : pc'[u] = pc[u] /\ local'[u] = local[u],
           pc[t] # "append", pc'[t] \notin Moving,
           \A r \in Allocated : heap'[r] = heap[r],
           \A r \in Allocated' \ Allocated : heap'[r].state = "initial" /\ heap'[r].history = <<>>
    PROVE  MoveInv'
<1>1. ASSUME NEW u \in Threads PROVE MoveKnown(u)'
  <2>1. CASE u = t
    BY <2>1 DEF MoveKnown, Moving
  <2>2. CASE u # t /\ pc[u] \in Moving
    <3>1. local[u].rec \in Allocated
      BY <2>2 DEF StoreInv, Moving
    <3>2. heap'[local'[u].rec] = heap[local[u].rec]
      BY <2>2, <3>1
    <3>. QED BY <2>2, <3>2 DEF MoveInv, MoveKnown
  <2>3. CASE u # t /\ pc[u] \notin Moving
    BY <2>3 DEF MoveKnown, Moving
  <2>. QED BY <2>1, <2>2, <2>3
<1>2. HistoriesTellStages'
  <2> SUFFICES ASSUME NEW r \in Allocated'
               PROVE  /\ InOrder(heap'[r].history)
                      /\ \/ heap'[r].state = Stage(heap'[r].history)
                         \/ \E u \in Threads : pc'[u] = "append" /\ local'[u].rec = r
    BY DEF HistoriesTellStages, InOrder
  <2>1. CASE r \in Allocated
    <3>1. heap'[r] = heap[r] /\ InOrder(heap[r].history)
      BY <2>1 DEF MoveInv, HistoriesTellStages
    <3>2. CASE heap[r].state = Stage(heap[r].history)
      BY <3>1, <3>2
    <3>3. CASE \E u \in Threads : pc[u] = "append" /\ local[u].rec = r
      <4>1. PICK u \in Threads : pc[u] = "append" /\ local[u].rec = r
        BY <3>3
      <4>2. u # t
        BY <4>1
      <4>. QED BY <3>1, <4>1, <4>2
    <3>. QED BY <2>1, <3>2, <3>3 DEF MoveInv, HistoriesTellStages
  <2>2. CASE r \notin Allocated
    BY <2>2 DEF InOrder, Stage
  <2>. QED BY <2>1, <2>2
<1>. QED BY <1>1, <1>2 DEF MoveInv

\* A handler that is let through finds its record where its history ends: nobody else is
\* moving it.
LEMMA JudgeKeepsMoves ==
    ASSUME StoreInv, MoveInv, TransitionsApart', NEW t \in Threads, JudgeTransition(t),
           pc'[t] = "set"
    PROVE  MoveInv'
<1> DEFINE r == local[t].rec
<1>0. /\ TypeOK /\ pc[t] = "judge" /\ r \in Allocated
      /\ UNCHANGED <<heap, local>> /\ Allocated' = Allocated
  BY DEF StoreInv, HandlerInv, JudgeTransition, Allocated
<1>1. \A u \in Threads \ {t} : pc'[u] = pc[u]
  BY <1>0 DEF JudgeTransition, Goto, Answer, TypeOK
<1>2. local[t].target \in ALERT_TRANSITIONS[heap[r].state]
  BY <1>0 DEF JudgeTransition, Answer, Goto, TypeOK
<1>3. heap[r].state = Stage(heap[r].history)
  <2> SUFFICES ASSUME NEW u \in Threads, pc[u] = "append", local[u].rec = r PROVE FALSE
    BY <1>0 DEF MoveInv, HistoriesTellStages
  <2>1. u # t
    BY <1>0
  <2>. QED BY <1>0, <1>1, <2>1 DEF TransitionsApart, Moving
<1>4. HistoriesTellStages'
  <2> SUFFICES ASSUME NEW q \in Allocated
               PROVE  /\ InOrder(heap[q].history)
                      /\ \/ heap[q].state = Stage(heap[q].history)
                         \/ \E u \in Threads : pc'[u] = "append" /\ local[u].rec = q
    BY <1>0 DEF HistoriesTellStages, InOrder
  <2>1. InOrder(heap[q].history)
    BY DEF MoveInv, HistoriesTellStages
  <2>2. CASE \E u \in Threads : pc[u] = "append" /\ local[u].rec = q
    BY <1>0, <1>1, <2>1, <2>2
  <2>. QED BY <2>1, <2>2 DEF MoveInv, HistoriesTellStages
<1>5. MoveKnown(t)'
  BY <1>0, <1>2, <1>3 DEF MoveKnown
<1>6. \A u \in Threads \ {t} : MoveKnown(u)'
  BY <1>0, <1>1 DEF MoveInv, MoveKnown
<1>. QED BY <1>4, <1>5, <1>6 DEF MoveInv

\* Setting the stage, and writing it down, touch one record, and only one handler holds it.
LEMMA MoveFrame ==
    ASSUME StoreInv, MoveInv, TransitionsApart, NEW t \in Threads, pc[t] \in Moving,
           UNCHANGED local, Allocated' = Allocated,
           \A u \in Threads \ {t} : pc'[u] = pc[u],
           \A q \in Allocated \ {local[t].rec} : heap'[q] = heap[q],
           MoveKnown(t)', InOrder(heap'[local[t].rec].history),
           \/ heap'[local[t].rec].state = Stage(heap'[local[t].rec].history)
           \/ pc'[t] = "append"
    PROVE  MoveInv'
<1> DEFINE r == local[t].rec
<1>1. ASSUME NEW u \in Threads \ {t} PROVE MoveKnown(u)'
  <2>1. CASE pc[u] \notin Moving
    BY <2>1 DEF MoveKnown, Moving
  <2>2. CASE pc[u] \in Moving
    <3>1. local[u].rec \in Allocated \ {r}
      BY <2>2 DEF StoreInv, TransitionsApart, Moving
    <3>2. heap'[local'[u].rec] = heap[local[u].rec]
      BY <3>1
    <3>. QED BY <3>2 DEF MoveInv, MoveKnown
  <2>. QED BY <2>1, <2>2
<1>2. ASSUME NEW q \in Allocated
      PROVE  /\ InOrder(heap'[q].history)
             /\ \/ heap'[q].state = Stage(heap'[q].history)
                \/ \E u \in Threads : pc'[u] = "append" /\ local'[u].rec = q
  <2>1. CASE q = r
    BY <2>1
  <2>2. CASE q # r
    <3>1. heap'[q] = heap[q] /\ InOrder(heap[q].history)
      BY <2>2 DEF MoveInv, HistoriesTellStages
    <3>2. CASE heap[q].state = Stage(heap[q].history)
      BY <3>1, <3>2
    <3>3. CASE \E u \in Threads : pc[u] = "append" /\ local[u].rec = q
      <4>1. PICK u \in Threads : pc[u] = "append" /\ local[u].rec = q
        BY <3>3
      <4>2. u # t
        BY <2>2, <4>1
      <4>. QED BY <3>1, <4>1, <4>2
    <3>. QED BY <3>2, <3>3 DEF MoveInv, HistoriesTellStages
  <2>. QED BY <2>1, <2>2
<1>3. HistoriesTellStages'
  BY <1>2 DEF HistoriesTellStages, InOrder
<1>. QED BY <1>1, <1>3 DEF MoveInv

LEMMA SetKeepsMoves ==
    ASSUME StoreInv, MoveInv, TransitionsApart, NEW t \in Threads, SetState(t)
    PROVE  MoveInv'
<1> DEFINE r == local[t].rec
<1>0. TypeOK /\ HandlerInv /\ pc[t] = "set" /\ r \in Allocated /\ r \in Records
  BY DEF StoreInv, HandlerInv, SetState, Allocated
<1>1. UNCHANGED local /\ pc'[t] = "append" /\ \A u \in Threads \ {t} : pc'[u] = pc[u]
  BY <1>0 DEF SetState, Goto, TypeOK
<1>2. Allocated' = Allocated
  BY <1>0, TransitionKeepsIds DEF Allocated
<1>3. /\ heap'[r].state = local[t].target /\ heap'[r].history = heap[r].history
      /\ \A q \in Allocated \ {r} : heap'[q] = heap[q]
  BY <1>0 DEF SetState, TypeOK, RecordContents, Allocated
<1>4. MoveKnown(t)
  BY DEF MoveInv
<1>5. MoveKnown(t)'
  BY <1>0, <1>1, <1>3, <1>4 DEF MoveKnown
<1>6. InOrder(heap'[r].history)
  BY <1>0, <1>3 DEF MoveInv, HistoriesTellStages
<1>. QED BY <1>0, <1>1, <1>2, <1>3, <1>5, <1>6, MoveFrame DEF Moving

\* The stage written down is one that the last one leads to.
LEMMA OrderGrows ==
    ASSUME NEW h \in Seq(AlertStates), NEW s \in AlertStates, InOrder(h),
           s \in ALERT_TRANSITIONS[Stage(h)]
    PROVE  InOrder(Append(h, s)) /\ Stage(Append(h, s)) = s
<1> DEFINE n == Len(h)
           g == Append(h, s)
<1>1. /\ n \in Nat /\ Len(g) = n + 1 /\ g[n + 1] = s
      /\ \A i \in 1 .. n : g[i] = h[i]
      /\ h = <<>> <=> n = 0
  OBVIOUS
<1>2. Stage(g) = s
  <2>1. g # <<>>
    BY <1>1
  <2> HIDE DEF g
  <2>. QED BY <1>1, <2>1 DEF Stage
<1>3. \A i \in 1 .. n : Before(g, i) = Before(h, i)
  BY <1>1 DEF Before
<1>4. Before(g, n + 1) = Stage(h)
  BY <1>1 DEF Before, Stage
<1> HIDE DEF n, g
<1>5. ASSUME NEW i \in 1 .. n + 1 PROVE g[i] \in ALERT_TRANSITIONS[Before(g, i)]
  <2>1. CASE i \in 1 .. n
    BY <1>1, <1>3, <2>1 DEF InOrder, n
  <2>2. CASE i = n + 1
    BY <1>1, <1>4, <2>2
  <2>. QED BY <1>1, <2>1, <2>2
<1>. QED BY <1>1, <1>2, <1>5 DEF InOrder, g

LEMMA AppendKeepsMoves ==
    ASSUME StoreInv, MoveInv, TransitionsApart, NEW t \in Threads, AppendHistory(t)
    PROVE  MoveInv'
<1> DEFINE r == local[t].rec
           target == local[t].target
<1>0. TypeOK /\ HandlerInv /\ pc[t] = "append" /\ r \in Allocated /\ r \in Records
  BY DEF StoreInv, HandlerInv, AppendHistory, Allocated
<1>1. UNCHANGED local /\ pc'[t] = "done" /\ \A u \in Threads \ {t} : pc'[u] = pc[u]
  BY <1>0 DEF AppendHistory, Answer, Goto, TypeOK
<1>2. Allocated' = Allocated
  BY <1>0, TransitionKeepsIds DEF Allocated
<1>3. /\ heap'[r].state = heap[r].state /\ heap'[r].history = Append(heap[r].history, target)
      /\ \A q \in Allocated \ {r} : heap'[q] = heap[q]
  BY <1>0 DEF AppendHistory, TypeOK, RecordContents, Allocated
<1>4. heap[r].history \in Seq(AlertStates) /\ target \in AlertStates
  BY <1>0 DEF StoreInv, HandlerInv, TypeOK, RecordContents, Locals
<1>5. heap[r].state = target /\ target \in ALERT_TRANSITIONS[Stage(heap[r].history)]
  BY <1>0 DEF MoveInv, MoveKnown
<1>6. InOrder(heap[r].history)
  BY <1>0 DEF MoveInv, HistoriesTellStages
<1>7. InOrder(heap'[r].history) /\ heap'[r].state = Stage(heap'[r].history)
  BY <1>3, <1>4, <1>5, <1>6, OrderGrows
<1>8. MoveKnown(t)'
  BY <1>1 DEF MoveKnown
<1>. QED BY <1>0, <1>1, <1>2, <1>3, <1>7, <1>8, MoveFrame DEF Moving

LEMMA MoveStep ==
    ASSUME StoreInv, MoveInv, TransitionsApart, TransitionsApart', [Next]_vars
    PROVE  MoveInv'
<1>0. TypeOK
  BY DEF StoreInv, HandlerInv
<1>1. CASE UNCHANGED vars
  BY <1>1 DEF vars, MoveInv, HistoriesTellStages, MoveKnown, InOrder, Allocated
<1>2. ASSUME NEW t \in Threads, Receive(t) \/ Handle(t) PROVE MoveInv'
  <2>1. \A u \in Threads \ {t} : pc'[u] = pc[u] /\ local'[u] = local[u]
    BY <1>0, <1>2, OneMoves
  <2>2. CASE Reject(t) \/ ReceiveCreate(t) \/ ReceiveTransition(t) \/ Close(t)
    <3>1. UNCHANGED heap /\ Allocated' = Allocated
      BY <2>2 DEF Reject, ReceiveCreate, ReceiveTransition, Close, Allocated
    <3>2. /\ pc[t] # "append"
          /\ \E label \in {"done", "check", "fetch", "idle"} : pc' = [pc EXCEPT ![t] = label]
      BY <2>2 DEF Reject, ReceiveCreate, ReceiveTransition, Close, Goto, Answer
    <3>3. pc'[t] \notin Moving
      BY <1>0, <3>2 DEF TypeOK, Moving
    <3>. QED BY <2>1, <3>1, <3>2, <3>3, QuietKeepsMoves
  <2>3. CASE CheckSource(t) \/ Replay(t) \/ RememberSource(t) \/ Announce(t) \/ FailToAnnounce(t)
             \/ FetchRecord(t)
    <3>1. UNCHANGED heap /\ Allocated' = Allocated
      BY <2>3 DEF CheckSource, Replay, RememberSource, Announce, FailToAnnounce, FetchRecord, Allocated
    <3>2. pc[t] # "append" /\ pc'[t] \notin Moving
      BY <1>0, <2>3 DEF CheckSource, Replay, RememberSource, Announce, FailToAnnounce, FetchRecord,
                        Goto, Answer, TypeOK, Moving
    <3>. QED BY <2>1, <3>1, <3>2, QuietKeepsMoves
  <2>4. CASE InsertAlert(t)
    <3>1. PICK r \in Records \ Allocated : heap' = [heap EXCEPT ![r] = NewRecord(t)]
      BY <2>4, Zenon DEF InsertAlert
    <3>2. heap'[r] = NewRecord(t) /\ \A q \in Records \ {r} : heap'[q] = heap[q]
      BY <1>0, <3>1 DEF TypeOK
    <3>3. heap'[r].state = "initial" /\ heap'[r].history = <<>>
      BY <3>2 DEF NewRecord
    <3>4. /\ \A q \in Allocated : heap'[q] = heap[q]
          /\ \A q \in Allocated' \ Allocated : q = r
      BY <3>1, <3>2 DEF Allocated
    <3>5. pc[t] # "append" /\ pc'[t] \notin Moving
      BY <1>0, <2>4 DEF InsertAlert, Goto, TypeOK, Moving
    <3>. QED BY <2>1, <3>3, <3>4, <3>5, QuietKeepsMoves
  <2>5. CASE JudgeTransition(t)
    <3>1. /\ UNCHANGED heap /\ Allocated' = Allocated
          /\ pc[t] # "append" /\ pc'[t] \in {"done", "set"}
      BY <1>0, <2>5 DEF JudgeTransition, Goto, Answer, TypeOK, Allocated
    <3>2. CASE pc'[t] = "set"
      BY <2>5, <3>2, JudgeKeepsMoves
    <3>3. CASE pc'[t] = "done"
      <4>1. pc'[t] \notin Moving
        BY <3>3 DEF Moving
      <4>. QED BY <2>1, <3>1, <4>1, QuietKeepsMoves
    <3>. QED BY <3>1, <3>2, <3>3
  <2>. QED
    BY <1>2, <2>2, <2>3, <2>4, <2>5, SetKeepsMoves, AppendKeepsMoves DEF Receive, Handle
<1>. QED BY <1>1, <1>2 DEF Next

\* If a handler held its record from line 256 to line 261, the history of an
\* alert would be the walk through the stages that it has taken, and its stage the end of
\* it, however requests overlap (P0-005).  What the code lacks for that is this lock.
THEOREM HistoryUnderLock == Spec /\ []TransitionsApart => []HistoriesTellStages
<1>1. Init => MoveInv
  BY DEF Init, MoveInv, HistoriesTellStages, MoveKnown, Allocated, Free
<1>2. MoveInv => HistoriesTellStages
  BY DEF MoveInv
<1>. QED BY <1>1, <1>2, StoreInvInit, StoreInvInductive, MoveStep, PTL DEF Spec

-----------------------------------------------------------------------------
(* The other two routes of the same server, telemetry batches and lag      *)
(* (EdgeBackpressure), whose handlers have places and locals of their own. *)

\* A reply with a natural exponent, and the locals of an idle slot, are typed.
LEMMA AnswerTyped ==
    ASSUME NumbersTypeOK, NEW t \in Senders, NEW d \in Counts \cup {0, 1}, NEW e \in Nat,
           Respond(t, d, e)
    PROVE  /\ place' \in [Senders -> Places]
           /\ answer' \in [Senders -> Replies]
           /\ held' \in [Senders -> Holdings]
<1>1. [dropped |-> d, exponent |-> e] \in Replies
  BY DEF Replies
<1>2. AtRest \in Holdings
  BY DEF AtRest, Request, Holdings
<1>. QED BY <1>1, <1>2 DEF NumbersTypeOK, Respond, Proceed, Places

\* The numbers a handler holds.
LEMMA LocalNumbers ==
    ASSUME NumbersTypeOK, NEW t \in Senders
    PROVE  /\ held[t] \in Holdings
           /\ held[t].value \in Nat
           /\ held[t].count \in Counts \cup {0, 1}
           /\ held[t].count \in Nat
           /\ held[t].lag \in Lags \cup {0}
<1>1. held[t] \in Holdings
  BY DEF NumbersTypeOK
<1>2. /\ held[t].value \in Nat
      /\ held[t].count \in Counts \cup {0, 1}
      /\ held[t].lag \in Lags \cup {0}
  BY <1>1 DEF Holdings
<1>3. \A c \in Counts \cup {0, 1} : c \in Nat
  BY BackpressureConstants
<1>. QED BY <1>1, <1>2, <1>3

\* A handler that reads a number keeps it, and no other handler's locals change.
LEMMA ValueIsRead ==
    ASSUME NumbersTypeOK, NEW t \in Senders, NEW v \in Nat,
           held' = [held EXCEPT ![t].value = v]
    PROVE  /\ held' \in [Senders -> Holdings]
           /\ held'[t].value = v
           /\ \A u \in Senders \ {t} : held'[u] = held[u]
<1>1. held[t] \in Holdings /\ held \in [Senders -> Holdings]
  BY DEF NumbersTypeOK
<1>2. PICK l : l = [held[t] EXCEPT !.value = v]
  OBVIOUS
<1>3. l \in Holdings /\ l.value = v
  BY <1>1, <1>2 DEF Holdings
<1>4. held' = [held EXCEPT ![t] = l]
  BY <1>2
<1>. QED BY <1>1, <1>3, <1>4

\* Type correctness: the numbers stay natural, and a handler holds values of the
\* kinds its next statement uses.
THEOREM NumbersTypeCorrect ==
    LagSpec => []NumbersTypeOK
<1> USE BackpressureConstants DEF NumbersTypeOK
<1>1. LagInit => NumbersTypeOK
  <2>1. AtRest \in Holdings /\ Silence \in Replies
    BY DEF AtRest, Request, Holdings, Silence, Replies
  <2>. QED BY <2>1 DEF LagInit, Places
<1>2. NumbersTypeOK /\ [LagNext]_lagVars => NumbersTypeOK'
  <2> SUFFICES ASSUME NumbersTypeOK, [LagNext]_lagVars PROVE NumbersTypeOK'
    OBVIOUS
  <2> USE DEF Proceed, server, history
  <2>1. CASE UNCHANGED lagVars
    BY <2>1 DEF lagVars
  <2>2. ASSUME NEW t \in Senders, ReceiveBatch(t) PROVE NumbersTypeOK'
    <3>1. PICK c \in Counts : held' = [held EXCEPT ![t] = Request("batch", c, 0)]
      BY <2>2 DEF ReceiveBatch
    <3>2. Request("batch", c, 0) \in Holdings
      BY DEF Request, Holdings
    <3>. QED BY <2>2, <3>1, <3>2 DEF ReceiveBatch, Places
  <2>3. ASSUME NEW t \in Senders, ReceiveLag(t) PROVE NumbersTypeOK'
    <3>1. PICK l \in Lags : held' = [held EXCEPT ![t] = Request("lag", 1, l)]
      BY <2>3 DEF ReceiveLag
    <3>2. Request("lag", 1, l) \in Holdings
      BY DEF Request, Holdings
    <3>. QED BY <2>3, <3>1, <3>2 DEF ReceiveLag, Places
  <2>4. ASSUME NEW t \in Senders, Refuse(t) PROVE NumbersTypeOK'
    BY <2>4, AnswerTyped DEF Refuse
  <2>5. ASSUME NEW t \in Senders, Release(t) PROVE NumbersTypeOK'
    <3>1. Silence \in Replies
      BY DEF Silence, Replies
    <3>. QED BY <2>5, <3>1 DEF Release, Places
  <2>6. ASSUME NEW t \in Senders, ReadLag(t) PROVE NumbersTypeOK'
    <3>1. lag_ms \in Nat
      OBVIOUS
    <3>2. place' \in [Senders -> Places]
      BY <2>6, <3>1 DEF ReadLag, Places, DROP_BUDGET_MS, BACKPRESSURE_THRESHOLD_MS
    <3>. QED BY <2>6, <3>2 DEF ReadLag
  <2>7. ASSUME NEW t \in Senders, ReadTotal(t) PROVE NumbersTypeOK'
    <3>1. held' \in [Senders -> Holdings]
      BY <2>7, ValueIsRead DEF ReadTotal
    <3>. QED BY <2>7, <3>1 DEF ReadTotal, Places
  <2>8. ASSUME NEW t \in Senders, ReadCount(t) PROVE NumbersTypeOK'
    <3>1. held' \in [Senders -> Holdings]
      BY <2>8, ValueIsRead DEF ReadCount
    <3>. QED BY <2>8, <3>1 DEF ReadCount, Places
  <2>9. ASSUME NEW t \in Senders, StoreTotal(t) PROVE NumbersTypeOK'
    <3>1. held[t].value \in Nat /\ held[t].count \in Nat
      BY LocalNumbers
    <3>2. held[t].count \in Counts \cup {0, 1} /\ DROP_EXPONENT \in Nat
      BY LocalNumbers DEF DROP_EXPONENT
    <3>3. /\ place' \in [Senders -> Places]
          /\ answer' \in [Senders -> Replies]
          /\ held' \in [Senders -> Holdings]
      BY <2>9, <3>2, AnswerTyped DEF StoreTotal
    <3>. QED BY <2>9, <3>1, <3>3 DEF StoreTotal, Race
  <2>10. ASSUME NEW t \in Senders, StoreCount(t) PROVE NumbersTypeOK'
    <3>1. held[t].value \in Nat
      BY LocalNumbers
    <3>. QED BY <2>10, <3>1 DEF StoreCount, Race, Places
  <2>11. ASSUME NEW t \in Senders, Delay(t) PROVE NumbersTypeOK'
    BY <2>11, AnswerTyped DEF Delay
  <2>14. ASSUME NEW t \in Senders, Reset(t) PROVE NumbersTypeOK'
    <3>1. /\ place' \in [Senders -> Places]
          /\ answer' \in [Senders -> Replies]
          /\ held' \in [Senders -> Holdings]
      BY <2>14, AnswerTyped DEF Reset
    <3>. QED BY <2>14, <3>1 DEF Reset, Race
  <2>12. ASSUME NEW t \in Senders, SetLag(t) PROVE NumbersTypeOK'
    <3>1. held[t].lag \in Lags \cup {0}
      BY LocalNumbers
    <3>. QED BY <2>12, <3>1 DEF SetLag, Places
  <2>13. ASSUME NEW t \in Senders, CheckLag(t) PROVE NumbersTypeOK'
    <3>1. CASE lag_ms >= DROP_BUDGET_MS
      BY <2>13, <3>1 DEF CheckLag, Places
    <3>2. CASE ~(lag_ms >= DROP_BUDGET_MS)
      BY <2>13, <3>2, AnswerTyped DEF CheckLag
    <3>. QED BY <3>1, <3>2
  <2>. QED BY <2>1, <2>2, <2>3, <2>4, <2>5, <2>6, <2>7, <2>8, <2>9, <2>10, <2>11,
           <2>12, <2>13, <2>14
           DEF LagNext, Serve
<1>. QED BY <1>1, <1>2, PTL DEF LagSpec

-----------------------------------------------------------------------------
(* The metric.                                                             *)

\* What handlers have added to the metric: the messages of dropped batches, and one for
\* each report of a lag over the budget.
Counted == dropped + reports

\* A write to the metric adds what it is meant to add to one of the two.
LEMMA StoreAdds ==
    ASSUME NumbersTypeOK, NEW t \in Senders, StoreTotal(t)
    PROVE  Counted' = Counted + held[t].count
<1>1. held[t].count \in Nat /\ dropped \in Nat /\ reports \in Nat
  BY LocalNumbers DEF NumbersTypeOK
<1>. QED BY <1>1 DEF StoreTotal, Counted

\* A value read from the metric was covered by what had been added before, so the
\* write that follows is covered by what it adds in addition.
TotalInv ==
    /\ dropped_total <= Counted
    /\ \A t \in Senders : place[t] = "storetotal" => held[t].value <= Counted

\* Whatever additions are lost between the read and the write of dropped_total (lines
\* 160 and 182), the metric, which says of itself that it counts messages dropped (line
\* 187), exceeds their number by at most the number of lags over the budget that were
\* reported: no race makes it show a drop that no handler counted.
THEOREM OverstatedByReports ==
    LagSpec => [](dropped_total <= dropped + reports)
<1> USE DEF TotalInv, Counted
<1>1. LagInit => TotalInv
  BY DEF LagInit
<1>2. NumbersTypeOK /\ TotalInv /\ [LagNext]_lagVars => TotalInv'
  <2> SUFFICES ASSUME NumbersTypeOK, TotalInv, [LagNext]_lagVars PROVE TotalInv'
    OBVIOUS
  <2> USE BackpressureConstants
      DEF NumbersTypeOK, Proceed, Respond, server, history
  <2>1. CASE UNCHANGED lagVars
    BY <2>1 DEF lagVars
  <2>2. ASSUME NEW t \in Senders, ReceiveBatch(t) \/ ReceiveLag(t) PROVE TotalInv'
    BY <2>2 DEF ReceiveBatch, ReceiveLag
  <2>3. ASSUME NEW t \in Senders, Refuse(t) \/ Release(t) \/ ReadLag(t) PROVE TotalInv'
    BY <2>3 DEF Refuse, Release, ReadLag,
               DROP_BUDGET_MS, BACKPRESSURE_THRESHOLD_MS
  <2>4. ASSUME NEW t \in Senders, ReadTotal(t) \/ ReadCount(t) PROVE TotalInv'
    <3>1. CASE ReadTotal(t)
      <4>1. held'[t].value = dropped_total /\ \A u \in Senders \ {t} : held'[u] = held[u]
        BY <3>1, ValueIsRead DEF ReadTotal
      <4>. QED BY <3>1, <4>1 DEF ReadTotal
    <3>2. CASE ReadCount(t)
      <4>1. held'[t].value = backoff_count /\ \A u \in Senders \ {t} : held'[u] = held[u]
        BY <3>2, ValueIsRead DEF ReadCount
      <4>. QED BY <3>2, <4>1 DEF ReadCount
    <3>. QED BY <2>4, <3>1, <3>2
  <2>5. ASSUME NEW t \in Senders, StoreTotal(t) PROVE TotalInv'
    <3>1. held[t].value \in Nat /\ held[t].count \in Nat /\ place[t] = "storetotal"
      BY <2>5, LocalNumbers DEF StoreTotal
    <3>2. held[t].value <= Counted
      BY <3>1
    <3>3. dropped_total' = held[t].value + held[t].count /\ Counted' = Counted + held[t].count
      BY <2>5, StoreAdds DEF StoreTotal
    <3>4. dropped_total' <= Counted' /\ Counted <= Counted' /\ Counted' \in Nat
      BY <3>1, <3>2, <3>3
    <3>5. ASSUME NEW u \in Senders, place'[u] = "storetotal" PROVE held'[u].value <= Counted'
      <4>1. u # t /\ place[u] = "storetotal" /\ held'[u] = held[u]
        BY <2>5, <3>5 DEF StoreTotal
      <4>2. held[u].value \in Nat /\ held[u].value <= Counted
        BY <4>1, LocalNumbers
      <4>. QED BY <3>4, <4>1, <4>2
    <3>. QED BY <3>4, <3>5
  <2>6. ASSUME NEW t \in Senders, StoreCount(t) \/ Delay(t) \/ Reset(t) PROVE TotalInv'
    BY <2>6 DEF StoreCount, Delay, Reset
  <2>7. ASSUME NEW t \in Senders, SetLag(t) \/ CheckLag(t) PROVE TotalInv'
    BY <2>7 DEF SetLag, CheckLag
  <2>. QED BY <2>1, <2>2, <2>3, <2>4, <2>5, <2>6, <2>7 DEF LagNext, Serve
<1>3. TotalInv => dropped_total <= dropped + reports
  OBVIOUS
<1>. QED BY <1>1, <1>2, <1>3, NumbersTypeCorrect, PTL DEF LagSpec

-----------------------------------------------------------------------------
(* The delay.                                                              *)

\* The same argument for backoff_count: a read value is covered by the batches
\* throttled so far, and the write adds one batch to them.
DelayInv ==
    /\ DelayBounded
    /\ \A t \in Senders : place[t] = "storecount" => held[t].value <= throttled

\* However throttled batches and resets race, no delay is doubled without a batch
\* that was told to wait.
THEOREM DelaysAreEarned ==
    LagSpec => []DelayBounded
<1> USE DEF DelayInv, DelayBounded
<1>1. LagInit => DelayInv
  BY DEF LagInit, Silence
<1>2. NumbersTypeOK /\ DelayInv /\ [LagNext]_lagVars => DelayInv'
  <2> SUFFICES ASSUME NumbersTypeOK, DelayInv, [LagNext]_lagVars PROVE DelayInv'
    OBVIOUS
  <2> USE BackpressureConstants
      DEF NumbersTypeOK, Proceed, Respond, server, history, Silence
  <2>1. CASE UNCHANGED lagVars
    BY <2>1 DEF lagVars
  <2>2. ASSUME NEW t \in Senders, ReceiveBatch(t) \/ ReceiveLag(t) PROVE DelayInv'
    BY <2>2 DEF ReceiveBatch, ReceiveLag
  <2>3. ASSUME NEW t \in Senders, Refuse(t) \/ Release(t) \/ ReadLag(t) PROVE DelayInv'
    BY <2>3 DEF Refuse, Release, ReadLag,
               DROP_BUDGET_MS, BACKPRESSURE_THRESHOLD_MS
  <2>4. ASSUME NEW t \in Senders, ReadTotal(t) \/ ReadCount(t) PROVE DelayInv'
    <3>1. CASE ReadTotal(t)
      <4>1. held'[t].value = dropped_total /\ \A u \in Senders \ {t} : held'[u] = held[u]
        BY <3>1, ValueIsRead DEF ReadTotal
      <4>. QED BY <3>1, <4>1 DEF ReadTotal
    <3>2. CASE ReadCount(t)
      <4>1. held'[t].value = backoff_count /\ \A u \in Senders \ {t} : held'[u] = held[u]
        BY <3>2, ValueIsRead DEF ReadCount
      <4>. QED BY <3>2, <4>1 DEF ReadCount
    <3>. QED BY <2>4, <3>1, <3>2
  <2>5. ASSUME NEW t \in Senders, StoreTotal(t) PROVE DelayInv'
    BY <2>5 DEF StoreTotal
  <2>6. ASSUME NEW t \in Senders, StoreCount(t) PROVE DelayInv'
    <3>1. held[t].value \in Nat /\ held[t].value <= throttled
      BY <2>6, LocalNumbers DEF StoreCount
    <3>2. backoff_count' = held[t].value + 1 /\ throttled' = throttled + 1
      BY <2>6 DEF StoreCount
    <3>3. backoff_count' <= throttled' /\ throttled <= throttled' /\ throttled' \in Nat
      BY <3>1, <3>2
    <3>4. ASSUME NEW u \in Senders
          PROVE  answer'[u].exponent <= throttled' \/ answer'[u].exponent = DROP_EXPONENT
      <4>1. answer'[u] = answer[u] /\ answer[u] \in Replies
        BY <2>6 DEF StoreCount
      <4>2. answer[u].exponent \in Nat
        BY <4>1 DEF Replies
      <4>. QED BY <3>3, <4>1, <4>2
    <3>5. ASSUME NEW u \in Senders, place'[u] = "storecount" PROVE held'[u].value <= throttled'
      <4>1. held'[u] = held[u] /\ place[u] = "storecount"
        BY <2>6, <3>5 DEF StoreCount
      <4>2. held[u].value \in Nat
        BY LocalNumbers
      <4>. QED BY <3>3, <4>1, <4>2
    <3>. QED BY <3>3, <3>4, <3>5
  <2>7. ASSUME NEW t \in Senders, Delay(t) \/ Reset(t) PROVE DelayInv'
    BY <2>7 DEF Delay, Reset
  <2>8. ASSUME NEW t \in Senders, SetLag(t) \/ CheckLag(t) PROVE DelayInv'
    BY <2>8 DEF SetLag, CheckLag
  <2>. QED BY <2>1, <2>2, <2>3, <2>4, <2>5, <2>6, <2>7, <2>8 DEF LagNext, Serve
<1>3. DelayInv => DelayBounded
  OBVIOUS
<1>. QED BY <1>1, <1>2, <1>3, NumbersTypeCorrect, PTL DEF LagSpec

-----------------------------------------------------------------------------
(* Requests that do not touch a number between a read and a write of it.   *)

\* Until the first race, a handler in the middle of an assignment has read the
\* value that is exact.
ExactInv ==
    /\ "dropped_total" \notin raced =>
          /\ dropped_total = Counted
          /\ \A t \in Senders : place[t] = "storetotal" => held[t].value = Counted
    /\ "backoff_count" \notin raced =>
          /\ backoff_count = streak
          /\ \A t \in Senders : place[t] = "storecount" => held[t].value = streak

\* Without a race the metric is the sum of the additions and the exponent is the
\* number of batches throttled since the last reset.
THEOREM ExactWithoutRaces ==
    LagSpec => []ExactUnlessRaced
<1> USE DEF ExactInv, Counted
<1>1. LagInit => ExactInv
  BY DEF LagInit
<1>2. NumbersTypeOK /\ ExactInv /\ [LagNext]_lagVars => ExactInv'
  <2> SUFFICES ASSUME NumbersTypeOK, ExactInv, [LagNext]_lagVars PROVE ExactInv'
    OBVIOUS
  <2> USE BackpressureConstants
      DEF NumbersTypeOK, Proceed, Respond, server, history
  <2>1. CASE UNCHANGED lagVars
    BY <2>1 DEF lagVars
  <2>2. ASSUME NEW t \in Senders, ReceiveBatch(t) \/ ReceiveLag(t) PROVE ExactInv'
    BY <2>2 DEF ReceiveBatch, ReceiveLag
  <2>3. ASSUME NEW t \in Senders, Refuse(t) \/ Release(t) \/ ReadLag(t) PROVE ExactInv'
    BY <2>3 DEF Refuse, Release, ReadLag,
               DROP_BUDGET_MS, BACKPRESSURE_THRESHOLD_MS
  <2>4. ASSUME NEW t \in Senders, ReadTotal(t) \/ ReadCount(t) PROVE ExactInv'
    <3>1. CASE ReadTotal(t)
      <4>1. held'[t].value = dropped_total /\ \A u \in Senders \ {t} : held'[u] = held[u]
        BY <3>1, ValueIsRead DEF ReadTotal
      <4>. QED BY <3>1, <4>1 DEF ReadTotal
    <3>2. CASE ReadCount(t)
      <4>1. held'[t].value = backoff_count /\ \A u \in Senders \ {t} : held'[u] = held[u]
        BY <3>2, ValueIsRead DEF ReadCount
      <4>. QED BY <3>2, <4>1 DEF ReadCount
    <3>. QED BY <2>4, <3>1, <3>2
  <2>5. ASSUME NEW t \in Senders, StoreTotal(t) PROVE ExactInv'
    <3>1. "dropped_total" \notin raced' =>
              /\ "dropped_total" \notin raced
              /\ \A u \in Senders \ {t} : place[u] # "storetotal"
      BY <2>5 DEF StoreTotal, Race, Overtaken
    <3>2. "backoff_count" \notin raced' => "backoff_count" \notin raced
      BY <2>5 DEF StoreTotal, Race
    <3>3. \A u \in Senders : place'[u] = "storetotal" => u # t /\ place[u] = "storetotal"
      BY <2>5 DEF StoreTotal
    <3>4. \A u \in Senders : place'[u] = "storecount" => u # t /\ place[u] = "storecount"
      BY <2>5 DEF StoreTotal
    <3>5. \A u \in Senders \ {t} : held'[u] = held[u]
      BY <2>5 DEF StoreTotal
    <3>6. dropped_total' = held[t].value + held[t].count /\ Counted' = Counted + held[t].count
      BY <2>5, StoreAdds DEF StoreTotal
    <3>7. UNCHANGED <<backoff_count, streak>> /\ place[t] = "storetotal"
      BY <2>5 DEF StoreTotal
    <3> HIDE DEF Counted
    <3>. QED BY <3>1, <3>2, <3>3, <3>4, <3>5, <3>6, <3>7
  <2>6. ASSUME NEW t \in Senders, StoreCount(t) \/ Reset(t) PROVE ExactInv'
    <3>1. "backoff_count" \notin raced' =>
              /\ "backoff_count" \notin raced
              /\ \A u \in Senders \ {t} : place[u] # "storecount"
      BY <2>6 DEF StoreCount, Reset, Race, Overtaken
    <3>2. "dropped_total" \notin raced' => "dropped_total" \notin raced
      BY <2>6 DEF StoreCount, Reset, Race
    <3>3. \A u \in Senders : place'[u] = "storecount" => u # t /\ place[u] = "storecount"
      BY <2>6 DEF StoreCount, Reset
    <3>4. \A u \in Senders : place'[u] = "storetotal" => u # t /\ place[u] = "storetotal"
      BY <2>6 DEF StoreCount, Reset
    <3>5. \A u \in Senders \ {t} : held'[u] = held[u]
      BY <2>6 DEF StoreCount, Reset
    <3>. QED BY <2>6, <3>1, <3>2, <3>3, <3>4, <3>5 DEF StoreCount, Reset
  <2>7. ASSUME NEW t \in Senders, Delay(t) PROVE ExactInv'
    BY <2>7 DEF Delay
  <2>8. ASSUME NEW t \in Senders, SetLag(t) \/ CheckLag(t) PROVE ExactInv'
    BY <2>8 DEF SetLag, CheckLag
  <2>. QED BY <2>1, <2>2, <2>3, <2>4, <2>5, <2>6, <2>7, <2>8 DEF LagNext, Serve
<1>3. ExactInv => ExactUnlessRaced
  BY DEF ExactUnlessRaced
<1>. QED BY <1>1, <1>2, <1>3, NumbersTypeCorrect, PTL DEF LagSpec
===============================================================================
