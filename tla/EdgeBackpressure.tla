--------------------------- MODULE EdgeBackpressure ----------------------------
(***************************************************************************)
(* The telemetry batch and lag control routes of                           *)
(* scripts/services/events-ingest.py: depending on the consumer lag a      *)
(* batch is accepted, accepted with a delay that doubles from one batch to *)
(* the next, or dropped and counted in ingestion_dropped_total.            *)
(*                                                                         *)
(* Every request is a thread of its own.  The three numbers are attributes *)
(* of the server that no lock protects, and an augmented assignment reads  *)
(* the attribute in one step and writes it in another.                     *)
(*                                                                         *)
(* Abstracted: a delay is its exponent (200 ms * 2^exponent); the messages *)
(* of a batch are their number.                                            *)
(***************************************************************************)
EXTENDS Naturals, FiniteSets

CONSTANTS
    Senders,       \* slots of concurrently running handlers
    Counts,        \* numbers of messages a batch may have
    Lags,          \* lags in milliseconds that the control route may be sent
    MaxDropped,    \* bound on the messages counted as dropped
    MaxThrottled   \* bound on the batches that are told to wait

ASSUME BackpressureConstants ==
    /\ Counts \subseteq Nat
    /\ Lags \subseteq Nat
    /\ MaxDropped \in Nat
    /\ MaxThrottled \in Nat

BACKPRESSURE_THRESHOLD_MS == 50000
DROP_BUDGET_MS == 200000
DROP_EXPONENT == 12

VARIABLES
    lag_ms,         \* server.lag_ms
    backoff_count,  \* server.backoff_count
    dropped_total,  \* server.dropped_total, the metric
    place,          \* where the handler in a slot stands
    held,           \* its messages or lag, and the value it has read
    answer,         \* the reply it has sent
    dropped,        \* history: the messages of the batches that were dropped
    reports,        \* history: the lags over the budget that were counted
    throttled,      \* history: batches that were told to wait
    streak,         \* history: those since backoff_count was last set to 0
    raced           \* history: attributes touched between a read and its write

lagVars == <<lag_ms, backoff_count, dropped_total, place, held, answer,
             dropped, reports, throttled, streak, raced>>
server == <<lag_ms, backoff_count, dropped_total>>
history == <<dropped, reports, throttled, streak, raced>>

Places == {"idle", "readlag", "readtotal", "storetotal", "readcount", "storecount",
           "delay", "reset", "setlag", "checklag", "done"}
Silence == [dropped |-> 0, exponent |-> 0]
Replies == [dropped : Counts \cup {0, 1}, exponent : Nat]

Holdings == [route : {"none", "batch", "lag"}, count : Counts \cup {0, 1},
           lag : Lags \cup {0}, value : Nat]
Request(route, count, lag) == [route |-> route, count |-> count, lag |-> lag, value |-> 0]
AtRest == Request("none", 0, 0)

LagInit ==
    /\ lag_ms = 0
    /\ backoff_count = 0
    /\ dropped_total = 0
    /\ place = [t \in Senders |-> "idle"]
    /\ held = [t \in Senders |-> AtRest]
    /\ answer = [t \in Senders |-> Silence]
    /\ dropped = 0 /\ reports = 0 /\ throttled = 0 /\ streak = 0 /\ raced = {}

Proceed(t, label) == place' = [place EXCEPT ![t] = label]
Respond(t, messages, exponent) ==
    /\ Proceed(t, "done")
    /\ answer' = [answer EXCEPT ![t] = [dropped |-> messages, exponent |-> exponent]]
    /\ held' = [held EXCEPT ![t] = AtRest]

\* Another handler has read the attribute and not yet written it.
Overtaken(t, label) == \E u \in Senders \ {t} : place[u] = label
Race(t, attribute, label) ==
    raced' = raced \cup (IF Overtaken(t, label) THEN {attribute} ELSE {})

-----------------------------------------------------------------------------
(* Requests.                                                               *)

\* Bounds: whatever the handlers under way are going to count still fits.
Room ==
    /\ \A c \in Counts \cup {1} : dropped + reports + c * Cardinality(Senders) <= MaxDropped
    /\ throttled + Cardinality(Senders) <= MaxThrottled

ReceiveBatch(t) ==
    /\ place[t] = "idle" /\ Room
    /\ \E c \in Counts : held' = [held EXCEPT ![t] = Request("batch", c, 0)]
    /\ Proceed(t, "readlag")
    /\ UNCHANGED <<server, answer, history>>

ReceiveLag(t) ==
    /\ place[t] = "idle" /\ Room
    /\ \E l \in Lags : held' = [held EXCEPT ![t] = Request("lag", 1, l)]
    /\ Proceed(t, "setlag")
    /\ UNCHANGED <<server, answer, history>>

\* No credentials, or not JSON: answered 401 or 400 before anything is read.
Refuse(t) ==
    /\ place[t] = "idle"
    /\ Respond(t, 0, 0)
    /\ UNCHANGED <<server, history>>

\* The slot is free for the next request.
Release(t) ==
    /\ place[t] = "done"
    /\ Proceed(t, "idle")
    /\ answer' = [answer EXCEPT ![t] = Silence]
    /\ UNCHANGED <<server, held, history>>

-----------------------------------------------------------------------------
(* _telemetry_batch and _control_lag                                       *)

ReadLag(t) ==
    /\ place[t] = "readlag"
    /\ Proceed(t, CASE lag_ms >= DROP_BUDGET_MS -> "readtotal"
                 [] lag_ms < DROP_BUDGET_MS /\ lag_ms >= BACKPRESSURE_THRESHOLD_MS -> "readcount"
                 [] lag_ms < BACKPRESSURE_THRESHOLD_MS -> "reset")
    /\ UNCHANGED <<server, held, answer, history>>

\* dropped_total += count, of a batch; dropped_total += 1, of a lag
ReadTotal(t) ==
    /\ place[t] = "readtotal"
    /\ held' = [held EXCEPT ![t].value = dropped_total]
    /\ Proceed(t, "storetotal")
    /\ UNCHANGED <<server, answer, history>>

StoreTotal(t) ==
    /\ place[t] = "storetotal"
    /\ dropped_total' = held[t].value + held[t].count
    /\ Race(t, "dropped_total", "storetotal")
    /\ \/ /\ held[t].route = "batch"
          /\ dropped' = dropped + held[t].count
          /\ Respond(t, held[t].count, DROP_EXPONENT)
          /\ UNCHANGED reports
       \/ /\ held[t].route # "batch"
          /\ reports' = reports + held[t].count
          /\ Respond(t, 0, 0)
          /\ UNCHANGED dropped
    /\ UNCHANGED <<lag_ms, backoff_count, throttled, streak>>

\* backoff_count += 1
ReadCount(t) ==
    /\ place[t] = "readcount"
    /\ held' = [held EXCEPT ![t].value = backoff_count]
    /\ Proceed(t, "storecount")
    /\ UNCHANGED <<server, answer, history>>

StoreCount(t) ==
    /\ place[t] = "storecount"
    /\ backoff_count' = held[t].value + 1
    /\ throttled' = throttled + 1 /\ streak' = streak + 1
    /\ Race(t, "backoff_count", "storecount")
    /\ Proceed(t, "delay")
    /\ UNCHANGED <<lag_ms, dropped_total, held, answer, dropped, reports>>

\* Mutated form of Delay: the next exponent is announced.
DelayNext(t) ==
    /\ place[t] = "delay"
    /\ Respond(t, 0, backoff_count + 1)
    /\ UNCHANGED <<server, history>>

\* The exponent is read anew.
Delay(t) ==
    /\ place[t] = "delay"
    /\ Respond(t, 0, backoff_count)
    /\ UNCHANGED <<server, history>>

\* Mutated form of Reset: the count decays instead of being reset.
ResetGradually(t) ==
    /\ place[t] = "reset"
    /\ backoff_count' = backoff_count - 1
    /\ streak' = 0
    /\ Race(t, "backoff_count", "storecount")
    /\ Respond(t, 0, 0)
    /\ UNCHANGED <<lag_ms, dropped_total, dropped, reports, throttled>>

\* Mutated form of Reset: the count is kept.
ResetNothing(t) ==
    /\ place[t] = "reset"
    /\ streak' = 0
    /\ Race(t, "backoff_count", "storecount")
    /\ Respond(t, 0, 0)
    /\ UNCHANGED <<server, dropped, reports, throttled>>

Reset(t) ==
    /\ place[t] = "reset"
    /\ backoff_count' = 0
    /\ streak' = 0
    /\ Race(t, "backoff_count", "storecount")
    /\ Respond(t, 0, 0)
    /\ UNCHANGED <<lag_ms, dropped_total, dropped, reports, throttled>>

SetLag(t) ==
    /\ place[t] = "setlag"
    /\ lag_ms' = held[t].lag
    /\ Proceed(t, "checklag")
    /\ UNCHANGED <<backoff_count, dropped_total, held, answer, history>>

\* The lag is read anew.  One drop is counted for a lag over the budget, although
\* no message is dropped.
CheckLag(t) ==
    /\ place[t] = "checklag"
    /\ IF lag_ms >= DROP_BUDGET_MS THEN Proceed(t, "readtotal") /\ UNCHANGED <<held, answer>>
       ELSE Respond(t, 0, 0)
    /\ UNCHANGED <<server, history>>

Serve(t) ==
    \/ ReadLag(t) \/ ReadTotal(t) \/ StoreTotal(t) \/ ReadCount(t) \/ StoreCount(t)
    \/ Delay(t) \/ Reset(t) \/ SetLag(t) \/ CheckLag(t)

LagNext == \E t \in Senders : ReceiveBatch(t) \/ ReceiveLag(t) \/ Refuse(t) \/ Serve(t) \/ Release(t)

LagSpec == LagInit /\ [][LagNext]_lagVars

-----------------------------------------------------------------------------
(* Properties                                                              *)

\* The server's numbers never leave the natural numbers, and a handler in the middle
\* of an assignment holds the value it read.
NumbersTypeOK ==
    /\ lag_ms \in Lags \cup {0}
    /\ backoff_count \in Nat
    /\ dropped_total \in Nat
    /\ place \in [Senders -> Places]
    /\ held \in [Senders -> Holdings]
    /\ answer \in [Senders -> Replies]
    /\ dropped \in Nat /\ reports \in Nat /\ throttled \in Nat /\ streak \in Nat
    /\ raced \subseteq {"backoff_count", "dropped_total"}

\* A delay is doubled only by a batch that was told to wait: no producer is told to
\* wait for longer than 2^n times the base after n such batches, unless its own
\* messages were dropped.
DelayBounded ==
    /\ backoff_count <= throttled
    /\ \A t \in Senders : answer[t].exponent <= throttled \/ answer[t].exponent = DROP_EXPONENT

\* Both numbers are exact unless a handler touched one between the read and the write
\* of another: the metric counts every message dropped and every report of a lag over
\* the budget, and the delay has doubled once for each batch since the lag was last
\* below the threshold.
ExactUnlessRaced ==
    /\ "dropped_total" \notin raced => dropped_total = dropped + reports
    /\ "backoff_count" \notin raced => backoff_count = streak
===============================================================================
