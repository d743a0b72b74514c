--------------------------- MODULE AlertHandlerProof ---------------------------
(***************************************************************************)
(* Theorems about AlertHandler: type correctness, and what reading the     *)
(* first line of state.ndjson means, for any number of processes, alerts   *)
(* and actors and logs of any length.                                      *)
(***************************************************************************)
EXTENDS AlertHandler, FiniteSetTheorems, TLAPS

\* An alert with lines has a first one, the one that load_alert_state returns.
IsFirst(a, i) == i \in LinesOf(a) /\ \A j \in LinesOf(a) : i <= j
HasFirst == \A a \in AlertIds : LinesOf(a) # {} => \E i \in LinesOf(a) : IsFirst(a, i)

TypeInv == TypeOK /\ HasFirst

\* Only the first line of an alert is ever read, and the actions an alert without
\* a line admits save one of three states: no call ever finds an alert under
\* investigation, resolved or reopened, however often these actions succeed.
FirstStateDecides ==
    \A a \in AlertIds : load_alert_state(a) \in {"initial", "acknowledged", "closed", "same"}

\* Once the first thing saved for an alert is a note, and the calls that overlapped
\* it are over, nothing is saved for this alert again.
Stuck(a) ==
    /\ load_alert_state(a) = "same"
    /\ ~\E p \in Procs : /\ pc[p] = "decided" /\ call[p].result = "success"
                      /\ call[p].alert = a /\ call[p].before = "initial"
NoteIsLast ==
    [][\A a \in AlertIds : Stuck(a) => Stuck(a)' /\ LinesOf(a)' = LinesOf(a)]_vars

\* What the first line of an alert can be, and what a call that is going to save a
\* line has been judged against: an alert without a line, or its first line.
Judged(p) ==
    /\ call[p].before \in actions[call[p].action].from
    /\ call[p].before = "initial" \/ call[p].before = load_alert_state(call[p].alert)
FirstInv ==
    /\ FirstStateDecides
    /\ \A a \in AlertIds : LinesOf(a) # {} => load_alert_state(a) # "initial"
    /\ \A p \in Procs : pc[p] = "decided" /\ call[p].result = "success" => Judged(p)

-----------------------------------------------------------------------------
(* The log.                                                                *)

\* The state of an alert with lines is that of its first line.
StateIsFirst ==
    TypeOK => \A a \in AlertIds : \A i \in LinesOf(a) :
                 IsFirst(a, i) => load_alert_state(a) = stateLog[i].state

LEMMA FirstLine == StateIsFirst
<1> SUFFICES ASSUME TypeOK, NEW a \in AlertIds, NEW i \in LinesOf(a), IsFirst(a, i)
             PROVE  load_alert_state(a) = stateLog[i].state
  BY DEF StateIsFirst
<1>1. stateLog \in Seq(SavedLines) /\ LinesOf(a) \subseteq Nat
  BY DEF TypeOK, LinesOf
<1>2. \A k \in LinesOf(a) : (\A j \in LinesOf(a) : k <= j) => k = i
  BY <1>1 DEF IsFirst
<1>3. i = CHOOSE k \in LinesOf(a) : \A j \in LinesOf(a) : k <= j
  BY <1>2 DEF IsFirst
<1>. QED BY <1>3 DEF load_alert_state, IsFirst

\* A line that is appended is a line of its alert, and the earlier lines stay.
LEMMA AppendedLine ==
    ASSUME TypeOK, NEW l \in SavedLines, stateLog' = Append(stateLog, l)
    PROVE  /\ \A a \in AlertIds :
                 LinesOf(a)' = LinesOf(a) \cup (IF l.alert = a THEN {Len(stateLog) + 1} ELSE {})
           /\ \A i \in DOMAIN stateLog : stateLog'[i] = stateLog[i]
           /\ stateLog'[Len(stateLog) + 1] = l
           /\ DOMAIN stateLog = 1 .. Len(stateLog) /\ Len(stateLog) \in Nat
<1>1. stateLog \in Seq(SavedLines)
  BY DEF TypeOK
<1>2. /\ \A i \in DOMAIN stateLog : stateLog'[i] = stateLog[i]
      /\ stateLog'[Len(stateLog) + 1] = l
      /\ DOMAIN stateLog = 1 .. Len(stateLog) /\ Len(stateLog) \in Nat
      /\ DOMAIN stateLog' = 1 .. (Len(stateLog) + 1)
  BY <1>1
<1>3. DOMAIN stateLog' = DOMAIN stateLog \cup {Len(stateLog) + 1}
  BY <1>2
<1>4. ASSUME NEW a \in AlertIds
      PROVE  LinesOf(a)' = LinesOf(a) \cup (IF l.alert = a THEN {Len(stateLog) + 1} ELSE {})
  BY <1>2, <1>3 DEF LinesOf
<1>. QED BY <1>2, <1>4

\* The first line of an alert stays the first.
LEMMA FirstStays ==
    ASSUME TypeInv, NEW l \in SavedLines, stateLog' = Append(stateLog, l), NEW a \in AlertIds
    PROVE  /\ \A i \in LinesOf(a) : IsFirst(a, i) => IsFirst(a, i)' /\ stateLog'[i] = stateLog[i]
           /\ LinesOf(a) = {} /\ l.alert = a =>
                 \A n : n = Len(stateLog) + 1 => IsFirst(a, n)'
           /\ l.alert # a => LinesOf(a)' = LinesOf(a)
<1>1. /\ LinesOf(a)' = LinesOf(a) \cup (IF l.alert = a THEN {Len(stateLog) + 1} ELSE {})
      /\ \A i \in DOMAIN stateLog : stateLog'[i] = stateLog[i]
      /\ DOMAIN stateLog = 1 .. Len(stateLog) /\ Len(stateLog) \in Nat
  BY AppendedLine DEF TypeInv
<1>2. \A i \in LinesOf(a) : i \in 1 .. Len(stateLog) /\ i <= Len(stateLog) + 1
  BY <1>1 DEF LinesOf
<1>3. ASSUME NEW i \in LinesOf(a), IsFirst(a, i)
      PROVE  IsFirst(a, i)' /\ stateLog'[i] = stateLog[i]
  <2>1. \A j \in LinesOf(a)' : j \in LinesOf(a) \/ j = Len(stateLog) + 1
    BY <1>1
  <2>. QED BY <1>1, <1>2, <1>3, <2>1 DEF IsFirst
<1>4. LinesOf(a) = {} /\ l.alert = a => \A n : n = Len(stateLog) + 1 => IsFirst(a, n)'
  BY <1>1 DEF IsFirst
<1>. QED BY <1>1, <1>3, <1>4

\* Appending keeps the state of an alert that has lines, and gives an alert without
\* one the state of the new line.
LEMMA StateStays ==
    ASSUME TypeInv, TypeOK', NEW l \in SavedLines, stateLog' = Append(stateLog, l)
    PROVE  /\ HasFirst'
           /\ \A a \in AlertIds :
                 /\ LinesOf(a) # {} \/ l.alert # a => load_alert_state(a)' = load_alert_state(a)
                 /\ LinesOf(a) = {} /\ l.alert = a => load_alert_state(a)' = l.state
<1>0. StateIsFirst /\ StateIsFirst'
  BY FirstLine, PTL
<1>1. ASSUME NEW a \in AlertIds, LinesOf(a) # {}
      PROVE  /\ \E i \in LinesOf(a)' : IsFirst(a, i)'
             /\ load_alert_state(a)' = load_alert_state(a)
  <2>1. PICK i \in LinesOf(a) : IsFirst(a, i)
    BY <1>1 DEF TypeInv, HasFirst
  <2>2. IsFirst(a, i)' /\ stateLog'[i] = stateLog[i]
    BY <2>1, FirstStays
  <2>3. load_alert_state(a) = stateLog[i].state
    BY <1>0, <2>1 DEF TypeInv, StateIsFirst
  <2>4. load_alert_state(a)' = stateLog'[i].state
    BY <1>0, <2>2 DEF StateIsFirst, IsFirst
  <2>. QED BY <2>2, <2>3, <2>4 DEF IsFirst
<1>2. ASSUME NEW a \in AlertIds, LinesOf(a) = {}, l.alert = a
      PROVE  /\ \E i \in LinesOf(a)' : IsFirst(a, i)'
             /\ load_alert_state(a)' = l.state
  <2>1. PICK n : n = Len(stateLog) + 1
    OBVIOUS
  <2>2. IsFirst(a, n)' /\ stateLog'[n] = l
    BY <1>2, <2>1, FirstStays, AppendedLine DEF TypeInv
  <2>. QED BY <1>0, <2>2 DEF StateIsFirst, IsFirst
<1>3. ASSUME NEW a \in AlertIds, LinesOf(a) = {}, l.alert # a
      PROVE  LinesOf(a)' = {} /\ load_alert_state(a)' = load_alert_state(a)
  BY <1>3, FirstStays DEF load_alert_state
<1>. QED BY <1>1, <1>2, <1>3 DEF HasFirst

-----------------------------------------------------------------------------
(* The types.                                                              *)

\* A decision on a state of the lifecycle is one of the four results.
LEMMA DecisionTyped ==
    ASSUME NEW action \in Actions, NEW actor, NEW reason \in BOOLEAN, NEW before \in Stages
    PROVE  Verdict(action, actor, reason, before) \in Results
BY DEF Verdict, Results

\* What a call saves and audits are lines of the two files.
LEMMA LinesTyped ==
    ASSUME NEW c \in Calls
    PROVE  SavedLine(c) \in SavedLines /\ AuditEntry(c) \in AuditEntries
<1>1. actions[c.action].to \in Stages
  BY DEF Calls, Actions, actions, Stages, KnownStages
<1>. QED BY <1>1 DEF Calls, SavedLine, SavedLines, AuditEntry, AuditEntries

\* The state that is read is one of the six.
LEMMA StateTyped ==
    ASSUME TypeInv, NEW a \in AlertIds
    PROVE  load_alert_state(a) \in Stages
<1>1. CASE LinesOf(a) = {}
  BY <1>1 DEF load_alert_state, Stages, KnownStages
<1>2. CASE LinesOf(a) # {}
  <2>1. PICK i \in LinesOf(a) : IsFirst(a, i)
    BY <1>2 DEF TypeInv, HasFirst
  <2>2. load_alert_state(a) = stateLog[i].state
    BY <2>1, FirstLine DEF TypeInv, StateIsFirst
  <2>3. stateLog[i] \in SavedLines
    BY DEF TypeInv, TypeOK, LinesOf
  <2>. QED BY <2>2, <2>3 DEF SavedLines
<1>. QED BY <1>1, <1>2

LEMMA EmptySlot == NoCall \notin Calls
BY DEF NoCall, Calls

\* A call that ends frees its slot.
LEMMA FinishTyped ==
    ASSUME TypeOK, NEW p \in Procs, Finish(p)
    PROVE  /\ pc' \in [Procs -> {"idle", "decided", "audit"}]
           /\ call' \in [Procs -> Calls \cup {NoCall}]
           /\ \A q \in Procs : call'[q] = NoCall <=> pc'[q] = "idle"
BY EmptySlot DEF TypeOK, Finish

\* The call of a slot that is not idle.
LEMMA CallTyped ==
    ASSUME TypeOK, NEW p \in Procs, pc[p] # "idle"
    PROVE  call[p] \in Calls
BY DEF TypeOK

\* Types and first lines are kept by each step.
LEMMA TypeInvInductive == TypeInv /\ [Next]_vars => TypeInv'
<1> SUFFICES ASSUME TypeInv, [Next]_vars PROVE TypeInv'
  OBVIOUS
<1>f. stateLog' = stateLog => HasFirst'
  BY DEF TypeInv, HasFirst, IsFirst, LinesOf
<1>u. CASE UNCHANGED vars
  BY <1>u, <1>f DEF vars, TypeInv, TypeOK
<1>1. ASSUME NEW p \in Procs, Invoke(p) PROVE TypeInv'
  <2>1. PICK a \in AlertIds, action \in Actions, actor \in Actors, reason \in BOOLEAN :
           call' = [call EXCEPT ![p] =
                      [alert |-> a, action |-> action, before |-> load_alert_state(a),
                       result |-> Verdict(action, actor, reason, load_alert_state(a))]]
    BY <1>1 DEF Invoke
  <2>2. PICK c : c = [alert |-> a, action |-> action, before |-> load_alert_state(a),
                      result |-> Verdict(action, actor, reason, load_alert_state(a))]
    OBVIOUS
  <2>3. c \in Calls
    BY <2>2, StateTyped, DecisionTyped DEF Calls
  <2>4. call' = [call EXCEPT ![p] = c]
    BY <2>1, <2>2
  <2>. QED BY <1>1, <1>f, <2>3, <2>4, EmptySlot DEF Invoke, TypeInv, TypeOK
<1>2. ASSUME NEW p \in Procs, Refuse(p) \/ record_success(p) PROVE TypeInv'
  <2>1. call[p] \in Calls
    BY <1>2, CallTyped DEF TypeInv, Refuse, record_success
  <2>2. audit' \in Seq(AuditEntries)
    <3>1. AuditEntry(call[p]) \in AuditEntries
      BY <2>1, LinesTyped
    <3>2. audit' = Append(audit, AuditEntry(call[p])) /\ audit \in Seq(AuditEntries)
      BY <1>2 DEF Refuse, record_success, TypeInv, TypeOK
    <3>. QED BY <3>1, <3>2
  <2>. QED BY <1>2, <1>f, <2>2, FinishTyped DEF Refuse, record_success, TypeInv, TypeOK
<1>3. ASSUME NEW p \in Procs, save_alert_state(p) PROVE TypeInv'
  <2>1. call[p] \in Calls
    BY <1>3, CallTyped DEF TypeInv, save_alert_state
  <2>2. SavedLine(call[p]) \in SavedLines /\ stateLog' = Append(stateLog, SavedLine(call[p]))
    BY <1>3, <2>1, LinesTyped DEF save_alert_state
  <2>3. TypeOK'
    BY <1>3, <2>2, EmptySlot DEF save_alert_state, TypeInv, TypeOK
  <2>. QED BY <2>2, <2>3, StateStays DEF TypeInv
<1>4. ASSUME NEW p \in Procs, Kill(p) PROVE TypeInv'
  <2>1. call[p] \in Calls
    BY <1>4, CallTyped DEF TypeInv, Kill
  <2>2. SavedLine(call[p]) \in SavedLines
    BY <2>1, LinesTyped
  <2>3. unaudited' \in [SavedLines -> Nat]
    BY <1>4, <2>2 DEF Kill, TypeInv, TypeOK
  <2>. QED BY <1>4, <1>f, <2>3, FinishTyped DEF Kill, TypeInv, TypeOK
<1>. QED BY <1>u, <1>1, <1>2, <1>3, <1>4 DEF Next

\* Initially both files are empty.
LEMMA TypeInvInit == Init => TypeInv
BY EmptySlot DEF Init, TypeInv, TypeOK, HasFirst, LinesOf

\* TypeOK is an invariant: in particular load_alert_state of alert-handler.py returns
\* one of the six states in every state of every run.
THEOREM TypeCorrect == Spec => []TypeOK
<1>1. TypeInv => TypeOK
  BY DEF TypeInv
<1>. QED BY <1>1, TypeInvInit, TypeInvInductive, PTL DEF Spec

-----------------------------------------------------------------------------
(* The first line decides.                                                 *)

FirstStates == {"initial", "acknowledged", "closed", "same"}

\* What a call that found no line can save.
LEMMA FromInitial ==
    ASSUME NEW action \in Actions, "initial" \in actions[action].from
    PROVE  actions[action].to \in FirstStates \ {"initial"}
BY DEF Actions, actions, FirstStates

\* No action starts from a note.
LEMMA NothingFromNote == \A action \in Actions : "same" \notin actions[action].from
BY DEF Actions, actions

\* A verdict of success means that the action starts from the state that was read.
LEMMA SuccessStarts ==
    ASSUME NEW action, NEW actor, NEW reason, NEW before,
           Verdict(action, actor, reason, before) = "success"
    PROVE  before \in actions[action].from
BY DEF Verdict

\* A call that is about to save a line of an alert without one found none either; a
\* call that finds a line finds the one that later calls find, too.
LEMMA FirstInvInductive == TypeInv /\ TypeInv' /\ FirstInv /\ [Next]_vars => FirstInv'
<1> SUFFICES ASSUME TypeInv, TypeInv', FirstInv, [Next]_vars PROVE FirstInv'
  OBVIOUS
<1>1. ASSUME stateLog' = stateLog,
             \A p \in Procs : pc'[p] = "decided" /\ call'[p].result = "success" =>
                (pc[p] = "decided" /\ call'[p] = call[p]) \/ Judged(p)'
      PROVE  FirstInv'
  <2>1. \A a \in AlertIds : /\ LinesOf(a)' = LinesOf(a)
                            /\ load_alert_state(a)' = load_alert_state(a)
    BY <1>1 DEF LinesOf, load_alert_state
  <2>2. ASSUME NEW p \in Procs, pc'[p] = "decided", call'[p].result = "success" PROVE Judged(p)'
    <3>1. CASE pc[p] = "decided" /\ call'[p] = call[p]
      <4>1. call[p].alert \in AlertIds
        BY <3>1, CallTyped DEF TypeInv, Calls
      <4>2. load_alert_state(call[p].alert)' = load_alert_state(call[p].alert)
        BY <1>1, <3>1 DEF LinesOf, load_alert_state
      <4>3. Judged(p)
        BY <2>2, <3>1 DEF FirstInv
      <4>. QED BY <3>1, <4>2, <4>3 DEF Judged
    <3>. QED BY <1>1, <2>2, <3>1
  <2>. QED BY <2>1, <2>2 DEF FirstInv, FirstStateDecides
<1>u. CASE UNCHANGED vars
  BY <1>u, <1>1 DEF vars
<1>2. ASSUME NEW p \in Procs, Invoke(p) PROVE FirstInv'
  <2>1. PICK a \in AlertIds, action \in Actions, actor \in Actors, reason \in BOOLEAN :
           call' = [call EXCEPT ![p] =
                      [alert |-> a, action |-> action, before |-> load_alert_state(a),
                       result |-> Verdict(action, actor, reason, load_alert_state(a))]]
    BY <1>2 DEF Invoke
  <2>2. /\ call'[p] = [alert |-> a, action |-> action, before |-> load_alert_state(a),
                       result |-> Verdict(action, actor, reason, load_alert_state(a))]
        /\ \A q \in Procs \ {p} : call'[q] = call[q] /\ pc'[q] = pc[q]
        /\ stateLog' = stateLog
    BY <1>2, <2>1 DEF Invoke, TypeInv, TypeOK
  <2>3. call'[p].result = "success" => Judged(p)'
    <3>1. load_alert_state(a)' = load_alert_state(a)
      BY <2>2 DEF load_alert_state, LinesOf
    <3>2. call'[p].result = "success" => load_alert_state(a) \in actions[action].from
      BY <2>2, SuccessStarts
    <3>3. /\ call'[p].alert = a /\ call'[p].action = action
          /\ call'[p].before = load_alert_state(a)
      BY <2>2
    <3>. QED BY <3>1, <3>2, <3>3 DEF Judged
  <2>. QED BY <2>2, <2>3, <1>1
<1>3. ASSUME NEW p \in Procs, Refuse(p) \/ record_success(p) \/ Kill(p) PROVE FirstInv'
  BY <1>3, <1>1 DEF Refuse, record_success, Kill, Finish, TypeInv, TypeOK
<1>4. ASSUME NEW p \in Procs, save_alert_state(p) PROVE FirstInv'
  <2>1. call[p] \in Calls /\ pc[p] = "decided" /\ call[p].result = "success"
    BY <1>4, CallTyped DEF TypeInv, save_alert_state
  <2>2. PICK l \in SavedLines : l = SavedLine(call[p]) /\ stateLog' = Append(stateLog, l)
    BY <1>4, <2>1, LinesTyped DEF save_alert_state
  <2>3. /\ l.alert = call[p].alert /\ l.state = actions[call[p].action].to
        /\ call[p].action \in Actions /\ call[p].alert \in AlertIds
    BY <2>1, <2>2 DEF SavedLine, Calls
  <2>4. \A a \in AlertIds :
          /\ LinesOf(a) # {} \/ l.alert # a => load_alert_state(a)' = load_alert_state(a)
          /\ LinesOf(a) = {} /\ l.alert = a => load_alert_state(a)' = l.state
    BY <2>2, StateStays DEF TypeInv
  <2>5. LinesOf(l.alert) = {} => l.state \in FirstStates \ {"initial"}
    <3>1. LinesOf(l.alert) = {} => load_alert_state(l.alert) = "initial"
      BY DEF load_alert_state
    <3>2. Judged(p)
      BY <2>1 DEF FirstInv
    <3>. QED BY <2>3, <3>1, <3>2, FromInitial DEF Judged
  <2>6. FirstStateDecides'
    BY <2>4, <2>5 DEF FirstInv, FirstStateDecides, FirstStates
  <2>7. \A a \in AlertIds : LinesOf(a)' # {} => load_alert_state(a)' # "initial"
    <3>1. \A a \in AlertIds : l.alert # a => LinesOf(a)' = LinesOf(a)
      BY <2>2, FirstStays
    <3>. QED BY <2>4, <2>5, <3>1 DEF FirstInv
  <2>8. ASSUME NEW q \in Procs, pc'[q] = "decided", call'[q].result = "success" PROVE Judged(q)'
    <3>1. pc[q] = "decided" /\ call'[q] = call[q]
      BY <1>4, <2>8 DEF save_alert_state, TypeInv, TypeOK
    <3>2. Judged(q) /\ call[q].alert \in AlertIds
      BY <2>8, <3>1, CallTyped DEF FirstInv, TypeInv, Calls
    <3>3. PICK a \in AlertIds : a = call[q].alert
      BY <3>2
    <3>4. load_alert_state(a) = "initial" \/ load_alert_state(a)' = load_alert_state(a)
      BY <2>4 DEF load_alert_state
    <3>5. call[q].before = "initial" \/ call[q].before = load_alert_state(a)'
      BY <3>2, <3>3, <3>4 DEF Judged
    <3>. QED BY <3>1, <3>2, <3>3, <3>5 DEF Judged
  <2>. QED BY <2>6, <2>7, <2>8 DEF FirstInv
<1>. QED BY <1>u, <1>2, <1>3, <1>4 DEF Next

LEMMA FirstInvInit == Init => FirstInv
BY DEF Init, FirstInv, FirstStateDecides, load_alert_state, LinesOf

\* How far line 40 is from the promise: the state that alert-handler.py finds for an
\* alert is never investigating, resolved or reopened, however often these actions
\* succeed and are audited.
THEOREM FirstLineDecides == Spec => []FirstStateDecides
<1>1. FirstInv => FirstStateDecides
  BY DEF FirstInv
<1>. QED BY <1>1, TypeInvInit, TypeInvInductive, FirstInvInit, FirstInvInductive, PTL DEF Spec

\* The worst of it: a note on an untouched alert, which ought to leave its state as it is,
\* ends its life.  Nothing is saved for it again.
THEOREM NoteIsFinal == Spec => NoteIsLast
<1>1. ASSUME TypeInv, TypeInv', FirstInv, [Next]_vars, NEW a \in AlertIds, Stuck(a)
      PROVE  Stuck(a)' /\ LinesOf(a)' = LinesOf(a)
  <2>1. ASSUME NEW p \in Procs, save_alert_state(p) PROVE call[p].alert # a
    <3>1. pc[p] = "decided" /\ call[p].result = "success" /\ call[p] \in Calls
      BY <1>1, <2>1, CallTyped DEF save_alert_state, TypeInv
    <3>2. Judged(p) /\ call[p].action \in Actions
      BY <1>1, <3>1 DEF FirstInv, Calls
    <3>3. call[p].alert = a => call[p].before = "same"
      BY <1>1, <3>1, <3>2 DEF Stuck, Judged
    <3>. QED BY <3>2, <3>3, NothingFromNote DEF Judged
  <2>2. LinesOf(a)' = LinesOf(a) /\ load_alert_state(a)' = load_alert_state(a)
    <3>1. CASE stateLog' = stateLog
      BY <3>1 DEF LinesOf, load_alert_state
    <3>2. ASSUME NEW p \in Procs, save_alert_state(p)
          PROVE  LinesOf(a)' = LinesOf(a) /\ load_alert_state(a)' = load_alert_state(a)
      <4>1. call[p] \in Calls
        BY <1>1, <3>2, CallTyped DEF save_alert_state, TypeInv
      <4>2. PICK l \in SavedLines : l = SavedLine(call[p]) /\ stateLog' = Append(stateLog, l)
        BY <3>2, <4>1, LinesTyped DEF save_alert_state
      <4>3. l.alert # a
        BY <2>1, <3>2, <4>2 DEF SavedLine
      <4>. QED BY <1>1, <4>2, <4>3, FirstStays, StateStays DEF TypeInv
    <3>. QED BY <1>1, <3>1, <3>2 DEF Next, Invoke, Refuse, record_success, Kill, vars
  <2>3. ASSUME NEW q \in Procs, pc'[q] = "decided", call'[q].result = "success",
               call'[q].alert = a, call'[q].before = "initial"
        PROVE  FALSE
    <3>1. CASE pc[q] = "decided" /\ call'[q] = call[q]
      BY <1>1, <2>3, <3>1 DEF Stuck
    <3>2. CASE Invoke(q)
      <4>1. call'[q].before = load_alert_state(call'[q].alert)
        BY <3>2, <1>1 DEF Invoke, TypeInv, TypeOK
      <4>. QED BY <1>1, <2>3, <4>1 DEF Stuck
    <3>. QED BY <1>1, <2>3, <3>1, <3>2
         DEF Next, Invoke, Refuse, save_alert_state, record_success, Kill, Finish, vars, TypeInv, TypeOK
  <2>. QED BY <1>1, <2>2, <2>3 DEF Stuck
<1>2. TypeInv /\ TypeInv' /\ FirstInv /\ [Next]_vars =>
        [\A a \in AlertIds : Stuck(a) => Stuck(a)' /\ LinesOf(a)' = LinesOf(a)]_vars
  BY <1>1
<1>. QED BY <1>2, TypeInvInit, TypeInvInductive, FirstInvInit, FirstInvInductive, PTL
     DEF Spec, NoteIsLast

-----------------------------------------------------------------------------
(* The two files.                                                          *)

Saved(l) == {i \in DOMAIN stateLog : stateLog[i] = l}

\* Only an admitted call saves a line, and what has been counted so far is finite.
TrailInv ==
    /\ \A p \in Procs : pc[p] = "audit" => call[p].result = "success"
    /\ \A l \in SavedLines :
          IsFiniteSet(Saved(l)) /\ IsFiniteSet(Successes(l)) /\ IsFiniteSet(Unfinished(l))
    /\ AuditMatchesState

\* The line that an entry of the trail is about, if it is a success.
Line(entry) == [alert |-> entry.alert, state |-> entry.after]

\* One entry more in the trail.
LEMMA TrailGrows ==
    ASSUME TypeOK, NEW entry \in AuditEntries, audit' = Append(audit, entry), NEW l \in SavedLines
    PROVE  /\ Len(audit) + 1 \notin Successes(l)
           /\ Successes(l)' = Successes(l) \cup (IF entry.result = "success" /\ Line(entry) = l
                                                 THEN {Len(audit) + 1} ELSE {})
<1>1. audit \in Seq(AuditEntries)
  BY DEF TypeOK
<1>2. /\ \A i \in DOMAIN audit : audit'[i] = audit[i]
      /\ audit'[Len(audit) + 1] = entry
      /\ DOMAIN audit = 1 .. Len(audit) /\ Len(audit) \in Nat
      /\ DOMAIN audit' = 1 .. (Len(audit) + 1)
  BY <1>1
<1>3. DOMAIN audit' = DOMAIN audit \cup {Len(audit) + 1} /\ Len(audit) + 1 \notin DOMAIN audit
  BY <1>2
<1>. QED BY <1>2, <1>3 DEF Successes, Line

\* One line more in the log of states.
LEMMA SavedGrows ==
    ASSUME TypeOK, NEW line \in SavedLines, stateLog' = Append(stateLog, line), NEW l \in SavedLines
    PROVE  /\ Len(stateLog) + 1 \notin Saved(l)
           /\ Saved(l)' = Saved(l) \cup (IF line = l THEN {Len(stateLog) + 1} ELSE {})
<1>1. /\ \A i \in DOMAIN stateLog : stateLog'[i] = stateLog[i]
      /\ stateLog'[Len(stateLog) + 1] = line
      /\ DOMAIN stateLog = 1 .. Len(stateLog) /\ Len(stateLog) \in Nat
  BY AppendedLine
<1>2. DOMAIN stateLog' = DOMAIN stateLog \cup {Len(stateLog) + 1}
  <2>1. stateLog \in Seq(SavedLines)
    BY DEF TypeOK
  <2>2. DOMAIN stateLog' = 1 .. (Len(stateLog) + 1)
    BY <2>1
  <2>. QED BY <1>1, <2>2
<1>3. Len(stateLog) + 1 \notin DOMAIN stateLog
  BY <1>1
<1>. QED BY <1>1, <1>2, <1>3 DEF Saved

\* The counts and what a step makes of them.
Counts(l) ==
    /\ IsFiniteSet(Saved(l)) /\ IsFiniteSet(Successes(l)) /\ IsFiniteSet(Unfinished(l))
    /\ Cardinality(Saved(l)) = Cardinality(Successes(l)) + Cardinality(Unfinished(l)) + unaudited[l]

LEMMA TrailInvInductive == TypeInv /\ TrailInv /\ [Next]_vars => TrailInv'
<1> SUFFICES ASSUME TypeInv, TrailInv, [Next]_vars PROVE TrailInv'
  OBVIOUS
<1>t. TypeOK
  BY DEF TypeInv
<1>c. \A l \in SavedLines : Counts(l)
  BY DEF TrailInv, Counts, AuditMatchesState, Saved
<1>n. \A l \in SavedLines : /\ Cardinality(Saved(l)) \in Nat /\ Cardinality(Successes(l)) \in Nat
                            /\ Cardinality(Unfinished(l)) \in Nat /\ unaudited[l] \in Nat
  BY <1>t, <1>c, FS_CardinalityType DEF Counts, TypeOK
<1>q. ASSUME \A q \in Procs : pc'[q] = "audit" => call'[q].result = "success",
             \A l \in SavedLines : Counts(l)'
      PROVE  TrailInv'
  BY <1>q DEF TrailInv, Counts, AuditMatchesState, Saved
<1>u. CASE UNCHANGED vars
  <2>1. \A l \in SavedLines : Counts(l)' = Counts(l)
    BY <1>u DEF vars, Counts, Saved, Successes, Unfinished
  <2>. QED BY <1>c, <1>q, <1>u, <2>1 DEF vars, TrailInv
<1>s. ASSUME NEW p \in Procs, Invoke(p) \/ Refuse(p) \/ save_alert_state(p) \/ record_success(p) \/ Kill(p)
      PROVE  TrailInv'
  <2>0. /\ \A q \in Procs \ {p} : pc'[q] = pc[q] /\ call'[q] = call[q]
        /\ pc'[p] \in {"idle", "decided", "audit"}
    BY <1>t, <1>s DEF Invoke, Refuse, save_alert_state, record_success, Kill, Finish, TypeOK
  <2>1. \A l \in SavedLines : Unfinished(l)' \ {p} = Unfinished(l) \ {p}
    BY <2>0 DEF Unfinished
  <2>2. \A q \in Procs : pc'[q] = "audit" => call'[q].result = "success"
    <3>1. pc'[p] = "audit" => call'[p].result = "success"
      BY <1>t, <1>s DEF Invoke, Refuse, save_alert_state, record_success, Kill, Finish, TypeOK
    <3>. QED BY <2>0, <3>1 DEF TrailInv
  <2>3. CASE \/ Invoke(p)
             \/ Kill(p) /\ pc[p] # "audit"
    <3>1. UNCHANGED <<stateLog, audit, unaudited>> /\ pc[p] # "audit" /\ pc'[p] # "audit"
      BY <1>t, <2>3 DEF Invoke, Kill, Finish, TypeOK
    <3>2. \A l \in SavedLines : Unfinished(l)' = Unfinished(l)
      BY <2>1, <3>1 DEF Unfinished
    <3>3. \A l \in SavedLines : Counts(l)' = Counts(l)
      BY <3>1, <3>2 DEF Counts, Saved, Successes
    <3>. QED BY <1>c, <1>q, <2>2, <3>3
  <2>4. CASE Refuse(p)
    <3>1. /\ UNCHANGED <<stateLog, unaudited>> /\ pc[p] # "audit" /\ pc'[p] # "audit"
          /\ audit' = Append(audit, AuditEntry(call[p])) /\ call[p] \in Calls
          /\ call[p].result # "success"
      BY <1>t, <2>4, CallTyped DEF Refuse, Finish, TypeOK
    <3>2. AuditEntry(call[p]) \in AuditEntries /\ AuditEntry(call[p]).result # "success"
      BY <3>1, LinesTyped DEF AuditEntry
    <3>3. \A l \in SavedLines : Successes(l)' = Successes(l)
      BY <1>t, <3>1, <3>2, TrailGrows
    <3>4. \A l \in SavedLines : Unfinished(l)' = Unfinished(l)
      BY <2>1, <3>1 DEF Unfinished
    <3>5. \A l \in SavedLines : Counts(l)' = Counts(l)
      BY <3>1, <3>3, <3>4 DEF Counts, Saved
    <3>. QED BY <1>c, <1>q, <2>2, <3>5
  <2>5. CASE save_alert_state(p)
    <3>1. /\ UNCHANGED <<audit, call, unaudited>> /\ pc[p] = "decided" /\ pc'[p] = "audit"
          /\ stateLog' = Append(stateLog, SavedLine(call[p])) /\ call[p] \in Calls
      BY <1>t, <2>5, CallTyped DEF save_alert_state, TypeOK
    <3>2. PICK line \in SavedLines : line = SavedLine(call[p])
      BY <3>1, LinesTyped
    <3>3. stateLog' = Append(stateLog, line)
      BY <3>1, <3>2
    <3>4. ASSUME NEW l \in SavedLines PROVE Counts(l)'
      <4>1. Successes(l)' = Successes(l)
        BY <3>1 DEF Successes
      <4>2. CASE l = line
        <5>1. p \notin Unfinished(l) /\ Unfinished(l)' = Unfinished(l) \cup {p}
          BY <2>1, <3>1, <3>2, <4>2 DEF Unfinished, SavedLine
        <5>2. /\ Len(stateLog) + 1 \notin Saved(l)
              /\ Saved(l)' = Saved(l) \cup {Len(stateLog) + 1}
          BY <1>t, <3>3, <4>2, SavedGrows
        <5>3. /\ IsFiniteSet(Unfinished(l)') /\ Cardinality(Unfinished(l)') = Cardinality(Unfinished(l)) + 1
              /\ IsFiniteSet(Saved(l)') /\ Cardinality(Saved(l)') = Cardinality(Saved(l)) + 1
          BY <1>c, <5>1, <5>2, FS_AddElement DEF Counts
        <5>. QED BY <1>c, <1>n, <3>1, <4>1, <5>3 DEF Counts
      <4>3. CASE l # line
        <5>1. Unfinished(l)' = Unfinished(l)
          BY <2>1, <3>1, <3>2, <4>3 DEF Unfinished, SavedLine
        <5>2. Saved(l)' = Saved(l)
          BY <1>t, <3>3, <4>3, SavedGrows
        <5>. QED BY <1>c, <3>1, <4>1, <5>1, <5>2 DEF Counts
      <4>. QED BY <4>2, <4>3
    <3>. QED BY <1>q, <2>2, <3>4
  <2>6. CASE record_success(p)
    <3>1. /\ UNCHANGED <<stateLog, unaudited>> /\ pc[p] = "audit" /\ pc'[p] = "idle"
          /\ audit' = Append(audit, AuditEntry(call[p])) /\ call[p] \in Calls
          /\ call[p].result = "success"
      BY <1>t, <2>6, CallTyped DEF record_success, Finish, TypeOK, TrailInv
    <3>2. PICK entry \in AuditEntries : entry = AuditEntry(call[p])
      BY <3>1, LinesTyped
    <3>3. entry.result = "success" /\ Line(entry) = SavedLine(call[p])
      BY <3>1, <3>2 DEF AuditEntry, Line, SavedLine
    <3>4. PICK line \in SavedLines : line = SavedLine(call[p])
      BY <3>1, LinesTyped
    <3>5. ASSUME NEW l \in SavedLines PROVE Counts(l)'
      <4>1. Saved(l)' = Saved(l)
        BY <3>1 DEF Saved
      <4>2. CASE l = line
        <5>1. p \in Unfinished(l) /\ Unfinished(l)' = Unfinished(l) \ {p}
          BY <2>1, <3>1, <3>4, <4>2 DEF Unfinished
        <5>2. /\ Len(audit) + 1 \notin Successes(l)
              /\ Successes(l)' = Successes(l) \cup {Len(audit) + 1}
          BY <1>t, <3>1, <3>2, <3>3, <3>4, <4>2, TrailGrows
        <5>3. /\ IsFiniteSet(Unfinished(l)') /\ Cardinality(Unfinished(l)') = Cardinality(Unfinished(l)) - 1
          BY <1>c, <5>1, FS_RemoveElement DEF Counts
        <5>4. IsFiniteSet(Successes(l)') /\ Cardinality(Successes(l)') = Cardinality(Successes(l)) + 1
          BY <1>c, <5>2, FS_AddElement DEF Counts
        <5>. QED BY <1>c, <1>n, <3>1, <4>1, <5>3, <5>4 DEF Counts
      <4>3. CASE l # line
        <5>1. Unfinished(l)' = Unfinished(l)
          BY <2>1, <3>1, <3>4, <4>3 DEF Unfinished
        <5>2. Successes(l)' = Successes(l)
          BY <1>t, <3>1, <3>2, <3>3, <3>4, <4>3, TrailGrows
        <5>. QED BY <1>c, <3>1, <4>1, <5>1, <5>2 DEF Counts
      <4>. QED BY <4>2, <4>3
    <3>. QED BY <1>q, <2>2, <3>5
  <2>7. CASE Kill(p) /\ pc[p] = "audit"
    <3>1. /\ UNCHANGED <<stateLog, audit>> /\ pc[p] = "audit" /\ pc'[p] = "idle"
          /\ unaudited' = [unaudited EXCEPT ![SavedLine(call[p])] = @ + 1] /\ call[p] \in Calls
      BY <1>t, <2>7, CallTyped DEF Kill, Finish, TypeOK
    <3>2. PICK line \in SavedLines : line = SavedLine(call[p])
      BY <3>1, LinesTyped
    <3>3. ASSUME NEW l \in SavedLines PROVE Counts(l)'
      <4>1. Saved(l)' = Saved(l) /\ Successes(l)' = Successes(l)
        BY <3>1 DEF Saved, Successes
      <4>2. CASE l = line
        <5>1. p \in Unfinished(l) /\ Unfinished(l)' = Unfinished(l) \ {p}
          BY <2>1, <3>1, <3>2, <4>2 DEF Unfinished
        <5>2. unaudited'[l] = unaudited[l] + 1
          BY <1>t, <3>1, <3>2, <4>2 DEF TypeOK
        <5>3. /\ IsFiniteSet(Unfinished(l)') /\ Cardinality(Unfinished(l)') = Cardinality(Unfinished(l)) - 1
          BY <1>c, <5>1, FS_RemoveElement DEF Counts
        <5>. QED BY <1>c, <1>n, <4>1, <5>2, <5>3 DEF Counts
      <4>3. CASE l # line
        <5>1. Unfinished(l)' = Unfinished(l)
          BY <2>1, <3>1, <3>2, <4>3 DEF Unfinished
        <5>2. unaudited'[l] = unaudited[l]
          BY <1>t, <3>1, <3>2, <4>3 DEF TypeOK
        <5>. QED BY <1>c, <4>1, <5>1, <5>2 DEF Counts
      <4>. QED BY <4>2, <4>3
    <3>. QED BY <1>q, <2>2, <3>3
  <2>. QED BY <1>s, <2>3, <2>4, <2>5, <2>6, <2>7
<1>. QED BY <1>u, <1>s DEF Next

LEMMA TrailInvInit == Init => TrailInv
<1> SUFFICES ASSUME Init PROVE TrailInv
  OBVIOUS
<1>1. \A l \in SavedLines : /\ Saved(l) = {} /\ Successes(l) = {} /\ Unfinished(l) = {}
                            /\ unaudited[l] = 0
  BY DEF Init, Saved, Successes, Unfinished
<1>2. \A l \in SavedLines :
         Cardinality(Saved(l)) = Cardinality(Successes(l)) + Cardinality(Unfinished(l)) + unaudited[l]
  BY <1>1, FS_EmptySet
<1>. QED BY <1>1, <1>2, FS_EmptySet DEF Init, TrailInv, AuditMatchesState, Saved

\* Every line of state.ndjson has its success in audit.ndjson, apart from those whose call
\* is between the two appends or was killed there, and no success is in the trail without
\* its line.
THEOREM TrailIsComplete == Spec => []AuditMatchesState
<1>1. Init => TypeInv /\ TrailInv
  BY TypeInvInit, TrailInvInit
<1>2. TypeInv /\ TrailInv /\ [Next]_vars => (TypeInv /\ TrailInv)'
  BY TypeInvInductive, TrailInvInductive
<1>3. TrailInv => AuditMatchesState
  BY DEF TrailInv
<1>. QED BY <1>1, <1>2, <1>3, PTL DEF Spec
===============================================================================
