---------------------------- MODULE EntityStoreProof ----------------------------
(***************************************************************************)
(* Proofs about the entity calls for any number of overlapping calls,      *)
(* entities and documents:                                                 *)
(*   BooksInv   what a call is about to do, at each statement (gives       *)
(*              TypeOK and NothingOfForbiddenBulk);                        *)
(*   StoreInv   how the files and the log of mutations hang together while *)
(*              calls are under way (gives LogExplainsStore).              *)
(* The last part is about the processor of changes, with an invariant of   *)
(* its own: LoggedInv gives AckedIsProcessed.                              *)
(***************************************************************************)
EXTENDS EntityStore, ChangeProcessor, SequenceTheorems, WellFoundedInduction, TLAPS

\* A call that is past its authorization was authorized for all its operations, and
\* the statement it stands at fits the operation it performs.
Books(p) ==
    /\ pc[p] = "authorize" => todo[p] = call[p].ops
    /\ pc[p] \in {"open", "fill"} => Writes(Now(p))
    /\ pc[p] = "unlink" => Now(p).operation = "delete"
    /\ pc[p] = "log" => Now(p).operation # "read"

BooksInv == TypeOK /\ (\A p \in Procs : Books(p)) /\ NothingOfForbiddenBulk

-----------------------------------------------------------------------------
(* The books of a call.                                                    *)

\* The first operation left, and the others.
LEMMA HeadAndTail ==
    ASSUME NEW s \in Seq(Ops), s # <<>>
    PROVE  /\ Head(s) \in Ops
           /\ Tail(s) \in Seq(Ops)
           /\ Len(s) > 1 => Tail(s) # <<>>
<1>1. Head(s) \in Ops /\ Tail(s) \in Seq(Ops) /\ Len(Tail(s)) = Len(s) - 1
  BY HeadTailProperties
<1>2. Len(s) > 1 => Tail(s) # <<>>
  <2>1. SUFFICES ASSUME Len(s) > 1, Tail(s) = <<>> PROVE FALSE
    OBVIOUS
  <2>2. Len(s) \in Nat /\ Len(s) - 1 = 0
    <3>1. Len(Tail(s)) = 0
      BY <2>1, EmptySeq
    <3>. QED BY <1>1, <3>1, LenProperties
  <2>3. Len(s) = 1
    BY <2>2
  <2>. QED BY <2>1, <2>3
<1>. QED BY <1>1, <1>2

\* The constants of the model, as the proofs use them.
LEMMA Constants ==
    /\ "absent" \in Contents /\ "torn" \in Contents /\ Values \subseteq Contents
    /\ "absent" \notin Values /\ "torn" \notin Values
    /\ \A c \in Calls : c.ops \in Seq(Ops)
BY StoreConstants, CallShapes DEF Contents

\* A non-empty set of positions has a first one.
LEMMA LeastOfRange ==
    ASSUME NEW n \in Nat, NEW S, S \subseteq 1 .. n, S # {}
    PROVE  \E i \in S : \A j \in S : i <= j
<1> DEFINE R == {pair \in Nat \X Nat : pair[1] < pair[2]}
<1>1. IsWellFoundedOn(R, Nat)
  BY NatLessThanWellFounded DEF OpToRel
<1>2. S \subseteq Nat
  OBVIOUS
<1>3. PICK i \in S : \A j \in S : ~<<j, i>> \in R
  <2> HIDE DEF R
  <2>. QED BY <1>1, <1>2, WFMin
<1>4. ASSUME NEW j \in S PROVE i <= j
  <2>1. i \in Nat /\ j \in Nat /\ ~(j < i)
    BY <1>2, <1>3
  <2>. QED BY <2>1
<1>. QED BY <1>4

\* A line of the log is one of its kinds.
LEMMA LogGrows ==
    ASSUME TypeOK, NEW op \in Ops, NEW from \in Contents, NEW to \in Contents, NEW result \in Results,
           log_mutation(op, from, to, result)
    PROVE  mutations' \in Seq(Mutations)
<1>1. [entity |-> op.entity, operation |-> op.operation, from |-> from, to |-> to, result |-> result]
        \in Mutations
  BY DEF Mutations, Ops
<1>. QED BY <1>1, AppendProperties DEF log_mutation, TypeOK

\* A call that ends leaves its slot as it was.
LEMMA ExitKeepsBooks ==
    ASSUME BooksInv, NEW p \in Procs, Exit(p)
    PROVE  /\ pc' \in [Procs -> Labels] /\ call' \in [Procs -> Calls \cup {NoCall}]
           /\ todo' \in [Procs -> Seq(Ops)] /\ before' \in [Procs -> Contents]
           /\ orphaned' \in [Procs -> BOOLEAN]
           /\ \A q \in Procs : pc'[q] \notin {"idle", "authorize"} => todo'[q] # <<>>
           /\ \A q \in Procs : Books(q)'
           /\ NothingOfForbiddenBulk'
<1>1. <<>> \in Seq(Ops) /\ "absent" \in Contents
  BY Constants, EmptySeq
<1>2. /\ pc' = [pc EXCEPT ![p] = "idle"] /\ call' = [call EXCEPT ![p] = NoCall]
      /\ todo' = [todo EXCEPT ![p] = <<>>] /\ before' = [before EXCEPT ![p] = "absent"]
      /\ orphaned' = [orphaned EXCEPT ![p] = FALSE]
  BY DEF Exit, Goto
<1>3. TypeOK
  BY DEF BooksInv
<1>4. /\ pc' \in [Procs -> Labels] /\ call' \in [Procs -> Calls \cup {NoCall}]
      /\ todo' \in [Procs -> Seq(Ops)] /\ before' \in [Procs -> Contents]
      /\ orphaned' \in [Procs -> BOOLEAN]
  BY <1>1, <1>2, <1>3 DEF TypeOK, Labels
<1>5. \A q \in Procs \ {p} : pc'[q] = pc[q] /\ todo'[q] = todo[q] /\ call'[q] = call[q]
  BY <1>2, <1>3 DEF TypeOK
<1>6. pc'[p] = "idle"
  BY <1>2, <1>3 DEF TypeOK
<1>. QED BY <1>3, <1>4, <1>5, <1>6 DEF BooksInv, Books, Now, NothingOfForbiddenBulk, TypeOK

\* A call that goes on, with the same arguments, to a statement that fits.
LEMMA StepKeepsBooks ==
    ASSUME BooksInv, NEW p \in Procs, pc[p] # "idle", NEW label \in Labels \ {"idle", "authorize"},
           Goto(p, label), UNCHANGED <<call, todo>>,
           todo[p] # <<>>,
           pc[p] = "authorize" => Unauthorized(p) = {},
           label \in {"open", "fill"} => Writes(Now(p)),
           label = "unlink" => Now(p).operation = "delete",
           label = "log" => Now(p).operation # "read"
    PROVE  /\ pc' \in [Procs -> Labels]
           /\ \A q \in Procs : pc'[q] \notin {"idle", "authorize"} => todo'[q] # <<>>
           /\ \A q \in Procs : Books(q)'
           /\ NothingOfForbiddenBulk'
<1>1. TypeOK /\ \A q \in Procs \ {p} : pc'[q] = pc[q]
  BY DEF BooksInv, TypeOK, Goto
<1>2. pc'[p] = label
  BY <1>1 DEF TypeOK, Goto
<1>3. \A i \in DOMAIN call[p].ops : is_authorized(call[p].ops[i].operation, call[p].actor)
  <2>1. CASE pc[p] = "authorize"
    BY <2>1 DEF BooksInv, Books, Unauthorized
  <2>2. CASE pc[p] # "authorize"
    BY <2>2 DEF BooksInv, NothingOfForbiddenBulk
  <2>. QED BY <2>1, <2>2
<1>4. NothingOfForbiddenBulk'
  BY <1>1, <1>2, <1>3 DEF BooksInv, NothingOfForbiddenBulk
<1>5. \A q \in Procs : Books(q)'
  BY <1>1, <1>2 DEF BooksInv, Books, Now
<1>. QED BY <1>1, <1>2, <1>4, <1>5 DEF TypeOK, Goto

\* A call that has performed an operation ends or goes on with the next.
LEMMA ProceedKeepsBooks ==
    ASSUME BooksInv, NEW p \in Procs, pc[p] \notin {"idle", "authorize"}, Proceed(p)
    PROVE  /\ pc' \in [Procs -> Labels] /\ call' \in [Procs -> Calls \cup {NoCall}]
           /\ todo' \in [Procs -> Seq(Ops)] /\ before' \in [Procs -> Contents]
           /\ orphaned' \in [Procs -> BOOLEAN]
           /\ \A q \in Procs : pc'[q] \notin {"idle", "authorize"} => todo'[q] # <<>>
           /\ \A q \in Procs : Books(q)'
           /\ NothingOfForbiddenBulk'
<1>1. CASE Exit(p)
  BY <1>1, ExitKeepsBooks
<1>2. CASE ~Exit(p)
  <2>1. /\ Len(todo[p]) > 1 /\ todo' = [todo EXCEPT ![p] = Tail(@)]
        /\ before' = [before EXCEPT ![p] = "absent"] /\ orphaned' = [orphaned EXCEPT ![p] = FALSE]
        /\ pc' = [pc EXCEPT ![p] = "next"] /\ UNCHANGED call
    BY <1>2 DEF Proceed, Goto
  <2>2. TypeOK
    BY DEF BooksInv
  <2>3. Tail(todo[p]) \in Seq(Ops) /\ Tail(todo[p]) # <<>>
    BY <2>1, <2>2, HeadAndTail DEF TypeOK
  <2>4. /\ pc' \in [Procs -> Labels] /\ call' \in [Procs -> Calls \cup {NoCall}]
        /\ todo' \in [Procs -> Seq(Ops)] /\ before' \in [Procs -> Contents]
        /\ orphaned' \in [Procs -> BOOLEAN]
    BY <2>1, <2>2, <2>3, Constants DEF TypeOK, Labels
  <2>5. \A q \in Procs \ {p} : pc'[q] = pc[q] /\ todo'[q] = todo[q]
    BY <2>1, <2>2 DEF TypeOK
  <2>6. pc'[p] = "next" /\ todo'[p] = Tail(todo[p])
    BY <2>1, <2>2 DEF TypeOK
  <2>7. NothingOfForbiddenBulk'
    BY <2>1, <2>5 DEF BooksInv, NothingOfForbiddenBulk
  <2>8. \A q \in Procs : Books(q)'
    BY <2>1, <2>5, <2>6 DEF BooksInv, Books, Now
  <2>. QED BY <2>2, <2>3, <2>4, <2>5, <2>6, <2>7, <2>8 DEF TypeOK
<1>. QED BY <1>1, <1>2

\* Every call keeps its books.
LEMMA BooksInductive == BooksInv /\ [Next]_vars => BooksInv'
<1> SUFFICES ASSUME BooksInv, [Next]_vars PROVE BooksInv'
  OBVIOUS
<1>u. CASE UNCHANGED vars
  BY <1>u DEF vars, BooksInv, TypeOK, Books, Now, NothingOfForbiddenBulk
<1>n. ASSUME NEW p \in Procs,
             \/ Invoke(p) \/ Refuse(p) \/ Admit(p) \/ StartOperation(p) \/ CheckExists(p) \/ Load(p)
             \/ LoadFails(p) \/ ExitWithoutChange(p) \/ SkipInBulk(p) \/ Decide(p) \/ Open(p)
             \/ Fill(p) \/ Unlink(p) \/ UnlinkFails(p) \/ LogSuccess(p) \/ Kill(p)
      PROVE  BooksInv'
  <2>t. TypeOK /\ Books(p)
    BY DEF BooksInv
  <2>o. pc[p] \notin {"idle", "authorize"} =>
          /\ todo[p] # <<>> /\ Now(p) \in Ops
          /\ Now(p).operation \in Operations /\ Now(p).entity \in Entities /\ Now(p).data \in Values
    <3>1. pc[p] \notin {"idle", "authorize"} => todo[p] # <<>> /\ Now(p) \in Ops
      BY <2>t, HeadAndTail DEF TypeOK, Now
    <3>. QED BY <3>1 DEF Ops
  <2>1. CASE Invoke(p)
    <3>1. PICK c \in Calls : call' = [call EXCEPT ![p] = c] /\ todo' = [todo EXCEPT ![p] = c.ops]
      BY <2>1 DEF Invoke
    <3>2. c.ops \in Seq(Ops)
      BY Constants
    <3>3. /\ pc' = [pc EXCEPT ![p] = "authorize"]
          /\ UNCHANGED <<entities, mutations, before, orphaned, tainted, contested>>
      BY <2>1 DEF Invoke, Goto
    <3>4. TypeOK'
      BY <2>t, <3>1, <3>2, <3>3 DEF TypeOK, Labels
    <3>5. \A q \in Procs \ {p} : pc'[q] = pc[q] /\ todo'[q] = todo[q] /\ call'[q] = call[q]
      BY <2>t, <3>1, <3>3 DEF TypeOK
    <3>6. pc'[p] = "authorize" /\ todo'[p] = call'[p].ops
      BY <2>t, <3>1, <3>3 DEF TypeOK
    <3>. QED BY <3>4, <3>5, <3>6 DEF BooksInv, Books, Now, NothingOfForbiddenBulk
  <2>2. ASSUME Exit(p), entities' = entities, mutations' \in Seq(Mutations),
               tainted' \cup contested' \subseteq Entities
        PROVE  BooksInv'
    BY <2>t, <2>2, ExitKeepsBooks DEF BooksInv, TypeOK
  <2>3. CASE Refuse(p)
    <3>0. Len(todo[p]) \in Nat
      BY <2>t, LenProperties DEF TypeOK
    <3>1. Unauthorized(p) # {} /\ Unauthorized(p) \subseteq 1 .. Len(todo[p])
      BY <2>t, <2>3 DEF Refuse, Unauthorized, TypeOK
    <3> DEFINE first == CHOOSE i \in Unauthorized(p) : \A j \in Unauthorized(p) : i <= j
    <3>2. first \in Unauthorized(p)
      <4>1. \E i \in Unauthorized(p) : \A j \in Unauthorized(p) : i <= j
        BY <3>1, <3>0, LeastOfRange
      <4>. QED BY <4>1
    <3>3. todo[p][first] \in Ops
      BY <2>t, <3>1, <3>2, ElementOfSeq DEF TypeOK
    <3>4. log_mutation(todo[p][first], "absent", "absent", "unauthorized")
      BY <2>3 DEF Refuse
    <3>5. mutations' \in Seq(Mutations)
      <4> HIDE DEF first
      <4>. QED BY <2>t, <3>3, <3>4, LogGrows, Constants DEF Results
    <3>. QED BY <2>t, <2>2, <2>3, <3>5 DEF Refuse, TypeOK
  <2>4. ASSUME pc[p] # "idle", NEW label \in Labels \ {"idle", "authorize"}, Goto(p, label),
               UNCHANGED <<call, todo>>, todo[p] # <<>>,
               pc[p] = "authorize" => Unauthorized(p) = {},
               label \in {"open", "fill"} => Writes(Now(p)),
               label = "unlink" => Now(p).operation = "delete",
               label = "log" => Now(p).operation # "read",
               entities' \in [Entities -> Contents], mutations' \in Seq(Mutations),
               before' \in [Procs -> Contents], orphaned' \in [Procs -> BOOLEAN],
               tainted' \cup contested' \subseteq Entities
        PROVE  BooksInv'
    BY <2>t, <2>4, StepKeepsBooks DEF BooksInv, TypeOK
  <2>5. CASE Admit(p)
    <3>1. CASE todo[p] = <<>>
      BY <2>t, <2>2, <2>5, <3>1 DEF Admit, TypeOK
    <3>2. CASE todo[p] # <<>>
      BY <2>t, <2>4, <2>5, <3>2 DEF Admit, TypeOK, Labels
    <3>. QED BY <3>1, <3>2
  <2>6. CASE StartOperation(p)
    <3>1. CASE ~call[p].bulk /\ Now(p).operation = "create"
      BY <2>t, <2>o, <2>4, <2>6, <3>1 DEF StartOperation, TypeOK, Labels, Writes
    <3>2. CASE ~(~call[p].bulk /\ Now(p).operation = "create")
      BY <2>t, <2>o, <2>4, <2>6, <3>2 DEF StartOperation, TypeOK, Labels
    <3>. QED BY <3>1, <3>2
  <2>7. CASE CheckExists(p)
    <3>1. PICK label \in {"decide", "load"} : Goto(p, label)
      BY <2>7 DEF CheckExists
    <3>. QED BY <2>t, <2>o, <2>4, <2>7, <3>1 DEF CheckExists, TypeOK, Labels
  <2>8. CASE Load(p)
    <3>1. before' \in [Procs -> Contents]
      BY <2>t, <2>8, Constants DEF Load, TypeOK
    <3>. QED BY <2>t, <2>o, <2>4, <2>8, <3>1 DEF Load, TypeOK, Labels
  <2>9. CASE LoadFails(p) \/ ExitWithoutChange(p) \/ UnlinkFails(p)
    <3>1. Exit(p) /\ UNCHANGED <<entities, mutations, tainted, contested>>
      BY <2>9 DEF LoadFails, ExitWithoutChange, UnlinkFails
    <3>. QED BY <2>t, <2>2, <3>1 DEF TypeOK
  <2>10. ASSUME Proceed(p), pc[p] \notin {"idle", "authorize"}, mutations' \in Seq(Mutations),
                UNCHANGED <<entities, tainted, contested>>
         PROVE  BooksInv'
    BY <2>t, <2>10, ProceedKeepsBooks DEF BooksInv, TypeOK
  <2>11. CASE SkipInBulk(p)
    <3>1. PICK result \in Results : log_mutation(Now(p), "absent", "absent", result)
      BY <2>11 DEF SkipInBulk, Results
    <3>2. pc[p] = "decide" /\ Proceed(p) /\ UNCHANGED <<entities, tainted, contested>>
      BY <2>11 DEF SkipInBulk
    <3>3. mutations' \in Seq(Mutations)
      BY <2>t, <2>o, <3>1, <3>2, LogGrows, Constants
    <3>. QED BY <2>10, <3>2, <3>3
  <2>12. CASE Decide(p)
    <3>1. PICK label \in {"open", "unlink"} :
             /\ Goto(p, label)
             /\ label = "open" => Writes(Now(p))
             /\ label = "unlink" => Now(p).operation = "delete"
      BY <2>12 DEF Decide, Writes
    <3>. QED BY <2>t, <2>o, <2>4, <2>12, <3>1 DEF Decide, TypeOK, Labels
  <2>13. CASE Open(p)
    <3>1. entities' \in [Entities -> Contents] /\ contested' \subseteq Entities
      BY <2>t, <2>o, <2>13, Constants DEF Open, TypeOK, Overlapped
    <3>2. Writes(Now(p)) /\ pc[p] = "open"
      BY <2>t, <2>13 DEF Open, Books
    <3>. QED BY <2>t, <2>o, <2>4, <2>13, <3>1, <3>2 DEF Open, TypeOK, Labels
  <2>14. CASE Fill(p)
    <3>1. entities' \in [Entities -> Contents]
      BY <2>t, <2>o, <2>14, Constants DEF Fill, TypeOK
    <3>2. Writes(Now(p)) /\ pc[p] = "fill"
      BY <2>t, <2>14 DEF Fill, Books
    <3>. QED BY <2>t, <2>o, <2>4, <2>14, <3>1, <3>2 DEF Fill, TypeOK, Labels, Writes
  <2>15. CASE Unlink(p)
    <3>1. /\ entities' \in [Entities -> Contents] /\ contested' \subseteq Entities
          /\ orphaned' \in [Procs -> BOOLEAN]
      BY <2>t, <2>o, <2>15, Constants DEF Unlink, TypeOK, Overlapped
    <3>2. Now(p).operation = "delete" /\ pc[p] = "unlink"
      BY <2>t, <2>15 DEF Unlink, Books
    <3>. QED BY <2>t, <2>o, <2>4, <2>15, <3>1, <3>2 DEF Unlink, TypeOK, Labels
  <2>16. CASE LogSuccess(p)
    <3>1. pc[p] = "log" /\ Proceed(p) /\ UNCHANGED <<entities, tainted, contested>>
      BY <2>16 DEF LogSuccess
    <3>2. log_mutation(Now(p), ChangeFrom(p), ChangeTo(p), "success")
      BY <2>16 DEF LogSuccess
    <3>3. ChangeFrom(p) \in Contents /\ ChangeTo(p) \in Contents
      BY <2>t, <2>o, <3>1, Constants DEF ChangeFrom, ChangeTo, TypeOK
    <3>4. mutations' \in Seq(Mutations)
      BY <2>t, <2>o, <3>1, <3>2, <3>3, LogGrows DEF Results
    <3>. QED BY <2>10, <3>1, <3>4
  <2>17. CASE Kill(p)
    <3>1. tainted' \subseteq Entities
      BY <2>t, <2>o, <2>17 DEF Kill, TypeOK
    <3>. QED BY <2>t, <2>2, <2>17, <3>1 DEF Kill, TypeOK
  <2>. QED BY <1>n, <2>1, <2>3, <2>5, <2>6, <2>7, <2>8, <2>9, <2>11, <2>12, <2>13, <2>14, <2>15,
              <2>16, <2>17
<1>. QED BY <1>u, <1>n DEF Next

\* Nothing is under way at the start.
LEMMA BooksInit == Init => BooksInv
<1> SUFFICES ASSUME Init PROVE BooksInv
  OBVIOUS
<1>1. <<>> \in Seq(Ops) /\ <<>> \in Seq(Mutations) /\ "absent" \in Contents
  BY EmptySeq, Constants
<1>. QED BY <1>1 DEF Init, BooksInv, TypeOK, Labels, Books, NothingOfForbiddenBulk

LEMMA BooksInvariant == Spec => []BooksInv
BY BooksInit, BooksInductive, PTL DEF Spec

\* Files, log and calls have the shapes the program gives them: a call never works on an
\* operation it does not have.
THEOREM TypeCorrect == Spec => []TypeOK
<1>1. BooksInv => TypeOK
  BY DEF BooksInv
<1>. QED BY <1>1, BooksInvariant, PTL

\* A bulk call one of whose operations is forbidden performs none of them, whatever calls
\* run beside it.
THEOREM BulkIsAuthorizedWhole == Spec => []NothingOfForbiddenBulk
<1>1. BooksInv => NothingOfForbiddenBulk
  BY DEF BooksInv
<1>. QED BY <1>1, BooksInvariant, PTL

-----------------------------------------------------------------------------
(* The files and the log.                                                  *)

\* The call is between a change of the entity and the log entry of it.
At(p, e) == pc[p] \in {"fill", "log"} /\ Now(p).entity = e

\* The call is about to log that there was nothing to delete.
Missed(p, e) ==
    /\ pc[p] = "decide" /\ Now(p).entity = e
    /\ Now(p).operation = "delete" /\ before[p] = "absent"

\* While no two calls have changed the entity at a time, the file is what the one call
\* that is changing it has made of it.
Alone(e) ==
    /\ \A p, q \in Procs : At(p, e) /\ At(q, e) => p = q
    /\ \A p \in Procs : pc[p] = "fill" /\ Now(p).entity = e => entities[e] = "torn" /\ ~orphaned[p]
    /\ \A p \in Procs : pc[p] = "log" /\ Now(p).entity = e => entities[e] = ChangeTo(p)
    /\ \A p \in Procs : Missed(p, e) => entities[e] = "absent"

Explained(e) == ~Changing(e) => entities[e] = LastLogged(e)

\* A document in the store was logged, or the call that wrote it is about to.
Documented(e) ==
    entities[e] \in Values =>
        \/ \E i \in Successes(e) : mutations[i].to = entities[e]
        \/ \E p \in Procs : /\ pc[p] = "log" /\ Now(p).entity = e
                            /\ Writes(Now(p)) /\ Now(p).data = entities[e]

Clean == Entities \ (tainted \cup contested)

StoreInv ==
    /\ \A p \in Procs : pc[p] \notin {"fill", "log"} => ~orphaned[p]
    /\ \A e \in Clean : Alone(e) /\ Explained(e)
    /\ \A e \in Entities \ tainted : Documented(e)

\* The other calls stand where they stood.
OthersWait(p) ==
    \A q \in Procs \ {p} : /\ pc'[q] = pc[q] /\ todo'[q] = todo[q]
                           /\ before'[q] = before[q] /\ orphaned'[q] = orphaned[q]

\* The log has what it had, for every entity.
LogKept(e) ==
    /\ LastLogged(e)' = LastLogged(e)
    /\ \A i \in Successes(e) : i \in Successes(e)' /\ mutations'[i] = mutations[i]

\* A non-empty set of positions has a last one.
LEMMA GreatestOfRange ==
    ASSUME NEW n \in Nat, NEW S, S \subseteq 1 .. n, S # {}
    PROVE  \E i \in S : \A j \in S : j <= i
<1> DEFINE T == {m \in 1 .. n : n + 1 - m \in S}
<1>1. PICK s \in S : TRUE
  OBVIOUS
<1>2. n + 1 - s \in T
  <2>1. s \in 1 .. n /\ n + 1 - s \in 1 .. n /\ n + 1 - (n + 1 - s) = s
    BY <1>1
  <2>. QED BY <1>1, <2>1
<1>3. PICK m \in T : \A k \in T : m <= k
  <2>1. T \subseteq 1 .. n /\ T # {}
    BY <1>2
  <2> HIDE DEF T
  <2>. QED BY <2>1, LeastOfRange
<1>4. ASSUME NEW j \in S PROVE j <= n + 1 - m
  <2>1. j \in 1 .. n /\ m \in 1 .. n
    BY <1>3
  <2>2. n + 1 - j \in 1 .. n /\ n + 1 - (n + 1 - j) = j
    BY <2>1
  <2>3. n + 1 - j \in T
    BY <2>2
  <2>4. m <= n + 1 - j
    BY <1>3, <2>3
  <2>. QED BY <2>1, <2>4
<1>5. n + 1 - m \in S
  BY <1>3
<1>. QED BY <1>4, <1>5

\* The last success of an entity is one of them.
LEMMA LastSuccess ==
    ASSUME mutations \in Seq(Mutations), NEW e \in Entities, Successes(e) # {}
    PROVE  (CHOOSE i \in Successes(e) : \A j \in Successes(e) : j <= i) \in Successes(e)
<1>1. Len(mutations) \in Nat /\ Successes(e) \subseteq 1 .. Len(mutations)
  BY LenProperties DEF Successes
<1>2. \E i \in Successes(e) : \A j \in Successes(e) : j <= i
  BY <1>1, GreatestOfRange
<1>. QED BY <1>2

\* One line more leaves the ones before it.
LEMMA LogAppends ==
    ASSUME TypeOK, NEW op \in Ops, NEW from \in Contents, NEW to \in Contents, NEW result \in Results,
           log_mutation(op, from, to, result)
    PROVE  /\ Len(mutations) \in Nat
           /\ DOMAIN mutations = 1 .. Len(mutations)
           /\ DOMAIN mutations' = 1 .. Len(mutations) + 1
           /\ \A i \in DOMAIN mutations : mutations'[i] = mutations[i]
           /\ mutations'[Len(mutations) + 1].entity = op.entity
           /\ mutations'[Len(mutations) + 1].result = result
           /\ mutations'[Len(mutations) + 1].to = to
<1> DEFINE line == [entity |-> op.entity, operation |-> op.operation, from |-> from, to |-> to,
                    result |-> result]
<1>1. line \in Mutations /\ mutations' = Append(mutations, line)
  BY DEF Mutations, Ops, log_mutation
<1>2. line.entity = op.entity /\ line.result = result /\ line.to = to
  OBVIOUS
<1>3. mutations \in Seq(Mutations)
  BY DEF TypeOK
<1> HIDE DEF line
<1>4. /\ mutations' \in Seq(Mutations) /\ Len(mutations') = Len(mutations) + 1
      /\ \A i \in 1 .. Len(mutations) : mutations'[i] = mutations[i]
      /\ mutations'[Len(mutations) + 1] = line
  BY <1>1, <1>3, AppendProperties
<1>5. Len(mutations) \in Nat /\ DOMAIN mutations = 1 .. Len(mutations)
  BY <1>3, LenProperties
<1>6. DOMAIN mutations' = 1 .. Len(mutations')
  BY <1>4, LenProperties
<1>. QED BY <1>2, <1>4, <1>5, <1>6

\* A refusal, and a change of another entity, keep what is logged of an entity.
LEMMA RefusalKeepsLog ==
    ASSUME TypeOK, NEW e \in Entities, NEW op \in Ops, NEW from \in Contents, NEW to \in Contents,
           NEW result \in Results, log_mutation(op, from, to, result),
           result # "success" \/ op.entity # e
    PROVE  LogKept(e)
<1>1. Successes(e)' = Successes(e)
  BY LogAppends DEF Successes
<1>2. \A i \in Successes(e) : mutations'[i] = mutations[i]
  BY LogAppends DEF Successes
<1>3. CASE Successes(e) = {}
  BY <1>1, <1>2, <1>3 DEF LogKept, LastLogged
<1>4. CASE Successes(e) # {}
  <2>1. (CHOOSE i \in Successes(e) : \A j \in Successes(e) : j <= i) \in Successes(e)
    BY <1>4, LastSuccess DEF TypeOK
  <2>. QED BY <1>1, <1>2, <1>4, <2>1 DEF LogKept, LastLogged
<1>. QED BY <1>3, <1>4

LEMMA SameLogIsKept ==
    ASSUME UNCHANGED mutations, NEW e \in Entities
    PROVE  LogKept(e)
BY DEF LogKept, LastLogged, Successes

\* What is logged last of an entity is the success just logged.
LEMMA SuccessIsLast ==
    ASSUME TypeOK, NEW op \in Ops, NEW from \in Contents, NEW to \in Contents,
           log_mutation(op, from, to, "success")
    PROVE  /\ LastLogged(op.entity)' = to
           /\ \E i \in Successes(op.entity)' : mutations'[i].to = to
           /\ \A i \in Successes(op.entity) :
                 i \in Successes(op.entity)' /\ mutations'[i] = mutations[i]
<1> DEFINE e == op.entity
           n == Len(mutations) + 1
<1>0. "success" \in Results
  BY DEF Results
<1>1. /\ Successes(e)' = Successes(e) \cup {n} /\ Successes(e) \subseteq 1 .. Len(mutations)
      /\ Len(mutations) \in Nat
  BY <1>0, LogAppends DEF Successes
<1>2. mutations'[n].to = to /\ \A i \in Successes(e) : mutations'[i] = mutations[i]
  BY <1>0, LogAppends DEF Successes
<1>3. (CHOOSE i \in Successes(e)' : \A j \in Successes(e)' : j <= i) = n
  <2>1. n \in Successes(e)' /\ \A j \in Successes(e)' : j <= n
    BY <1>1
  <2>2. \A i \in Successes(e)' : (\A j \in Successes(e)' : j <= i) => i = n
    BY <1>1
  <2>. QED BY <2>1, <2>2
<1>. QED BY <1>1, <1>2, <1>3 DEF LastLogged

\* A call that goes on without a change of a file keeps how files and calls fit.
LEMMA QuietKeepsAlone ==
    ASSUME BooksInv, StoreInv, NEW p \in Procs, OthersWait(p), UNCHANGED entities,
           tainted \subseteq tainted', contested \subseteq contested',
           pc'[p] \notin {"fill", "log"}, ~orphaned'[p],
           \A e \in Clean : Missed(p, e)' => entities[e] = "absent"
    PROVE  /\ \A q \in Procs : pc'[q] \notin {"fill", "log"} => ~orphaned'[q]
           /\ Clean' \subseteq Clean
           /\ \A e \in Clean' : Alone(e)'
<1>1. Clean' \subseteq Clean
  BY DEF Clean
<1>2. \A q \in Procs : pc'[q] \notin {"fill", "log"} => ~orphaned'[q]
  BY DEF OthersWait, StoreInv
<1>3. ASSUME NEW e \in Clean' PROVE Alone(e)'
  <2>1. e \in Clean /\ Alone(e)
    BY <1>1, <1>3 DEF StoreInv
  <2>2. \A q \in Procs : pc'[q] \in {"fill", "log"} => q # p
    OBVIOUS
  <2>3. \A q \in Procs \ {p} : /\ Now(q)' = Now(q) /\ ChangeTo(q)' = ChangeTo(q)
                               /\ At(q, e)' = At(q, e) /\ Missed(q, e)' = Missed(q, e)
    BY DEF OthersWait, Now, ChangeTo, At, Missed
  <2>4. \A q \in Procs : At(q, e)' => q # p
    BY <2>2 DEF At
  <2>5. \A q, r \in Procs : At(q, e)' /\ At(r, e)' => q = r
    BY <2>1, <2>3, <2>4 DEF Alone
  <2>6. \A q \in Procs : pc'[q] = "fill" /\ Now(q)'.entity = e => entities'[e] = "torn" /\ ~orphaned'[q]
    BY <2>1, <2>2, <2>3 DEF Alone, OthersWait
  <2>7. \A q \in Procs : pc'[q] = "log" /\ Now(q)'.entity = e => entities'[e] = ChangeTo(q)'
    BY <2>1, <2>2, <2>3 DEF Alone, OthersWait
  <2>8. \A q \in Procs : Missed(q, e)' => entities'[e] = "absent"
    BY <2>1, <2>3 DEF Alone
  <2>. QED BY <2>5, <2>6, <2>7, <2>8 DEF Alone
<1>. QED BY <1>1, <1>2, <1>3

\* A document whose log entries are kept stays documented.
LEMMA DocumentedStays ==
    ASSUME StoreInv, NEW e \in Entities \ tainted, NEW p \in Procs, OthersWait(p),
           entities'[e] = entities[e], 
           \A i \in Successes(e) : i \in Successes(e)' /\ mutations'[i] = mutations[i],
           pc[p] = "log" => Now(p).entity # e \/ ~Writes(Now(p))
    PROVE  Documented(e)'
<1>1. SUFFICES ASSUME entities[e] \in Values
               PROVE  \/ \E i \in Successes(e)' : mutations'[i].to = entities[e]
                      \/ \E q \in Procs : /\ pc'[q] = "log" /\ Now(q)'.entity = e
                                          /\ Writes(Now(q))' /\ Now(q)'.data = entities[e]
  BY DEF Documented
<1>2. CASE \E i \in Successes(e) : mutations[i].to = entities[e]
  BY <1>2
<1>3. CASE \E q \in Procs : /\ pc[q] = "log" /\ Now(q).entity = e
                            /\ Writes(Now(q)) /\ Now(q).data = entities[e]
  <2>1. PICK q \in Procs : /\ pc[q] = "log" /\ Now(q).entity = e
                           /\ Writes(Now(q)) /\ Now(q).data = entities[e]
    BY <1>3
  <2>2. q \in Procs \ {p}
    BY <2>1
  <2>3. pc'[q] = pc[q] /\ Now(q)' = Now(q) /\ Writes(Now(q))' = Writes(Now(q))
    BY <2>2 DEF OthersWait, Now, Writes
  <2>. QED BY <2>1, <2>3
<1>. QED BY <1>1, <1>2, <1>3 DEF StoreInv, Documented

\* So does a call that also logs nothing it has performed.
LEMMA QuietKeepsStore ==
    ASSUME BooksInv, StoreInv, NEW p \in Procs, OthersWait(p), UNCHANGED entities,
           tainted \subseteq tainted', contested \subseteq contested',
           pc'[p] \notin {"fill", "log"}, ~orphaned'[p],
           \A e \in Clean : Missed(p, e)' => entities[e] = "absent",
           pc[p] \in {"fill", "log"} => Now(p).entity \in tainted',
           \A e \in Entities : LogKept(e)
    PROVE  StoreInv'
<1>1. /\ \A q \in Procs : pc'[q] \notin {"fill", "log"} => ~orphaned'[q]
      /\ Clean' \subseteq Clean
      /\ \A e \in Clean' : Alone(e)'
  BY QuietKeepsAlone
<1>2. ASSUME NEW e \in Clean' PROVE Explained(e)'
  <2>1. e \in Clean /\ Explained(e) /\ e \in Entities /\ e \notin tainted'
    BY <1>1, <1>2 DEF StoreInv, Clean
  <2>2. Changing(e) => Changing(e)'
    <3>1. SUFFICES ASSUME NEW q \in Procs, pc[q] \in {"fill", "log"}, Now(q).entity = e
                   PROVE  pc'[q] \in {"fill", "log"} /\ Now(q)'.entity = e
      BY DEF Changing
    <3>2. q \in Procs \ {p}
      BY <2>1, <3>1
    <3>. QED BY <3>1, <3>2 DEF OthersWait, Now
  <2>. QED BY <2>1, <2>2 DEF Explained, LogKept
<1>3. ASSUME NEW e \in Entities \ tainted' PROVE Documented(e)'
  <2>1. e \in Entities \ tainted /\ (pc[p] = "log" => Now(p).entity # e)
    BY <1>3
  <2>. QED BY <2>1, DocumentedStays DEF LogKept
<1>. QED BY <1>1, <1>2, <1>3 DEF StoreInv

\* A call that logs what it has done to an entity, or that there was nothing to do,
\* leaves the file as its entry says.
LEMMA SuccessKeepsStore ==
    ASSUME BooksInv, StoreInv, NEW p \in Procs, OthersWait(p),
           UNCHANGED <<entities, tainted, contested>>,
           pc'[p] \notin {"fill", "log"}, ~orphaned'[p], ~(\E e \in Entities : Missed(p, e)'),
           Now(p) \in Ops, NEW from \in Contents, NEW to \in Contents,
           log_mutation(Now(p), from, to, "success"),
           pc[p] \in {"log", "decide"},
           Now(p).entity \in Clean => entities[Now(p).entity] = to,
           pc[p] = "log" /\ Writes(Now(p)) => to = Now(p).data
    PROVE  StoreInv'
<1>op. PICK op \in Ops : op = Now(p)
  OBVIOUS
<1>0. TypeOK /\ op.entity \in Entities /\ "success" \in Results /\ log_mutation(op, from, to, "success")
  BY <1>op DEF BooksInv, Ops, Results
<1>1. /\ \A q \in Procs : pc'[q] \notin {"fill", "log"} => ~orphaned'[q]
      /\ Clean' \subseteq Clean
      /\ \A e \in Clean' : Alone(e)'
  <2>1. Clean \subseteq Entities
    BY DEF Clean
  <2>. QED BY <2>1, QuietKeepsAlone
<1>2. /\ LastLogged(op.entity)' = to
      /\ \E i \in Successes(op.entity)' : mutations'[i].to = to
      /\ \A i \in Successes(op.entity) :
            i \in Successes(op.entity)' /\ mutations'[i] = mutations[i]
  BY <1>0, SuccessIsLast
<1>3. \A e \in Entities : e # op.entity => LogKept(e)
  BY <1>0, RefusalKeepsLog
<1>4. ASSUME NEW e \in Clean' PROVE Explained(e)'
  <2>1. e \in Clean /\ Explained(e) /\ e \in Entities
    BY <1>1, <1>4 DEF StoreInv, Clean
  <2>2. CASE e = op.entity
    BY <1>op, <1>2, <2>1, <2>2 DEF Explained
  <2>3. CASE e # op.entity
    <3>1. Changing(e) => Changing(e)'
      <4>1. SUFFICES ASSUME NEW q \in Procs, pc[q] \in {"fill", "log"}, Now(q).entity = e
                     PROVE  pc'[q] \in {"fill", "log"} /\ Now(q)'.entity = e
        BY DEF Changing
      <4>2. q \in Procs \ {p}
        BY <1>op, <2>3, <4>1
      <4>. QED BY <4>1, <4>2 DEF OthersWait, Now
    <3>. QED BY <1>3, <2>1, <2>3, <3>1 DEF Explained, LogKept
  <2>. QED BY <2>2, <2>3
<1>5. ASSUME NEW e \in Entities \ tainted' PROVE Documented(e)'
  <2>1. e \in Entities \ tainted /\ entities'[e] = entities[e]
    BY <1>5
  <2>2. \A i \in Successes(e) : i \in Successes(e)' /\ mutations'[i] = mutations[i]
    BY <1>2, <1>3, <2>1 DEF LogKept
  <2>3. CASE e = op.entity /\ pc[p] = "log" /\ Writes(Now(p))
    <3>1. CASE entities[e] = to
      BY <1>2, <2>3, <3>1 DEF Documented
    <3>2. CASE entities[e] # to
      <4>1. SUFFICES ASSUME entities[e] \in Values
                     PROVE  \/ \E i \in Successes(e)' : mutations'[i].to = entities[e]
                            \/ \E q \in Procs : /\ pc'[q] = "log" /\ Now(q)'.entity = e
                                                /\ Writes(Now(q))' /\ Now(q)'.data = entities[e]
        BY DEF Documented
      <4>2. CASE \E i \in Successes(e) : mutations[i].to = entities[e]
        BY <2>2, <4>2
      <4>3. CASE \E q \in Procs : /\ pc[q] = "log" /\ Now(q).entity = e
                                  /\ Writes(Now(q)) /\ Now(q).data = entities[e]
        <5>1. PICK q \in Procs : /\ pc[q] = "log" /\ Now(q).entity = e
                                 /\ Writes(Now(q)) /\ Now(q).data = entities[e]
          BY <4>3
        <5>2. q \in Procs \ {p}
          BY <1>op, <2>3, <3>2, <5>1
        <5>3. pc'[q] = pc[q] /\ Now(q)' = Now(q) /\ Writes(Now(q))' = Writes(Now(q))
          BY <5>2 DEF OthersWait, Now, Writes
        <5>. QED BY <5>1, <5>3
      <4>. QED BY <2>1, <4>1, <4>2, <4>3 DEF StoreInv, Documented
    <3>. QED BY <3>1, <3>2
  <2>4. CASE ~(e = op.entity /\ pc[p] = "log" /\ Writes(Now(p)))
    BY <1>op, <2>1, <2>2, <2>4, DocumentedStays
  <2>. QED BY <2>3, <2>4
<1>. QED BY <1>1, <1>4, <1>5 DEF StoreInv

\* A call that ends, or goes on with its next operation, has no file open.
LEMMA CallMovesOn ==
    ASSUME TypeOK, NEW p \in Procs, Exit(p) \/ Proceed(p)
    PROVE  OthersWait(p) /\ pc'[p] \in {"idle", "next"} /\ ~orphaned'[p]
<1>1. /\ \E label \in {"idle", "next"} : pc' = [pc EXCEPT ![p] = label]
      /\ \E ops : todo' = [todo EXCEPT ![p] = ops]
      /\ before' = [before EXCEPT ![p] = "absent"]
      /\ orphaned' = [orphaned EXCEPT ![p] = FALSE]
  BY DEF Exit, Proceed, Goto
<1>. QED BY <1>1 DEF OthersWait, TypeOK

\* A call opens a file.
LEMMA OpenKeepsStore ==
    ASSUME BooksInv, StoreInv, NEW p \in Procs, Open(p), Now(p).entity \in Entities
    PROVE  StoreInv'
<1> DEFINE f == Now(p).entity
<1>1. TypeOK /\ Books(p)
  BY DEF BooksInv
<1>2. /\ pc[p] = "open" /\ pc' = [pc EXCEPT ![p] = "fill"]
      /\ entities' = [entities EXCEPT ![f] = "torn"]
      /\ contested' = contested \cup Overlapped(p)
      /\ UNCHANGED <<mutations, todo, before, orphaned, tainted>>
  BY DEF Open, Goto
<1>3. /\ OthersWait(p) /\ pc'[p] = "fill" /\ ~orphaned'[p]
      /\ entities'[f] = "torn" /\ \A e \in Entities \ {f} : entities'[e] = entities[e]
  BY <1>1, <1>2 DEF OthersWait, TypeOK, StoreInv
<1>4. \A q \in Procs : Now(q)' = Now(q) /\ ChangeTo(q)' = ChangeTo(q)
  BY <1>2 DEF Now, ChangeTo
<1>5. \A e \in Entities : LogKept(e)
  BY <1>2, SameLogIsKept
<1>6. Clean' \subseteq Clean
  BY <1>2 DEF Clean
<1>7. ASSUME NEW e \in Clean' PROVE Alone(e)' /\ Explained(e)'
  <2>1. e \in Clean /\ e \in Entities /\ Alone(e) /\ Explained(e)
    BY <1>6, <1>7 DEF StoreInv, Clean
  <2>2. CASE e = f
    <3>1. e \notin Overlapped(p)
      BY <1>2, <1>7 DEF Clean
    <3>2. \A q \in Procs \ {p} : ~At(q, e) /\ ~Missed(q, e)
      BY <2>2, <3>1 DEF Overlapped, At, Missed
    <3>3. \A q \in Procs \ {p} : ~At(q, e)' /\ ~Missed(q, e)'
      BY <1>3, <1>4, <3>2 DEF At, Missed, OthersWait
    <3>4. ~Missed(p, e)'
      BY <1>3 DEF Missed
    <3>5. Alone(e)'
      BY <1>3, <2>2, <3>3, <3>4 DEF Alone, At
    <3>6. Changing(e)'
      BY <1>3, <1>4, <2>2 DEF Changing
    <3>. QED BY <3>5, <3>6 DEF Explained
  <2>3. CASE e # f
    <3>1. ~At(p, e)' /\ ~Missed(p, e)'
      BY <1>3, <1>4, <2>3 DEF At, Missed
    <3>2. \A q \in Procs \ {p} : At(q, e)' = At(q, e) /\ Missed(q, e)' = Missed(q, e)
      BY <1>3, <1>4 DEF At, Missed, OthersWait
    <3>3. entities'[e] = entities[e]
      BY <1>3, <2>1, <2>3
    <3>4. \A q, r \in Procs : At(q, e)' /\ At(r, e)' => q = r
      BY <2>1, <3>1, <3>2 DEF Alone
    <3>5. \A q \in Procs : pc'[q] = "fill" /\ Now(q)'.entity = e => entities'[e] = "torn" /\ ~orphaned'[q]
      BY <1>3, <1>4, <2>1, <2>3, <3>3 DEF Alone, OthersWait
    <3>6. \A q \in Procs : pc'[q] = "log" /\ Now(q)'.entity = e => entities'[e] = ChangeTo(q)'
      BY <1>3, <1>4, <2>1, <3>3 DEF Alone, OthersWait
    <3>7. \A q \in Procs : Missed(q, e)' => entities'[e] = "absent"
      BY <2>1, <3>1, <3>2, <3>3 DEF Alone
    <3>8. Alone(e)'
      BY <3>4, <3>5, <3>6, <3>7 DEF Alone
    <3>9. Changing(e) => Changing(e)'
      BY <1>2, <1>3, <1>4 DEF Changing, OthersWait
    <3>. QED BY <1>5, <2>1, <3>3, <3>8, <3>9 DEF Explained, LogKept
  <2>. QED BY <2>2, <2>3
<1>8. ASSUME NEW e \in Entities \ tainted' PROVE Documented(e)'
  <2>1. CASE e = f
    <3>1. entities'[e] \notin Values
      BY <1>3, <2>1, Constants
    <3>. QED BY <3>1 DEF Documented
  <2>2. CASE e # f
    BY <1>2, <1>3, <1>5, <1>8, <2>2, DocumentedStays DEF LogKept
  <2>. QED BY <2>1, <2>2
<1>9. \A q \in Procs : pc'[q] \notin {"fill", "log"} => ~orphaned'[q]
  BY <1>3 DEF OthersWait, StoreInv
<1>. QED BY <1>7, <1>8, <1>9 DEF StoreInv

\* A call writes what it has into the file it has open.
LEMMA FillKeepsStore ==
    ASSUME BooksInv, StoreInv, NEW p \in Procs, Fill(p), Now(p) \in Ops
    PROVE  StoreInv'
<1> DEFINE f == Now(p).entity
<1>1. TypeOK /\ Books(p) /\ f \in Entities /\ Now(p).data \in Values
  BY DEF BooksInv, Ops
<1>2. /\ pc[p] = "fill" /\ pc' = [pc EXCEPT ![p] = "log"]
      /\ UNCHANGED <<mutations, todo, before, orphaned, tainted, contested>>
  BY DEF Fill, Goto
<1>3. OthersWait(p) /\ pc'[p] = "log"
  BY <1>1, <1>2 DEF OthersWait, TypeOK
<1>4. Writes(Now(p)) /\ ChangeTo(p) = Now(p).data
  BY <1>1, <1>2 DEF Books, Writes, ChangeTo
<1>5. /\ \A e \in Entities \ {f} : entities'[e] = entities[e]
      /\ ~orphaned[p] => entities'[f] \in {Now(p).data, "torn"}
      /\ ~orphaned[p] /\ entities[f] \notin Values => entities'[f] = Now(p).data
      /\ orphaned[p] => entities'[f] = entities[f]
  <2>1. CASE orphaned[p]
    BY <2>1 DEF Fill
  <2>2. CASE ~orphaned[p]
    <3>1. PICK content \in {Now(p).data} \cup IF File(p) \in Values THEN {"torn"} ELSE {} :
             entities' = [entities EXCEPT ![f] = content]
      BY <2>2 DEF Fill
    <3>. QED BY <1>1, <2>2, <3>1 DEF TypeOK, File
  <2>. QED BY <2>1, <2>2
<1>6. \A q \in Procs : Now(q)' = Now(q) /\ ChangeTo(q)' = ChangeTo(q)
  BY <1>2 DEF Now, ChangeTo
<1>7. \A e \in Entities : LogKept(e)
  BY <1>2, SameLogIsKept
<1>8. Clean' = Clean
  BY <1>2 DEF Clean
<1>9. ASSUME NEW e \in Clean' PROVE Alone(e)' /\ Explained(e)'
  <2>1. e \in Clean /\ e \in Entities /\ Alone(e) /\ Explained(e)
    BY <1>8, <1>9 DEF StoreInv, Clean
  <2>2. \A q \in Procs : At(q, e)' = At(q, e) /\ Missed(q, e)' = Missed(q, e)
    <3>1. At(p, e)' = At(p, e) /\ Missed(p, e)' = Missed(p, e)
      BY <1>2, <1>3, <1>6 DEF At, Missed
    <3>2. \A q \in Procs \ {p} : At(q, e)' = At(q, e) /\ Missed(q, e)' = Missed(q, e)
      BY <1>3, <1>6 DEF At, Missed, OthersWait
    <3>. QED BY <3>1, <3>2
  <2>3. \A q, r \in Procs : At(q, e)' /\ At(r, e)' => q = r
    BY <2>1, <2>2 DEF Alone
  <2>4. CASE e = f
    <3>1. At(p, e) /\ entities[e] = "torn" /\ ~orphaned[p]
      BY <1>2, <2>1, <2>4 DEF At, Alone
    <3>2. entities'[e] = ChangeTo(p)'
      BY <1>4, <1>5, <1>6, <2>4, <3>1, Constants
    <3>3. \A q \in Procs \ {p} : ~At(q, e)' /\ ~Missed(q, e)'
      BY <2>1, <2>2, <3>1 DEF Alone
    <3>4. At(p, e)' /\ ~Missed(p, e)'
      BY <1>3, <2>2, <3>1 DEF Missed
    <3>5. Alone(e)'
      BY <1>3, <2>3, <3>2, <3>3, <3>4 DEF Alone, At
    <3>6. Changing(e)'
      BY <3>4 DEF Changing, At
    <3>. QED BY <3>5, <3>6 DEF Explained
  <2>5. CASE e # f
    <3>1. entities'[e] = entities[e]
      BY <1>5, <2>1, <2>5
    <3>2. \A q \in Procs : Now(q)'.entity = e => q # p
      BY <1>6, <2>5
    <3>3. \A q \in Procs : pc'[q] = "fill" /\ Now(q)'.entity = e => entities'[e] = "torn" /\ ~orphaned'[q]
      BY <1>3, <1>6, <2>1, <3>1, <3>2 DEF Alone, OthersWait
    <3>4. \A q \in Procs : pc'[q] = "log" /\ Now(q)'.entity = e => entities'[e] = ChangeTo(q)'
      BY <1>3, <1>6, <2>1, <3>1, <3>2 DEF Alone, OthersWait
    <3>5. \A q \in Procs : Missed(q, e)' => entities'[e] = "absent"
      BY <2>1, <2>2, <3>1 DEF Alone
    <3>6. Alone(e)'
      BY <2>3, <3>3, <3>4, <3>5 DEF Alone
    <3>7. Changing(e) => Changing(e)'
      BY <2>2 DEF Changing, At
    <3>. QED BY <1>7, <2>1, <3>1, <3>6, <3>7 DEF Explained, LogKept
  <2>. QED BY <2>4, <2>5
<1>10. ASSUME NEW e \in Entities \ tainted' PROVE Documented(e)'
  <2>1. CASE entities'[e] = entities[e]
    BY <1>2, <1>3, <1>7, <1>10, <2>1, DocumentedStays DEF LogKept
  <2>2. CASE entities'[e] # entities[e]
    <3>1. e = f /\ (entities'[e] = Now(p).data \/ entities'[e] \notin Values)
      BY <1>5, <1>10, <2>2, Constants
    <3>2. pc'[p] = "log" /\ Now(p)'.entity = e /\ Writes(Now(p))' /\ Now(p)'.data = Now(p).data
      BY <1>3, <1>4, <1>6, <3>1 DEF Writes
    <3>. QED BY <3>1, <3>2 DEF Documented
  <2>. QED BY <2>1, <2>2
<1>11. \A q \in Procs : pc'[q] \notin {"fill", "log"} => ~orphaned'[q]
  BY <1>3 DEF OthersWait, StoreInv
<1>. QED BY <1>9, <1>10, <1>11 DEF StoreInv

\* A call removes a file, under the hands of the calls that have it open.
LEMMA UnlinkKeepsStore ==
    ASSUME BooksInv, StoreInv, NEW p \in Procs, Unlink(p), Now(p).entity \in Entities
    PROVE  StoreInv'
<1> DEFINE f == Now(p).entity
<1>1. TypeOK /\ Books(p)
  BY DEF BooksInv
<1>2. /\ pc[p] = "unlink" /\ pc' = [pc EXCEPT ![p] = "log"]
      /\ entities' = [entities EXCEPT ![f] = "absent"]
      /\ orphaned' = [q \in Procs |-> orphaned[q] \/ (pc[q] = "fill" /\ Now(q).entity = f)]
      /\ contested' = contested \cup Overlapped(p)
      /\ UNCHANGED <<mutations, todo, before, tainted>>
  BY DEF Unlink, Goto
<1>3. /\ \A q \in Procs \ {p} : pc'[q] = pc[q] /\ todo'[q] = todo[q] /\ before'[q] = before[q]
      /\ pc'[p] = "log"
      /\ entities'[f] = "absent" /\ \A e \in Entities \ {f} : entities'[e] = entities[e]
  BY <1>1, <1>2 DEF TypeOK
<1>4. \A q \in Procs : Now(q)' = Now(q) /\ ChangeTo(q)' = ChangeTo(q)
  BY <1>2 DEF Now, ChangeTo
<1>5. ChangeTo(p) = "absent" /\ ~Writes(Now(p))
  BY <1>1, <1>2 DEF Books, ChangeTo, Writes
<1>6. \A e \in Entities : LogKept(e)
  BY <1>2, SameLogIsKept
<1>7. Clean' \subseteq Clean
  BY <1>2 DEF Clean
<1>8. ASSUME NEW e \in Clean' PROVE Alone(e)' /\ Explained(e)'
  <2>1. e \in Clean /\ e \in Entities /\ Alone(e) /\ Explained(e)
    BY <1>7, <1>8 DEF StoreInv, Clean
  <2>2. CASE e = f
    <3>1. e \notin Overlapped(p)
      BY <1>2, <1>8 DEF Clean
    <3>2. \A q \in Procs \ {p} : ~At(q, e)
      BY <2>2, <3>1 DEF Overlapped, At
    <3>3. \A q \in Procs \ {p} : ~At(q, e)'
      BY <1>3, <1>4, <3>2 DEF At
    <3>4. entities'[e] = "absent" /\ ChangeTo(p)' = "absent"
      BY <1>3, <1>4, <1>5, <2>2
    <3>5. Alone(e)'
      BY <1>3, <3>3, <3>4 DEF Alone, At
    <3>6. Changing(e)'
      BY <1>3, <1>4, <2>2 DEF Changing
    <3>. QED BY <3>5, <3>6 DEF Explained
  <2>3. CASE e # f
    <3>1. ~At(p, e)' /\ ~Missed(p, e)'
      BY <1>3, <1>4, <2>3 DEF At, Missed
    <3>2. \A q \in Procs \ {p} : At(q, e)' = At(q, e) /\ Missed(q, e)' = Missed(q, e)
      BY <1>3, <1>4 DEF At, Missed
    <3>3. entities'[e] = entities[e]
      BY <1>3, <2>1, <2>3
    <3>4. \A q, r \in Procs : At(q, e)' /\ At(r, e)' => q = r
      BY <2>1, <3>1, <3>2 DEF Alone
    <3>5. ASSUME NEW q \in Procs, pc'[q] = "fill", Now(q)'.entity = e
          PROVE  entities'[e] = "torn" /\ ~orphaned'[q]
      <4>1. q # p /\ pc[q] = "fill" /\ Now(q).entity = e
        BY <1>3, <1>4, <3>5
      <4>2. entities[e] = "torn" /\ ~orphaned[q]
        BY <2>1, <4>1 DEF Alone
      <4>. QED BY <1>2, <2>3, <3>3, <4>1, <4>2
    <3>6. \A q \in Procs : pc'[q] = "log" /\ Now(q)'.entity = e => entities'[e] = ChangeTo(q)'
      BY <1>3, <1>4, <2>1, <2>3, <3>3 DEF Alone
    <3>7. \A q \in Procs : Missed(q, e)' => entities'[e] = "absent"
      BY <2>1, <3>1, <3>2, <3>3 DEF Alone
    <3>8. Alone(e)'
      BY <3>4, <3>5, <3>6, <3>7 DEF Alone
    <3>9. Changing(e) => Changing(e)'
      BY <1>2, <1>3, <1>4 DEF Changing
    <3>. QED BY <1>6, <2>1, <3>3, <3>8, <3>9 DEF Explained, LogKept
  <2>. QED BY <2>2, <2>3
<1>9. ASSUME NEW e \in Entities \ tainted' PROVE Documented(e)'
  <2>1. CASE e = f
    <3>1. entities'[e] \notin Values
      BY <1>3, <2>1, Constants
    <3>. QED BY <3>1 DEF Documented
  <2>2. CASE e # f
    <3>1. entities'[e] = entities[e] /\ Documented(e)
      BY <1>2, <1>3, <1>9, <2>2 DEF StoreInv
    <3>2. \A q \in Procs : pc[q] = "log" => pc'[q] = "log"
      BY <1>3
    <3>. QED BY <1>2, <1>4, <3>1, <3>2 DEF Documented, Successes, Writes
  <2>. QED BY <2>1, <2>2
<1>10. \A q \in Procs : pc'[q] \notin {"fill", "log"} => ~orphaned'[q]
  BY <1>2, <1>3 DEF StoreInv
<1>. QED BY <1>8, <1>9, <1>10 DEF StoreInv

\* Every step keeps the files, the log and the calls together.
LEMMA StoreInductive == BooksInv /\ StoreInv /\ [Next]_vars => StoreInv'
<1> SUFFICES ASSUME BooksInv, StoreInv, [Next]_vars PROVE StoreInv'
  OBVIOUS
<1>u. CASE UNCHANGED vars
  <2>1. \A e \in Entities : Documented(e)' = Documented(e)
    BY <1>u DEF vars, Documented, Successes, Now, Writes
  <2>2. \A e \in Entities : Alone(e)' = Alone(e)
    BY <1>u DEF vars, Alone, At, Missed, Now, ChangeTo
  <2>3. \A e \in Entities : Explained(e)' = Explained(e)
    BY <1>u DEF vars, Explained, Changing, LastLogged, Successes, Now
  <2>. QED BY <1>u, <2>1, <2>2, <2>3 DEF vars, StoreInv, Clean
<1>n. ASSUME NEW p \in Procs,
             \/ Invoke(p) \/ Refuse(p) \/ Admit(p) \/ StartOperation(p) \/ CheckExists(p) \/ Load(p)
             \/ LoadFails(p) \/ ExitWithoutChange(p) \/ SkipInBulk(p) \/ Decide(p) \/ Open(p)
             \/ Fill(p) \/ Unlink(p) \/ UnlinkFails(p) \/ LogSuccess(p) \/ Kill(p)
      PROVE  StoreInv'
  <2>t. TypeOK /\ Books(p)
    BY DEF BooksInv
  <2>o. pc[p] \notin {"idle", "authorize"} =>
          /\ Now(p) \in Ops /\ Now(p).entity \in Entities /\ Now(p).data \in Values
    <3>1. pc[p] \notin {"idle", "authorize"} => Now(p) \in Ops
      BY <2>t, HeadAndTail DEF TypeOK, Now
    <3>. QED BY <3>1 DEF Ops
  <2>c. pc[p] \notin {"fill", "log"} => ~orphaned[p]
    BY DEF StoreInv
  <2>e. Clean \subseteq Entities
    BY DEF Clean
  \* What ends a call, or goes on with it, without a change and without a success.
  <2>1. ASSUME Exit(p) \/ Proceed(p), UNCHANGED <<entities, contested>>, tainted \subseteq tainted',
               \A e \in Entities : LogKept(e),
               pc[p] \in {"fill", "log"} => Now(p).entity \in tainted'
        PROVE  StoreInv'
    <3>1. OthersWait(p) /\ pc'[p] \in {"idle", "next"} /\ ~orphaned'[p]
      BY <2>t, <2>1, CallMovesOn
    <3>2. \A e \in Clean : ~Missed(p, e)'
      BY <3>1 DEF Missed
    <3>. QED BY <2>1, <3>1, <3>2, QuietKeepsStore
  \* What goes from one statement to another of the same operation.
  <2>2. ASSUME NEW label \in Labels \ {"fill", "log"}, Goto(p, label), pc[p] \notin {"fill", "log"},
               OthersWait(p), UNCHANGED <<entities, mutations, orphaned, tainted, contested>>,
               \A e \in Clean : Missed(p, e)' => entities[e] = "absent"
        PROVE  StoreInv'
    <3>1. pc'[p] = label
      BY <2>t, <2>2 DEF Goto, TypeOK
    <3>2. \A e \in Entities : LogKept(e)
      BY <2>2, SameLogIsKept
    <3>. QED BY <2>c, <2>2, <3>1, <3>2, QuietKeepsStore
  <2>3. ASSUME NEW label \in Labels, Goto(p, label), UNCHANGED <<todo, before, orphaned>>
        PROVE  OthersWait(p) /\ pc'[p] = label
    BY <2>t, <2>3 DEF OthersWait, Goto, TypeOK
  <2>4. CASE Invoke(p)
    <3>1. PICK c \in Calls : call' = [call EXCEPT ![p] = c] /\ todo' = [todo EXCEPT ![p] = c.ops]
      BY <2>4 DEF Invoke
    <3>2. OthersWait(p) /\ pc'[p] = "authorize"
      BY <2>t, <2>4, <3>1 DEF Invoke, Goto, OthersWait, TypeOK
    <3>3. \A e \in Clean : ~Missed(p, e)'
      BY <3>2 DEF Missed
    <3>. QED BY <2>2, <2>4, <3>2, <3>3 DEF Invoke, Labels
  <2>5. CASE Refuse(p)
    <3>0. Len(todo[p]) \in Nat
      BY <2>t, LenProperties DEF TypeOK
    <3>1. Unauthorized(p) # {} /\ Unauthorized(p) \subseteq 1 .. Len(todo[p])
      BY <2>t, <2>5 DEF Refuse, Unauthorized, TypeOK
    <3> DEFINE first == CHOOSE i \in Unauthorized(p) : \A j \in Unauthorized(p) : i <= j
    <3>2. first \in Unauthorized(p)
      <4>1. \E i \in Unauthorized(p) : \A j \in Unauthorized(p) : i <= j
        BY <3>0, <3>1, LeastOfRange
      <4>. QED BY <4>1
    <3>3. todo[p][first] \in Ops
      BY <2>t, <3>1, <3>2, ElementOfSeq DEF TypeOK
    <3>4. log_mutation(todo[p][first], "absent", "absent", "unauthorized")
      BY <2>5 DEF Refuse
    <3>5. \A e \in Entities : LogKept(e)
      <4> HIDE DEF first
      <4>. QED BY <2>t, <3>3, <3>4, RefusalKeepsLog, Constants DEF Results
    <3>. QED BY <2>1, <2>5, <3>5 DEF Refuse
  <2>6. CASE Admit(p)
    <3>1. \A e \in Entities : LogKept(e)
      BY <2>6, SameLogIsKept DEF Admit
    <3>2. CASE todo[p] = <<>>
      BY <2>1, <2>6, <3>1, <3>2 DEF Admit
    <3>3. CASE todo[p] # <<>>
      <4>1. OthersWait(p) /\ pc'[p] = "next"
        BY <2>3, <2>6, <3>3 DEF Admit, Labels
      <4>2. \A e \in Clean : ~Missed(p, e)'
        BY <4>1 DEF Missed
      <4>. QED BY <2>2, <2>6, <3>3, <4>1, <4>2 DEF Admit, Labels
    <3>. QED BY <3>2, <3>3
  <2>7. CASE StartOperation(p)
    <3>1. PICK label \in {"open", "exists"} : Goto(p, label)
      BY <2>7 DEF StartOperation
    <3>2. OthersWait(p) /\ pc'[p] = label
      BY <2>3, <2>7, <3>1 DEF StartOperation, Labels
    <3>3. \A e \in Clean : ~Missed(p, e)'
      BY <3>2 DEF Missed
    <3>. QED BY <2>2, <2>7, <3>1, <3>2, <3>3 DEF StartOperation, Labels
  <2>8. CASE CheckExists(p)
    <3>1. PICK label \in {"decide", "load"} :
             Goto(p, label) /\ (label = "decide" => entities[Now(p).entity] = "absent")
      BY <2>8 DEF CheckExists, File
    <3>2. OthersWait(p) /\ pc'[p] = label
      BY <2>3, <2>8, <3>1 DEF CheckExists, Labels
    <3>3. \A e \in Clean : Missed(p, e)' => entities[e] = "absent"
      BY <2>8, <3>1, <3>2 DEF Missed, Now, CheckExists
    <3>. QED BY <2>2, <2>8, <3>1, <3>2, <3>3 DEF CheckExists, Labels
  <2>9. CASE Load(p)
    <3>1. OthersWait(p) /\ pc'[p] = "decide" /\ before'[p] \in Values
      BY <2>t, <2>9 DEF Load, Goto, OthersWait, TypeOK
    <3>2. \A e \in Clean : ~Missed(p, e)'
      BY <3>1, Constants DEF Missed
    <3>. QED BY <2>2, <2>9, <3>1, <3>2 DEF Load, Labels
  <2>10. CASE LoadFails(p) \/ ExitWithoutChange(p) \/ UnlinkFails(p)
    <3>1. /\ Exit(p) /\ UNCHANGED <<entities, mutations, tainted, contested>>
          /\ pc[p] \notin {"fill", "log"}
      BY <2>10 DEF LoadFails, ExitWithoutChange, UnlinkFails
    <3>2. \A e \in Entities : LogKept(e)
      BY <3>1, SameLogIsKept
    <3>. QED BY <2>1, <3>1, <3>2
  <2>11. CASE SkipInBulk(p)
    <3>1. pc[p] = "decide" /\ Proceed(p) /\ UNCHANGED <<entities, tainted, contested>>
      BY <2>11 DEF SkipInBulk
    <3>2. CASE \E result \in Results \ {"success"} : log_mutation(Now(p), "absent", "absent", result)
      <4>1. \A e \in Entities : LogKept(e)
        BY <2>t, <2>o, <3>1, <3>2, RefusalKeepsLog, Constants
      <4>. QED BY <2>1, <3>1, <4>1
    <3>3. CASE /\ Now(p).operation = "delete" /\ before[p] = "absent"
               /\ log_mutation(Now(p), "absent", "absent", "success")
      <4>1. OthersWait(p) /\ pc'[p] \in {"idle", "next"} /\ ~orphaned'[p]
        BY <2>t, <3>1, CallMovesOn
      <4>2. ~(\E e \in Entities : Missed(p, e)')
        BY <4>1 DEF Missed
      <4>3. Now(p).entity \in Clean => entities[Now(p).entity] = "absent"
        BY <3>1, <3>3 DEF StoreInv, Alone, Missed
      <4>. QED BY <2>o, <3>1, <3>3, <4>1, <4>2, <4>3, SuccessKeepsStore, Constants
    <3>. QED BY <2>11, <3>2, <3>3 DEF SkipInBulk, Results
  <2>12. CASE Decide(p)
    <3>1. PICK label \in {"open", "unlink"} : Goto(p, label)
      BY <2>12 DEF Decide
    <3>2. OthersWait(p) /\ pc'[p] = label
      BY <2>3, <2>12, <3>1 DEF Decide, Labels
    <3>3. \A e \in Clean : ~Missed(p, e)'
      BY <3>2 DEF Missed
    <3>. QED BY <2>2, <2>12, <3>1, <3>2, <3>3 DEF Decide, Labels
  <2>13. CASE Open(p)
    BY <2>o, <2>13, OpenKeepsStore DEF Open
  <2>14. CASE Fill(p)
    BY <2>o, <2>14, FillKeepsStore DEF Fill
  <2>15. CASE Unlink(p)
    BY <2>o, <2>15, UnlinkKeepsStore DEF Unlink
  <2>16. CASE LogSuccess(p)
    <3>1. /\ pc[p] = "log" /\ Proceed(p) /\ UNCHANGED <<entities, tainted, contested>>
          /\ log_mutation(Now(p), ChangeFrom(p), ChangeTo(p), "success")
      BY <2>16 DEF LogSuccess
    <3>2. ChangeFrom(p) \in Contents /\ ChangeTo(p) \in Contents
      BY <2>t, <2>o, <3>1, Constants DEF ChangeFrom, ChangeTo, TypeOK
    <3>3. OthersWait(p) /\ pc'[p] \in {"idle", "next"} /\ ~orphaned'[p]
      BY <2>t, <3>1, CallMovesOn
    <3>4. ~(\E e \in Entities : Missed(p, e)')
      BY <3>3 DEF Missed
    <3>5. Now(p).entity \in Clean => entities[Now(p).entity] = ChangeTo(p)
      BY <3>1 DEF StoreInv, Alone
    <3>6. Writes(Now(p)) => ChangeTo(p) = Now(p).data
      BY DEF Writes, ChangeTo
    <3>. QED BY <2>o, <3>1, <3>2, <3>3, <3>4, <3>5, <3>6, SuccessKeepsStore
  <2>17. CASE Kill(p)
    <3>1. \A e \in Entities : LogKept(e)
      BY <2>17, SameLogIsKept DEF Kill
    <3>. QED BY <2>1, <2>17, <3>1 DEF Kill
  <2>. QED BY <1>n, <2>4, <2>5, <2>6, <2>7, <2>8, <2>9, <2>10, <2>11, <2>12, <2>13, <2>14, <2>15,
              <2>16, <2>17
<1>. QED BY <1>u, <1>n DEF Next

LEMMA StoreInit == Init => StoreInv
<1> SUFFICES ASSUME Init PROVE StoreInv
  OBVIOUS
<1>1. \A e \in Entities : Successes(e) = {} /\ entities[e] = "absent"
  BY DEF Init, Successes
<1>2. \A p \in Procs : pc[p] = "idle" /\ ~orphaned[p]
  BY DEF Init
<1>3. \A e \in Entities : Alone(e) /\ Explained(e)
  BY <1>1, <1>2 DEF Alone, At, Missed, Explained, LastLogged
<1>4. \A e \in Entities : Documented(e)
  BY <1>1, Constants DEF Documented
<1>. QED BY <1>2, <1>3, <1>4 DEF StoreInv, Clean

\* What the log says last of an entity is what is stored, unless a call is between the two
\* or was killed there, or two calls changed the entity at a time; and a document in the
\* store is always one that a call has logged or is about to log.
THEOREM LogExplained == Spec => []LogExplainsStore
<1>1. BooksInv /\ StoreInv => LogExplainsStore
  <2>1. StoreInv => LastEntryIsStored
    BY DEF StoreInv, Clean, Explained, LastEntryIsStored
  <2>2. StoreInv => DocumentsAreLogged
    BY DEF StoreInv, Documented, DocumentsAreLogged
  <2>. QED BY <2>1, <2>2 DEF LogExplainsStore
<1>2. Spec => [](BooksInv /\ StoreInv)
  <2>1. Init => BooksInv /\ StoreInv
    BY BooksInit, StoreInit
  <2>2. BooksInv /\ StoreInv /\ [Next]_vars => BooksInv' /\ StoreInv'
    BY BooksInductive, StoreInductive
  <2>. QED BY <2>1, <2>2, PTL DEF Spec
<1>. QED BY <1>1, <1>2, PTL

-----------------------------------------------------------------------------
(* The processor of the changes that the calls announce (ChangeProcessor), *)
(* for any number of overlapping processes and changes.                    *)

\* A call that is going to exit with 0 has recorded its change.
ReportIsBacked == \A p \in Handlers : place[p] = "report" => event[p].id \in Processed

LoggedInv == AckedIsProcessed /\ ReportIsBacked

\* With one process at a time, what a call found when it looked still holds when it
\* writes.
UndecidedIsFresh == \A p \in Handlers : place[p] = "react" => event[p].id \notin Processed

NoEventIsNoEvent == NoEvent \notin Events

LEMMA EmptySlot == NoEventIsNoEvent
BY DEF NoEventIsNoEvent, NoEvent, Events

\* A log that grows keeps what it holds.
LEMMA AppendRange ==
    ASSUME NEW S, NEW s \in Seq(S), NEW e \in S
    PROVE  LET t == Append(s, e)
           IN {t[i] : i \in DOMAIN t} = {s[i] : i \in DOMAIN s} \cup {e}
<1> DEFINE t == Append(s, e)
<1>1. DOMAIN t = 1..(Len(s) + 1) /\ DOMAIN s = 1..Len(s) /\ Len(s) \in Nat
  OBVIOUS
<1>2. \A i \in 1..Len(s) : t[i] = s[i]
  OBVIOUS
<1>3. t[Len(s) + 1] = e
  OBVIOUS
<1> HIDE DEF t
<1>4. {t[i] : i \in DOMAIN t} \subseteq {s[i] : i \in DOMAIN s} \cup {e}
  <2>1. SUFFICES ASSUME NEW i \in 1..(Len(s) + 1)
                 PROVE  t[i] \in {s[j] : j \in 1..Len(s)} \cup {e}
    BY <1>1
  <2>2. i \in 1..Len(s) \/ i = Len(s) + 1
    BY <1>1
  <2>. QED BY <2>2, <1>2, <1>3
<1>5. {s[i] : i \in DOMAIN s} \cup {e} \subseteq {t[i] : i \in DOMAIN t}
  <2>1. ASSUME NEW i \in 1..Len(s) PROVE s[i] \in {t[j] : j \in 1..(Len(s) + 1)}
    <3>1. i \in 1..(Len(s) + 1) /\ t[i] = s[i]
      BY <1>1, <1>2
    <3>. QED BY <3>1
  <2>2. e \in {t[j] : j \in 1..(Len(s) + 1)}
    <3>1. Len(s) + 1 \in 1..(Len(s) + 1)
      BY <1>1
    <3>. QED BY <3>1, <1>3
  <2>. QED BY <2>1, <2>2, <1>1
<1>. QED BY <1>4, <1>5 DEF t

-----------------------------------------------------------------------------

\* Type correctness: the logs, the slots and the histories of calls keep their
\* shapes whatever calls overlap or are killed.
THEOREM FeedTypeCorrect ==
    FeedSpec => []FeedTypeOK
<1> USE DEF FeedTypeOK
<1>1. FeedInit => FeedTypeOK
  BY ChangeConstants DEF FeedInit, NoEvent, Events
<1>2. FeedTypeOK /\ [FeedNext]_feedVars => FeedTypeOK'
  <2> SUFFICES ASSUME FeedTypeOK, [FeedNext]_feedVars PROVE FeedTypeOK'
    OBVIOUS
  <2> USE ChangeConstants, EmptySlot DEF NoEventIsNoEvent
  <2>1. CASE UNCHANGED feedVars
    BY <2>1 DEF feedVars
  <2>2. ASSUME NEW p \in Handlers, Deliver(p) PROVE FeedTypeOK'
    BY <2>2 DEF Deliver
  <2>3. ASSUME NEW p \in Handlers, Skip(p) PROVE FeedTypeOK'
    <3>1. event[p].id \in Changes
      BY <2>3 DEF Skip, Events
    <3>. QED BY <2>3, <3>1 DEF Skip, EndCall
  <2>4. ASSUME NEW p \in Handlers, StartReaction(p) PROVE FeedTypeOK'
    BY <2>4 DEF StartReaction
  <2>5. ASSUME NEW p \in Handlers, BuryEvent(p) PROVE FeedTypeOK'
    <3>1. event[p].id \in Changes
      BY <2>5 DEF BuryEvent, Events
    <3>2. deadLetter' \in Seq([id : Changes, result : Failures])
      BY <2>5, <3>1 DEF BuryEvent, Failures
    <3>. QED BY <2>5, <3>2 DEF BuryEvent, EndCall
  <2>6. ASSUME NEW p \in Handlers, RecordProcessed(p) PROVE FeedTypeOK'
    <3>1. event[p].id \in Changes
      BY <2>6 DEF RecordProcessed, Events
    <3>. QED BY <2>6, <3>1 DEF RecordProcessed
  <2>7. ASSUME NEW p \in Handlers, Report(p) PROVE FeedTypeOK'
    <3>1. event[p].id \in Changes
      BY <2>7 DEF Report, Events
    <3>. QED BY <2>7, <3>1 DEF Report, EndCall
  <2>8. ASSUME NEW p \in Handlers, KillCall(p) PROVE FeedTypeOK'
    BY <2>8 DEF KillCall, EndCall
  <2>. QED BY <2>1, <2>2, <2>3, <2>4, <2>5, <2>6, <2>7, <2>8 DEF FeedNext, Handle
<1>. QED BY <1>1, <1>2, PTL DEF FeedSpec

\* The range of the log of processed changes never shrinks, and grows by the change
\* of a call that records it.
LEMMA ProcessedGrows ==
    ASSUME FeedTypeOK, [FeedNext]_feedVars
    PROVE  /\ Processed \subseteq Processed'
           /\ \A p \in Handlers : RecordProcessed(p) => Processed' = Processed \cup {event[p].id}
           /\ (\A p \in Handlers : ~RecordProcessed(p)) => Processed' = Processed
<1>1. ASSUME NEW p \in Handlers, RecordProcessed(p)
      PROVE  Processed' = Processed \cup {event[p].id}
  <2>1. processed \in Seq(Changes) /\ event[p].id \in Changes
    BY <1>1 DEF FeedTypeOK, RecordProcessed, Events, NoEvent
  <2>2. processed' = Append(processed, event[p].id)
    BY <1>1 DEF RecordProcessed
  <2>. QED BY <2>1, <2>2, AppendRange DEF Processed
<1>2. ASSUME \A p \in Handlers : ~RecordProcessed(p) PROVE Processed' = Processed
  <2>1. processed' = processed
    BY <1>2
       DEF FeedNext, Handle, Deliver, Skip, StartReaction, BuryEvent, Report,
           KillCall, feedVars
  <2>. QED BY <2>1 DEF Processed
<1>. QED BY <1>1, <1>2

\* No call exits with 0 before its change is in the log: the log is written first,
\* and a call that skips has found the change there.
THEOREM AcknowledgedIsProcessed ==
    FeedSpec => []AckedIsProcessed
<1>1. FeedInit => LoggedInv
  BY DEF FeedInit, LoggedInv, AckedIsProcessed, ReportIsBacked
<1>2. FeedTypeOK /\ LoggedInv /\ [FeedNext]_feedVars => LoggedInv'
  <2> SUFFICES ASSUME FeedTypeOK, LoggedInv, [FeedNext]_feedVars PROVE LoggedInv'
    OBVIOUS
  <2> USE DEF LoggedInv, AckedIsProcessed, ReportIsBacked
  <2>0. Processed \subseteq Processed'
    BY ProcessedGrows
  <2>1. CASE UNCHANGED feedVars
    BY <2>1, <2>0 DEF feedVars
  <2>2. ASSUME NEW p \in Handlers, Deliver(p) PROVE LoggedInv'
    BY <2>2, <2>0 DEF Deliver, FeedTypeOK
  <2>3. ASSUME NEW p \in Handlers, Skip(p) PROVE LoggedInv'
    <3>1. acked' \subseteq Processed'
      BY <2>3, <2>0 DEF Skip, is_processed
    <3>2. ReportIsBacked'
      BY <2>3, <2>0 DEF Skip, EndCall, FeedTypeOK
    <3>. QED BY <3>1, <3>2
  <2>4. ASSUME NEW p \in Handlers, StartReaction(p) PROVE LoggedInv'
    BY <2>4, <2>0 DEF StartReaction, FeedTypeOK
  <2>5. ASSUME NEW p \in Handlers, BuryEvent(p) PROVE LoggedInv'
    BY <2>5, <2>0 DEF BuryEvent, EndCall, FeedTypeOK
  <2>6. ASSUME NEW p \in Handlers, RecordProcessed(p) PROVE LoggedInv'
    <3>1. event[p].id \in Processed'
      BY <2>6, ProcessedGrows
    <3>. QED BY <2>6, <3>1, <2>0 DEF RecordProcessed, FeedTypeOK
  <2>7. ASSUME NEW p \in Handlers, Report(p) PROVE LoggedInv'
    BY <2>7, <2>0 DEF Report, EndCall, FeedTypeOK
  <2>8. ASSUME NEW p \in Handlers, KillCall(p) PROVE LoggedInv'
    BY <2>8, <2>0 DEF KillCall, EndCall, FeedTypeOK
  <2>. QED BY <2>1, <2>2, <2>3, <2>4, <2>5, <2>6, <2>7, <2>8 DEF FeedNext, Handle
<1>3. LoggedInv => AckedIsProcessed
  BY DEF LoggedInv
<1>. QED BY <1>1, <1>2, <1>3, FeedTypeCorrect, PTL DEF FeedSpec

\* A settled change stays settled: the log keeps the change, so no call that looks at
\* it goes on to process it, and only a call past its look writes for the change.
THEOREM SettledIsFinal ==
    FeedSpec => SettledStaysSettled
<1>1. ASSUME FeedTypeOK, [FeedNext]_feedVars, NEW c \in Changes, Settled(c) PROVE Settled(c)'
  <2>1. c \in Processed'
    BY <1>1, ProcessedGrows DEF Settled
  <2>2. ASSUME NEW p \in Handlers, Deliver(p) \/ Handle(p) \/ KillCall(p),
               NEW q \in Handlers, place'[q] = "react", event'[q].id = c
        PROVE  FALSE
    <3>1. CASE StartReaction(p) /\ q = p
      BY <1>1, <2>2, <3>1 DEF StartReaction, is_processed, Settled
    <3>2. CASE ~(StartReaction(p) /\ q = p)
      <4>1. place[q] = "react" /\ event'[q] = event[q]
        BY <1>1, <2>2, <3>2
          
              DEF FeedTypeOK, Deliver, Handle, KillCall, Skip, StartReaction,
                  BuryEvent, RecordProcessed, Report, EndCall
      <4>. QED BY <1>1, <2>2, <4>1 DEF Settled
    <3>. QED BY <3>1, <3>2
  <2>. QED BY <1>1, <2>1, <2>2 DEF Settled, FeedNext, feedVars
<1>2. FeedTypeOK /\ [FeedNext]_feedVars =>
        [\A c \in Changes : Settled(c) => Settled(c)' /\ EntriesOf(c)' = EntriesOf(c)]_feedVars
  <2> SUFFICES ASSUME FeedTypeOK, [FeedNext]_feedVars, NEW c \in Changes, Settled(c)
               PROVE  EntriesOf(c)' = EntriesOf(c)
    BY <1>1
  <2>1. CASE processed' = processed /\ deadLetter' = deadLetter
    BY <2>1 DEF EntriesOf
  <2>2. ASSUME NEW p \in Handlers, BuryEvent(p) PROVE EntriesOf(c)' = EntriesOf(c)
    <3>1. event[p].id # c
      BY <2>2 DEF BuryEvent, Settled
    <3>2. PICK result \in Failures :
             deadLetter' = Append(deadLetter, [id |-> event[p].id, result |-> result])
      BY <2>2 DEF BuryEvent, Failures
    <3>3. event[p].id \in Changes
      BY <2>2 DEF BuryEvent, FeedTypeOK, Events, NoEvent
    <3>4. {i \in DOMAIN deadLetter' : deadLetter'[i].id = c}
            = {i \in DOMAIN deadLetter : deadLetter[i].id = c}
      BY <3>1, <3>2, <3>3 DEF FeedTypeOK
    <3>. QED BY <2>2, <3>4 DEF BuryEvent, EntriesOf
  <2>3. ASSUME NEW p \in Handlers, RecordProcessed(p) PROVE EntriesOf(c)' = EntriesOf(c)
    <3>1. event[p].id # c
      BY <2>3 DEF RecordProcessed, Settled
    <3>2. event[p].id \in Changes
      BY <2>3 DEF RecordProcessed, FeedTypeOK, Events, NoEvent
    <3>3. {i \in DOMAIN processed' : processed'[i] = c} = {i \in DOMAIN processed : processed[i] = c}
      BY <2>3, <3>1, <3>2 DEF FeedTypeOK, RecordProcessed
    <3>. QED BY <2>3, <3>3 DEF RecordProcessed, EntriesOf
  <2>. QED BY <2>1, <2>2, <2>3
              DEF FeedNext, Handle, Deliver, Skip, StartReaction, Report, KillCall,
                  feedVars
<1>. QED BY <1>2, FeedTypeCorrect, PTL DEF FeedSpec, SettledStaysSettled

-----------------------------------------------------------------------------

\* One call at a time: the program implements the exactly-once feed.  What a call
\* found when it looked at the log is still true when it writes, because nobody
\* else can have written.
THEOREM SequentialExactlyOnce ==
    ASSUME \A p, q \in Handlers : p = q
    PROVE  FeedSpec => ImplementsExactlyOnceFeed
<1>1. FeedInit => UndecidedIsFresh /\ Feed!Init
  BY DEF FeedInit, UndecidedIsFresh, Feed!Init
<1>2. FeedTypeOK /\ UndecidedIsFresh /\ [FeedNext]_feedVars => UndecidedIsFresh'
  <2> SUFFICES ASSUME FeedTypeOK, UndecidedIsFresh, [FeedNext]_feedVars PROVE UndecidedIsFresh'
    OBVIOUS
  <2> USE DEF UndecidedIsFresh
  <2>1. ASSUME NEW p \in Handlers, RecordProcessed(p) PROVE UndecidedIsFresh'
    <3>1. place'[p] = "report"
      BY <2>1 DEF RecordProcessed, FeedTypeOK
    <3>. QED BY <3>1
  <2>2. CASE \A p \in Handlers : ~RecordProcessed(p)
    <3>1. Processed' = Processed
      BY <2>2, ProcessedGrows
    <3>2. CASE UNCHANGED feedVars
      BY <3>1, <3>2 DEF feedVars
    <3>3. ASSUME NEW p \in Handlers,
                 Deliver(p) \/ Skip(p) \/ BuryEvent(p) \/ Report(p) \/ KillCall(p)
          PROVE  UndecidedIsFresh'
      BY <3>1, <3>3
         DEF Deliver, Skip, BuryEvent, Report, KillCall, EndCall, FeedTypeOK
    <3>4. ASSUME NEW p \in Handlers, StartReaction(p) PROVE UndecidedIsFresh'
      BY <3>1, <3>4 DEF StartReaction, is_processed, FeedTypeOK
    <3>. QED BY <2>2, <3>2, <3>3, <3>4 DEF FeedNext, Handle
  <2>. QED BY <2>1, <2>2
<1>3. FeedTypeOK /\ UndecidedIsFresh /\ [FeedNext]_feedVars => [Feed!Next]_<<processed, deadLetter>>
  <2> SUFFICES ASSUME FeedTypeOK, UndecidedIsFresh, [FeedNext]_feedVars
               PROVE  Feed!Next \/ UNCHANGED <<processed, deadLetter>>
    OBVIOUS
  <2>1. ASSUME NEW p \in Handlers, RecordProcessed(p) PROVE Feed!Next
    <3>1. event[p].id \in Changes /\ event[p].id \notin Feed!LogRange
      BY <2>1
         DEF RecordProcessed, UndecidedIsFresh, Processed, Feed!LogRange, FeedTypeOK,
             Events, NoEvent
    <3>2. Feed!Process(event[p].id)
      BY <2>1, <3>1 DEF RecordProcessed, Feed!Process
    <3>. QED BY <3>1, <3>2 DEF Feed!Next
  <2>2. ASSUME NEW p \in Handlers, BuryEvent(p) PROVE Feed!Next
    <3>1. event[p].id \in Changes /\ event[p].id \notin Feed!LogRange
      BY <2>2
         DEF BuryEvent, UndecidedIsFresh, Processed, Feed!LogRange, FeedTypeOK,
             Events, NoEvent
    <3>2. Feed!Bury(event[p].id)
      BY <2>2, <3>1 DEF BuryEvent, Feed!Bury, Failures
    <3>. QED BY <3>1, <3>2 DEF Feed!Next
  <2>. QED BY <2>1, <2>2
              DEF FeedNext, Handle, Deliver, Skip, StartReaction, Report, KillCall,
                  feedVars
<1>. QED BY <1>1, <1>2, <1>3, FeedTypeCorrect, PTL
            DEF FeedSpec, ImplementsExactlyOnceFeed, Feed!Spec
===============================================================================
