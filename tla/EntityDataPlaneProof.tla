-------------------------- MODULE EntityDataPlaneProof --------------------------
(***************************************************************************)
(* Proofs about the document routes for any number of handlers, regions,   *)
(* documents and stores:                                                   *)
(*   HandlersFit    what a handler holds at each statement (gives TypeOK); *)
(*   isolation of the regions, and which races can lose a store;           *)
(*   Unchallenged   what holds besides when requests do not overlap: it    *)
(*                  makes every update one step of VersionedDocuments;     *)
(*   WinnersInv     what holds when only the updates of one document do    *)
(*                  not overlap: one winner per revision.                  *)
(***************************************************************************)
EXTENDS EntityDataPlane, TLAPS

Served == {g \in Regions : stores[g] # None}

Resting == {"idle", "done"}
Seeking == {"store", "newstore", "getstore"}
Holding == {"check", "merge", "storedoc", "count", "storecount", "derive", "storerev",
            "answer", "remove"}
Updating == {"refetch", "check", "merge", "storedoc", "count", "storecount", "derive", "storerev"}

\* What the request and the locals l of a handler are at a label, in a service that
\* has stores for the regions served and has made the records allocated.
Fits(l, label, served, allocated) ==
    IF label \in Resting THEN l = NoRequest
    ELSE /\ l \in Locals
         /\ l.base # NoToken => l.method = "PUT"
         /\ l.method = "PUT" => l.field \in Fields
         /\ label \in Updating => l.method = "PUT"
         /\ label = "getstore" => l.region \in served
         /\ label \notin Seeking => l.store \in StoreIds
         /\ label \in Holding => l.rec \in allocated
         /\ label = "storerev" => l.number \in Revs

HandlersFit ==
    /\ TypeOK
    /\ \A s \in StoreIds, i \in Ids : documents[s][i] \in Allocated \cup {None}
    /\ \A t \in Threads : Fits(local[t], pc[t], Served, Allocated)

-----------------------------------------------------------------------------
(* Handlers and the shapes of the state.                                   *)

\* A local variable that is assigned a value of its kind leaves the locals locals.
LEMMA LocalsUpdates ==
    ASSUME NEW l \in Locals
    PROVE  /\ \A s \in StoreIds \cup {None} : [l EXCEPT !.store = s] \in Locals
           /\ \A r \in Records \cup {None} : [l EXCEPT !.rec = r] \in Locals
           /\ \A m \in SUBSET Fields : [l EXCEPT !.merged = m] \in Locals
           /\ \A n \in Nat : [l EXCEPT !.number = n] \in Locals
BY DEF Locals

\* A record that is made or changed keeps its type, and stays made.
LEMMA HeapUpdates ==
    ASSUME NEW h \in [Records -> Contents \cup {Free}], NEW r \in Records, NEW c \in Contents
    PROVE  /\ [h EXCEPT ![r] = c] \in [Records -> Contents \cup {Free}]
           /\ c # Free
           /\ \A q \in Records : h[q] # Free => [h EXCEPT ![r] = c][q] # Free
<1>1. c # Free
  BY DEF Contents, Free, Revs
<1>. QED BY <1>1

\* Whoever does not move still fits when stores and records are only added.
LEMMA FitsMonotone ==
    ASSUME NEW l, NEW label, NEW s1, NEW s2, NEW a1, NEW a2,
           s1 \subseteq s2, a1 \subseteq a2, Fits(l, label, s1, a1)
    PROVE  Fits(l, label, s2, a2)
BY DEF Fits

\* The control of handler t alone moves, and stores and records are only added.
LEMMA HandlersStep ==
    ASSUME HandlersFit, NEW t \in Threads,
           NEW l \in Locals \cup {NoRequest}, NEW label \in Labels,
           local' = [local EXCEPT ![t] = l], pc' = [pc EXCEPT ![t] = label],
           Served \subseteq Served', Allocated \subseteq Allocated',
           Fits(l, label, Served', Allocated')
    PROVE  /\ local' \in [Threads -> Locals \cup {NoRequest}]
           /\ pc' \in [Threads -> Labels]
           /\ \A u \in Threads : local'[u] = NoRequest <=> pc'[u] \in {"idle", "done"}
           /\ \A u \in Threads : Fits(local'[u], pc'[u], Served', Allocated')
<1> USE DEF HandlersFit, TypeOK
<1>1. local' \in [Threads -> Locals \cup {NoRequest}] /\ pc' \in [Threads -> Labels]
  OBVIOUS
<1>2. ASSUME NEW u \in Threads PROVE Fits(local'[u], pc'[u], Served', Allocated')
  <2>1. CASE u = t
    BY <2>1
  <2>2. CASE u # t
    BY <2>2, FitsMonotone
  <2>. QED BY <2>1, <2>2
<1>3. NoRequest \notin Locals
  BY DataPlaneConstants DEF DataPlaneConstants, NoRequest, Locals
<1>. QED BY <1>1, <1>2, <1>3 DEF Fits, Resting

\* What handler t was given and has found is known at each step it takes.
LEMMA HandlersFitInductive == HandlersFit /\ [Next]_vars => HandlersFit'
<1> SUFFICES ASSUME HandlersFit, [Next]_vars PROVE HandlersFit'
  OBVIOUS
<1>u. CASE UNCHANGED vars
  BY <1>u DEF vars, HandlersFit, TypeOK, Served, Allocated
<1>n. ASSUME NEW t \in Threads, Receive(t) \/ Reject(t) \/ Handle(t) \/ Close(t) PROVE HandlersFit'
  <2> USE DEF Labels, Goto, Assign, Codes, Silent, Dropped
  <2>t. TypeOK /\ \A s \in StoreIds, i \in Ids : documents[s][i] \in Allocated \cup {None}
    BY DEF HandlersFit
  <2>f. Fits(local[t], pc[t], Served, Allocated)
    BY DEF HandlersFit
  <2>k. None \notin StoreIds \cup Records \cup Fields /\ NoRequest \notin Locals /\ NoToken \notin Tokens
    BY DataPlaneConstants DEF DataPlaneConstants, NoRequest, Locals, NoToken, Tokens, Revs
  <2>s. ASSUME UNCHANGED shared PROVE Served' = Served /\ Allocated' = Allocated
    BY <2>s DEF shared, Served, Allocated
  <2>1. CASE Receive(t)
    <3>1. PICK method \in Methods, region \in Regions, id \in Ids, tenant \in Tenants \cup {None},
               field \in Fields \cup {None}, base \in known \cup {NoToken} :
            /\ method = "POST" => RoomToCreate
            /\ method = "PUT" => RoomToUpdate
            /\ (method = "PUT") = (field # None)
            /\ base # NoToken => method = "PUT" /\ base.region = region /\ base.id = id
            /\ Assign(t, [method |-> method, region |-> region, id |-> id, tenant |-> tenant,
                          field |-> field, base |-> base, store |-> None, rec |-> None,
                          merged |-> {}, number |-> 0])
      BY <2>1 DEF Receive
    <3> DEFINE l == [method |-> method, region |-> region, id |-> id, tenant |-> tenant,
                     field |-> field, base |-> base, store |-> None, rec |-> None,
                     merged |-> {}, number |-> 0]
    <3>2. l \in Locals
      BY <2>t DEF Locals, TypeOK
    <3>3. Fits(l, "store", Served, Allocated)
      BY <3>1, <3>2 DEF Fits, Resting, Updating, Seeking, Holding
    <3>4. /\ local' = [local EXCEPT ![t] = l] /\ pc' = [pc EXCEPT ![t] = "store"]
          /\ UNCHANGED <<shared, clients, reply>>
      BY <2>1, <3>1 DEF Receive
    <3> HIDE DEF l
    <3>5. Fits(l, "store", Served', Allocated')
      BY <2>s, <3>3, <3>4
    <3>. QED BY <2>t, <2>s, <3>2, <3>4, <3>5, HandlersStep DEF HandlersFit, TypeOK, shared, clients
  <2>2. ASSUME NEW code \in Codes, Answer(t, code), UNCHANGED <<stores, owner, Allocated>>,
               heap' \in [Records -> Contents \cup {Free}],
               documents' \in [StoreIds -> [Ids -> Records \cup {None}]],
               \A s \in StoreIds, i \in Ids : documents'[s][i] \in Allocated' \cup {None},
               known' \subseteq Tokens, acked' \in [Records -> SUBSET (Fields \X Revs)]
        PROVE  HandlersFit'
    <3>1. Served' = Served
      BY <2>2 DEF Served
    <3>2. Fits(NoRequest, "done", Served', Allocated')
      BY DEF Fits, Resting
    <3>3. /\ local' \in [Threads -> Locals \cup {NoRequest}]
          /\ pc' \in [Threads -> Labels]
          /\ \A u \in Threads : local'[u] = NoRequest <=> pc'[u] \in {"idle", "done"}
          /\ \A u \in Threads : Fits(local'[u], pc'[u], Served', Allocated')
      BY <2>2, <3>1, <3>2, HandlersStep DEF Answer
    <3>. QED BY <2>t, <2>2, <3>3 DEF HandlersFit, TypeOK, Answer
  <2>3. ASSUME NEW code \in Codes, Answer(t, code), UNCHANGED <<shared, clients>> PROVE HandlersFit'
    BY <2>t, <2>s, <2>2, <2>3 DEF HandlersFit, TypeOK, shared, clients
  <2>4. ASSUME NEW l \in Locals, NEW label \in Labels, Assign(t, l), Goto(t, label),
               UNCHANGED <<shared, clients, reply>>, Fits(l, label, Served, Allocated)
        PROVE  HandlersFit'
    <3>1. Fits(l, label, Served', Allocated')
      BY <2>4, <2>s
    <3>2. /\ local' \in [Threads -> Locals \cup {NoRequest}]
          /\ pc' \in [Threads -> Labels]
          /\ \A u \in Threads : local'[u] = NoRequest <=> pc'[u] \in {"idle", "done"}
          /\ \A u \in Threads : Fits(local'[u], pc'[u], Served', Allocated')
      BY <2>s, <2>4, <3>1, HandlersStep
    <3>. QED BY <2>t, <2>s, <2>4, <3>2 DEF HandlersFit, TypeOK, shared, clients
  <2>5. CASE Reject(t)
    BY <2>3, <2>5 DEF Reject
  <2>6. CASE FindStore(t)
    <3>1. local[t] \in Locals /\ local[t].region \in Regions
      BY <2>f, <2>6 DEF FindStore, Fits, Resting, Locals
    <3>2. \E label \in {"newstore", "getstore"} :
             Goto(t, label) /\ Fits(local[t], label, Served, Allocated)
      <4>1. pc[t] = "store"
        BY <2>6 DEF FindStore
      <4>2. Fits(local[t], "newstore", Served, Allocated)
        BY <2>f, <4>1 DEF Fits, Resting, Updating, Seeking, Holding
      <4>3. stores[local[t].region] # None => Fits(local[t], "getstore", Served, Allocated)
        <5>1. stores[local[t].region] # None => local[t].region \in Served
          BY <3>1 DEF Served
        <5>. QED BY <2>f, <4>1, <5>1 DEF Fits, Resting, Updating, Seeking, Holding
      <4>. QED BY <2>6, <4>2, <4>3 DEF FindStore
    <3>3. Assign(t, local[t])
      BY <2>t, <2>6 DEF FindStore, TypeOK
    <3>4. PICK label \in {"newstore", "getstore"} :
             Goto(t, label) /\ Fits(local[t], label, Served, Allocated)
      BY <3>2
    <3>5. UNCHANGED <<shared, clients, reply>>
      BY <2>6 DEF FindStore
    <3>6. label \in Labels
      BY DEF Labels
    <3>. QED BY <2>4, <3>1, <3>3, <3>4, <3>5, <3>6
  <2>7. CASE NewStore(t)
    <3>1. local[t] \in Locals /\ local[t].region \in Regions
      BY <2>f, <2>7 DEF NewStore, Fits, Resting, Locals
    <3>2. PICK s \in StoreIds : /\ owner' = [owner EXCEPT ![s] = local[t].region]
                               /\ stores' = [stores EXCEPT ![local[t].region] = s]
      BY <2>7 DEF NewStore
    <3>3. Served \subseteq Served' /\ local[t].region \in Served'
      BY <2>t, <2>k, <3>1, <3>2 DEF Served, TypeOK
    <3>4. Fits(local[t], "getstore", Served', Allocated)
      BY <2>f, <2>7, <3>1, <3>3 DEF NewStore, Fits, Resting, Updating, Seeking, Holding
    <3>5. /\ local' = [local EXCEPT ![t] = local[t]] /\ pc' = [pc EXCEPT ![t] = "getstore"]
          /\ UNCHANGED <<documents, heap, clients, reply>> /\ Allocated' = Allocated
      BY <2>t, <2>7 DEF NewStore, TypeOK, Allocated
    <3>6. stores' \in [Regions -> StoreIds \cup {None}] /\ owner' \in [StoreIds -> Regions \cup {None}]
      BY <2>t, <3>1, <3>2 DEF TypeOK
    <3>7. Fits(local[t], "getstore", Served', Allocated')
      BY <3>4, <3>5
    <3>. QED BY <2>t, <3>1, <3>3, <3>5, <3>6, <3>7, HandlersStep DEF HandlersFit, TypeOK, clients
  <2>8. CASE GetStore(t)
    <3>1. local[t] \in Locals /\ stores[local[t].region] \in StoreIds
      BY <2>t, <2>f, <2>8 DEF GetStore, Fits, Resting, Served, TypeOK, Locals, Seeking
    <3> DEFINE l == [local[t] EXCEPT !.store = stores[local[t].region]]
    <3>2. l \in Locals /\ l.store \in StoreIds
      BY <3>1, LocalsUpdates DEF Locals
    <3>3. l.base = local[t].base /\ l.method = local[t].method /\ l.field = local[t].field
      BY <3>1 DEF Locals
    <3>4. Fits(l, "fetch", Served, Allocated)
      <4> HIDE DEF l
      <4>. QED BY <2>f, <2>8, <3>2, <3>3 DEF GetStore, Fits, Resting, Updating, Seeking, Holding
    <3>. QED BY <2>4, <2>8, <3>2, <3>4 DEF GetStore
  <2>9. CASE NotFound(t)
    BY <2>3, <2>9 DEF NotFound
  <2>10. CASE CheckRevision(t)
    <3>1. local[t] \in Locals /\ Fits(local[t], "merge", Served, Allocated)
      BY <2>f, <2>10 DEF CheckRevision, Fits, Resting, Updating, Seeking, Holding
    <3>2. Assign(t, local[t]) \/ Answer(t, 409)
      BY <2>t, <2>10 DEF CheckRevision, TypeOK
    <3>3. UNCHANGED <<shared, clients>>
      BY <2>10 DEF CheckRevision
    <3>4. CASE Answer(t, 409)
      BY <2>3, <3>3, <3>4
    <3>5. CASE ~Answer(t, 409)
      BY <2>4, <2>10, <3>1, <3>2, <3>3, <3>5 DEF CheckRevision
    <3>. QED BY <3>4, <3>5
  <2>11. CASE Close(t)
    <3>1. Fits(NoRequest, "idle", Served, Allocated) /\ local[t] = NoRequest
      BY <2>t, <2>11 DEF Close, Fits, Resting, TypeOK
    <3>2. local' = [local EXCEPT ![t] = NoRequest] /\ Fits(NoRequest, "idle", Served', Allocated')
      BY <2>t, <2>s, <2>11, <3>1 DEF Close, TypeOK
    <3>. QED BY <2>t, <2>s, <2>11, <3>2, HandlersStep DEF Close, HandlersFit, TypeOK, shared, clients
  <2>12. CASE FetchRecord(t)
    <3>1. local[t] \in Locals /\ local[t].store \in StoreIds /\ local[t].id \in Ids
      BY <2>f, <2>12 DEF FetchRecord, Fits, Resting, Seeking, Locals
    <3>2. Stored(t) \in Allocated
      BY <2>t, <2>12, <3>1 DEF FetchRecord, Stored
    <3> DEFINE l == [local[t] EXCEPT !.rec = Stored(t)]
    <3>3. l \in Locals /\ l.rec \in Allocated
      BY <3>1, <3>2, LocalsUpdates DEF Locals, Allocated
    <3>4. /\ l.base = local[t].base /\ l.method = local[t].method /\ l.field = local[t].field
          /\ l.store = local[t].store
      BY <3>1 DEF Locals
    <3>5. PICK label \in {"answer", "remove", "merge", "refetch"} :
             /\ Goto(t, label) /\ (label \in {"merge", "refetch"} => local[t].method = "PUT")
             /\ Assign(t, l) /\ UNCHANGED <<shared, clients, reply>>
      <4>1. local[t].method \in {"POST", "GET", "PUT", "DELETE"} /\ local[t].method # "POST"
        BY <2>12, <3>1, DataPlaneConstants DEF FetchRecord, DataPlaneConstants, Locals
      <4>. QED BY <2>12, <4>1 DEF FetchRecord
    <3>6. Fits(l, label, Served, Allocated)
      <4> HIDE DEF l
      <4>. QED BY <2>f, <2>12, <3>1, <3>3, <3>4, <3>5
               DEF FetchRecord, Fits, Resting, Updating, Seeking, Holding
    <3>. QED BY <2>4, <3>3, <3>5, <3>6
  <2>13. CASE Refetch(t)
    <3>1. /\ local[t] \in Locals /\ local[t].store \in StoreIds /\ local[t].id \in Ids
          /\ UNCHANGED <<shared, clients>>
      BY <2>f, <2>13 DEF Refetch, Fits, Resting, Seeking, Locals
    <3>2. CASE Stored(t) = None
      BY <2>3, <2>13, <3>1, <3>2 DEF Refetch
    <3>3. CASE Stored(t) # None
      <4>1. Stored(t) \in Allocated
        BY <2>t, <3>1, <3>3 DEF Stored
      <4> DEFINE l == [local[t] EXCEPT !.rec = Stored(t)]
      <4>2. l \in Locals /\ l.rec \in Allocated
        BY <3>1, <4>1, LocalsUpdates DEF Locals, Allocated
      <4>3. /\ l.base = local[t].base /\ l.method = local[t].method /\ l.field = local[t].field
            /\ l.store = local[t].store
        BY <3>1 DEF Locals
      <4>4. Fits(l, "check", Served, Allocated)
        <5> HIDE DEF l
        <5>. QED BY <2>f, <2>13, <4>2, <4>3 DEF Refetch, Fits, Resting, Updating, Seeking, Holding
      <4>. QED BY <2>4, <2>13, <3>3, <4>2, <4>4 DEF Refetch
    <3>. QED BY <3>2, <3>3
  <2>14. CASE Merge(t) \/ ReadCount(t) \/ DeriveRevision(t)
    <3>1. /\ local[t] \in Locals /\ local[t].rec \in Allocated /\ local[t].method = "PUT"
          /\ local[t].store \in StoreIds /\ local[t].field \in Fields
      BY <2>f, <2>14 DEF Merge, ReadCount, DeriveRevision, Fits, Resting, Seeking, Holding, Updating
    <3>2. heap[local[t].rec] \in Contents
      BY <2>t, <3>1 DEF TypeOK, Allocated
    <3> DEFINE m == heap[local[t].rec].doc \cup {local[t].field}
               n == heap[local[t].rec].revision
    <3>3. m \in SUBSET Fields /\ n \in Revs /\ n \in Nat
      BY <3>1, <3>2 DEF Contents, Revs
    <3>4. PICK l \in Locals, label \in {"storedoc", "storecount", "storerev"} :
             /\ l = [local[t] EXCEPT !.merged = m] \/ l = [local[t] EXCEPT !.number = n]
             /\ label = "storerev" => l.number \in Revs
             /\ Assign(t, l) /\ Goto(t, label) /\ UNCHANGED <<shared, clients, reply>>
      <4>1. CASE Merge(t)
        <5>1. [local[t] EXCEPT !.merged = m] \in Locals
          BY <3>1, <3>3, LocalsUpdates
        <5>. QED BY <4>1, <5>1 DEF Merge
      <4>2. CASE ReadCount(t) \/ DeriveRevision(t)
        <5>1. [local[t] EXCEPT !.number = n] \in Locals /\ [local[t] EXCEPT !.number = n].number \in Revs
          BY <3>1, <3>3, LocalsUpdates DEF Locals
        <5>. QED BY <4>2, <5>1 DEF ReadCount, DeriveRevision
      <4>. QED BY <2>14, <4>1, <4>2
    <3>5. /\ l.base = local[t].base /\ l.method = local[t].method /\ l.field = local[t].field
          /\ l.store = local[t].store /\ l.rec = local[t].rec
      BY <3>1, <3>4 DEF Locals
    <3>6. Fits(l, label, Served, Allocated)
      BY <2>f, <2>14, <3>1, <3>4, <3>5
         DEF Merge, ReadCount, DeriveRevision, Fits, Resting, Updating, Seeking, Holding
    <3>. QED BY <2>4, <3>4, <3>6
  <2>15. CASE StoreDocument(t) \/ StoreCount(t) \/ StoreRevision(t)
    <3>1. PICK r \in Allocated : /\ r = local[t].rec /\ local[t] \in Locals
                                 /\ local[t].store \in StoreIds /\ local[t].method = "PUT"
      BY <2>f, <2>15 DEF StoreDocument, StoreCount, StoreRevision,
                         Fits, Resting, Seeking, Holding, Updating
    <3>2. heap[r] \in Contents /\ r \in Records
      BY <2>t, <3>1 DEF TypeOK, Allocated
    <3>3. PICK c \in Contents, label \in {"count", "derive", "answer"} :
             /\ heap' = [heap EXCEPT ![r] = c]
             /\ pc' = [pc EXCEPT ![t] = label]
             /\ UNCHANGED <<stores, owner, documents, clients, reply, local>>
      <4>1. CASE StoreDocument(t)
        <5>1. [heap[r] EXCEPT !.doc = local[t].merged] \in Contents
          BY <3>1, <3>2 DEF Contents, Locals
        <5>. QED BY <3>1, <4>1, <5>1 DEF StoreDocument, SetRecord
      <4>2. CASE StoreCount(t)
        <5>1. [heap[r] EXCEPT !.revision = local[t].number + 1] \in Contents
          <6>1. local[t].number + 1 \in Revs
            BY <3>1 DEF Locals, Revs
          <6>. QED BY <3>2, <6>1 DEF Contents
        <5>. QED BY <3>1, <4>2, <5>1 DEF StoreCount, SetRecord
      <4>3. CASE StoreRevision(t)
        <5>1. [heap[r] EXCEPT !.rev = local[t].number] \in Contents
          <6>1. local[t].number \in Revs
            BY <2>f, <4>3 DEF StoreRevision, Fits, Resting
          <6>. QED BY <3>2, <6>1 DEF Contents
        <5>. QED BY <3>1, <4>3, <5>1 DEF StoreRevision, SetRecord
      <4>. QED BY <2>15, <4>1, <4>2, <4>3
    <3>4. heap' \in [Records -> Contents \cup {Free}] /\ Allocated \subseteq Allocated'
      BY <2>t, <3>2, <3>3, HeapUpdates DEF TypeOK, Allocated
    <3>5. Served' = Served /\ local' = [local EXCEPT ![t] = local[t]]
      BY <2>t, <3>3 DEF Served, TypeOK
    <3>6. Fits(local[t], label, Served', Allocated')
      BY <2>f, <2>15, <3>1, <3>3, <3>4, <3>5
         DEF StoreDocument, StoreCount, StoreRevision, Fits, Resting, Updating, Seeking, Holding
    <3>7. /\ local' \in [Threads -> Locals \cup {NoRequest}]
          /\ pc' \in [Threads -> Labels]
          /\ \A u \in Threads : local'[u] = NoRequest <=> pc'[u] \in {"idle", "done"}
          /\ \A u \in Threads : Fits(local'[u], pc'[u], Served', Allocated')
      <4>1. PICK l \in Locals : l = local[t]
        BY <3>1
      <4>2. local' = [local EXCEPT ![t] = l] /\ pc' = [pc EXCEPT ![t] = label] /\ label \in Labels
        BY <3>3, <3>5, <4>1
      <4>3. Served \subseteq Served' /\ Allocated \subseteq Allocated' /\ Fits(l, label, Served', Allocated')
        BY <3>4, <3>5, <3>6, <4>1
      <4>. QED BY <4>2, <4>3, HandlersStep
    <3>. QED BY <2>t, <3>3, <3>4, <3>7 DEF HandlersFit, TypeOK, clients
  <2>16. CASE Create(t)
    <3>1. /\ local[t] \in Locals /\ local[t].store \in StoreIds /\ local[t].id \in Ids
          /\ local[t].region \in Regions /\ local[t].tenant \in Tenants \cup {None}
      BY <2>f, <2>16 DEF Create, Fits, Resting, Seeking, Locals
    <3>2. PICK r \in Records \ Allocated, tenant \in Tenants \cup {None} :
            /\ heap' = [heap EXCEPT ![r] = [doc |-> {}, revision |-> 1, rev |-> 1, tenant |-> tenant]]
            /\ documents' = [documents EXCEPT ![local[t].store][local[t].id] = r]
            /\ known' = known \cup {Token(local[t], 1)}
      BY <2>16, <3>1 DEF Create
    <3>3. [doc |-> {}, revision |-> 1, rev |-> 1, tenant |-> tenant] \in Contents
      BY DEF Contents, Revs
    <3>4. heap' \in [Records -> Contents \cup {Free}] /\ Allocated \subseteq Allocated' /\ r \in Allocated'
      <4> DEFINE c == [doc |-> {}, revision |-> 1, rev |-> 1, tenant |-> tenant]
      <4>1. c \in Contents /\ heap' = [heap EXCEPT ![r] = c] /\ r \in Records
        BY <3>2, <3>3
      <4> HIDE DEF c
      <4>2. /\ heap' \in [Records -> Contents \cup {Free}] /\ c # Free
            /\ \A q \in Records : heap[q] # Free => heap'[q] # Free
        BY <2>t, <4>1, HeapUpdates DEF TypeOK
      <4>. QED BY <2>t, <4>1, <4>2 DEF TypeOK, Allocated
    <3>5. /\ documents' \in [StoreIds -> [Ids -> Records \cup {None}]]
          /\ \A s \in StoreIds, i \in Ids : documents'[s][i] \in Allocated' \cup {None}
      BY <2>t, <3>1, <3>2, <3>4 DEF TypeOK
    <3>6. Token(local[t], 1) \in Tokens
      BY <3>1 DEF Token, Tokens, Revs
    <3>7. /\ Served' = Served /\ local' = [local EXCEPT ![t] = NoRequest]
          /\ pc' = [pc EXCEPT ![t] = "done"] /\ reply' = [reply EXCEPT ![t] = 201]
          /\ UNCHANGED <<stores, owner, acked>>
      BY <2>16 DEF Create, Served, Answer
    <3>8. Fits(NoRequest, "done", Served', Allocated')
      BY DEF Fits, Resting
    <3>9. /\ local' \in [Threads -> Locals \cup {NoRequest}]
          /\ pc' \in [Threads -> Labels]
          /\ \A u \in Threads : local'[u] = NoRequest <=> pc'[u] \in {"idle", "done"}
          /\ \A u \in Threads : Fits(local'[u], pc'[u], Served', Allocated')
      BY <3>4, <3>7, <3>8, HandlersStep
    <3>. QED BY <2>t, <3>2, <3>4, <3>5, <3>6, <3>7, <3>9 DEF HandlersFit, TypeOK
  <2>17. CASE Remove(t)
    <3>1. local[t].store \in StoreIds /\ local[t].id \in Ids
      BY <2>f, <2>17 DEF Remove, Fits, Resting, Seeking, Locals
    <3>2. /\ documents' \in [StoreIds -> [Ids -> Records \cup {None}]]
          /\ \A s \in StoreIds, i \in Ids : documents'[s][i] \in Allocated \cup {None}
      BY <2>t, <2>17, <3>1 DEF Remove, TypeOK
    <3>3. Answer(t, 204) /\ UNCHANGED <<stores, owner, heap, clients>> /\ Allocated' = Allocated
      BY <2>17 DEF Remove, Allocated
    <3>. QED BY <2>t, <2>2, <3>2, <3>3 DEF TypeOK, clients
  <2>18. CASE ReadRevision(t)
    <3>1. /\ local[t] \in Locals /\ local[t].rec \in Allocated
          /\ local[t].base # NoToken => local[t].field \in Fields
      BY <2>f, <2>18 DEF ReadRevision, Fits, Resting, Seeking, Holding
    <3>2. heap[local[t].rec].rev \in Revs
      BY <2>t, <3>1 DEF TypeOK, Allocated, Contents
    <3>3. known' \subseteq Tokens
      BY <2>t, <2>18, <3>1, <3>2 DEF ReadRevision, TypeOK, Token, Tokens, Locals
    <3>4. acked' \in [Records -> SUBSET (Fields \X Revs)]
      <4>1. CASE local[t].base # NoToken
        <5>1. <<local[t].field, local[t].base.rev>> \in Fields \X Revs
          BY <3>1, <4>1 DEF Locals, Tokens
        <5> DEFINE x == <<local[t].field, local[t].base.rev>>
        <5>2. acked' = [acked EXCEPT ![local[t].rec] = @ \cup {x}] /\ local[t].rec \in Records
          BY <2>18, <3>1, <4>1 DEF ReadRevision, Allocated
        <5> HIDE DEF x
        <5>3. x \in Fields \X Revs
          BY <5>1 DEF x
        <5>. QED BY <2>t, <5>2, <5>3 DEF TypeOK
      <4>2. CASE local[t].base = NoToken
        BY <2>t, <2>18, <4>2 DEF ReadRevision, TypeOK
      <4>. QED BY <4>1, <4>2
    <3>5. Answer(t, 200) /\ UNCHANGED <<stores, owner, documents, heap>> /\ Allocated' = Allocated
      BY <2>18 DEF ReadRevision, Allocated, shared
    <3>. QED BY <2>t, <2>2, <3>3, <3>4, <3>5 DEF TypeOK
  <2>. QED BY <1>n, <2>1, <2>5, <2>6, <2>7, <2>8, <2>9, <2>10, <2>11, <2>12, <2>13, <2>14, <2>15,
              <2>16, <2>17, <2>18 DEF Handle
<1>. QED BY <1>u, <1>n DEF Next

\* At the start no handler runs and no region has a store.
LEMMA HandlersFitInit == Init => HandlersFit
BY DEF Init, HandlersFit, TypeOK, Labels, Codes, Silent, Fits, Resting

LEMMA HandlersFitInvariant == Spec => []HandlersFit
BY HandlersFitInit, HandlersFitInductive, PTL DEF Spec

\* Stores, records and handlers have the shapes the code gives them: in particular a
\* handler that works on a record has one, and a revision is only compared where the
\* request carries one.
THEOREM TypeCorrect == Spec => []TypeOK
<1>1. HandlersFit => TypeOK
  BY DEF HandlersFit
<1>. QED BY <1>1, HandlersFitInvariant, PTL

-----------------------------------------------------------------------------
(* Regions and their stores.                                               *)

\* What a step does to stores and to what the handlers hold of them.
LEMMA StoresStep ==
    ASSUME HandlersFit, NEW t \in Threads, Receive(t) \/ Reject(t) \/ Handle(t) \/ Close(t)
    PROVE  /\ \A u \in Threads \ {t} : pc'[u] = pc[u] /\ local'[u] = local[u]
           /\ \/ UNCHANGED <<stores, owner>>
              \/ NewStore(t)
           /\ \/ local'[t] = NoRequest
              \/ local'[t].store = None /\ pc'[t] = "store"
              \/ /\ local[t] # NoRequest /\ local'[t].region = local[t].region
                 /\ local'[t].store = local[t].store \/ GetStore(t)
<1> USE DEF HandlersFit, TypeOK, Goto, Assign, Answer, shared
<1>0. pc[t] \notin {"idle", "done"} => local[t] \in Locals /\ local[t] # NoRequest
  BY DEF Fits, Resting
<1>1. CASE Receive(t)
  <2>1. PICK method \in Methods, region \in Regions, id \in Ids, tenant \in Tenants \cup {None},
             field \in Fields \cup {None}, base \in known \cup {NoToken} :
          /\ method = "POST" => RoomToCreate
          /\ method = "PUT" => RoomToUpdate
          /\ (method = "PUT") = (field # None)
          /\ base # NoToken => method = "PUT" /\ base.region = region /\ base.id = id
          /\ Assign(t, [method |-> method, region |-> region, id |-> id, tenant |-> tenant,
                        field |-> field, base |-> base, store |-> None, rec |-> None,
                        merged |-> {}, number |-> 0])
    BY <1>1 DEF Receive
  <2>2. pc' = [pc EXCEPT ![t] = "store"] /\ UNCHANGED <<stores, owner>>
    BY <1>1 DEF Receive
  <2>. QED BY <2>1, <2>2
<1>2. CASE Reject(t) \/ NotFound(t) \/ Close(t) \/ Create(t) \/ Remove(t) \/ ReadRevision(t)
  <2>1. \A u \in Threads \ {t} : pc'[u] = pc[u] /\ local'[u] = local[u]
    BY <1>2 DEF Reject, NotFound, Close, Create, Remove, ReadRevision
  <2>2. UNCHANGED <<stores, owner>>
    BY <1>2 DEF Reject, NotFound, Close, Create, Remove, ReadRevision
  <2>3. local'[t] = NoRequest
    BY <1>2 DEF Reject, NotFound, Close, Create, Remove, ReadRevision
  <2>. QED BY <2>1, <2>2, <2>3
<1>3. CASE FindStore(t) \/ NewStore(t)
  BY <1>0, <1>3 DEF FindStore, NewStore
<1>4. CASE GetStore(t)
  BY <1>0, <1>4 DEF GetStore, Locals
<1>5. CASE FetchRecord(t)
  BY <1>0, <1>5 DEF FetchRecord, Locals
<1>6. CASE Refetch(t) \/ CheckRevision(t)
  BY <1>0, <1>6 DEF Refetch, CheckRevision, Locals
<1>7. CASE Merge(t) \/ ReadCount(t) \/ DeriveRevision(t)
  BY <1>0, <1>7 DEF Merge, ReadCount, DeriveRevision, Locals
<1>8. CASE StoreDocument(t) \/ StoreCount(t) \/ StoreRevision(t)
  BY <1>0, <1>8 DEF StoreDocument, StoreCount, StoreRevision, SetRecord
<1>. QED BY <1>1, <1>2, <1>3, <1>4, <1>5, <1>6, <1>7, <1>8 DEF Handle

\* A store belongs to the region it was made for from then on, so that it does not
\* matter whether the handler that looks it up is the one that made it.
LEMMA IsolationStep == HandlersFit /\ RegionsAreIsolated /\ [Next]_vars => RegionsAreIsolated'
<1> SUFFICES ASSUME HandlersFit, RegionsAreIsolated, [Next]_vars PROVE RegionsAreIsolated'
  OBVIOUS
<1>u. CASE UNCHANGED vars
  BY <1>u DEF vars, RegionsAreIsolated
<1>n. ASSUME NEW t \in Threads, Receive(t) \/ Reject(t) \/ Handle(t) \/ Close(t)
      PROVE  RegionsAreIsolated'
  <2>0. None \notin Regions \cup StoreIds
    BY DataPlaneConstants DEF DataPlaneConstants
  <2>1. /\ owner \in [StoreIds -> Regions \cup {None}] /\ stores \in [Regions -> StoreIds \cup {None}]
        /\ \A u \in Threads : local[u] \in Locals \cup {NoRequest}
    BY DEF HandlersFit, TypeOK
  <2>2. \A s \in StoreIds : owner[s] # None => owner'[s] = owner[s]
    BY <1>n, <2>1, StoresStep DEF NewStore
  <2>3. ASSUME NEW g \in Regions, stores'[g] # None PROVE owner'[stores'[g]] = g
    <3>1. CASE UNCHANGED <<stores, owner>>
      BY <2>3, <3>1 DEF RegionsAreIsolated
    <3>2. CASE NewStore(t)
      <4>1. local[t].region \in Regions
        BY <2>1, <3>2 DEF NewStore, HandlersFit, Fits, Resting, Locals
      <4>2. PICK s \in StoreIds : /\ owner[s] = None /\ owner' = [owner EXCEPT ![s] = local[t].region]
                                 /\ stores' = [stores EXCEPT ![local[t].region] = s]
        BY <3>2 DEF NewStore
      <4>. QED BY <2>0, <2>1, <2>3, <4>1, <4>2 DEF RegionsAreIsolated
    <3>. QED BY <1>n, <3>1, <3>2, StoresStep
  <2>4. ASSUME NEW u \in Threads, local'[u] # NoRequest, local'[u].store # None
        PROVE  owner'[local'[u].store] = local'[u].region
    <3>1. CASE local[u] # NoRequest /\ local'[u].store = local[u].store /\ local'[u].region = local[u].region
      <4>1. local[u].store \in StoreIds /\ local[u].region \in Regions
        BY <2>1, <2>4, <3>1 DEF Locals
      <4>. QED BY <2>0, <2>2, <2>4, <3>1, <4>1 DEF RegionsAreIsolated
    <3>2. CASE u = t /\ GetStore(t)
      <4>1. local[t] \in Locals /\ stores[local[t].region] # None /\ local[t].region \in Regions
        BY <3>2 DEF GetStore, HandlersFit, Fits, Resting, Served, Locals
      <4>2. local'[t].store = stores[local[t].region] /\ local'[t].region = local[t].region
        BY <3>2, <4>1 DEF GetStore, Assign, HandlersFit, TypeOK, Locals
      <4>. QED BY <3>2, <4>1, <4>2 DEF GetStore, RegionsAreIsolated, shared
    <3>. QED BY <1>n, <2>4, <3>1, <3>2, StoresStep
  <2>. QED BY <2>3, <2>4 DEF RegionsAreIsolated
<1>. QED BY <1>u, <1>n DEF Next

\* Regions are isolated however requests overlap: not even two handlers that both make
\* the first store of a region ever touch another region's.
THEOREM RegionsApart == Spec => []RegionsAreIsolated
<1>1. Init => RegionsAreIsolated
  BY DEF Init, RegionsAreIsolated
<1>. QED BY <1>1, HandlersFitInvariant, IsolationStep, PTL DEF Spec

\* A handler is at "newstore" because it found no store of its region.
LEMMA NoOtherWay ==
    ASSUME HandlersFit, NEW t \in Threads, Receive(t) \/ Reject(t) \/ Handle(t) \/ Close(t),
           pc'[t] = "newstore"
    PROVE  FindStore(t)
<1> USE DEF HandlersFit, TypeOK, Goto, Answer
<1>1. CASE Receive(t) \/ Reject(t) \/ Close(t)
  BY <1>1 DEF Receive, Reject, Close
<1>2. CASE NewStore(t) \/ GetStore(t) \/ Create(t) \/ NotFound(t) \/ Remove(t)
  BY <1>2 DEF NewStore, GetStore, Create, NotFound, Remove
<1>3. CASE FetchRecord(t) \/ Refetch(t) \/ CheckRevision(t) \/ Merge(t)
  BY <1>3 DEF FetchRecord, Refetch, CheckRevision, Merge
<1>4. CASE \/ StoreDocument(t) \/ ReadCount(t) \/ StoreCount(t) \/ DeriveRevision(t)
           \/ StoreRevision(t) \/ ReadRevision(t)
  BY <1>4 DEF StoreDocument, ReadCount, StoreCount, DeriveRevision, StoreRevision, ReadRevision
<1>. QED BY <1>1, <1>2, <1>3, <1>4 DEF Handle

\* A region's store changes in the race for its first one only.
THEOREM SettledStays == Spec => SettledRegionKeepsStore
<1>1. HandlersFit /\ [Next]_vars
        => [\A r \in Regions : Settled(r) => Settled(r)' /\ stores'[r] = stores[r]]_vars
  <2> SUFFICES ASSUME HandlersFit, [Next]_vars, ~UNCHANGED vars, NEW r \in Regions, Settled(r)
               PROVE  Settled(r)' /\ stores'[r] = stores[r]
    OBVIOUS
  <2>1. PICK t \in Threads : Receive(t) \/ Reject(t) \/ Handle(t) \/ Close(t)
    BY DEF Next
  <2>2. stores'[r] = stores[r]
    <3>1. CASE NewStore(t)
      <4>1. local[t].region # r /\ local[t].region \in Regions
        BY <3>1 DEF NewStore, Settled, HandlersFit, Fits, Resting, Locals
      <4>. QED BY <3>1, <4>1 DEF NewStore, HandlersFit, TypeOK
    <3>. QED BY <2>1, <3>1, StoresStep
  <2>3. ASSUME NEW u \in Threads, pc'[u] = "newstore", local'[u].region = r PROVE FALSE
    <3>1. CASE u # t
      BY <2>1, <2>3, <3>1, StoresStep DEF Settled
    <3>2. CASE u = t
      <4>1. FindStore(t)
        BY <2>1, <2>3, <3>2, NoOtherWay
      <4>. QED BY <2>3, <3>2, <4>1 DEF FindStore, Goto, Settled, HandlersFit, TypeOK
    <3>. QED BY <3>1, <3>2
  <2>. QED BY <2>2, <2>3 DEF Settled
<1>. QED BY <1>1, HandlersFitInvariant, PTL DEF Spec, SettledRegionKeepsStore

-----------------------------------------------------------------------------
(* Requests that do not overlap.                                           *)

AtWork(t) == pc[t] \notin Resting
OneAtATime == \A t, u \in Threads : AtWork(t) /\ AtWork(u) => t = u
Rest(t) == \A u \in Threads \ {t} : pc[u] \in Resting

\* What handler t found is still so when it acts on it.
Knows(t) ==
    /\ pc[t] = "newstore" => stores[local[t].region] = None
    /\ pc[t] \notin Resting \cup Seeking => stores[local[t].region] = local[t].store
    /\ pc[t] \in Holding => documents[local[t].store][local[t].id] = local[t].rec
    /\ pc[t] = "storedoc" => local[t].merged = heap[local[t].rec].doc \cup {local[t].field}
    /\ pc[t] \in {"storecount", "storerev"} => local[t].number = heap[local[t].rec].revision

\* A record is stored under one id of one store that some region has; its revision is
\* the one of its count, except for a moment within an update.
StoresInv ==
    /\ RegionsAreIsolated
    /\ \A s \in StoreIds : owner[s] = None => \A i \in Ids : documents[s][i] = None
    /\ \A s, q \in StoreIds, i, j \in Ids :
          documents[s][i] # None /\ documents[s][i] = documents[q][j] => s = q /\ i = j
Counted ==
    \A r \in Allocated : \/ heap[r].rev = heap[r].revision
                         \/ \E t \in Threads : pc[t] \in {"derive", "storerev"} /\ local[t].rec = r
Unchallenged == StoresInv /\ Counted /\ \A t \in Threads : Knows(t)

\* The handler that works, before a step or after it, works alone.
LEMMA OthersRest ==
    ASSUME HandlersFit, OneAtATime, OneAtATime', NEW t \in Threads,
           Receive(t) \/ Reject(t) \/ Handle(t) \/ Close(t), AtWork(t) \/ AtWork(t)'
    PROVE  Rest(t) /\ Rest(t)'
BY StoresStep DEF OneAtATime, AtWork, Rest

\* Where each statement leads, and which of them write to the stores and records.
LEMMA Flow ==
    ASSUME HandlersFit, NEW t \in Threads, Receive(t) \/ Reject(t) \/ Handle(t) \/ Close(t)
    PROVE  \/ UNCHANGED shared
           \/ NewStore(t) \/ Create(t) \/ Remove(t)
           \/ StoreDocument(t) \/ StoreCount(t) \/ StoreRevision(t)
<1>1. CASE Receive(t) \/ Reject(t) \/ Close(t)
  BY <1>1 DEF Receive, Reject, Close
<1>2. CASE FindStore(t) \/ GetStore(t) \/ NotFound(t) \/ FetchRecord(t)
  BY <1>2 DEF FindStore, GetStore, NotFound, FetchRecord
<1>3. CASE Refetch(t) \/ CheckRevision(t) \/ Merge(t)
  BY <1>3 DEF Refetch, CheckRevision, Merge
<1>4. CASE ReadCount(t) \/ DeriveRevision(t) \/ ReadRevision(t)
  BY <1>4 DEF ReadCount, DeriveRevision, ReadRevision
<1>. QED BY <1>1, <1>2, <1>3, <1>4 DEF Handle

\* A handler that writes nothing knows afterwards what it looked up.
LEMMA KnowsQuietly ==
    ASSUME HandlersFit, NEW t \in Threads, Receive(t) \/ Reject(t) \/ Handle(t) \/ Close(t),
           UNCHANGED shared, Knows(t)
    PROVE  Knows(t)'
<1> USE DEF Goto, Assign, Answer, shared
<1>0. /\ pc \in [Threads -> Labels] /\ local \in [Threads -> Locals \cup {NoRequest}]
      /\ stores \in [Regions -> StoreIds \cup {None}]
  BY DEF HandlersFit, TypeOK
<1>1. CASE pc'[t] \in {"idle", "done", "store", "getstore"}
  BY <1>1 DEF Knows, Resting, Seeking, Holding
<1>2. CASE pc'[t] \notin {"idle", "done", "store", "getstore"}
  <2>1. ~Receive(t) /\ ~Reject(t) /\ ~Close(t) /\ ~NewStore(t) /\ ~Create(t) /\ ~NotFound(t)
        /\ ~Remove(t) /\ ~ReadRevision(t)
    BY <1>0, <1>2 DEF Receive, Reject, Close, NewStore, Create, NotFound, Remove, ReadRevision
  <2>2. pc[t] \notin Resting /\ local[t] \in Locals
    <3>1. pc[t] \notin Resting
      BY <2>1 DEF Handle, FindStore, GetStore, FetchRecord, Refetch, CheckRevision, Merge,
                  StoreDocument, ReadCount, StoreCount, DeriveRevision, StoreRevision, Resting
    <3>. QED BY <3>1 DEF HandlersFit, Fits
  <2>3. CASE FindStore(t)
    BY <1>0, <1>2, <2>3 DEF FindStore, Knows, Resting, Seeking, Holding
  <2>4. CASE GetStore(t)
    <3>1. pc'[t] = "fetch" /\ local'[t].store = stores[local[t].region] /\ local'[t].region = local[t].region
      BY <1>0, <2>2, <2>4 DEF GetStore, Locals
    <3>2. stores' = stores
      OBVIOUS
    <3>. QED BY <3>1, <3>2 DEF Knows, Resting, Seeking, Holding
  <2>5. CASE FetchRecord(t) \/ Refetch(t)
    <3>1. /\ local'[t] = [local[t] EXCEPT !.rec = Stored(t)]
          /\ pc'[t] \in {"answer", "remove", "merge", "refetch", "check"}
          /\ pc[t] \in {"fetch", "refetch"}
      BY <1>0, <1>2, <2>5 DEF FetchRecord, Refetch
    <3>2. /\ local'[t].rec = Stored(t) /\ local'[t].region = local[t].region
          /\ local'[t].store = local[t].store /\ local'[t].id = local[t].id
      BY <2>2, <3>1 DEF Locals
    <3>. QED BY <3>1, <3>2 DEF Knows, Resting, Seeking, Holding, Stored
  <2>6. CASE CheckRevision(t)
    <3>1. pc'[t] = "merge" /\ local'[t] = local[t] /\ pc[t] = "check"
      BY <1>0, <1>2, <2>6 DEF CheckRevision
    <3>. QED BY <3>1 DEF Knows, Resting, Seeking, Holding
  <2>7. CASE Merge(t)
    <3>1. /\ pc[t] = "merge" /\ pc'[t] = "storedoc"
          /\ local'[t] = [local[t] EXCEPT !.merged = heap[local[t].rec].doc \cup {local[t].field}]
      BY <1>0, <2>7 DEF Merge
    <3>2. /\ local'[t].rec = local[t].rec /\ local'[t].region = local[t].region
          /\ local'[t].store = local[t].store /\ local'[t].id = local[t].id
          /\ local'[t].field = local[t].field
          /\ local'[t].merged = heap[local[t].rec].doc \cup {local[t].field}
      BY <2>2, <3>1 DEF Locals
    <3>. QED BY <3>1, <3>2 DEF Knows, Resting, Seeking, Holding
  <2>8. CASE ReadCount(t) \/ DeriveRevision(t)
    <3>1. /\ pc[t] \in {"count", "derive"} /\ pc'[t] \in {"storecount", "storerev"}
          /\ local'[t] = [local[t] EXCEPT !.number = heap[local[t].rec].revision]
      BY <1>0, <2>8 DEF ReadCount, DeriveRevision
    <3>2. /\ local'[t].rec = local[t].rec /\ local'[t].region = local[t].region
          /\ local'[t].store = local[t].store /\ local'[t].id = local[t].id
          /\ local'[t].number = heap[local[t].rec].revision
      BY <2>2, <3>1 DEF Locals
    <3>. QED BY <3>1, <3>2 DEF Knows, Resting, Seeking, Holding
  <2>9. CASE StoreDocument(t) \/ StoreCount(t) \/ StoreRevision(t)
    <3>1. /\ pc[t] \in {"storedoc", "storecount", "storerev"} /\ pc'[t] \in {"count", "derive", "answer"}
          /\ local'[t] = local[t]
      BY <1>0, <2>9 DEF StoreDocument, StoreCount, StoreRevision
    <3>. QED BY <3>1 DEF Knows, Resting, Seeking, Holding
  <2>. QED BY <2>1, <2>3, <2>4, <2>5, <2>6, <2>7, <2>8, <2>9 DEF Handle
<1>. QED BY <1>1, <1>2

\* What the three writes of an update do to its record, and to nothing else.
LEMMA RecordWrite ==
    ASSUME HandlersFit, NEW t \in Threads, StoreDocument(t) \/ StoreCount(t) \/ StoreRevision(t)
    PROVE  \E r \in Allocated :
              /\ local[t].rec = r /\ local[t] \in Locals
              /\ UNCHANGED <<stores, owner, documents, local>> /\ Allocated' = Allocated
              /\ \A q \in Records \ {r} : heap'[q] = heap[q]
              /\ heap'[r].tenant = heap[r].tenant
              /\ \/ /\ pc[t] = "storedoc" /\ pc'[t] = "count"
                    /\ heap'[r].doc = local[t].merged
                    /\ heap'[r].revision = heap[r].revision /\ heap'[r].rev = heap[r].rev
                 \/ /\ pc[t] = "storecount" /\ pc'[t] = "derive"
                    /\ heap'[r].revision = local[t].number + 1
                    /\ heap'[r].doc = heap[r].doc /\ heap'[r].rev = heap[r].rev
                 \/ /\ pc[t] = "storerev" /\ pc'[t] = "answer"
                    /\ heap'[r].rev = local[t].number
                    /\ heap'[r].doc = heap[r].doc /\ heap'[r].revision = heap[r].revision
<1> USE DEF Goto, SetRecord
<1>1. PICK r \in Allocated : r = local[t].rec /\ local[t] \in Locals
  BY DEF StoreDocument, StoreCount, StoreRevision, HandlersFit, Fits, Resting, Holding
<1>2. /\ heap \in [Records -> Contents \cup {Free}] /\ heap[r] \in Contents /\ r \in Records
      /\ pc \in [Threads -> Labels]
  BY <1>1 DEF HandlersFit, TypeOK, Allocated
<1>3. PICK c : /\ heap' = [heap EXCEPT ![r] = c]
               /\ \/ StoreDocument(t) /\ c = [heap[r] EXCEPT !.doc = local[t].merged]
                  \/ StoreCount(t) /\ c = [heap[r] EXCEPT !.revision = local[t].number + 1]
                  \/ StoreRevision(t) /\ c = [heap[r] EXCEPT !.rev = local[t].number]
  BY <1>1 DEF StoreDocument, StoreCount, StoreRevision
<1>4. /\ c.tenant = heap[r].tenant
      /\ \/ /\ StoreDocument(t) /\ c.doc = local[t].merged
            /\ c.revision = heap[r].revision /\ c.rev = heap[r].rev
         \/ /\ StoreCount(t) /\ c.revision = local[t].number + 1
            /\ c.doc = heap[r].doc /\ c.rev = heap[r].rev
         \/ /\ StoreRevision(t) /\ c.rev = local[t].number
            /\ c.doc = heap[r].doc /\ c.revision = heap[r].revision
  BY <1>2, <1>3 DEF Contents
<1>5. c # Free
  <2>1. c.revision # 0
    BY <1>2, <1>4, <1>1 DEF Contents, Revs, Locals
  <2>. QED BY <2>1 DEF Free
<1>6. Allocated' = Allocated
  BY <1>1, <1>2, <1>3, <1>5 DEF Allocated
<1>7. heap'[r] = c /\ \A q \in Records \ {r} : heap'[q] = heap[q]
  BY <1>2, <1>3
<1>8. UNCHANGED <<stores, owner, documents, local>>
  BY DEF StoreDocument, StoreCount, StoreRevision
<1>9. \/ StoreDocument(t) /\ pc[t] = "storedoc" /\ pc'[t] = "count"
      \/ StoreCount(t) /\ pc[t] = "storecount" /\ pc'[t] = "derive"
      \/ StoreRevision(t) /\ pc[t] = "storerev" /\ pc'[t] = "answer"
  BY <1>2 DEF StoreDocument, StoreCount, StoreRevision
<1>10. /\ StoreDocument(t) => pc[t] = "storedoc"
       /\ StoreCount(t) => pc[t] = "storecount"
       /\ StoreRevision(t) => pc[t] = "storerev"
  BY DEF StoreDocument, StoreCount, StoreRevision
<1>. QED BY <1>1, <1>4, <1>6, <1>7, <1>8, <1>9, <1>10

\* A document is created, and removed, in one statement.
LEMMA DocumentWrite ==
    ASSUME HandlersFit, NEW t \in Threads, Create(t) \/ Remove(t)
    PROVE  \E s \in StoreIds, i \in Ids, g \in Regions :
              /\ local[t].store = s /\ local[t].id = i /\ local[t].region = g /\ local[t] # NoRequest
              /\ UNCHANGED <<stores, owner>>
              /\ pc[t] \in {"fetch", "remove"} /\ pc'[t] = "done"
              /\ \A q \in StoreIds, j \in Ids : <<q, j>> # <<s, i>> => documents'[q][j] = documents[q][j]
              /\ \/ /\ pc[t] = "remove"
                    /\ documents'[s][i] = None /\ heap' = heap
                 \/ \E r \in Records \ Allocated, tenant \in Tenants \cup {None} :
                       /\ documents'[s][i] = r
                       /\ heap' = [heap EXCEPT ![r] = [doc |-> {}, revision |-> 1, rev |-> 1,
                                                       tenant |-> tenant]]
                       /\ Allocated' = Allocated \cup {r}
<1>1. PICK s \in StoreIds, i \in Ids, g \in Regions :
        /\ local[t].store = s /\ local[t].id = i /\ local[t].region = g
        /\ local[t] # NoRequest /\ local[t].tenant \in Tenants \cup {None}
  <2>1. local[t] \in Locals /\ local[t] # NoRequest /\ local[t].store \in StoreIds
    BY DEF Create, Remove, HandlersFit, TypeOK, Fits, Resting, Seeking
  <2>. QED BY <2>1 DEF Locals
<1>2. /\ documents \in [StoreIds -> [Ids -> Records \cup {None}]]
      /\ heap \in [Records -> Contents \cup {Free}] /\ pc \in [Threads -> Labels]
  BY DEF HandlersFit, TypeOK
<1>3. PICK v : documents' = [documents EXCEPT ![s][i] = v]
  BY <1>1 DEF Create, Remove
<1>4. \A q \in StoreIds, j \in Ids : <<q, j>> # <<s, i>> => documents'[q][j] = documents[q][j]
  BY <1>2, <1>3
<1>5. UNCHANGED <<stores, owner>> /\ pc[t] \in {"fetch", "remove"} /\ pc'[t] = "done"
  BY <1>2 DEF Create, Remove, Answer, Goto
<1>6. CASE Remove(t)
  BY <1>1, <1>2, <1>4, <1>5, <1>6 DEF Remove
<1>7. CASE Create(t)
  <2>1. PICK r \in Records \ Allocated, tenant \in Tenants \cup {None} :
          /\ heap' = [heap EXCEPT ![r] = [doc |-> {}, revision |-> 1, rev |-> 1, tenant |-> tenant]]
          /\ documents' = [documents EXCEPT ![s][i] = r]
    BY <1>1, <1>7 DEF Create
  <2> DEFINE c == [doc |-> {}, revision |-> 1, rev |-> 1, tenant |-> tenant]
  <2>2. c # Free
    BY DEF Free
  <2>3. heap' = [heap EXCEPT ![r] = c]
    BY <2>1
  <2> HIDE DEF c
  <2>4. Allocated' = Allocated \cup {r}
    BY <1>2, <2>1, <2>2, <2>3 DEF Allocated
  <2>5. documents'[s][i] = r
    BY <1>2, <2>1
  <2>. QED BY <1>1, <1>4, <1>5, <2>1, <2>4, <2>5
<1>. QED BY <1>6, <1>7

\* Requests that do not overlap leave what the one at work knows alone.
LEMMA UnchallengedInductive ==
    ASSUME HandlersFit, Unchallenged, OneAtATime, OneAtATime', NEW t \in Threads,
           Receive(t) \/ Reject(t) \/ Handle(t) \/ Close(t)
    PROVE  Unchallenged'
<1>0. /\ stores \in [Regions -> StoreIds \cup {None}] /\ owner \in [StoreIds -> Regions \cup {None}]
      /\ \A s \in StoreIds, i \in Ids : documents[s][i] \in Allocated \cup {None}
      /\ None \notin Records \cup Regions \cup StoreIds
      /\ \A u \in Threads \ {t} : pc'[u] = pc[u] /\ local'[u] = local[u]
      /\ RegionsAreIsolated'
  <2>1. RegionsAreIsolated'
    BY IsolationStep DEF Unchallenged, StoresInv, Next
  <2>. QED BY <2>1, StoresStep, DataPlaneConstants DEF HandlersFit, TypeOK, DataPlaneConstants
<1>a. AtWork(t) => Rest(t) /\ Rest(t)'
  BY OthersRest
<1>b. AtWork(t) /\ Knows(t)' => \A u \in Threads : Knows(u)'
  BY <1>a DEF Knows, Rest, Resting, Seeking, Holding
<1>c. AtWork(t) /\ pc[t] \notin {"derive", "storerev"}
        => \A r \in Allocated : heap[r].rev = heap[r].revision
  BY <1>a DEF Unchallenged, Counted, Rest, Resting
<1>1. CASE StoreDocument(t) \/ StoreCount(t) \/ StoreRevision(t)
  <2>1. PICK r \in Allocated :
              /\ local[t].rec = r /\ local[t] \in Locals
              /\ UNCHANGED <<stores, owner, documents, local>> /\ Allocated' = Allocated
              /\ \A q \in Records \ {r} : heap'[q] = heap[q]
              /\ \/ /\ pc[t] = "storedoc" /\ pc'[t] = "count"
                    /\ heap'[r].revision = heap[r].revision /\ heap'[r].rev = heap[r].rev
                 \/ pc[t] = "storecount" /\ pc'[t] = "derive"
                 \/ /\ pc[t] = "storerev" /\ pc'[t] = "answer"
                    /\ heap'[r].rev = local[t].number /\ heap'[r].revision = heap[r].revision
    BY <1>1, RecordWrite
  <2>2. AtWork(t)
    BY <2>1 DEF AtWork, Resting
  <2>3. Knows(t)'
    BY <2>1 DEF Unchallenged, Knows, Resting, Seeking, Holding
  <2>4. StoresInv'
    BY <1>0, <2>1 DEF Unchallenged, StoresInv
  <2>5. Counted'
    <3>1. \A q \in Allocated \ {r} : heap'[q].rev = heap'[q].revision
      BY <1>a, <2>1, <2>2 DEF Unchallenged, Counted, Rest, Resting, Allocated
    <3>2. heap'[r].rev = heap'[r].revision \/ pc'[t] = "derive"
      BY <1>c, <2>1, <2>2 DEF Unchallenged, Knows
    <3>3. local'[t].rec = r
      BY <2>1
    <3>. QED BY <2>1, <3>1, <3>2, <3>3 DEF Counted
  <2>. QED BY <1>b, <2>2, <2>3, <2>4, <2>5 DEF Unchallenged
<1>2. CASE Create(t) \/ Remove(t)
  <2>1. PICK s \in StoreIds, i \in Ids, g \in Regions :
              /\ local[t].store = s /\ local[t].id = i /\ local[t].region = g /\ local[t] # NoRequest
              /\ UNCHANGED <<stores, owner>>
              /\ pc[t] \in {"fetch", "remove"} /\ pc'[t] = "done"
              /\ \A q \in StoreIds, j \in Ids : <<q, j>> # <<s, i>> => documents'[q][j] = documents[q][j]
              /\ \/ documents'[s][i] = None /\ heap' = heap
                 \/ \E r \in Records \ Allocated, tenant \in Tenants \cup {None} :
                       /\ documents'[s][i] = r
                       /\ heap' = [heap EXCEPT ![r] = [doc |-> {}, revision |-> 1, rev |-> 1,
                                                       tenant |-> tenant]]
                       /\ Allocated' = Allocated \cup {r}
    BY <1>2, DocumentWrite
  <2>2. AtWork(t)
    BY <2>1 DEF AtWork, Resting
  <2>3. Knows(t)'
    BY <2>1 DEF Knows, Resting, Seeking, Holding
  <2>4. StoresInv'
    <3>1. owner[s] # None
      BY <1>0, <2>1 DEF Unchallenged, StoresInv, RegionsAreIsolated
    <3>2. documents'[s][i] = None \/ \A q \in StoreIds, j \in Ids : documents[q][j] # documents'[s][i]
      BY <1>0, <2>1
    <3>3. \A q \in StoreIds : owner'[q] = None => \A j \in Ids : documents'[q][j] = None
      BY <2>1, <3>1 DEF Unchallenged, StoresInv
    <3>4. \A p, q \in StoreIds, j, k \in Ids :
             documents'[p][j] # None /\ documents'[p][j] = documents'[q][k] => p = q /\ j = k
      BY <2>1, <3>2 DEF Unchallenged, StoresInv
    <3>. QED BY <1>0, <3>3, <3>4 DEF StoresInv
  <2>5. Counted'
    <3>1. \A r \in Allocated : heap[r].rev = heap[r].revision
      BY <1>c, <2>1, <2>2
    <3>2. CASE heap' = heap
      BY <3>1, <3>2 DEF Counted, Allocated
    <3>3. CASE heap' # heap
      <4>1. PICK r \in Records \ Allocated, tenant \in Tenants \cup {None} :
              /\ heap' = [heap EXCEPT ![r] = [doc |-> {}, revision |-> 1, rev |-> 1, tenant |-> tenant]]
              /\ Allocated' = Allocated \cup {r}
        BY <2>1, <3>3
      <4>2. heap \in [Records -> Contents \cup {Free}]
        BY DEF HandlersFit, TypeOK
      <4>3. heap'[r].rev = heap'[r].revision /\ \A q \in Allocated : heap'[q] = heap[q]
        BY <4>1, <4>2 DEF Allocated
      <4>. QED BY <3>1, <4>1, <4>3 DEF Counted
    <3>. QED BY <3>2, <3>3
  <2>. QED BY <1>b, <2>2, <2>3, <2>4, <2>5 DEF Unchallenged
<1>3. CASE NewStore(t)
  <2>1. /\ pc[t] = "newstore" /\ pc'[t] = "getstore" /\ UNCHANGED <<documents, heap>>
        /\ \A s \in StoreIds : owner'[s] = None => owner[s] = None
    <3>1. local[t].region \in Regions
      BY <1>3 DEF NewStore, HandlersFit, Fits, Resting, Locals
    <3>. QED BY <1>0, <1>3, <3>1 DEF NewStore, Goto, HandlersFit, TypeOK
  <2>2. AtWork(t) /\ Knows(t)'
    BY <2>1 DEF AtWork, Knows, Resting, Seeking, Holding
  <2>3. StoresInv'
    BY <1>0, <2>1 DEF Unchallenged, StoresInv
  <2>4. Counted'
    BY <1>c, <2>1, <2>2 DEF Counted, Allocated
  <2>. QED BY <1>b, <2>2, <2>3, <2>4 DEF Unchallenged
<1>4. CASE UNCHANGED shared /\ ~StoreRevision(t)
  <2>1. \A u \in Threads : Knows(u)'
    <3>1. Knows(t)'
      BY <1>4, KnowsQuietly DEF Unchallenged
    <3>2. ASSUME NEW u \in Threads \ {t} PROVE Knows(u)'
      BY <1>0, <1>4 DEF Unchallenged, Knows, shared
    <3>. QED BY <3>1, <3>2
  <2>2. StoresInv'
    BY <1>0, <1>4 DEF Unchallenged, StoresInv, shared
  <2>3. Counted'
    <3>1. ASSUME pc[t] \in {"derive", "storerev"}
          PROVE  pc'[t] \in {"derive", "storerev"} /\ local'[t].rec = local[t].rec
      <4>1. DeriveRevision(t)
        BY <1>4, <3>1 DEF Receive, Reject, Close, Handle, FindStore, NewStore, GetStore, Create, NotFound,
                          FetchRecord, Remove, Refetch, CheckRevision, Merge, StoreDocument, ReadCount,
                          StoreCount, ReadRevision
      <4>2. local[t] \in Locals
        BY <3>1 DEF HandlersFit, Fits, Resting
      <4>. QED BY <4>1, <4>2 DEF DeriveRevision, Assign, Goto, HandlersFit, TypeOK, Locals
    <3>. QED BY <1>0, <1>4, <3>1 DEF Unchallenged, Counted, Allocated, shared
  <2>. QED BY <2>1, <2>2, <2>3 DEF Unchallenged
<1>. QED BY <1>1, <1>2, <1>3, <1>4, Flow

\* Nothing is known, stored or counted at the start.
LEMMA UnchallengedInit == Init => Unchallenged
<1> SUFFICES ASSUME Init PROVE Unchallenged
  OBVIOUS
<1>1. Allocated = {}
  BY DEF Init, Allocated
<1>. QED BY <1>1 DEF Init, Unchallenged, StoresInv, Counted, Knows, RegionsAreIsolated, Resting, Seeking, Holding

LEMMA UnchallengedStep ==
    HandlersFit /\ Unchallenged /\ OneAtATime /\ OneAtATime' /\ [Next]_vars => Unchallenged'
<1> SUFFICES ASSUME HandlersFit, Unchallenged, OneAtATime, OneAtATime', [Next]_vars
             PROVE  Unchallenged'
  OBVIOUS
<1>1. CASE UNCHANGED vars
  BY <1>1 DEF vars, Unchallenged, StoresInv, Counted, Knows, RegionsAreIsolated, Allocated
<1>2. CASE Next
  BY <1>2, UnchallengedInductive DEF Next
<1>. QED BY <1>1, <1>2

-----------------------------------------------------------------------------
(* The refinement.                                                         *)

VersionAt(g, i) ==
    IF stores[g] = None \/ documents[stores[g]][i] = None THEN None
    ELSE Version(documents[stores[g]][i])

\* While t works alone, the only record that can have been amended but not counted is its.
LEMMA AmendedByOne ==
    \A t \in Threads : HandlersFit /\ Rest(t) =>
        \A r \in Records : Amended(r) <=> pc[t] \in {"count", "storecount"} /\ local[t].rec = r
BY DEF Rest, Resting, Amended, HandlersFit, TypeOK

\* The same after a step.
LEMMA AmendedByOneNext ==
    (\A t \in Threads : HandlersFit /\ Rest(t) =>
        \A r \in Records : Amended(r) <=> pc[t] \in {"count", "storecount"} /\ local[t].rec = r)'
BY AmendedByOne, PTL

\* One version changes, or none.
LEMMA VersionsChange ==
    /\ (\A g \in Regions, i \in Ids : VersionAt(g, i)' = VersionAt(g, i)) => UNCHANGED versions
    /\ \A g \in Regions, i \in Ids :
          (\A h \in Regions, j \in Ids : <<h, j>> # <<g, i>> => VersionAt(h, j)' = VersionAt(h, j))
             => versions' = [versions EXCEPT ![g][i] = VersionAt(g, i)']
<1>1. /\ versions = [g \in Regions |-> [i \in Ids |-> VersionAt(g, i)]]
      /\ versions' = [g \in Regions |-> [i \in Ids |-> VersionAt(g, i)']]
  BY DEF versions, VersionAt
<1>. QED BY <1>1

\* A record whose contents and progress are the same is the same version.
LEMMA SameVersions ==
    ASSUME HandlersFit, UNCHANGED <<stores, documents>>,
           \A r \in Allocated : Version(r)' = Version(r)
    PROVE  \A g \in Regions, i \in Ids : VersionAt(g, i)' = VersionAt(g, i)
BY DEF VersionAt, HandlersFit, TypeOK

\* The region a store belongs to is the only one in which its documents are seen.
LEMMA StoreOfOneRegion ==
    ASSUME HandlersFit, RegionsAreIsolated, NEW g \in Regions, stores[g] # None
    PROVE  \A h \in Regions \ {g} : stores[h] # stores[g]
BY DEF RegionsAreIsolated

\* The count is read between the two writes of the document and of the count, and nothing
\* else happens there.
LEMMA StepsAroundCount ==
    ASSUME HandlersFit, NEW t \in Threads, Receive(t) \/ Reject(t) \/ Handle(t) \/ Close(t),
           ~(StoreDocument(t) \/ StoreCount(t) \/ StoreRevision(t)),
           pc[t] \in {"count", "storecount"} \/ pc'[t] \in {"count", "storecount"}
    PROVE  ReadCount(t)
<1> USE DEF HandlersFit, TypeOK, Goto, Answer
<1>1. CASE Receive(t) \/ Reject(t) \/ Close(t)
  BY <1>1 DEF Receive, Reject, Close
<1>2. CASE FindStore(t) \/ NewStore(t) \/ GetStore(t) \/ Create(t) \/ NotFound(t) \/ Remove(t)
  BY <1>2 DEF FindStore, NewStore, GetStore, Create, NotFound, Remove
<1>3. CASE FetchRecord(t) \/ Refetch(t) \/ CheckRevision(t) \/ Merge(t)
  BY <1>3 DEF FetchRecord, Refetch, CheckRevision, Merge
<1>4. CASE DeriveRevision(t) \/ ReadRevision(t)
  BY <1>4 DEF DeriveRevision, ReadRevision
<1>. QED BY <1>1, <1>2, <1>3, <1>4 DEF Handle

\* Every step of a request is a step of VersionedDocuments or none.
LEMMA VersionStep ==
    ASSUME HandlersFit, HandlersFit', Unchallenged, Unchallenged', OneAtATime, OneAtATime',
           NEW t \in Threads, Receive(t) \/ Reject(t) \/ Handle(t) \/ Close(t)
    PROVE  Documents!Next \/ UNCHANGED versions
<1>0. /\ stores \in [Regions -> StoreIds \cup {None}] /\ owner \in [StoreIds -> Regions \cup {None}]
      /\ \A s \in StoreIds, i \in Ids : documents[s][i] \in Allocated \cup {None}
      /\ None \notin Records \cup Regions \cup StoreIds
      /\ heap \in [Records -> Contents \cup {Free}]
      /\ pc \in [Threads -> Labels] /\ local \in [Threads -> Locals \cup {NoRequest}]
      /\ Allocated \subseteq Records
  BY DataPlaneConstants DEF HandlersFit, TypeOK, DataPlaneConstants, Allocated
<1>a. AtWork(t) =>
        /\ \A r \in Records : Amended(r) <=> pc[t] \in {"count", "storecount"} /\ local[t].rec = r
        /\ \A r \in Records : Amended(r)' <=> pc'[t] \in {"count", "storecount"} /\ local'[t].rec = r
  BY OthersRest, AmendedByOne, AmendedByOneNext
<1>s. RegionsAreIsolated
  BY DEF Unchallenged, StoresInv
<1>1. CASE StoreDocument(t) \/ StoreCount(t) \/ StoreRevision(t)
  <2>1. PICK r \in Allocated :
              /\ local[t].rec = r /\ local[t] \in Locals
              /\ UNCHANGED <<stores, owner, documents, local>> /\ Allocated' = Allocated
              /\ \A q \in Records \ {r} : heap'[q] = heap[q]
              /\ heap'[r].tenant = heap[r].tenant
              /\ \/ /\ pc[t] = "storedoc" /\ pc'[t] = "count"
                    /\ heap'[r].doc = local[t].merged
                    /\ heap'[r].revision = heap[r].revision /\ heap'[r].rev = heap[r].rev
                 \/ /\ pc[t] = "storecount" /\ pc'[t] = "derive"
                    /\ heap'[r].revision = local[t].number + 1
                    /\ heap'[r].doc = heap[r].doc /\ heap'[r].rev = heap[r].rev
                 \/ /\ pc[t] = "storerev" /\ pc'[t] = "answer"
                    /\ heap'[r].rev = local[t].number
                    /\ heap'[r].doc = heap[r].doc /\ heap'[r].revision = heap[r].revision
    BY <1>1, RecordWrite
  <2>2. AtWork(t) /\ local'[t].rec = r
    BY <2>1 DEF AtWork, Resting
  <2>3. \A q \in Records \ {r} : Version(q)' = Version(q)
    BY <1>a, <2>1, <2>2 DEF Version
  <2>4. CASE pc[t] \in {"storecount", "storerev"}
    <3>1. local[t].number = heap[r].revision
      BY <2>1, <2>4 DEF Unchallenged, Knows
    <3>2. Version(r)' = Version(r)
      BY <1>0, <1>a, <2>1, <2>2, <2>4, <3>1 DEF Version
    <3>. QED BY <1>0, <2>1, <2>3, <3>2, SameVersions, VersionsChange
  <2>5. CASE pc[t] = "storedoc"
    <3>1. PICK g \in Regions, i \in Ids, s \in StoreIds, f \in Fields :
            /\ local[t].region = g /\ local[t].id = i /\ local[t].store = s /\ local[t].field = f
            /\ stores[g] = s /\ documents[s][i] = r
            /\ local[t].merged = heap[r].doc \cup {f}
      <4>1. /\ local[t].region \in Regions /\ local[t].id \in Ids
            /\ local[t].store \in StoreIds /\ local[t].field \in Fields
        BY <2>1, <2>5 DEF HandlersFit, Fits, Resting, Seeking, Updating, Locals
      <4>. QED BY <2>1, <2>5, <4>1 DEF Unchallenged, Knows, Resting, Seeking, Holding
    <3>2. ASSUME NEW h \in Regions, NEW j \in Ids, <<h, j>> # <<g, i>>
          PROVE  VersionAt(h, j)' = VersionAt(h, j)
      <4>1. stores[h] # None => documents[stores[h]][j] # r
        <5>1. CASE h = g
          BY <1>0, <2>1, <3>1, <3>2, <5>1 DEF Unchallenged, StoresInv
        <5>2. CASE h # g
          <6>1. stores[h] # s
            BY <1>0, <1>s, <3>1, <5>2, StoreOfOneRegion
          <6>. QED BY <1>0, <2>1, <3>1, <6>1 DEF Unchallenged, StoresInv
        <5>. QED BY <5>1, <5>2
      <4>. QED BY <1>0, <2>1, <2>3, <4>1 DEF VersionAt
    <3>3. heap[r] \in Contents
      BY <1>0, <2>1 DEF Allocated
    <3>4. Version(r) = [doc |-> heap[r].doc, tenant |-> heap[r].tenant, rev |-> heap[r].revision]
      BY <1>0, <1>a, <2>1, <2>2, <2>5 DEF Version
    <3>5. Version(r)' = [doc |-> heap[r].doc \cup {f}, tenant |-> heap[r].tenant,
                         rev |-> heap[r].revision + 1]
      BY <1>0, <1>a, <2>1, <2>2, <2>5, <3>1 DEF Version
    <3>6. VersionAt(g, i) = Version(r) /\ VersionAt(g, i)' = Version(r)'
      BY <1>0, <2>1, <3>1 DEF VersionAt
    <3>7. Version(r) # None
      <4>1. Version(r) \in [doc : SUBSET Fields, tenant : Tenants \cup {None}, rev : Nat]
        BY <3>3, <3>4 DEF Contents, Revs
      <4>. QED BY <4>1, NoneIsNoVersion
    <3>8. versions' = [versions EXCEPT ![g][i] = Version(r)']
      BY <3>2, <3>6, VersionsChange
    <3>9. versions[g][i] = Version(r)
      BY <3>6 DEF versions, VersionAt
    <3>10. versions' = [versions EXCEPT ![g][i] = [doc    |-> versions[g][i].doc \cup {f},
                                                   rev    |-> versions[g][i].rev + 1,
                                                   tenant |-> versions[g][i].tenant]]
      <4>1. /\ Version(r).doc = heap[r].doc /\ Version(r).rev = heap[r].revision
            /\ Version(r).tenant = heap[r].tenant
        BY <3>4
      <4>2. Version(r)' = [doc |-> versions[g][i].doc \cup {f}, rev |-> versions[g][i].rev + 1,
                           tenant |-> versions[g][i].tenant]
        BY <3>5, <3>9, <4>1
      <4>. QED BY <3>8, <4>2
    <3>11. Documents!Amend(g, i)
      BY <3>7, <3>9, <3>10 DEF Documents!Amend
    <3>. QED BY <3>11 DEF Documents!Next
  <2>. QED BY <2>1, <2>4, <2>5
<1>2. CASE Create(t) \/ Remove(t)
  <2>1. PICK s \in StoreIds, i \in Ids, g \in Regions :
              /\ local[t].store = s /\ local[t].id = i /\ local[t].region = g /\ local[t] # NoRequest
              /\ UNCHANGED <<stores, owner>>
              /\ pc[t] \in {"fetch", "remove"} /\ pc'[t] = "done"
              /\ \A q \in StoreIds, j \in Ids : <<q, j>> # <<s, i>> => documents'[q][j] = documents[q][j]
              /\ \/ /\ pc[t] = "remove"
                    /\ documents'[s][i] = None /\ heap' = heap
                 \/ \E r \in Records \ Allocated, tenant \in Tenants \cup {None} :
                       /\ documents'[s][i] = r
                       /\ heap' = [heap EXCEPT ![r] = [doc |-> {}, revision |-> 1, rev |-> 1,
                                                       tenant |-> tenant]]
                       /\ Allocated' = Allocated \cup {r}
    BY <1>2, DocumentWrite
  <2>2. AtWork(t) /\ stores[g] = s
    BY <2>1 DEF AtWork, Resting, Seeking, Unchallenged, Knows
  <2>3. \A r \in Records : ~Amended(r) /\ ~Amended(r)'
    BY <1>a, <2>1, <2>2
  <2>4. \A r \in Allocated : heap'[r] = heap[r]
    BY <1>0, <2>1
  <2>5. \A r \in Allocated : Version(r)' = Version(r)
    BY <1>0, <2>3, <2>4 DEF Version
  <2>6. ASSUME NEW h \in Regions, NEW j \in Ids, <<h, j>> # <<g, i>>
        PROVE  VersionAt(h, j)' = VersionAt(h, j)
    <3>1. stores[h] # None => documents'[stores[h]][j] = documents[stores[h]][j]
      <4>1. h # g => stores[h] # s
        BY <1>0, <1>s, <2>2, StoreOfOneRegion
      <4>. QED BY <1>0, <2>1, <2>2, <2>6, <4>1
    <3>. QED BY <1>0, <2>1, <2>5, <3>1 DEF VersionAt
  <2>7. versions' = [versions EXCEPT ![g][i] = VersionAt(g, i)']
    BY <2>6, VersionsChange
  <2>8. CASE pc[t] = "remove" /\ documents'[s][i] = None
    <3>1. VersionAt(g, i)' = None
      BY <2>1, <2>2, <2>8 DEF VersionAt
    <3>2. documents[s][i] \in Allocated
      BY <2>1, <2>2, <2>8 DEF Unchallenged, Knows, Resting, Seeking, Holding, HandlersFit, Fits
    <3>3. versions[g][i] = Version(documents[s][i])
      BY <1>0, <2>1, <2>2, <3>2 DEF versions
    <3>4. Version(documents[s][i]) # None
      <4>1. PICK r \in Allocated : r = documents[s][i]
        BY <3>2
      <4>2. heap[r] \in Contents
        BY <1>0 DEF Allocated
      <4>3. Version(r) \in [doc : SUBSET Fields, tenant : Tenants \cup {None}, rev : Nat]
        BY <1>0, <2>3, <4>2 DEF Version, Contents, Revs
      <4>. QED BY <4>1, <4>3, NoneIsNoVersion
    <3>5. Documents!Remove(g, i)
      BY <2>7, <3>1, <3>3, <3>4 DEF Documents!Remove
    <3>. QED BY <3>5 DEF Documents!Next
  <2>9. CASE ~(pc[t] = "remove" /\ documents'[s][i] = None)
    <3>1. PICK r \in Records \ Allocated, tenant \in Tenants \cup {None} :
                       /\ documents'[s][i] = r
                       /\ heap' = [heap EXCEPT ![r] = [doc |-> {}, revision |-> 1, rev |-> 1,
                                                       tenant |-> tenant]]
      BY <2>1, <2>9
    <3>2. VersionAt(g, i)' = Version(r)'
      BY <1>0, <2>1, <2>2, <3>1 DEF VersionAt
    <3>3. Version(r)' = [doc |-> {}, tenant |-> tenant, rev |-> 1]
      BY <1>0, <2>3, <3>1 DEF Version
    <3>4. Documents!Create(g, i)
      <4>1. [doc |-> {}, rev |-> 1, tenant |-> tenant] = [doc |-> {}, tenant |-> tenant, rev |-> 1]
        OBVIOUS
      <4>. QED BY <2>7, <3>2, <3>3, <4>1 DEF Documents!Create
    <3>. QED BY <3>4 DEF Documents!Next
  <2>. QED BY <2>8, <2>9
<1>3. CASE NewStore(t)
  <2>1. PICK g \in Regions, s \in StoreIds :
          /\ local[t].region = g /\ owner[s] = None
          /\ stores' = [stores EXCEPT ![g] = s] /\ UNCHANGED <<documents, heap, local>>
          /\ pc[t] = "newstore" /\ pc'[t] = "getstore"
    <3>1. local[t].region \in Regions
      BY <1>3 DEF NewStore, HandlersFit, Fits, Resting, Locals
    <3>. QED BY <1>0, <1>3, <3>1 DEF NewStore, Goto
  <2>2. AtWork(t) /\ stores[g] = None
    BY <2>1 DEF AtWork, Resting, Unchallenged, Knows
  <2>3. \A r \in Records : Version(r)' = Version(r)
    BY <1>a, <2>1, <2>2 DEF Version
  <2>4. \A i \in Ids : documents[s][i] = None
    BY <2>1 DEF Unchallenged, StoresInv
  <2>5. ASSUME NEW h \in Regions, NEW j \in Ids PROVE VersionAt(h, j)' = VersionAt(h, j)
    <3>1. CASE h = g
      BY <1>0, <2>1, <2>2, <2>4, <3>1 DEF VersionAt
    <3>2. CASE h # g
      BY <1>0, <2>1, <2>3, <3>2 DEF VersionAt
    <3>. QED BY <3>1, <3>2
  <2>. QED BY <2>5, VersionsChange
<1>4. CASE UNCHANGED shared /\ ~(StoreDocument(t) \/ StoreCount(t) \/ StoreRevision(t))
  <2>1. \A r \in Records : Amended(r)' <=> Amended(r)
    <3>1. \A u \in Threads \ {t} : pc'[u] = pc[u] /\ local'[u] = local[u]
      BY StoresStep
    <3>2. CASE pc[t] \in {"count", "storecount"} \/ pc'[t] \in {"count", "storecount"}
      <4>1. ReadCount(t)
        BY <1>0, <1>4, <3>2, StepsAroundCount
      <4>2. local[t] \in Locals /\ pc[t] = "count"
        BY <4>1 DEF ReadCount, HandlersFit, Fits, Resting
      <4>3. local'[t].rec = local[t].rec /\ local'[t] # NoRequest /\ pc'[t] = "storecount" /\ local[t] # NoRequest
        <5>1. local'[t] = [local[t] EXCEPT !.number = heap[local[t].rec].revision] /\ pc'[t] = "storecount"
          BY <1>0, <4>1 DEF ReadCount, Assign, Goto
        <5>2. HandlersFit' => (local'[t] = NoRequest <=> pc'[t] \in {"idle", "done"})
          BY DEF HandlersFit, TypeOK
        <5>3. local[t] = NoRequest <=> pc[t] \in {"idle", "done"}
          BY DEF HandlersFit, TypeOK
        <5>. QED BY <4>2, <5>1, <5>2, <5>3 DEF Locals
      <4>. QED BY <3>1, <4>2, <4>3 DEF Amended
    <3>3. CASE ~(pc[t] \in {"count", "storecount"} \/ pc'[t] \in {"count", "storecount"})
      BY <3>1, <3>3 DEF Amended
    <3>. QED BY <3>2, <3>3
  <2>2. \A r \in Records : Version(r)' = Version(r)
    BY <1>4, <2>1 DEF Version, shared
  <2>. QED BY <1>0, <1>4, <2>2, SameVersions, VersionsChange DEF shared
<1>. QED BY <1>1, <1>2, <1>3, <1>4, Flow

\* With one request at a time every update is one step, in which the document changes and
\* its revision becomes the next, and a request to one region changes no other's
\* documents: that updates get lost and revisions repeat is due to the overlap alone.
THEOREM SequentialVersions == Spec /\ []OneAtATime => ImplementsVersionedDocuments
<1>1. Init => HandlersFit /\ Unchallenged /\ Documents!Init
  <2>1. Init => Documents!Init
    BY DEF Init, Documents!Init, versions
  <2>. QED BY <2>1, UnchallengedInit, HandlersFitInit
<1>2. HandlersFit /\ Unchallenged /\ OneAtATime /\ OneAtATime' /\ [Next]_vars
        => HandlersFit' /\ Unchallenged' /\ [Documents!Next]_versions
  <2> SUFFICES ASSUME HandlersFit, Unchallenged, OneAtATime, OneAtATime', [Next]_vars
               PROVE  HandlersFit' /\ Unchallenged' /\ (Documents!Next \/ UNCHANGED versions)
    OBVIOUS
  <2>1. HandlersFit' /\ Unchallenged'
    BY HandlersFitInductive, UnchallengedStep
  <2>2. CASE UNCHANGED vars
    <3>1. \A r \in Allocated : Version(r)' = Version(r)
      BY <2>2 DEF vars, Version, Amended
    <3>2. UNCHANGED versions
      BY <2>2, <3>1, SameVersions, VersionsChange DEF vars
    <3>. QED BY <2>1, <3>2
  <2>3. CASE Next
    BY <2>1, <2>3, VersionStep DEF Next
  <2>. QED BY <2>1, <2>2, <2>3
<1>. QED BY <1>1, <1>2, PTL DEF Spec, ImplementsVersionedDocuments, Documents!Spec

\* With one request at a time no update leaves a revision behind its count.
THEOREM SequentialRevisions == Spec /\ []OneAtATime => []RevisionsAgree
<1>1. Unchallenged => RevisionsAgree
  BY DEF Unchallenged, Counted, RevisionsAgree
<1>. QED BY <1>1, HandlersFitInit, UnchallengedInit, HandlersFitInductive, UnchallengedStep, PTL DEF Spec

-----------------------------------------------------------------------------
(* Updates of one record that do not overlap.                              *)

\* What a lock of its own for every record, held from the comparison of the revision to
\* its replacement, would enforce.  Everything else may overlap.
Guarded == {"check", "merge", "storedoc", "count", "storecount", "derive", "storerev"}
UpdatesApart ==
    \A t, u \in Threads :
        pc[t] \in Guarded /\ pc[u] \in Guarded /\ local[t].rec = local[u].rec => t = u

\* How far count and revision of the record c have got at a label, and how the revision
\* in the request compares with them.
Sound(label, l, c) ==
    /\ label \in {"check", "merge", "storedoc", "count", "storecount"} => c.rev = c.revision
    /\ label \in {"derive", "storerev"} => c.revision = c.rev + 1
    /\ label \in {"storecount", "storerev"} => l.number = c.revision
    /\ l.base # NoToken => /\ label \in Guarded \ {"check"} => l.base.rev = c.rev
                           /\ label = "answer" => l.base.rev < c.rev

\* An update with a revision that is through, and not answered yet.
Won(t) == pc[t] = "answer" /\ local[t].base # NoToken

\* Every update that won had a revision the record does not have any more, and no two
\* of them, answered or not, had the same.
Past ==
    /\ \A r \in Allocated : \A x \in acked[r] : x[2] < heap[r].rev
    /\ \A r \in Records \ Allocated : acked[r] = {}
Distinct ==
    \A t \in Threads : Won(t) =>
        /\ \A x \in acked[local[t].rec] : x[2] # local[t].base.rev
        /\ \A u \in Threads : Won(u) /\ local[u].rec = local[t].rec
                                /\ local[u].base.rev = local[t].base.rev => u = t
WinnersInv ==
    /\ \A t \in Threads : pc[t] \in Guarded \cup {"answer"}
                            => Sound(pc[t], local[t], heap[local[t].rec])
    /\ Counted /\ Past /\ Distinct /\ OneWinnerPerRevision

\* What a handler that holds a record holds.
LEMMA Held ==
    ASSUME HandlersFit, NEW t \in Threads, pc[t] \in Guarded \cup {"answer"}
    PROVE  /\ local[t] \in Locals /\ local[t].rec \in Allocated /\ local[t].rec \in Records
           /\ heap[local[t].rec].rev \in Nat /\ heap[local[t].rec].revision \in Nat
           /\ local[t].number \in Nat
           /\ local[t].base # NoToken => local[t].base.rev \in Nat
           /\ local[t].base # NoToken => local[t].field \in Fields /\ local[t].method = "PUT"
<1>1. local[t] \in Locals /\ local[t].rec \in Allocated
  BY DEF HandlersFit, Fits, Guarded, Holding, Resting
<1>2. heap[local[t].rec] \in Contents
  BY <1>1 DEF HandlersFit, TypeOK, Allocated
<1>3. local[t].base # NoToken => local[t].field \in Fields /\ local[t].method = "PUT"
  BY DEF HandlersFit, Fits, Guarded, Resting
<1>. QED BY <1>1, <1>2, <1>3 DEF Allocated, Contents, Revs, Locals, Tokens

\* The three writes of an update: nobody else compares or counts its record meanwhile, and
\* whoever has won an earlier revision of it stays behind the record.
LEMMA WriteKeepsWinners ==
    ASSUME HandlersFit, WinnersInv, UpdatesApart, NEW t \in Threads,
           StoreDocument(t) \/ StoreCount(t) \/ StoreRevision(t)
    PROVE  WinnersInv'
<1>1. PICK r \in Allocated :
          /\ local[t].rec = r /\ local[t] \in Locals
          /\ local' = local /\ Allocated' = Allocated
          /\ \A q \in Records \ {r} : heap'[q] = heap[q]
          /\ \/ /\ pc[t] = "storedoc" /\ pc'[t] = "count"
                /\ heap'[r].revision = heap[r].revision /\ heap'[r].rev = heap[r].rev
             \/ /\ pc[t] = "storecount" /\ pc'[t] = "derive"
                /\ heap'[r].revision = local[t].number + 1 /\ heap'[r].rev = heap[r].rev
             \/ /\ pc[t] = "storerev" /\ pc'[t] = "answer"
                /\ heap'[r].rev = local[t].number /\ heap'[r].revision = heap[r].revision
  BY RecordWrite
<1>2. acked' = acked /\ \A u \in Threads \ {t} : pc'[u] = pc[u]
  <2>1. acked' = acked
    BY DEF StoreDocument, StoreCount, StoreRevision, SetRecord, clients
  <2>. QED BY <2>1, StoresStep DEF Handle
<1>3. pc[t] \in Guarded /\ Sound(pc[t], local[t], heap[r])
  <2>1. pc[t] \in Guarded
    BY <1>1 DEF Guarded
  <2>. QED BY <1>1, <2>1 DEF WinnersInv
<1>4. /\ heap[r].rev \in Nat /\ heap[r].revision \in Nat /\ r \in Records
      /\ local[t].base # NoToken => local[t].base.rev \in Nat
  BY <1>1, <1>3, Held
<1>5. /\ Sound(pc'[t], local[t], heap'[r])
      /\ heap'[r].rev \in {heap[r].rev, heap[r].rev + 1}
      /\ heap'[r].rev = heap'[r].revision \/ pc'[t] = "derive"
  BY <1>1, <1>3, <1>4 DEF Sound, Guarded
<1>6. \A u \in Threads \ {t} : pc[u] \in Guarded => local[u].rec # r
  BY <1>1, <1>3 DEF UpdatesApart
<1>7. ASSUME NEW u \in Threads, pc'[u] \in Guarded \cup {"answer"}
      PROVE  Sound(pc'[u], local'[u], heap'[local'[u].rec])
  <2>1. CASE u = t
    BY <1>1, <1>5, <2>1
  <2>2. CASE u # t /\ local[u].rec # r
    <3>1. pc[u] \in Guarded \cup {"answer"} /\ local[u].rec \in Records
      BY <1>2, <1>7, <2>2, Held
    <3>. QED BY <1>1, <1>2, <2>2, <3>1 DEF WinnersInv
  <2>3. CASE u # t /\ local[u].rec = r
    <3>1. /\ pc'[u] = "answer" /\ pc[u] = "answer"
          /\ local[u].base # NoToken => local[u].base.rev \in Nat
      BY <1>2, <1>6, <1>7, <2>3, Held
    <3>2. local[u].base # NoToken => local[u].base.rev < heap[r].rev
      BY <2>3, <3>1 DEF WinnersInv, Sound
    <3>3. local[u].base # NoToken => local[u].base.rev < heap'[r].rev
      BY <1>4, <1>5, <3>1, <3>2
    <3>. QED BY <1>1, <2>3, <3>1, <3>3 DEF Sound, Guarded
  <2>. QED BY <2>1, <2>2, <2>3
<1>8. Counted'
  <2>1. ASSUME NEW q \in Allocated \ {r}
        PROVE  \/ heap'[q].rev = heap'[q].revision
               \/ \E u \in Threads : pc'[u] \in {"derive", "storerev"} /\ local'[u].rec = q
    <3>1. heap'[q] = heap[q]
      BY <1>1, <2>1 DEF Allocated
    <3>2. CASE heap[q].rev = heap[q].revision
      BY <3>1, <3>2
    <3>3. CASE heap[q].rev # heap[q].revision
      <4>1. PICK u \in Threads : pc[u] \in {"derive", "storerev"} /\ local[u].rec = q
        BY <3>3 DEF WinnersInv, Counted
      <4>2. u # t
        BY <1>1, <4>1
      <4>. QED BY <1>1, <1>2, <4>1, <4>2
    <3>. QED BY <3>2, <3>3
  <2>2. \/ heap'[r].rev = heap'[r].revision
        \/ pc'[t] \in {"derive", "storerev"} /\ local'[t].rec = r
    BY <1>1, <1>5
  <2>. QED BY <1>1, <2>1, <2>2 DEF Counted
<1>9. Past'
  <2>1. ASSUME NEW q \in Allocated, NEW x \in acked[q] PROVE x[2] < heap'[q].rev
    <3>1. x[2] < heap[q].rev /\ x[2] \in Nat
      BY <2>1 DEF WinnersInv, Past, HandlersFit, TypeOK, Allocated, Revs
    <3>2. CASE q = r
      BY <1>4, <1>5, <3>1, <3>2
    <3>3. CASE q # r
      BY <1>1, <2>1, <3>1, <3>3 DEF Allocated
    <3>. QED BY <3>2, <3>3
  <2>. QED BY <1>1, <1>2, <2>1 DEF WinnersInv, Past
<1>10. Distinct'
  <2>1. ASSUME NEW u \in Threads, Won(u)'
        PROVE  \/ u # t /\ Won(u)
               \/ u = t /\ local[t].base # NoToken /\ local[t].base.rev = heap[r].rev
    BY <1>1, <1>2, <1>3, <2>1 DEF Won, Sound, Guarded
  <2>2. ASSUME NEW u \in Threads, Won(u), local[u].rec = r
        PROVE  local[u].base.rev < heap[r].rev /\ local[u].base.rev \in Nat
    BY <2>2, Held DEF Won, WinnersInv, Sound
  <2>3. ASSUME NEW u \in Threads, NEW v \in Threads, Won(u)', Won(v)', local[v].rec = local[u].rec,
               local[v].base.rev = local[u].base.rev
        PROVE  v = u
    <3>1. CASE u # t /\ v # t
      BY <2>1, <2>3, <3>1 DEF WinnersInv, Distinct
    <3>2. CASE u = t /\ v # t
      BY <1>1, <1>4, <2>1, <2>2, <2>3, <3>2
    <3>3. CASE u # t /\ v = t
      BY <1>1, <1>4, <2>1, <2>2, <2>3, <3>3
    <3>. QED BY <3>1, <3>2, <3>3
  <2>4. ASSUME NEW u \in Threads, Won(u)', NEW x \in acked[local[u].rec]
        PROVE  x[2] # local[u].base.rev
    <3>1. CASE u # t
      BY <2>1, <2>4, <3>1 DEF WinnersInv, Distinct
    <3>2. CASE u = t
      <4>1. x[2] < heap[r].rev /\ x[2] \in Nat
        BY <1>1, <1>4, <2>4, <3>2 DEF WinnersInv, Past, HandlersFit, TypeOK, Revs
      <4>. QED BY <1>4, <2>1, <2>4, <3>2, <4>1
    <3>. QED BY <3>1, <3>2
  <2>. QED BY <1>1, <1>2, <2>3, <2>4 DEF Distinct
<1>11. OneWinnerPerRevision'
  BY <1>2 DEF WinnersInv, OneWinnerPerRevision
<1>. QED BY <1>7, <1>8, <1>9, <1>10, <1>11 DEF WinnersInv

\* A new record has the revision of its count, and nobody has won one of its yet.
LEMMA CreateKeepsWinners ==
    ASSUME HandlersFit, WinnersInv, NEW t \in Threads, Create(t)
    PROVE  WinnersInv'
<1>1. PICK r \in Records \ Allocated, tenant \in Tenants \cup {None} :
          /\ heap' = [heap EXCEPT ![r] = [doc |-> {}, revision |-> 1, rev |-> 1, tenant |-> tenant]]
          /\ Allocated' = Allocated \cup {r}
  <2>1. pc[t] # "remove"
    BY DEF Create
  <2>. QED BY <2>1, DocumentWrite
<1>2. /\ acked' = acked /\ pc'[t] = "done"
      /\ \A u \in Threads \ {t} : pc'[u] = pc[u] /\ local'[u] = local[u]
  <2>1. acked' = acked /\ pc' = [pc EXCEPT ![t] = "done"]
    BY DEF Create, Answer, Goto
  <2>. QED BY <2>1, StoresStep DEF Handle, HandlersFit, TypeOK
<1>3. heap'[r].rev = 1 /\ heap'[r].revision = 1 /\ \A q \in Records \ {r} : heap'[q] = heap[q]
  BY <1>1 DEF HandlersFit, TypeOK
<1>4. ASSUME NEW u \in Threads, pc'[u] \in Guarded \cup {"answer"}
      PROVE  Sound(pc'[u], local'[u], heap'[local'[u].rec])
  <2>1. u # t /\ pc[u] \in Guarded \cup {"answer"}
    BY <1>2, <1>4 DEF Guarded
  <2>2. heap'[local[u].rec] = heap[local[u].rec]
    BY <1>1, <1>3, <2>1, Held
  <2>. QED BY <1>2, <2>1, <2>2 DEF WinnersInv
<1>5. Counted'
  <2>1. ASSUME NEW q \in Allocated
        PROVE  \/ heap'[q].rev = heap'[q].revision
               \/ \E u \in Threads : pc'[u] \in {"derive", "storerev"} /\ local'[u].rec = q
    <3>1. heap'[q] = heap[q]
      BY <1>1, <1>3 DEF Allocated
    <3>2. CASE heap[q].rev = heap[q].revision
      BY <3>1, <3>2
    <3>3. CASE heap[q].rev # heap[q].revision
      <4>1. PICK u \in Threads : pc[u] \in {"derive", "storerev"} /\ local[u].rec = q
        BY <3>3 DEF WinnersInv, Counted
      <4>2. u # t
        BY <4>1 DEF Create
      <4>. QED BY <1>2, <4>1, <4>2
    <3>. QED BY <3>2, <3>3
  <2>. QED BY <1>1, <1>3, <2>1 DEF Counted
<1>6. Past'
  <2>1. acked[r] = {}
    BY <1>1 DEF WinnersInv, Past
  <2>2. \A q \in Allocated : heap'[q] = heap[q]
    BY <1>1, <1>3 DEF Allocated
  <2>. QED BY <1>1, <1>2, <2>1, <2>2 DEF WinnersInv, Past
<1>7. Distinct'
  <2>1. \A u \in Threads : Won(u)' => u # t /\ Won(u) /\ local'[u] = local[u]
    BY <1>2 DEF Won
  <2>. QED BY <1>2, <2>1 DEF WinnersInv, Distinct
<1>. QED BY <1>2, <1>4, <1>5, <1>6, <1>7 DEF WinnersInv, OneWinnerPerRevision

\* An answer that counts a win: the revision it was won with is no other's.
LEMMA AnswerKeepsWinners ==
    ASSUME HandlersFit, WinnersInv, NEW t \in Threads, ReadRevision(t)
    PROVE  WinnersInv'
<1>1. /\ pc[t] = "answer" /\ pc'[t] = "done" /\ heap' = heap /\ Allocated' = Allocated
      /\ \A u \in Threads \ {t} : pc'[u] = pc[u] /\ local'[u] = local[u]
  <2>1. pc[t] = "answer" /\ heap' = heap /\ pc' = [pc EXCEPT ![t] = "done"]
    BY DEF ReadRevision, Answer, Goto, shared
  <2>. QED BY <2>1, StoresStep DEF Handle, HandlersFit, TypeOK, Allocated
<1>2. PICK r \in Allocated : r = local[t].rec
  BY <1>1, Held
<1>3. acked \in [Records -> SUBSET (Fields \X Revs)] /\ r \in Records
  BY <1>2 DEF HandlersFit, TypeOK, Allocated
<1>4. PICK x : x = <<local[t].field, local[t].base.rev>>
  OBVIOUS
<1>5. /\ \A q \in Records \ {r} : acked'[q] = acked[q]
      /\ acked'[r] = IF Won(t) THEN acked[r] \cup {x} ELSE acked[r]
  BY <1>1, <1>2, <1>3, <1>4 DEF ReadRevision, Won
<1>6. ASSUME Won(t)
      PROVE  /\ x[2] = local[t].base.rev /\ x[2] < heap[r].rev
             /\ \A y \in acked[r] : y[2] # x[2]
             /\ \A u \in Threads \ {t} : Won(u) /\ local[u].rec = r => local[u].base.rev # x[2]
  <2>1. x[2] = local[t].base.rev
    BY <1>4
  <2>2. Sound("answer", local[t], heap[r])
    BY <1>1, <1>2 DEF WinnersInv
  <2>. QED BY <1>2, <1>6, <2>1, <2>2 DEF WinnersInv, Distinct, Sound, Won
<1>7. \A u \in Threads : pc'[u] \in Guarded \cup {"answer"}
                           => u # t /\ Sound(pc'[u], local'[u], heap'[local'[u].rec])
  BY <1>1 DEF WinnersInv, Guarded
<1>8. Counted'
  BY <1>1 DEF WinnersInv, Counted
<1>9. Past'
  <2>1. \A y \in acked'[r] : y[2] < heap[r].rev
    BY <1>2, <1>5, <1>6 DEF WinnersInv, Past
  <2>2. \A q \in Records \ {r} : acked'[q] = acked[q]
    BY <1>5
  <2>. QED BY <1>1, <1>2, <2>1, <2>2 DEF WinnersInv, Past, Allocated
<1>10. Distinct'
  <2>1. \A u \in Threads : Won(u)' => u # t /\ Won(u) /\ local'[u] = local[u]
    BY <1>1 DEF Won
  <2>2. ASSUME NEW u \in Threads, Won(u)', NEW y \in acked'[local[u].rec]
        PROVE  y[2] # local[u].base.rev
    <3>1. CASE y \in acked[local[u].rec]
      BY <2>1, <2>2, <3>1 DEF WinnersInv, Distinct
    <3>2. CASE y \notin acked[local[u].rec]
      <4>1. local[u].rec \in Records /\ u # t /\ Won(u)
        BY <2>1, <2>2, Held DEF Won
      <4>2. local[u].rec = r /\ Won(t) /\ y = x
        BY <1>5, <2>2, <3>2, <4>1
      <4>. QED BY <1>6, <4>1, <4>2
    <3>. QED BY <3>1, <3>2
  <2>. QED BY <2>1, <2>2 DEF WinnersInv, Distinct
<1>11. OneWinnerPerRevision'
  <2>1. \A y, z \in acked'[r] : y[2] = z[2] => y = z
    BY <1>3, <1>5, <1>6 DEF WinnersInv, OneWinnerPerRevision
  <2>. QED BY <1>3, <1>5, <2>1 DEF WinnersInv, OneWinnerPerRevision
<1>. QED BY <1>7, <1>8, <1>9, <1>10, <1>11 DEF WinnersInv

\* Where a handler that writes nothing comes to hold a record, or goes on with it.
LEMMA QuietSteps ==
    ASSUME HandlersFit, NEW t \in Threads, Receive(t) \/ Reject(t) \/ Handle(t) \/ Close(t),
           ~(StoreDocument(t) \/ StoreCount(t) \/ StoreRevision(t) \/ Create(t) \/ ReadRevision(t))
    PROVE  /\ acked' = acked /\ heap' = heap
           /\ \A u \in Threads \ {t} : pc'[u] = pc[u] /\ local'[u] = local[u]
           /\ pc'[t] \in Guarded \cup {"answer"} =>
                \/ pc'[t] \in {"answer", "merge"} /\ local'[t].base = NoToken /\ pc[t] = "fetch"
                \/ pc'[t] = "check" /\ pc[t] = "refetch"
                \/ /\ pc[t] = "check" /\ pc'[t] = "merge" /\ local'[t] = local[t]
                   /\ heap[local[t].rec].rev = local[t].base.rev
                \/ /\ \/ pc[t] = "merge" /\ pc'[t] = "storedoc"
                      \/ /\ \/ pc[t] = "count" /\ pc'[t] = "storecount"
                            \/ pc[t] = "derive" /\ pc'[t] = "storerev"
                         /\ local'[t].number = heap[local[t].rec].revision
                   /\ local'[t].rec = local[t].rec /\ local'[t].base = local[t].base
           /\ pc[t] \in {"derive", "storerev"} => /\ pc'[t] = "storerev"
                                                  /\ local'[t].rec = local[t].rec
<1> USE DEF Goto, Assign, Answer, shared, clients
<1>0. /\ pc \in [Threads -> Labels] /\ local \in [Threads -> Locals \cup {NoRequest}]
  BY DEF HandlersFit, TypeOK
<1>1. \A u \in Threads \ {t} : pc'[u] = pc[u] /\ local'[u] = local[u]
  BY StoresStep
<1>2. CASE Receive(t) \/ Reject(t) \/ Close(t) \/ NotFound(t) \/ Remove(t)
  <2>1. pc'[t] \in {"idle", "done", "store"} /\ pc[t] \in {"idle", "done", "fetch", "remove"}
    BY <1>0, <1>2 DEF Receive, Reject, Close, NotFound, Remove
  <2>2. acked' = acked /\ heap' = heap
    BY <1>2 DEF Receive, Reject, Close, NotFound, Remove
  <2>. QED BY <1>1, <2>1, <2>2 DEF Guarded
<1>3. CASE FindStore(t) \/ NewStore(t) \/ GetStore(t)
  <2>1. /\ pc'[t] \in {"newstore", "getstore", "fetch"}
        /\ pc[t] \in {"store", "newstore", "getstore"}
    BY <1>0, <1>3 DEF FindStore, NewStore, GetStore
  <2>2. acked' = acked /\ heap' = heap
    BY <1>3 DEF FindStore, NewStore, GetStore
  <2>. QED BY <1>1, <2>1, <2>2 DEF Guarded
<1>4. ASSUME pc[t] \notin Resting PROVE local[t] \in Locals
  BY <1>4 DEF HandlersFit, Fits
<1>5. CASE FetchRecord(t)
  <2>1. /\ pc[t] = "fetch" /\ acked' = acked /\ heap' = heap
        /\ local'[t] = [local[t] EXCEPT !.rec = Stored(t)]
        /\ pc'[t] \in {"answer", "remove", "merge", "refetch"}
        /\ pc'[t] = "answer" => local[t].method = "GET"
        /\ pc'[t] = "merge" => local[t].base = NoToken
    BY <1>0, <1>5 DEF FetchRecord
  <2>2. local'[t].base = local[t].base /\ (local[t].base # NoToken => local[t].method = "PUT")
    BY <1>4, <2>1 DEF Resting, Locals, HandlersFit, Fits
  <2>. QED BY <1>1, <2>1, <2>2 DEF Guarded
<1>6. CASE Refetch(t)
  <2>1. pc[t] = "refetch" /\ pc'[t] \in {"done", "check"} /\ acked' = acked /\ heap' = heap
    BY <1>0, <1>6 DEF Refetch
  <2>. QED BY <1>1, <2>1 DEF Guarded
<1>7. CASE CheckRevision(t)
  <2>1. /\ pc[t] = "check" /\ acked' = acked /\ heap' = heap
        /\ \/ pc'[t] = "done"
           \/ /\ pc'[t] = "merge" /\ local'[t] = local[t]
              /\ heap[local[t].rec].rev = local[t].base.rev
    BY <1>0, <1>7 DEF CheckRevision
  <2>. QED BY <1>1, <2>1 DEF Guarded
<1>8. CASE Merge(t)
  <2>1. /\ pc[t] = "merge" /\ pc'[t] = "storedoc" /\ acked' = acked /\ heap' = heap
        /\ local'[t] = [local[t] EXCEPT !.merged = heap[local[t].rec].doc \cup {local[t].field}]
    BY <1>0, <1>8 DEF Merge
  <2>2. local'[t].rec = local[t].rec /\ local'[t].base = local[t].base
    BY <1>4, <2>1 DEF Resting, Locals
  <2>. QED BY <1>1, <2>1, <2>2 DEF Guarded
<1>9. CASE ReadCount(t) \/ DeriveRevision(t)
  <2>1. /\ \/ pc[t] = "count" /\ pc'[t] = "storecount"
           \/ pc[t] = "derive" /\ pc'[t] = "storerev"
        /\ acked' = acked /\ heap' = heap
        /\ local'[t] = [local[t] EXCEPT !.number = heap[local[t].rec].revision]
    BY <1>0, <1>9 DEF ReadCount, DeriveRevision
  <2>2. /\ local'[t].rec = local[t].rec /\ local'[t].base = local[t].base
        /\ local'[t].number = heap[local[t].rec].revision
    BY <1>4, <2>1 DEF Resting, Locals
  <2>. QED BY <1>1, <2>1, <2>2 DEF Guarded
<1>. QED BY <1>2, <1>3, <1>5, <1>6, <1>7, <1>8, <1>9 DEF Handle

\* The other steps: who comes to update a record finds it at rest, because nobody else is
\* between the comparison and the replacement.
LEMMA QuietKeepsWinners ==
    ASSUME HandlersFit, HandlersFit', WinnersInv, UpdatesApart', NEW t \in Threads,
           Receive(t) \/ Reject(t) \/ Handle(t) \/ Close(t),
           ~(StoreDocument(t) \/ StoreCount(t) \/ StoreRevision(t) \/ Create(t) \/ ReadRevision(t))
    PROVE  WinnersInv'
<1>1. /\ acked' = acked /\ heap' = heap /\ Allocated' = Allocated
      /\ \A u \in Threads \ {t} : pc'[u] = pc[u] /\ local'[u] = local[u]
  BY QuietSteps DEF Allocated
<1>2. Sound(pc'[t], local'[t], heap[local'[t].rec]) \/ pc'[t] \notin Guarded \cup {"answer"}
  <2> SUFFICES ASSUME pc'[t] \in Guarded \cup {"answer"}
               PROVE  Sound(pc'[t], local'[t], heap[local'[t].rec])
    OBVIOUS
  <2>1. ASSUME pc[t] \in {"fetch", "refetch"}, pc'[t] \in {"merge", "check"}
        PROVE  heap[local'[t].rec].rev = heap[local'[t].rec].revision
    <3>1. local'[t].rec \in Allocated
      BY <1>1, <2>1 DEF HandlersFit, Fits, Holding, Resting
    <3>2. ASSUME NEW u \in Threads, pc[u] \in {"derive", "storerev"}, local[u].rec = local'[t].rec
          PROVE  FALSE
      <4>1. u # t /\ pc'[u] = pc[u] /\ local'[u] = local[u]
        BY <1>1, <2>1, <3>2
      <4>2. pc'[u] \in Guarded /\ pc'[t] \in Guarded
        BY <2>1, <3>2, <4>1 DEF Guarded
      <4>. QED BY <3>2, <4>1, <4>2 DEF UpdatesApart
    <3>. QED BY <3>1, <3>2 DEF WinnersInv, Counted
  <2>2. CASE pc'[t] \in {"answer", "merge"} /\ local'[t].base = NoToken /\ pc[t] = "fetch"
    BY <2>1, <2>2 DEF Sound
  <2>3. CASE pc'[t] = "check" /\ pc[t] = "refetch"
    BY <2>1, <2>3 DEF Sound, Guarded
  <2>4. ASSUME pc[t] \in Guarded PROVE Sound(pc[t], local[t], heap[local[t].rec])
    BY <2>4 DEF WinnersInv
  <2>5. CASE /\ pc[t] = "check" /\ pc'[t] = "merge" /\ local'[t] = local[t]
             /\ heap[local[t].rec].rev = local[t].base.rev
    BY <2>4, <2>5 DEF Sound, Guarded
  <2>6. CASE /\ \/ pc[t] = "merge" /\ pc'[t] = "storedoc"
                \/ /\ \/ pc[t] = "count" /\ pc'[t] = "storecount"
                      \/ pc[t] = "derive" /\ pc'[t] = "storerev"
                   /\ local'[t].number = heap[local[t].rec].revision
             /\ local'[t].rec = local[t].rec /\ local'[t].base = local[t].base
    BY <2>4, <2>6 DEF Sound, Guarded
  <2>. QED BY QuietSteps, <2>2, <2>3, <2>5, <2>6
<1>3. \A u \in Threads : pc'[u] \in Guarded \cup {"answer"}
                           => Sound(pc'[u], local'[u], heap'[local'[u].rec])
  BY <1>1, <1>2 DEF WinnersInv
<1>4. Counted'
  <2>1. pc[t] \in {"derive", "storerev"} => pc'[t] = "storerev" /\ local'[t].rec = local[t].rec
    BY QuietSteps
  <2>. QED BY <1>1, <2>1 DEF WinnersInv, Counted
<1>5. Past'
  BY <1>1 DEF WinnersInv, Past
<1>6. Distinct'
  <2>1. ASSUME NEW u \in Threads, Won(u)' PROVE u # t /\ Won(u) /\ local'[u] = local[u]
    <3>1. u # t
      BY <2>1, QuietSteps DEF Won, Guarded
    <3>. QED BY <1>1, <2>1, <3>1 DEF Won
  <2>. QED BY <1>1, <2>1 DEF WinnersInv, Distinct
<1>. QED BY <1>1, <1>3, <1>4, <1>5, <1>6 DEF WinnersInv, OneWinnerPerRevision

LEMMA WinnersStep ==
    HandlersFit /\ HandlersFit' /\ WinnersInv /\ UpdatesApart /\ UpdatesApart' /\ [Next]_vars
        => WinnersInv'
<1> SUFFICES ASSUME HandlersFit, HandlersFit', WinnersInv, UpdatesApart, UpdatesApart', [Next]_vars
             PROVE  WinnersInv'
  OBVIOUS
<1>1. CASE UNCHANGED vars
  BY <1>1 DEF vars, WinnersInv, Counted, Past, Distinct, Won, OneWinnerPerRevision, Allocated
<1>2. CASE Next
  <2>1. PICK t \in Threads : Receive(t) \/ Reject(t) \/ Handle(t) \/ Close(t)
    BY <1>2 DEF Next
  <2>. QED BY <2>1, WriteKeepsWinners, CreateKeepsWinners, AnswerKeepsWinners, QuietKeepsWinners
<1>. QED BY <1>1, <1>2

LEMMA WinnersInit == Init => WinnersInv
<1> SUFFICES ASSUME Init PROVE WinnersInv
  OBVIOUS
<1>1. Allocated = {}
  BY DEF Init, Allocated
<1>. QED BY <1>1 DEF Init, WinnersInv, Guarded, Counted, Past, Distinct, Won, OneWinnerPerRevision

\* With a lock per record between the comparison and the replacement one update wins each
\* revision, as the test demands: requests may overlap in every other way.  The violation
\* that a run shows is due to the lines between check and replacement alone.
THEOREM OneWinnerUnderLock == Spec /\ []UpdatesApart => []OneWinnerPerRevision
<1>1. WinnersInv => OneWinnerPerRevision
  BY DEF WinnersInv
<1>. QED BY <1>1, HandlersFitInit, HandlersFitInductive, WinnersInit, WinnersStep, PTL DEF Spec

\* Under the same lock every record at rest carries the revision of its count, whatever
\* else overlaps.
THEOREM RevisionsUnderLock == Spec /\ []UpdatesApart => []RevisionsAgree
<1>1. WinnersInv => RevisionsAgree
  BY DEF WinnersInv, Counted, RevisionsAgree
<1>. QED BY <1>1, HandlersFitInit, HandlersFitInductive, WinnersInit, WinnersStep, PTL DEF Spec
===============================================================================
