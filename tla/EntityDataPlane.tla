---------------------------- MODULE EntityDataPlane ----------------------------
(***************************************************************************)
(* The document routes of scripts/services/entity-api-local.py: POST       *)
(* /data and GET, PUT and DELETE /data/{id}, with regional stores and      *)
(* revisions that updates are checked against.                             *)
(*                                                                         *)
(* EntityServer is a ThreadingHTTPServer without a lock: every request is  *)
(* a thread, and a handler is split wherever it touches a store or a       *)
(* record.  Stores and records are Python objects that handlers hold       *)
(* references to, so both have identities here.                            *)
(*                                                                         *)
(* Abstracted: a document is the set of its fields that were written; a    *)
(* revision string is its number, because the digest in it is a function   *)
(* of the id and the number; of a reply only the status code and the       *)
(* revision are kept.  The list and change feed routes are left out.       *)
(***************************************************************************)
EXTENDS Naturals, FiniteSets

CONSTANTS
    Threads,   \* slots of concurrently running handlers
    Regions,   \* values of X-Hpdc-Region
    Ids,       \* document ids
    Fields,    \* fields an update may set
    Tenants,   \* tenants in bearer tokens and documents
    StoreIds,  \* identities of EntityStore objects; bounds how many are made
    Records,   \* identities of records; bounds the number of creations
    None,      \* None of Python
    Methods,   \* the HTTP methods clients use
    MaxRev     \* bound on the revision number

ASSUME DataPlaneConstants ==
    /\ None \notin Regions \cup Ids \cup Fields \cup Tenants \cup StoreIds \cup Records
                  \cup Methods
    /\ Methods \subseteq {"POST", "GET", "PUT", "DELETE"}
    /\ MaxRev \in Nat \ {0}

VARIABLES
    stores,     \* server.stores: region -> store
    owner,      \* the region an EntityStore was made for; None: not made yet
    documents,  \* store.documents: id -> record
    heap,       \* contents of the records
    pc,         \* where the handler in a slot stands
    local,      \* its request and local variables
    reply,      \* status code it has sent; Dropped: it died without one
    known,      \* client state: the revisions clients were given
    acked       \* history: per record, <<field, revision>> of the updates with a
                \* revision that were answered 200

vars == <<stores, owner, documents, heap, pc, local, reply, known, acked>>
shared == <<stores, owner, documents, heap>>
clients == <<known, acked>>

Revs == Nat \ {0}
Silent == 0
Dropped == 500
Codes == {Silent, 200, 201, 204, 400, 401, 404, 409, Dropped}

\* A revision a client holds, of the document it was given it for.
Tokens == [region : Regions, id : Ids, rev : Revs]
NoToken == [rev |-> None]

Locals == [method : Methods, region : Regions, id : Ids, tenant : Tenants \cup {None},
           field : Fields \cup {None}, base : Tokens \cup {NoToken},
           store : StoreIds \cup {None}, rec : Records \cup {None},
           merged : SUBSET Fields, number : Nat]
NoRequest == [method |-> None]

Contents == [doc : SUBSET Fields, revision : Revs, rev : Revs, tenant : Tenants \cup {None}]
Free == [revision |-> 0]
Allocated == {r \in Records : heap[r] # Free}

Labels == {"idle", "store", "newstore", "getstore", "fetch", "refetch", "check", "merge",
           "storedoc", "count", "storecount", "derive", "storerev", "answer",
           "remove", "done"}

Init ==
    /\ stores = [r \in Regions |-> None]
    /\ owner = [s \in StoreIds |-> None]
    /\ documents = [s \in StoreIds |-> [i \in Ids |-> None]]
    /\ heap = [r \in Records |-> Free]
    /\ pc = [t \in Threads |-> "idle"]
    /\ local = [t \in Threads |-> NoRequest]
    /\ reply = [t \in Threads |-> Silent]
    /\ known = {}
    /\ acked = [r \in Records |-> {}]

Goto(t, label) == pc' = [pc EXCEPT ![t] = label]
Assign(t, new) == local' = [local EXCEPT ![t] = new]
Answer(t, code) ==
    /\ Goto(t, "done")
    /\ Assign(t, NoRequest)
    /\ reply' = [reply EXCEPT ![t] = code]
Token(l, n) == [region |-> l.region, id |-> l.id, rev |-> n]

-----------------------------------------------------------------------------
(* Requests arrive, and find the store of their region.                    *)

\* Bounds: enough free records for the creations under way, and revisions that stay
\* below MaxRev with the updates under way.
Creating == {t \in Threads : local[t].method = "POST"}
RoomToCreate == Cardinality(Creating) < Cardinality(Records \ Allocated)
RoomToUpdate == \A r \in Allocated : heap[r].revision + Cardinality(Threads) <= MaxRev

Receive(t) ==
    /\ pc[t] = "idle"
    /\ \E method \in Methods, region \in Regions, id \in Ids, tenant \in Tenants \cup {None},
          field \in Fields \cup {None}, base \in known \cup {NoToken} :
          /\ method = "POST" => RoomToCreate
          /\ method = "PUT" => RoomToUpdate
          /\ (method = "PUT") = (field # None)
          /\ base # NoToken => method = "PUT" /\ base.region = region /\ base.id = id
          /\ Assign(t, [method |-> method, region |-> region, id |-> id, tenant |-> tenant,
                        field |-> field, base |-> base, store |-> None, rec |-> None,
                        merged |-> {}, number |-> 0])
    /\ Goto(t, "store")
    /\ UNCHANGED <<shared, clients, reply>>

\* No credentials, or a body that is not JSON, too large or without an id: answered
\* before any store is touched.
Reject(t) ==
    /\ pc[t] = "idle"
    /\ \E code \in {400, 401} : Answer(t, code)
    /\ UNCHANGED <<shared, clients>>

FindStore(t) ==
    /\ pc[t] = "store"
    /\ Goto(t, IF stores[local[t].region] = None THEN "newstore" ELSE "getstore")
    /\ UNCHANGED <<shared, clients, local, reply>>

\* Mutated form of NewStore: a store that exists is used for the region.
NewStoreShared(t) ==
    /\ pc[t] = "newstore"
    /\ \E s \in StoreIds :
          /\ owner[s] = None => \A other \in StoreIds : owner[other] = None
          /\ owner' = IF owner[s] = None THEN [owner EXCEPT ![s] = local[t].region] ELSE owner
          /\ stores' = [stores EXCEPT ![local[t].region] = s]
    /\ Goto(t, "getstore")
    /\ UNCHANGED <<documents, heap, clients, local, reply>>

\* The region had no store when this handler looked.
NewStore(t) ==
    /\ pc[t] = "newstore"
    /\ \E s \in StoreIds :
          /\ owner[s] = None
          /\ owner' = [owner EXCEPT ![s] = local[t].region]
          /\ stores' = [stores EXCEPT ![local[t].region] = s]
    /\ Goto(t, "getstore")
    /\ UNCHANGED <<documents, heap, clients, local, reply>>

GetStore(t) ==
    /\ pc[t] = "getstore"
    /\ Assign(t, [local[t] EXCEPT !.store = stores[local[t].region]])
    /\ Goto(t, "fetch")
    /\ UNCHANGED <<shared, clients, reply>>

-----------------------------------------------------------------------------
(* _create, _get, _delete                                                  *)

Stored(t) == documents[local[t].store][local[t].id]

\* Mutated form of Create: revisions are counted from zero.
CreateFromZero(t) ==
    /\ pc[t] = "fetch" /\ local[t].method = "POST"
    /\ \E r \in Records \ Allocated, company \in Tenants \cup {None} :
          /\ heap' = [heap EXCEPT ![r] = [doc |-> {}, revision |-> 0, rev |-> 1,
                        tenant |-> IF local[t].tenant = None THEN company ELSE local[t].tenant]]
          /\ documents' = [documents EXCEPT ![local[t].store][local[t].id] = r]
          /\ known' = known \cup {Token(local[t], 1)}
    /\ Answer(t, 201)
    /\ UNCHANGED <<stores, owner, acked>>

\* The record replaces what is stored under the id.  Its tenant is the requester's
\* or else the document's company.
Create(t) ==
    /\ pc[t] = "fetch" /\ local[t].method = "POST"
    /\ \E r \in Records \ Allocated, company \in Tenants \cup {None} :
          /\ heap' = [heap EXCEPT ![r] = [doc |-> {}, revision |-> 1, rev |-> 1,
                        tenant |-> IF local[t].tenant = None THEN company ELSE local[t].tenant]]
          /\ documents' = [documents EXCEPT ![local[t].store][local[t].id] = r]
          /\ known' = known \cup {Token(local[t], 1)}
    /\ Answer(t, 201)
    /\ UNCHANGED <<stores, owner, acked>>

\* A record of no tenant, and a requester without one, match everything.
can_access(t, r) == \/ local[t].tenant = None
                    \/ heap[r].tenant \in {None, local[t].tenant}

NotFound(t) ==
    /\ pc[t] = "fetch" /\ local[t].method # "POST"
    /\ Stored(t) # None => ~can_access(t, Stored(t))
    /\ Answer(t, 404)
    /\ UNCHANGED <<shared, clients>>

\* An update that carries a revision looks the record up again (refetch).
FetchRecord(t) ==
    /\ pc[t] = "fetch" /\ local[t].method # "POST"
    /\ Stored(t) # None
    /\ can_access(t, Stored(t))
    /\ Assign(t, [local[t] EXCEPT !.rec = Stored(t)])
    /\ Goto(t, CASE local[t].method = "GET" -> "answer"
                 [] local[t].method = "DELETE" -> "remove"
                 [] local[t].method = "PUT" /\ local[t].base = NoToken -> "merge"
                 [] OTHER -> "refetch")
    /\ UNCHANGED <<shared, clients, reply>>

\* Mutated form of Remove: the store of the region goes with the document.
RemoveWithStore(t) ==
    /\ pc[t] = "remove"
    /\ documents' = [documents EXCEPT ![local[t].store][local[t].id] = None]
    /\ stores' = [stores EXCEPT ![local[t].region] = None]
    /\ Answer(t, 204)
    /\ UNCHANGED <<owner, heap, clients>>

Remove(t) ==
    /\ pc[t] = "remove"
    /\ documents' = [documents EXCEPT ![local[t].store][local[t].id] = None]
    /\ Answer(t, 204)
    /\ UNCHANGED <<stores, owner, heap, clients>>

-----------------------------------------------------------------------------
(* _update                                                                 *)

\* Without the record the KeyError of EntityStore.update ends the handler.
Refetch(t) ==
    /\ pc[t] = "refetch"
    /\ IF Stored(t) = None
       THEN Answer(t, Dropped)
       ELSE /\ Assign(t, [local[t] EXCEPT !.rec = Stored(t)])
            /\ Goto(t, "check")
            /\ UNCHANGED reply
    /\ UNCHANGED <<shared, clients>>

CheckRevision(t) ==
    /\ pc[t] = "check"
    /\ IF heap[local[t].rec].rev = local[t].base.rev
       THEN Goto(t, "merge") /\ UNCHANGED <<local, reply>>
       ELSE Answer(t, 409)
    /\ UNCHANGED <<shared, clients>>

Merge(t) ==
    /\ pc[t] = "merge"
    /\ Assign(t, [local[t] EXCEPT !.merged = heap[local[t].rec].doc \cup {local[t].field}])
    /\ Goto(t, "storedoc")
    /\ UNCHANGED <<shared, clients, reply>>

SetRecord(t, new) ==
    /\ heap' = [heap EXCEPT ![local[t].rec] = new]
    /\ UNCHANGED <<stores, owner, documents, clients, reply>>

StoreDocument(t) ==
    /\ pc[t] = "storedoc"
    /\ SetRecord(t, [heap[local[t].rec] EXCEPT !.doc = local[t].merged])
    /\ Goto(t, "count")
    /\ UNCHANGED local

\* record["revision"] += 1: a read, then a write.
ReadCount(t) ==
    /\ pc[t] = "count"
    /\ Assign(t, [local[t] EXCEPT !.number = heap[local[t].rec].revision])
    /\ Goto(t, "storecount")
    /\ UNCHANGED <<shared, clients, reply>>

StoreCount(t) ==
    /\ pc[t] = "storecount"
    /\ SetRecord(t, [heap[local[t].rec] EXCEPT !.revision = local[t].number + 1])
    /\ Goto(t, "derive")
    /\ UNCHANGED local

DeriveRevision(t) ==
    /\ pc[t] = "derive"
    /\ Assign(t, [local[t] EXCEPT !.number = heap[local[t].rec].revision])
    /\ Goto(t, "storerev")
    /\ UNCHANGED <<shared, clients, reply>>

StoreRevision(t) ==
    /\ pc[t] = "storerev"
    /\ SetRecord(t, [heap[local[t].rec] EXCEPT !.rev = local[t].number])
    /\ Goto(t, "answer")
    /\ UNCHANGED local

\* The reply to a GET or PUT carries the revision the record has now.
ReadRevision(t) ==
    /\ pc[t] = "answer"
    /\ known' = known \cup {Token(local[t], heap[local[t].rec].rev)}
    /\ acked' = IF local[t].base # NoToken
                THEN [acked EXCEPT ![local[t].rec] = @ \cup {<<local[t].field, local[t].base.rev>>}]
                ELSE acked
    /\ Answer(t, 200)
    /\ UNCHANGED shared

\* The slot is free for the next request.
Close(t) ==
    /\ pc[t] = "done"
    /\ Goto(t, "idle")
    /\ reply' = [reply EXCEPT ![t] = Silent]
    /\ UNCHANGED <<shared, clients, local>>

Handle(t) ==
    \/ FindStore(t) \/ NewStore(t) \/ GetStore(t)
    \/ Create(t) \/ NotFound(t) \/ FetchRecord(t) \/ Remove(t)
    \/ Refetch(t) \/ CheckRevision(t) \/ Merge(t) \/ StoreDocument(t)
    \/ ReadCount(t) \/ StoreCount(t) \/ DeriveRevision(t) \/ StoreRevision(t)
    \/ ReadRevision(t)

Next == \E t \in Threads : Receive(t) \/ Reject(t) \/ Handle(t) \/ Close(t)

Spec == Init /\ [][Next]_vars

-----------------------------------------------------------------------------
(* Properties                                                              *)

\* Stores, records and handlers have the shapes the code gives them.
TypeOK ==
    /\ stores \in [Regions -> StoreIds \cup {None}]
    /\ owner \in [StoreIds -> Regions \cup {None}]
    /\ documents \in [StoreIds -> [Ids -> Records \cup {None}]]
    /\ heap \in [Records -> Contents \cup {Free}]
    /\ pc \in [Threads -> Labels]
    /\ local \in [Threads -> Locals \cup {NoRequest}]
    /\ \A t \in Threads : local[t] = NoRequest <=> pc[t] \in {"idle", "done"}
    /\ reply \in [Threads -> Codes]
    /\ known \subseteq Tokens
    /\ acked \in [Records -> SUBSET (Fields \X Revs)]

\* Once a region has a store and no handler is about to enter another, it keeps this
\* store: only documents created during the race for it can get lost.
Settled(r) == stores[r] # None
              /\ ~\E t \in Threads : pc[t] = "newstore" /\ local[t].region = r
SettledRegionKeepsStore ==
    [][\A r \in Regions : Settled(r) => Settled(r)' /\ stores'[r] = stores[r]]_vars

\* Regions are isolated: the store of a region is never that of another, and a
\* handler works on a store of the region its request names, even during a race.
RegionsAreIsolated ==
    /\ \A r \in Regions : stores[r] # None => owner[stores[r]] = r
    /\ \A t \in Threads : local[t] # NoRequest /\ local[t].store # None
                            => owner[local[t].store] = local[t].region

-----------------------------------------------------------------------------
(* A statement of the repository's tests that the program does not keep.   *)

\* "two clients read the same document revision [...] the stale write is rejected with
\* 409 Conflict (optimistic lock)" (P0-010): of the updates that carry one revision of
\* one document, one is answered with 200.
OneWinnerPerRevision ==
    \A r \in Records : \A x, y \in acked[r] : x[2] = y[2] => x = y

-----------------------------------------------------------------------------
(* Requests that do not overlap implement VersionedDocuments: although an update   *)
(* stores the document, the count and the revision one by one, the next request    *)
(* finds them changed together.                                                    *)

\* No document is not a version of one.
ASSUME NoneIsNoVersion ==
    None \notin [doc : SUBSET Fields, tenant : Tenants \cup {None}, rev : Nat]

\* An update takes effect where it stores the document; until its handler is through
\* with the record, the revision it is going to have is one more than the count was.
Amended(r) ==
    \E t \in Threads : local[t] # NoRequest /\ local[t].rec = r /\ pc[t] \in {"count", "storecount"}

Version(r) == [doc |-> heap[r].doc, tenant |-> heap[r].tenant,
               rev |-> IF Amended(r) THEN heap[r].revision + 1 ELSE heap[r].revision]

versions ==
    [g \in Regions |-> [i \in Ids |->
        IF stores[g] = None \/ documents[stores[g]][i] = None THEN None
        ELSE Version(documents[stores[g]][i])]]

Documents == INSTANCE VersionedDocuments

\* With one request at a time every step of a handler changes at most one document,
\* as VersionedDocuments allows, and making the store of a region changes none.
ImplementsVersionedDocuments == Documents!Spec

\* The revision that updates are checked against is the one the document has: a
\* document at rest carries the revision its count stands for.
RevisionsAgree ==
    (\A t \in Threads : pc[t] \in {"idle", "done"})
        => \A r \in Allocated : heap[r].rev = heap[r].revision

===============================================================================
