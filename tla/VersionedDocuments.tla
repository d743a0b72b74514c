-------------------------- MODULE VersionedDocuments --------------------------
(***************************************************************************)
(* What the entity data plane promises of the documents of its regions:    *)
(* each is a version, [doc, rev, tenant], that is created with revision 1, *)
(* amended in one piece with the next revision, and removed.  Nothing      *)
(* happens to a document of one region because of a request to another.    *)
(***************************************************************************)
EXTENDS Naturals

CONSTANTS Regions, Ids, Fields, Tenants, None

VARIABLE versions  \* region -> id -> version or None

Init == versions = [r \in Regions |-> [i \in Ids |-> None]]

Create(r, i) ==
    \E tenant \in Tenants \cup {None} :
        versions' = [versions EXCEPT ![r][i] = [doc |-> {}, rev |-> 1, tenant |-> tenant]]

Amend(r, i) ==
    /\ versions[r][i] # None
    /\ \E field \in Fields :
          versions' = [versions EXCEPT ![r][i] = [doc    |-> @.doc \cup {field},
                                                  rev    |-> @.rev + 1,
                                                  tenant |-> @.tenant]]

Remove(r, i) ==
    /\ versions[r][i] # None
    /\ versions' = [versions EXCEPT ![r][i] = None]

Next == \E r \in Regions, i \in Ids : Create(r, i) \/ Amend(r, i) \/ Remove(r, i)

Spec == Init /\ [][Next]_versions
===============================================================================
