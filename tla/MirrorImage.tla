------------------------------ MODULE MirrorImage ------------------------------
(***************************************************************************)
(* scripts/services/mirror-image.py: an image is downloaded blob by blob,  *)
(* in chunks that are retried and resumed, and uploaded to the local       *)
(* registry, which may be down at any time.                                *)
(*                                                                         *)
(* Several mirrors may run, also of the same image, and each may be cut    *)
(* anywhere.  A process whose id was used before finds the partial files   *)
(* that its predecessor left: a slot of Mirrors is a process id.           *)
(*                                                                         *)
(* Abstracted: redirects, the choice of the linux/amd64 manifest, the      *)
(* order of the blobs.  The size of all blobs is Total pieces, and a chunk *)
(* has CHUNK of them.                                                      *)
(***************************************************************************)
EXTENDS Naturals

CONSTANTS
    Mirrors,    \* process ids
    Repos,      \* repositories of the local registry, with one tag each
    Blobs,      \* config and layers
    BlobsOf,    \* BlobsOf[r]: the blobs that the manifest for r names
    Total,      \* pieces of a blob
    CHUNK,      \* pieces of a chunk
    Attempts,   \* attempts at a chunk
    None        \* no repository, no blob

ASSUME MirrorAssumption ==
    /\ BlobsOf \in [Repos -> SUBSET Blobs]
    /\ None \notin Repos \cup Blobs
    /\ Total \in Nat \ {0} /\ CHUNK \in Nat \ {0} /\ Attempts \in Nat \ {0}

VARIABLES
    stored,   \* <<r, b>>: the registry has blob b in repository r
    tags,     \* repositories whose tag has a manifest
    parts,    \* parts[m][b]: the partial file of a blob
    mirror,   \* the programs
    strict,   \* the registry refuses a manifest that names a blob it does not have
    lengths   \* the source sends a Content-Length

mirrorVars == <<stored, tags, parts, mirror, strict, lengths>>

NoPart == [have |-> 0, bad |-> FALSE]
Ended == [pc |-> "ended", repo |-> None, todo |-> {}, blob |-> None, end |-> 0, tries |-> 0,
          again |-> FALSE, bad |-> FALSE]

MirrorInit ==
    /\ strict \in BOOLEAN /\ lengths \in BOOLEAN
    /\ stored = {} /\ tags = {}
    /\ parts = [m \in Mirrors |-> [b \in Blobs |-> NoPart]]
    /\ mirror = [m \in Mirrors |-> Ended]

Complete(r) == \A b \in BlobsOf[r] : <<r, b>> \in stored
EndOfChunk(have) == IF have + CHUNK < Total THEN have + CHUNK ELSE Total
Part(m) == parts[m][mirror[m].blob]

At(m, label) == mirror[m].pc = label
Go(m, program) == mirror' = [mirror EXCEPT ![m] = program]
Fail(m) == Go(m, Ended)

-----------------------------------------------------------------------------
\* Partial files are named after the process id.
StartMirror(m) ==
    /\ At(m, "ended")
    /\ \E r \in Repos, sameId \in BOOLEAN :
          /\ Go(m, [Ended EXCEPT !.pc = "look", !.repo = r])
          /\ parts' = IF sameId THEN parts ELSE [parts EXCEPT ![m] = [b \in Blobs |-> NoPart]]
    /\ UNCHANGED <<stored, tags, strict, lengths>>

\* That the tag exists ends the program; any error is taken for its absence.
LookForTag(m) ==
    /\ At(m, "look")
    /\ \/ mirror[m].repo \in tags /\ Go(m, Ended)
       \/ Go(m, [mirror[m] EXCEPT !.pc = "fetch"])
    /\ UNCHANGED <<stored, tags, parts, strict, lengths>>

fetch(m) ==
    /\ At(m, "fetch")
    /\ \/ Fail(m)
       \/ Go(m, [mirror[m] EXCEPT !.pc = "blob", !.todo = BlobsOf[mirror[m].repo]])
    /\ UNCHANGED <<stored, tags, parts, strict, lengths>>

\* Without a length the blob is read in one piece, and not compared with its digest.
StartBlob(m) ==
    /\ At(m, "blob") /\ mirror[m].todo # {}
    /\ \E b \in mirror[m].todo, bad \in BOOLEAN :
          \/ Fail(m)
          \/ ~lengths /\ Go(m, [mirror[m] EXCEPT !.pc = "push", !.blob = b, !.bad = bad])
          \/ /\ lengths
             /\ Go(m, [mirror[m] EXCEPT !.pc = "chunk", !.blob = b,
                                        !.end = EndOfChunk(parts[m][b].have)])
    /\ UNCHANGED <<stored, tags, parts, strict, lengths>>

\* The answer has the right length, and may be corrupted all the same.
AppendChunk(m) ==
    /\ At(m, "chunk") /\ Part(m).have < Total
    /\ \E bad \in BOOLEAN :
          parts' = [parts EXCEPT ![m][mirror[m].blob] =
                       [have |-> mirror[m].end, bad |-> @.bad \/ bad]]
    /\ Go(m, [mirror[m] EXCEPT !.end = EndOfChunk(mirror[m].end), !.tries = 0])
    /\ UNCHANGED <<stored, tags, strict, lengths>>

\* Mutated form of ChunkFails: one attempt too many.
ChunkFailsLate(m) ==
    /\ At(m, "chunk") /\ Part(m).have < Total
    /\ \E have \in Part(m).have .. mirror[m].end - 1 :
          parts' = [parts EXCEPT ![m][mirror[m].blob].have = have]
    /\ IF mirror[m].tries = Attempts THEN Fail(m)
       ELSE Go(m, [mirror[m] EXCEPT !.tries = @ + 1])
    /\ UNCHANGED <<stored, tags, strict, lengths>>

\* An attempt fails; an append may have got part of the way.  The next attempt asks for
\* the rest of the chunk; after the last one the file is left behind.
ChunkFails(m) ==
    /\ At(m, "chunk") /\ Part(m).have < Total
    /\ \E have \in Part(m).have .. mirror[m].end - 1 :
          parts' = [parts EXCEPT ![m][mirror[m].blob].have = have]
    /\ IF mirror[m].tries + 1 = Attempts THEN Fail(m)
       ELSE Go(m, [mirror[m] EXCEPT !.tries = @ + 1])
    /\ UNCHANGED <<stored, tags, strict, lengths>>

\* Mutated form of CheckDigest: after the second download the digest is not compared.
CheckDigestOnce(m) ==
    /\ At(m, "chunk") /\ Part(m).have = Total
    /\ parts' = [parts EXCEPT ![m][mirror[m].blob] = NoPart]
    /\ IF ~Part(m).bad \/ mirror[m].again
       THEN Go(m, [mirror[m] EXCEPT !.pc = "push", !.bad = Part(m).bad, !.again = FALSE, !.end = 0])
       ELSE \/ Fail(m)
            \/ Go(m, [mirror[m] EXCEPT !.again = TRUE, !.end = EndOfChunk(0)])
    /\ UNCHANGED <<stored, tags, strict, lengths>>

\* A file with another digest is removed, and downloaded a second time but not a third.
CheckDigest(m) ==
    /\ At(m, "chunk") /\ Part(m).have = Total
    /\ parts' = [parts EXCEPT ![m][mirror[m].blob] = NoPart]
    /\ IF ~Part(m).bad
       THEN Go(m, [mirror[m] EXCEPT !.pc = "push", !.again = FALSE, !.end = 0])
       ELSE \/ Fail(m)
            \/ /\ ~mirror[m].again
               /\ Go(m, [mirror[m] EXCEPT !.again = TRUE, !.end = EndOfChunk(0)])
    /\ UNCHANGED <<stored, tags, strict, lengths>>

\* The blob is uploaded under the digest of what was downloaded.  The answer to an
\* upload may get lost.
push_blob(m) ==
    /\ At(m, "push")
    /\ \E done \in BOOLEAN :
          /\ stored' = IF done /\ ~mirror[m].bad
                       THEN stored \cup {<<mirror[m].repo, mirror[m].blob>>} ELSE stored
          /\ \/ Fail(m)
             \/ done /\ Go(m, [mirror[m] EXCEPT !.pc = "blob", !.blob = None, !.bad = FALSE,
                                                !.todo = @ \ {mirror[m].blob}])
    /\ UNCHANGED <<tags, parts, strict, lengths>>

\* Mutated form of push_manifest: it does not wait for the blobs.
push_manifest_early(m) ==
    /\ At(m, "blob")
    /\ \E done \in {FALSE, strict => Complete(mirror[m].repo)} :
          tags' = (IF done THEN tags \cup {mirror[m].repo} ELSE tags)
    /\ Go(m, Ended)
    /\ UNCHANGED <<stored, parts, strict, lengths>>

\* The manifest comes last.
push_manifest(m) ==
    /\ At(m, "blob") /\ mirror[m].todo = {}
    /\ \E done \in {FALSE, strict => Complete(mirror[m].repo)} :
          tags' = (IF done THEN tags \cup {mirror[m].repo} ELSE tags)
    /\ Go(m, Ended)
    /\ UNCHANGED <<stored, parts, strict, lengths>>

KillMirror(m) ==
    /\ ~At(m, "ended") /\ Go(m, Ended)
    /\ UNCHANGED <<stored, tags, parts, strict, lengths>>

MirrorNext ==
    \E m \in Mirrors :
        \/ StartMirror(m) \/ LookForTag(m) \/ fetch(m) \/ StartBlob(m) \/ AppendChunk(m)
        \/ ChunkFails(m) \/ CheckDigest(m) \/ push_blob(m) \/ push_manifest(m) \/ KillMirror(m)

-----------------------------------------------------------------------------
(* Properties.                                                             *)

Programs == [pc : {"look", "fetch", "blob", "chunk", "push", "ended"}, repo : Repos \cup {None},
             todo : SUBSET Blobs, blob : Blobs \cup {None}, end : 0 .. Total,
             tries : 0 .. (Attempts - 1), again : BOOLEAN, bad : BOOLEAN]

MirrorTypeOK ==
    /\ strict \in BOOLEAN /\ lengths \in BOOLEAN
    /\ stored \subseteq Repos \X Blobs /\ tags \subseteq Repos
    /\ parts \in [Mirrors -> [Blobs -> [have : 0 .. Total, bad : BOOLEAN]]]
    /\ mirror \in [Mirrors -> Programs]

Promise == INSTANCE MirroredImages WITH
    unchecked <- ~strict /\ ~lengths,
    serves <- [r \in Repos |-> IF r \notin tags THEN "nothing"
                               ELSE IF Complete(r) THEN "image" ELSE "broken"]

\* Whatever fails, is cut or overlaps: what the registry serves under a tag is from the
\* first moment the complete image - unless the source sends no lengths and the registry
\* does not check manifests.  This is the order of uploads (mirror-image.py:157-165), the
\* digest (line 93), and that the test at the start looks for the manifest (line 129).
ImplementsMirroredImages == Promise!Spec
================================================================================
