----------------------------- MODULE ImagesProof ------------------------------
(***************************************************************************)
(* Theorems about ImagePreflight and the mirrors it asks about, for any    *)
(* number of mirrors at a time, any catalogue, and any sizes: what the     *)
(* registry serves is complete, and what a gate or a pull says is true.    *)
(***************************************************************************)
EXTENDS ImagePreflight, TLAPS

AtWork(m) == mirror[m].pc \in {"blob", "chunk", "push"}

\* A program that has a repository works on a blob that is still to do; what it has
\* done is in the registry, if it compares digests.
WorkInv ==
    \A m \in Mirrors :
        /\ mirror[m].bad => ~lengths
        /\ mirror[m].pc # "ended" => mirror[m].repo \in Repos
        /\ mirror[m].pc \in {"chunk", "push"} => mirror[m].blob \in mirror[m].todo
        /\ AtWork(m) /\ lengths =>
              \A b \in BlobsOf[mirror[m].repo] \ mirror[m].todo : <<mirror[m].repo, b>> \in stored

TagsAreComplete == strict \/ lengths => \A r \in tags : Complete(r)

MirrorInv == MirrorTypeOK /\ WorkInv /\ TagsAreComplete

-----------------------------------------------------------------------------

\* The end of a chunk is a number of pieces of a blob.
LEMMA EndOfChunkType ==
    ASSUME NEW have \in 0 .. Total
    PROVE  EndOfChunk(have) \in 0 .. Total
BY MirrorAssumption DEF EndOfChunk

\* Assigning to the variables of a program keeps it a program.
LEMMA ProgramTypes ==
    ASSUME NEW p \in Programs
    PROVE  /\ Ended \in Programs
           /\ \A r \in Repos : [Ended EXCEPT !.pc = "look", !.repo = r] \in Programs
           /\ [p EXCEPT !.pc = "fetch"] \in Programs
           /\ \A todo \in SUBSET Blobs : [p EXCEPT !.pc = "blob", !.todo = todo] \in Programs
           /\ \A b \in Blobs, bad \in BOOLEAN :
                 [p EXCEPT !.pc = "push", !.blob = b, !.bad = bad] \in Programs
           /\ \A b \in Blobs, end \in 0 .. Total :
                 [p EXCEPT !.pc = "chunk", !.blob = b, !.end = end] \in Programs
           /\ \A end \in 0 .. Total : [p EXCEPT !.end = end, !.tries = 0] \in Programs
           /\ p.tries + 1 # Attempts => [p EXCEPT !.tries = @ + 1] \in Programs
           /\ [p EXCEPT !.pc = "push", !.again = FALSE, !.end = 0] \in Programs
           /\ \A end \in 0 .. Total : [p EXCEPT !.again = TRUE, !.end = end] \in Programs
           /\ \A b \in Blobs :
                 [p EXCEPT !.pc = "blob", !.blob = None, !.bad = FALSE, !.todo = @ \ {b}]
                    \in Programs
<1>1. 0 \in 0 .. Total /\ 0 \in 0 .. (Attempts - 1)
  BY MirrorAssumption
<1>2. Ended \in Programs
  BY <1>1 DEF Programs, Ended
<1>3. \A r \in Repos : [Ended EXCEPT !.pc = "look", !.repo = r] \in Programs
  BY <1>2 DEF Programs
<1>4. [p EXCEPT !.pc = "fetch"] \in Programs
  BY DEF Programs
<1>5. \A todo \in SUBSET Blobs : [p EXCEPT !.pc = "blob", !.todo = todo] \in Programs
  BY DEF Programs
<1>6. \A b \in Blobs, bad \in BOOLEAN :
         [p EXCEPT !.pc = "push", !.blob = b, !.bad = bad] \in Programs
  BY DEF Programs
<1>7. \A b \in Blobs, end \in 0 .. Total :
         [p EXCEPT !.pc = "chunk", !.blob = b, !.end = end] \in Programs
  BY DEF Programs
<1>8. \A end \in 0 .. Total : [p EXCEPT !.end = end, !.tries = 0] \in Programs
  BY <1>1 DEF Programs
<1>9. p.tries + 1 # Attempts => [p EXCEPT !.tries = @ + 1] \in Programs
  <2>1. ASSUME p.tries + 1 # Attempts PROVE p.tries + 1 \in 0 .. (Attempts - 1)
    BY <2>1, MirrorAssumption DEF Programs
  <2>. QED BY <2>1 DEF Programs
<1>10. [p EXCEPT !.pc = "push", !.again = FALSE, !.end = 0] \in Programs
  BY <1>1 DEF Programs
<1>11. \A end \in 0 .. Total : [p EXCEPT !.again = TRUE, !.end = end] \in Programs
  BY DEF Programs
<1>12. \A b \in Blobs :
          [p EXCEPT !.pc = "blob", !.blob = None, !.bad = FALSE, !.todo = @ \ {b}] \in Programs
  BY DEF Programs
<1>. QED
  BY <1>2, <1>3, <1>4, <1>5, <1>6, <1>7, <1>8, <1>9, <1>10, <1>11, <1>12

\* A step of a slot from a program to a program keeps all slots programs.
LEMMA GoType ==
    ASSUME mirror \in [Mirrors -> Programs], NEW m \in Mirrors,
           NEW program \in Programs, Go(m, program)
    PROVE  mirror' \in [Mirrors -> Programs]
BY DEF Go

Parts == [Mirrors -> [Blobs -> [have : 0 .. Total, bad : BOOLEAN]]]

\* Every action of a mirror keeps the mirrors' variables in their sets.
LEMMA MirrorTypeStep ==
    ASSUME MirrorTypeOK, WorkInv, NEW m \in Mirrors,
           \/ StartMirror(m) \/ LookForTag(m) \/ fetch(m) \/ StartBlob(m) \/ AppendChunk(m)
           \/ ChunkFails(m) \/ CheckDigest(m) \/ push_blob(m) \/ push_manifest(m) \/ KillMirror(m)
    PROVE  MirrorTypeOK'
<1>1. /\ mirror \in [Mirrors -> Programs] /\ mirror[m] \in Programs
      /\ parts \in Parts /\ stored \subseteq Repos \X Blobs /\ tags \subseteq Repos
  BY DEF MirrorTypeOK, Parts
<1>2. /\ mirror[m].todo \subseteq Blobs /\ mirror[m].end \in 0 .. Total
      /\ mirror[m].pc \in {"chunk", "push"} => mirror[m].blob \in Blobs
      /\ mirror[m].pc # "ended" => mirror[m].repo \in Repos
  BY <1>1 DEF Programs, WorkInv
<1>3. /\ EndOfChunk(mirror[m].end) \in 0 .. Total /\ EndOfChunk(0) \in 0 .. Total
      /\ \A b \in Blobs : EndOfChunk(parts[m][b].have) \in 0 .. Total
  BY <1>1, <1>2, EndOfChunkType, MirrorAssumption DEF Parts
<1>4. SUFFICES mirror' \in [Mirrors -> Programs] /\ parts' \in Parts
               /\ stored' \subseteq Repos \X Blobs /\ tags' \subseteq Repos
               /\ UNCHANGED <<strict, lengths>>
  BY DEF MirrorTypeOK, Parts
<1>5. ASSUME NEW program \in Programs, Go(m, program)
      PROVE  mirror' \in [Mirrors -> Programs]
  BY <1>1, <1>5, GoType
<1>6. CASE StartMirror(m)
  <2>1. mirror' \in [Mirrors -> Programs]
    <3>1. PICK r \in Repos : Go(m, [Ended EXCEPT !.pc = "look", !.repo = r])
      BY <1>6 DEF StartMirror
    <3>2. [Ended EXCEPT !.pc = "look", !.repo = r] \in Programs
      BY <1>1, ProgramTypes
    <3>. QED BY <1>5, <3>1, <3>2
  <2>2. parts' \in Parts
    <3>1. NoPart \in [have : 0 .. Total, bad : BOOLEAN]
      BY MirrorAssumption DEF NoPart
    <3>2. parts' \in {parts, [parts EXCEPT ![m] = [b \in Blobs |-> NoPart]]}
      BY <1>6 DEF StartMirror
    <3>3. [b \in Blobs |-> NoPart] \in [Blobs -> [have : 0 .. Total, bad : BOOLEAN]]
      BY <3>1
    <3>4. [parts EXCEPT ![m] = [b \in Blobs |-> NoPart]] \in Parts
      BY <1>1, <3>3 DEF Parts
    <3>. QED BY <1>1, <3>2, <3>4
  <2>. QED BY <1>1, <1>6, <2>1, <2>2 DEF StartMirror
<1>7. CASE LookForTag(m)
  <2>1. mirror' \in [Mirrors -> Programs]
    BY <1>1, <1>5, <1>7, ProgramTypes DEF LookForTag
  <2>. QED BY <1>1, <1>7, <2>1 DEF LookForTag
<1>8. CASE fetch(m)
  <2>1. BlobsOf[mirror[m].repo] \in SUBSET Blobs
    BY <1>2, <1>8, MirrorAssumption DEF fetch, At
  <2>2. mirror' \in [Mirrors -> Programs]
    BY <1>1, <1>5, <1>8, <2>1, ProgramTypes DEF fetch, Fail
  <2>. QED BY <1>1, <1>8, <2>2 DEF fetch
<1>9. CASE StartBlob(m)
  <2>1. PICK b \in mirror[m].todo, bad \in BOOLEAN :
           \/ Fail(m)
           \/ Go(m, [mirror[m] EXCEPT !.pc = "push", !.blob = b, !.bad = bad])
           \/ Go(m, [mirror[m] EXCEPT !.pc = "chunk", !.blob = b,
                                      !.end = EndOfChunk(parts[m][b].have)])
    BY <1>9 DEF StartBlob
  <2>2. b \in Blobs /\ EndOfChunk(parts[m][b].have) \in 0 .. Total
    BY <1>2, <1>3
  <2>3. mirror' \in [Mirrors -> Programs]
    BY <1>1, <1>5, <2>1, <2>2, ProgramTypes DEF Fail
  <2>. QED BY <1>1, <1>9, <2>3 DEF StartBlob
<1>10. CASE AppendChunk(m)
  <2>1. mirror' \in [Mirrors -> Programs]
    BY <1>1, <1>3, <1>5, <1>10, ProgramTypes DEF AppendChunk
  <2>2. mirror[m].blob \in Blobs
    BY <1>2, <1>10 DEF AppendChunk, At
  <2>3. PICK bad \in BOOLEAN :
           parts' = [parts EXCEPT ![m][mirror[m].blob] =
                        [have |-> mirror[m].end, bad |-> @.bad \/ bad]]
    BY <1>10 DEF AppendChunk
  <2>4. [have |-> mirror[m].end, bad |-> parts[m][mirror[m].blob].bad \/ bad]
           \in [have : 0 .. Total, bad : BOOLEAN]
    BY <1>1, <1>2, <2>2 DEF Parts
  <2>5. parts' \in Parts
    BY <1>1, <2>2, <2>3, <2>4 DEF Parts
  <2>. QED BY <1>1, <1>10, <2>1, <2>5 DEF AppendChunk
<1>11. CASE ChunkFails(m)
  <2>1. mirror' \in [Mirrors -> Programs]
    BY <1>1, <1>5, <1>11, ProgramTypes DEF ChunkFails, Fail
  <2>2. mirror[m].blob \in Blobs
    BY <1>2, <1>11 DEF ChunkFails, At
  <2>3. PICK have \in Part(m).have .. mirror[m].end - 1 :
           parts' = [parts EXCEPT ![m][mirror[m].blob].have = have]
    BY <1>11 DEF ChunkFails
  <2>4. have \in 0 .. Total
    <3>1. Part(m).have \in 0 .. Total
      BY <1>1, <2>2 DEF Part, Parts
    <3>. QED BY <1>2, <2>3, <3>1, MirrorAssumption
  <2>5. parts' \in Parts
    <3>1. PICK part : part = [parts[m][mirror[m].blob] EXCEPT !.have = have]
      OBVIOUS
    <3>2. part \in [have : 0 .. Total, bad : BOOLEAN]
      <4>1. parts[m][mirror[m].blob] \in [have : 0 .. Total, bad : BOOLEAN]
        BY <1>1, <2>2 DEF Parts
      <4>. QED BY <2>4, <3>1, <4>1
    <3>3. parts' = [parts EXCEPT ![m][mirror[m].blob] = part]
      BY <2>3, <3>1
    <3>. QED BY <1>1, <2>2, <3>2, <3>3 DEF Parts
  <2>. QED BY <1>1, <1>11, <2>1, <2>5 DEF ChunkFails
<1>12. CASE CheckDigest(m)
  <2>1. mirror' \in [Mirrors -> Programs]
    BY <1>1, <1>3, <1>5, <1>12, ProgramTypes DEF CheckDigest, Fail
  <2>2. mirror[m].blob \in Blobs
    BY <1>2, <1>12 DEF CheckDigest, At
  <2>3. parts' \in Parts
    <3>1. NoPart \in [have : 0 .. Total, bad : BOOLEAN]
      BY MirrorAssumption DEF NoPart
    <3>. QED BY <1>1, <1>12, <2>2, <3>1 DEF CheckDigest, Parts
  <2>. QED BY <1>1, <1>12, <2>1, <2>3 DEF CheckDigest
<1>13. CASE push_blob(m)
  <2>1. mirror[m].repo \in Repos /\ mirror[m].blob \in Blobs
    BY <1>2, <1>13 DEF push_blob, At
  <2>2. mirror' \in [Mirrors -> Programs]
    BY <1>1, <1>5, <1>13, <2>1, ProgramTypes DEF push_blob, Fail
  <2>. QED BY <1>1, <1>13, <2>1, <2>2 DEF push_blob
<1>14. CASE push_manifest(m)
  <2>1. mirror[m].repo \in Repos
    BY <1>2, <1>14 DEF push_manifest, At
  <2>2. mirror' \in [Mirrors -> Programs]
    BY <1>1, <1>5, <1>14, ProgramTypes DEF push_manifest
  <2>. QED BY <1>1, <1>14, <2>1, <2>2 DEF push_manifest
<1>15. CASE KillMirror(m)
  <2>1. mirror' \in [Mirrors -> Programs]
    BY <1>1, <1>5, <1>15, ProgramTypes DEF KillMirror
  <2>. QED BY <1>1, <1>15, <2>1 DEF KillMirror
<1>. QED
  BY <1>6, <1>7, <1>8, <1>9, <1>10, <1>11, <1>12, <1>13, <1>14, <1>15

-----------------------------------------------------------------------------

\* The facts about the work under way are kept by every action of a mirror.
LEMMA WorkStep ==
    ASSUME MirrorTypeOK, WorkInv, NEW m \in Mirrors,
           \/ StartMirror(m) \/ LookForTag(m) \/ fetch(m) \/ StartBlob(m) \/ AppendChunk(m)
           \/ ChunkFails(m) \/ CheckDigest(m) \/ push_blob(m) \/ push_manifest(m) \/ KillMirror(m)
    PROVE  WorkInv'
<1>1. /\ mirror \in [Mirrors -> Programs] /\ mirror[m] \in Programs
      /\ stored \subseteq stored' /\ lengths' = lengths
  BY DEF MirrorTypeOK, StartMirror, LookForTag, fetch, StartBlob, AppendChunk, ChunkFails,
         CheckDigest, push_blob, push_manifest, KillMirror
<1> DEFINE Good(p) ==
        /\ p.bad => ~lengths
        /\ p.pc # "ended" => p.repo \in Repos
        /\ p.pc \in {"chunk", "push"} => p.blob \in p.todo
        /\ p.pc \in {"blob", "chunk", "push"} /\ lengths =>
              \A b \in BlobsOf[p.repo] \ p.todo : <<p.repo, b>> \in stored'
<1>2. \A n \in Mirrors : Good(mirror[n])
  BY <1>1 DEF WorkInv, AtWork
<1>3. ASSUME NEW program \in Programs, Go(m, program), Good(program)
      PROVE  WorkInv'
  <2>1. mirror' = [mirror EXCEPT ![m] = program]
    BY <1>3 DEF Go
  <2>2. \A n \in Mirrors : Good(mirror'[n])
    BY <1>1, <1>2, <1>3, <2>1
  <2>. QED BY <1>1, <2>2 DEF WorkInv, AtWork
<1>4. Good(mirror[m])
  BY <1>2
<1>5. CASE Fail(m)
  <2>1. Good(Ended)
    BY DEF Ended
  <2>. QED BY <1>1, <1>3, <1>5, <2>1, ProgramTypes DEF Fail
<1>6. CASE StartMirror(m)
  <2>1. PICK r \in Repos : Go(m, [Ended EXCEPT !.pc = "look", !.repo = r])
    BY <1>6 DEF StartMirror
  <2>2. Good([Ended EXCEPT !.pc = "look", !.repo = r])
    BY DEF Ended
  <2>. QED BY <1>1, <1>3, <2>1, <2>2, ProgramTypes
<1>7. CASE LookForTag(m)
  <2>1. CASE Go(m, [mirror[m] EXCEPT !.pc = "fetch"])
    <3>1. Good([mirror[m] EXCEPT !.pc = "fetch"])
      BY <1>1, <1>4, <1>7 DEF LookForTag, At, Programs
    <3>. QED BY <1>1, <1>3, <2>1, <3>1, ProgramTypes
  <2>. QED BY <1>5, <1>7, <2>1 DEF LookForTag, Fail
<1>8. CASE fetch(m)
  <2> DEFINE next == [mirror[m] EXCEPT !.pc = "blob", !.todo = BlobsOf[mirror[m].repo]]
  <2>1. CASE Go(m, next)
    <3>1. mirror[m].repo \in Repos
      BY <1>4, <1>8 DEF fetch, At
    <3>2. Good(next)
      BY <1>1, <1>4, <3>1 DEF Programs
    <3>3. next \in Programs
      BY <1>1, <3>1, ProgramTypes, MirrorAssumption
    <3>. QED BY <1>3, <2>1, <3>2, <3>3
  <2>. QED BY <1>5, <1>8, <2>1 DEF fetch
<1>9. CASE StartBlob(m)
  <2>1. PICK b \in mirror[m].todo, bad \in BOOLEAN :
           \/ Fail(m)
           \/ ~lengths /\ Go(m, [mirror[m] EXCEPT !.pc = "push", !.blob = b, !.bad = bad])
           \/ Go(m, [mirror[m] EXCEPT !.pc = "chunk", !.blob = b,
                                      !.end = EndOfChunk(parts[m][b].have)])
    BY <1>9 DEF StartBlob
  <2>2. /\ mirror[m].pc = "blob" /\ b \in Blobs
        /\ EndOfChunk(parts[m][b].have) \in 0 .. Total
    BY <1>1, <1>9, EndOfChunkType DEF StartBlob, At, Programs, MirrorTypeOK
  <2>3. CASE ~lengths /\ Go(m, [mirror[m] EXCEPT !.pc = "push", !.blob = b, !.bad = bad])
    <3>1. Good([mirror[m] EXCEPT !.pc = "push", !.blob = b, !.bad = bad])
      BY <1>1, <1>4, <2>2, <2>3 DEF Programs
    <3>. QED BY <1>1, <1>3, <2>2, <2>3, <3>1, ProgramTypes
  <2>4. CASE Go(m, [mirror[m] EXCEPT !.pc = "chunk", !.blob = b,
                                     !.end = EndOfChunk(parts[m][b].have)])
    <3>1. Good([mirror[m] EXCEPT !.pc = "chunk", !.blob = b,
                                 !.end = EndOfChunk(parts[m][b].have)])
      BY <1>1, <1>4, <2>2 DEF Programs
    <3>. QED BY <1>1, <1>3, <2>2, <2>4, <3>1, ProgramTypes
  <2>. QED BY <1>5, <2>1, <2>3, <2>4
<1>10. CASE AppendChunk(m)
  <2> DEFINE next == [mirror[m] EXCEPT !.end = EndOfChunk(mirror[m].end), !.tries = 0]
  <2>1. next \in Programs
    <3>1. mirror[m].end \in 0 .. Total
      BY <1>1 DEF Programs
    <3>. QED BY <1>1, <3>1, ProgramTypes, EndOfChunkType
  <2>2. Good(next)
    BY <1>1, <1>4 DEF Programs
  <2>. QED BY <1>3, <1>10, <2>1, <2>2 DEF AppendChunk
<1>11. CASE ChunkFails(m)
  <2>1. Good([mirror[m] EXCEPT !.tries = @ + 1])
    BY <1>1, <1>4 DEF Programs
  <2>. QED BY <1>1, <1>3, <1>5, <1>11, <2>1, ProgramTypes DEF ChunkFails
<1>12. CASE CheckDigest(m)
  <2>1. EndOfChunk(0) \in 0 .. Total /\ mirror[m].pc = "chunk"
    BY <1>12, EndOfChunkType, MirrorAssumption DEF CheckDigest, At
  <2>2. Good([mirror[m] EXCEPT !.pc = "push", !.again = FALSE, !.end = 0])
    BY <1>1, <1>4, <2>1 DEF Programs
  <2>3. Good([mirror[m] EXCEPT !.again = TRUE, !.end = EndOfChunk(0)])
    BY <1>1, <1>4 DEF Programs
  <2>. QED BY <1>1, <1>3, <1>5, <1>12, <2>1, <2>2, <2>3, ProgramTypes DEF CheckDigest
<1>13. CASE push_blob(m)
  <2> DEFINE next == [mirror[m] EXCEPT !.pc = "blob", !.blob = None, !.bad = FALSE,
                                       !.todo = @ \ {mirror[m].blob}]
  <2>1. mirror[m].pc = "push" /\ mirror[m].blob \in Blobs
    BY <1>1, <1>4, <1>13 DEF push_blob, At, Programs
  <2>2. CASE Go(m, next) /\ (~mirror[m].bad => <<mirror[m].repo, mirror[m].blob>> \in stored')
    <3>1. Good(next)
      BY <1>1, <1>4, <2>1, <2>2 DEF Programs
    <3>. QED BY <1>1, <1>3, <2>1, <2>2, <3>1, ProgramTypes
  <2>. QED BY <1>5, <1>13, <2>2 DEF push_blob
<1>14. CASE push_manifest(m) \/ KillMirror(m)
  BY <1>5, <1>14 DEF push_manifest, KillMirror, Fail
<1>. QED
  BY <1>6, <1>7, <1>8, <1>9, <1>10, <1>11, <1>12, <1>13, <1>14

\* What a tag names stays complete, and a manifest comes after its blobs.
LEMMA TagsStep ==
    ASSUME MirrorInv, NEW m \in Mirrors,
           \/ StartMirror(m) \/ LookForTag(m) \/ fetch(m) \/ StartBlob(m) \/ AppendChunk(m)
           \/ ChunkFails(m) \/ CheckDigest(m) \/ push_blob(m) \/ push_manifest(m) \/ KillMirror(m)
    PROVE  TagsAreComplete'
<1>1. stored \subseteq stored' /\ lengths' = lengths /\ strict' = strict
  BY DEF StartMirror, LookForTag, fetch, StartBlob, AppendChunk, ChunkFails,
         CheckDigest, push_blob, push_manifest, KillMirror
<1>2. \A r \in Repos : Complete(r) => Complete(r)'
  BY <1>1 DEF Complete
<1>3. CASE tags' = tags
  BY <1>1, <1>2, <1>3 DEF MirrorInv, MirrorTypeOK, TagsAreComplete
<1>4. CASE push_manifest(m)
  <2>1. mirror[m].repo \in Repos /\ (lengths => Complete(mirror[m].repo))
    BY <1>4 DEF push_manifest, At, MirrorInv, WorkInv, AtWork, Complete
  <2>2. /\ tags' \subseteq tags \cup {mirror[m].repo}
        /\ tags' # tags => (strict => Complete(mirror[m].repo))
    BY <1>4 DEF push_manifest
  <2>. QED BY <1>1, <1>2, <2>1, <2>2, <1>3 DEF MirrorInv, MirrorTypeOK, TagsAreComplete
<1>. QED
  BY <1>3, <1>4 DEF StartMirror, LookForTag, fetch, StartBlob, AppendChunk, ChunkFails,
                    CheckDigest, push_blob, KillMirror

\* The mirrors start with an empty registry and nothing under way.
LEMMA MirrorInvariantInit == Init => MirrorInv
<1> SUFFICES ASSUME MirrorInit PROVE MirrorInv
  BY DEF Init
<1>1. /\ \A m \in Mirrors : mirror[m] = Ended
      /\ mirror \in [Mirrors -> {Ended}]
      /\ parts \in [Mirrors -> [Blobs -> {NoPart}]]
  BY DEF MirrorInit
<1>2. Ended \in Programs /\ NoPart \in [have : 0 .. Total, bad : BOOLEAN]
  <2>1. 0 \in 0 .. Total /\ 0 \in 0 .. (Attempts - 1)
    BY MirrorAssumption
  <2>. QED BY <2>1 DEF Programs, Ended, NoPart
<1>3. MirrorTypeOK
  BY <1>1, <1>2 DEF MirrorInit, MirrorTypeOK
<1>4. WorkInv
  <2>1. \A m \in Mirrors : mirror[m].pc = "ended" /\ mirror[m].bad = FALSE
    <3>1. Ended.pc = "ended" /\ Ended.bad = FALSE
      BY DEF Ended
    <3>. QED BY <1>1, <3>1
  <2>. QED BY <2>1 DEF WorkInv, AtWork
<1>5. TagsAreComplete
  BY DEF MirrorInit, TagsAreComplete
<1>. QED BY <1>3, <1>4, <1>5 DEF MirrorInv

\* What the registry serves is complete, and what a mirror has done is in it, whatever
\* the other programs do.
THEOREM MirrorInvariant == Spec => []MirrorInv
<1>1. Init => MirrorInv
  BY MirrorInvariantInit
<1>2. MirrorInv /\ [Next]_vars => MirrorInv'
  <2> SUFFICES ASSUME MirrorInv, [Next]_vars PROVE MirrorInv'
    OBVIOUS
  <2>1. CASE MirrorNext
    BY <2>1, MirrorTypeStep, WorkStep, TagsStep DEF MirrorNext, MirrorInv
  <2>2. CASE UNCHANGED mirrorVars
    BY <2>2 DEF mirrorVars, MirrorInv, MirrorTypeOK, WorkInv, AtWork, TagsAreComplete, Complete
  <2>. QED
    BY <2>1, <2>2 DEF Next, vars, StartPreflight, check_images, Gate, pull_missing, PullEnds,
                      load_images_to_cluster, KillPreflight, ChangeDocker
<1>. QED BY <1>1, <1>2, PTL DEF Spec

-----------------------------------------------------------------------------

ServesOf == [r \in Repos |-> IF r \notin tags THEN "nothing"
                             ELSE IF Complete(r) THEN "image" ELSE "broken"]
Promised == <<ServesOf, ~strict /\ ~lengths>>

\* What fills the registry fills it with complete images, from the first moment that a
\* tag is served: the mirrors and the preflight implement MirroredImages, however many
\* mirrors fail, are cut, or fill one repository at a time.
THEOREM RegistryServesImages == Spec => ImplementsMirroredImages
<1>1. Init => Promise!Init
  BY DEF Init, MirrorInit, Promise!Init
<1>2. MirrorInv /\ MirrorInv' /\ [Next]_vars => [Promise!Next]_Promised
  <2> SUFFICES ASSUME MirrorInv, MirrorInv', [Next]_vars
               PROVE  Promise!Next \/ UNCHANGED Promised
    OBVIOUS
  <2>1. CASE UNCHANGED <<stored, tags, strict, lengths>>
    BY <2>1 DEF Promised, ServesOf, Complete
  <2>2. ASSUME NEW m \in Mirrors, push_blob(m) PROVE Promise!Next \/ UNCHANGED Promised
    <3>0. PICK r \in Repos, b \in {mirror[m].blob} : r = mirror[m].repo
      BY <2>2 DEF push_blob, At, MirrorInv, WorkInv
    <3>1. UNCHANGED <<tags, strict, lengths>>
      BY <2>2 DEF push_blob
    <3>2. stored' \in {stored, stored \cup {<<r, b>>}}
      BY <2>2, <3>0 DEF push_blob
    <3>3. \A q \in Repos \ {r} : Complete(q)' <=> Complete(q)
      BY <3>2 DEF Complete
    <3>4. Complete(r) => Complete(r)'
      BY <3>2 DEF Complete
    <3>5. CASE r \in tags /\ Complete(r)' /\ ~Complete(r)
      <4>1. ServesOf' = [ServesOf EXCEPT ![r] = "image"]
        BY <3>1, <3>3, <3>5 DEF ServesOf
      <4>2. ServesOf[r] = "broken"
        BY <3>1, <3>5 DEF ServesOf
      <4>. QED BY <3>1, <4>1, <4>2 DEF Promise!Next, Promise!Repair, ServesOf
    <3>6. CASE ~(r \in tags /\ Complete(r)' /\ ~Complete(r))
      BY <3>1, <3>3, <3>4, <3>6 DEF Promised, ServesOf
    <3>. QED BY <3>5, <3>6
  <2>3. ASSUME NEW m \in Mirrors, push_manifest(m) PROVE Promise!Next \/ UNCHANGED Promised
    <3>0. PICK r \in Repos : r = mirror[m].repo
      BY <2>3 DEF push_manifest, At, MirrorInv, WorkInv
    <3>1. UNCHANGED <<stored, strict, lengths>>
      BY <2>3 DEF push_manifest
    <3>2. tags' \in {tags, tags \cup {r}}
      BY <2>3, <3>0 DEF push_manifest
    <3>3. \A q \in Repos : Complete(q)' <=> Complete(q)
      BY <3>1 DEF Complete
    <3>4. CASE r \notin tags /\ r \in tags'
      <4>1. (strict \/ lengths) => Complete(r)
        BY <3>1, <3>3, <3>4 DEF MirrorInv, TagsAreComplete
      <4>2. ServesOf' = [ServesOf EXCEPT ![r] = IF Complete(r) THEN "image" ELSE "broken"]
        BY <3>1, <3>2, <3>3, <3>4 DEF ServesOf
      <4>3. ServesOf[r] = "nothing"
        BY <3>1, <3>4 DEF ServesOf
      <4>4. (IF Complete(r) THEN "image" ELSE "broken")
               \in {"image"} \cup IF ~strict /\ ~lengths THEN {"broken"} ELSE {}
        BY <4>1 DEF MirrorInv, MirrorTypeOK
      <4>. QED BY <3>1, <4>2, <4>3, <4>4 DEF Promise!Next, Promise!Fill, ServesOf
    <3>5. CASE tags' = tags
      BY <3>1, <3>3, <3>5 DEF Promised, ServesOf
    <3>. QED BY <3>2, <3>4, <3>5
  <2>4. CASE MirrorNext
    BY <2>1, <2>2, <2>3, <2>4 DEF MirrorNext, StartMirror, LookForTag, fetch, StartBlob,
          AppendChunk, ChunkFails, CheckDigest, KillMirror
  <2>. QED
    BY <2>1, <2>4 DEF Next, vars, mirrorVars, StartPreflight, check_images, Gate,
                      pull_missing, PullEnds, load_images_to_cluster, KillPreflight, ChangeDocker
<1>. QED
  BY <1>1, <1>2, MirrorInvariant, PTL
  DEF Spec, ImplementsMirroredImages, Promise!Spec, Promised, ServesOf

-----------------------------------------------------------------------------

Calls == [pc : {"look", "pull", "load", "ended"}, opts : Options \cup {NoOptions},
          asked : SUBSET Images, todo : SUBSET Images,
          status : [Images -> [local : BOOLEAN, mirrored : {"yes", "no", "unknown"}]],
          failures : BOOLEAN, code : {0, 1}]

PreflightStep ==
    \/ StartPreflight \/ check_images \/ Gate \/ pull_missing \/ PullEnds
    \/ load_images_to_cluster \/ KillPreflight \/ ChangeDocker

\* An idle preflight is one that was not asked anything, and succeeded in nothing.
LEMMA IdleType == Idle \in Calls
<1>1. NoStatus \in [local : BOOLEAN, mirrored : {"yes", "no", "unknown"}]
  BY DEF NoStatus
<1>. QED BY <1>1 DEF Idle, Calls

\* What the preflight assigns keeps its variables in their sets.
LEMMA PreflightTypeStep ==
    ASSUME TypeOK, PreflightStep
    PROVE  local' \subseteq Images /\ markers' \subseteq Images /\ preflight' \in Calls
<1>1. local \subseteq Images /\ markers \subseteq Images /\ preflight \in Calls
  BY DEF TypeOK, Calls
<1>2. \A code \in {0, 1} : Exit(code) => preflight' \in Calls
  BY <1>1, IdleType DEF Exit, Calls
<1>3. CASE StartPreflight
  <2>1. PICK opts \in Options, asked \in SUBSET Images :
           preflight' = [Idle EXCEPT !.pc = "look", !.opts = opts, !.asked = asked, !.todo = asked]
    BY <1>3 DEF StartPreflight
  <2>. QED BY <1>1, <1>3, <2>1, IdleType DEF StartPreflight, Calls
<1>4. CASE check_images
  <2>1. PICK i \in preflight.todo : \E listed, refused \in SUBSET mirror_repo_candidates(i) :
           preflight' = [preflight EXCEPT
              !.todo = @ \ {i},
              !.status[i] = [local |-> i \in local, mirrored |-> check_mirror_tag(listed, refused)]]
    BY <1>4 DEF check_images
  <2>2. \A listed, refused :
           [local |-> i \in local, mirrored |-> check_mirror_tag(listed, refused)]
              \in [local : BOOLEAN, mirrored : {"yes", "no", "unknown"}]
    BY DEF check_mirror_tag
  <2>3. ASSUME NEW entry \in [local : BOOLEAN, mirrored : {"yes", "no", "unknown"}]
        PROVE  [preflight EXCEPT !.todo = @ \ {i}, !.status[i] = entry] \in Calls
    <3>1. i \in Images /\ [preflight.status EXCEPT ![i] = entry]
             \in [Images -> [local : BOOLEAN, mirrored : {"yes", "no", "unknown"}]]
      BY <1>1 DEF Calls
    <3>. QED BY <1>1, <3>1 DEF Calls
  <2>4. preflight' \in Calls
    BY <2>1, <2>2, <2>3
  <2>. QED BY <1>1, <1>4, <2>4 DEF check_images
<1>5. CASE Gate
  <2>1. \A code \in {0, 1} :
           /\ [preflight EXCEPT !.pc = "pull", !.todo = preflight.asked, !.code = code] \in Calls
           /\ [preflight EXCEPT !.pc = "load", !.code = code] \in Calls
    BY <1>1 DEF Calls
  <2>. QED BY <1>1, <1>2, <1>5, <2>1 DEF Gate
<1>6. CASE pull_missing
  <2>1. PICK i \in preflight.todo :
           /\ local' \in {local, local \cup {i}} /\ markers' \in {markers, markers \cup {i}}
           /\ Pulled(i, TRUE) \/ Pulled(i, FALSE)
    BY <1>6 DEF pull_missing
  <2>2. i \in Images
    BY <1>1 DEF Calls
  <2>3. preflight' \in Calls
    <3>1. ASSUME NEW f \in BOOLEAN
          PROVE  [preflight EXCEPT !.todo = @ \ {i}, !.failures = f] \in Calls
      BY <1>1 DEF Calls
    <3>2. (preflight.failures \/ TRUE) \in BOOLEAN /\ (preflight.failures \/ FALSE) \in BOOLEAN
      OBVIOUS
    <3>. QED BY <2>1, <3>1, <3>2 DEF Pulled
  <2>. QED BY <1>1, <2>1, <2>2, <2>3
<1>7. CASE PullEnds
  <2>1. preflight.code \in {0, 1} /\ [preflight EXCEPT !.pc = "load"] \in Calls
    BY <1>1 DEF Calls
  <2>. QED BY <1>1, <1>2, <1>7, <2>1 DEF PullEnds
<1>8. CASE load_images_to_cluster
  <2>1. preflight.code \in {0, 1}
    BY <1>1 DEF Calls
  <2>2. Exit(1) \/ Exit(preflight.code)
    BY <1>8 DEF load_images_to_cluster
  <2>. QED BY <1>1, <1>2, <1>8, <2>1, <2>2 DEF load_images_to_cluster
<1>9. CASE KillPreflight
  BY <1>1, <1>2, <1>9 DEF KillPreflight
<1>10. CASE ChangeDocker
  BY <1>1, <1>10, IdleType DEF ChangeDocker
<1>. QED
  BY <1>3, <1>4, <1>5, <1>6, <1>7, <1>8, <1>9, <1>10 DEF PreflightStep

\* The variables of the mirrors, of docker, of the marker files and of the preflight stay
\* in their sets, for any catalogue.
THEOREM TypeCorrect == Spec => []TypeOK
<1>1. Init => TypeOK
  BY IdleType, MirrorInvariantInit DEF Init, TypeOK, MirrorInv, Calls
<1>2. TypeOK /\ MirrorInv' /\ [Next]_vars => TypeOK'
  <2> SUFFICES ASSUME TypeOK, MirrorInv', [Next]_vars PROVE TypeOK'
    OBVIOUS
  <2>1. CASE UNCHANGED <<local, markers, preflight>>
    BY <2>1 DEF TypeOK, MirrorInv
  <2>2. CASE PreflightStep
    BY <2>2, PreflightTypeStep DEF TypeOK, MirrorInv, Calls
  <2>. QED BY <2>1, <2>2 DEF Next, vars, PreflightStep
<1>. QED BY <1>1, <1>2, MirrorInvariant, PTL DEF Spec

-----------------------------------------------------------------------------

Available(i) ==
    /\ i \in local \/ mirror_repo_candidates(i) \cap tags # {}
    /\ i \in markers \/ preflight.status[i].local

\* What the preflight found stays true while it runs; with it, what its exit code says.
AnswersHold ==
    \A i \in Images :
        /\ preflight.status[i].local => i \in local
        /\ preflight.status[i].mirrored = "yes" => mirror_repo_candidates(i) \cap tags # {}

Passed == preflight.pc = "ended" \/ (preflight.pc \in {"pull", "load"} /\ preflight.code = 0)
GateInv ==
    preflight.opts.check /\ Passed =>
        \A i \in preflight.asked : preflight.status[i].mirrored # "no"

PullInv ==
    /\ preflight.pc = "pull" /\ ~preflight.failures =>
          \A i \in preflight.asked \ preflight.todo : Available(i)
    /\ preflight.pc \in {"load", "ended"} /\ preflight.opts.pull =>
          \A i \in preflight.asked : Available(i)

PreflightInv == AnswersHold /\ GateInv /\ PullInv

\* A preflight that does not run knows and promises nothing.
LEMMA IdlePromisesNothing ==
    ASSUME preflight' = Idle
    PROVE  PreflightInv'
BY DEF PreflightInv, AnswersHold, GateInv, Passed, PullInv, Available, Idle, NoStatus, NoOptions

\* The registry and docker only gain images while a preflight runs.
LEMMA GainsKeepPromises ==
    ASSUME TypeOK, PreflightInv, UNCHANGED preflight,
           tags \subseteq tags', local \subseteq local', markers \subseteq markers'
    PROVE  PreflightInv'
BY DEF TypeOK, PreflightInv, AnswersHold, GateInv, Passed, PullInv, Available

\* An exit keeps what the preflight knows, and nothing after a failure.
LEMMA ExitKeepsPromises ==
    ASSUME TypeOK, PreflightInv, NEW code, Exit(code), UNCHANGED <<tags, local, markers>>,
           code = 0 /\ preflight.opts.check =>
              \A i \in preflight.asked : preflight.status[i].mirrored # "no",
           code = 0 /\ preflight.opts.pull => \A i \in preflight.asked : Available(i)
    PROVE  PreflightInv'
<1>1. CASE code # 0
  BY <1>1, IdlePromisesNothing DEF Exit
<1>2. CASE code = 0
  <2>1. preflight' = [preflight EXCEPT !.pc = "ended"]
    BY <1>2 DEF Exit
  <2>2. /\ preflight'.pc = "ended" /\ preflight'.opts = preflight.opts
        /\ preflight'.asked = preflight.asked /\ preflight'.status = preflight.status
    BY <2>1 DEF TypeOK
  <2>. QED BY <1>2, <2>2 DEF PreflightInv, AnswersHold, GateInv, Passed, PullInv, Available
<1>. QED BY <1>1, <1>2

\* Every step of the preflight, and of the user, keeps its promises.
LEMMA PreflightInvStep ==
    ASSUME TypeOK, PreflightInv, PreflightStep
    PROVE  PreflightInv'
<1>1. preflight \in Calls /\ \A i \in preflight.asked : i \in Images
  BY DEF TypeOK, Calls
<1>2. CASE StartPreflight
  <2>1. PICK opts \in Options, asked \in SUBSET Images :
           preflight' = [Idle EXCEPT !.pc = "look", !.opts = opts, !.asked = asked, !.todo = asked]
    BY <1>2 DEF StartPreflight
  <2>2. preflight'.pc = "look" /\ preflight'.status = [i \in Images |-> NoStatus]
    BY <2>1 DEF Idle
  <2>. QED BY <2>2 DEF PreflightInv, AnswersHold, GateInv, Passed, PullInv, NoStatus
<1>3. CASE check_images
  <2>1. PICK i \in preflight.todo : \E listed, refused \in SUBSET mirror_repo_candidates(i) :
           preflight' = [preflight EXCEPT
              !.todo = @ \ {i},
              !.status[i] = [local |-> i \in local, mirrored |-> check_mirror_tag(listed, refused)]]
    BY <1>3 DEF check_images
  <2>2. PICK listed \in SUBSET mirror_repo_candidates(i), refused \in SUBSET mirror_repo_candidates(i) :
           preflight' = [preflight EXCEPT
              !.todo = @ \ {i},
              !.status[i] = [local |-> i \in local, mirrored |-> check_mirror_tag(listed, refused)]]
    BY <2>1
  <2>3. /\ preflight'.pc = "look"
        /\ preflight'.status = [preflight.status EXCEPT
              ![i] = [local |-> i \in local, mirrored |-> check_mirror_tag(listed, refused)]]
    BY <1>1, <1>3, <2>2 DEF check_images, Calls
  <2>4. check_mirror_tag(listed, refused) = "yes" => mirror_repo_candidates(i) \cap tags # {}
    BY <2>2 DEF check_mirror_tag
  <2>5. UNCHANGED <<local, tags>>
    BY <1>3 DEF check_images, mirrorVars
  <2>6. AnswersHold'
    <3>1. preflight.status \in [Images -> [local : BOOLEAN, mirrored : {"yes", "no", "unknown"}]]
      BY <1>1 DEF Calls
    <3>. QED BY <2>3, <2>4, <2>5, <3>1 DEF PreflightInv, AnswersHold
  <2>. QED BY <2>3, <2>6 DEF PreflightInv, GateInv, Passed, PullInv
<1>4. CASE Gate
  <2>1. UNCHANGED <<tags, local, markers>>
    BY <1>4 DEF Gate, mirrorVars
  <2> DEFINE blocked == {i \in preflight.asked : preflight.status[i].mirrored = "no"}
             code == IF preflight.opts.check /\ blocked # {} THEN 1 ELSE 0
  <2>2. code = 0 /\ preflight.opts.check =>
           \A i \in preflight.asked : preflight.status[i].mirrored # "no"
    OBVIOUS
  <2>3. CASE preflight.opts.pull
    <3>1. preflight' = [preflight EXCEPT !.pc = "pull", !.todo = preflight.asked, !.code = code]
      BY <1>4, <2>3 DEF Gate
    <3>2. /\ preflight'.pc = "pull" /\ preflight'.opts = preflight.opts
          /\ preflight'.asked = preflight.asked /\ preflight'.todo = preflight.asked
          /\ preflight'.status = preflight.status /\ preflight'.code = code
      BY <1>1, <3>1 DEF Calls
    <3>. QED BY <2>1, <2>2, <3>2 DEF PreflightInv, AnswersHold, GateInv, Passed, PullInv
  <2>4. CASE ~preflight.opts.pull /\ preflight.opts.load
    <3>1. preflight' = [preflight EXCEPT !.pc = "load", !.code = code]
      BY <1>4, <2>4 DEF Gate
    <3>2. /\ preflight'.pc = "load" /\ preflight'.opts = preflight.opts
          /\ preflight'.asked = preflight.asked
          /\ preflight'.status = preflight.status /\ preflight'.code = code
      BY <1>1, <3>1 DEF Calls
    <3>. QED BY <2>1, <2>2, <2>4, <3>2 DEF PreflightInv, AnswersHold, GateInv, Passed, PullInv
  <2>5. CASE ~preflight.opts.pull /\ ~preflight.opts.load
    <3>1. Exit(code)
      BY <1>4, <2>5 DEF Gate
    <3>. QED BY <2>1, <2>2, <2>5, <3>1, ExitKeepsPromises
  <2>. QED BY <2>3, <2>4, <2>5
<1>5. CASE pull_missing
  <2>1. PICK i \in preflight.todo :
          \/ /\ InMirror(i)
             /\ markers' = markers \cup {i} /\ UNCHANGED local
             /\ Pulled(i, FALSE)
          \/ /\ ~InMirror(i) /\ preflight.status[i].local /\ ~preflight.opts.force
             /\ UNCHANGED <<local, markers>>
             /\ Pulled(i, FALSE)
          \/ UNCHANGED <<local, markers>> /\ Pulled(i, TRUE)
          \/ /\ local' = local \cup {i} /\ markers' = markers \cup {i}
             /\ Pulled(i, FALSE)
    BY <1>5 DEF pull_missing
  <2>2. /\ preflight.pc = "pull" /\ UNCHANGED tags
        /\ local \subseteq local' /\ markers \subseteq markers' /\ i \in Images
    BY <1>1, <1>5, <2>1 DEF pull_missing, mirrorVars, Calls
  <2>3. PICK failed \in BOOLEAN : preflight' =
           [preflight EXCEPT !.todo = @ \ {i}, !.failures = @ \/ failed]
    BY <2>1 DEF Pulled
  <2>4. /\ preflight'.pc = "pull" /\ preflight'.opts = preflight.opts
        /\ preflight'.asked = preflight.asked /\ preflight'.todo = preflight.todo \ {i}
        /\ preflight'.status = preflight.status /\ preflight'.code = preflight.code
        /\ preflight'.failures = (preflight.failures \/ failed)
    BY <1>1, <2>2, <2>3 DEF Calls
  <2>5. ~preflight'.failures => Available(i)'
    <3>1. CASE Pulled(i, TRUE)
      BY <1>1, <3>1 DEF Pulled, Calls
    <3>2. CASE InMirror(i) /\ markers' = markers \cup {i}
      BY <2>2, <2>4, <3>2 DEF InMirror, PreflightInv, AnswersHold, Available
    <3>3. CASE preflight.status[i].local /\ UNCHANGED local
      BY <2>2, <2>4, <3>3 DEF PreflightInv, AnswersHold, Available
    <3>4. CASE local' = local \cup {i} /\ markers' = markers \cup {i}
      BY <3>4 DEF Available
    <3>. QED BY <2>1, <3>1, <3>2, <3>3, <3>4
  <2>. QED BY <1>1, <2>2, <2>4, <2>5 DEF PreflightInv, AnswersHold, GateInv, Passed, PullInv, Available
<1>6. CASE PullEnds
  <2>1. UNCHANGED <<tags, local, markers>> /\ preflight.pc = "pull" /\ preflight.todo = {}
    BY <1>6 DEF PullEnds, mirrorVars
  <2>2. CASE preflight.failures
    <3>1. Exit(1)
      BY <1>6, <2>2 DEF PullEnds
    <3>. QED BY <3>1, IdlePromisesNothing DEF Exit
  <2>3. CASE ~preflight.failures /\ preflight.opts.load
    <3>1. preflight' = [preflight EXCEPT !.pc = "load"]
      BY <1>6, <2>3 DEF PullEnds
    <3>2. /\ preflight'.pc = "load" /\ preflight'.opts = preflight.opts
          /\ preflight'.asked = preflight.asked
          /\ preflight'.status = preflight.status /\ preflight'.code = preflight.code
      BY <1>1, <3>1 DEF Calls
    <3>. QED BY <2>1, <2>3, <3>2 DEF PreflightInv, AnswersHold, GateInv, Passed, PullInv, Available
  <2>4. CASE ~preflight.failures /\ ~preflight.opts.load
    <3>1. Exit(preflight.code)
      BY <1>6, <2>4 DEF PullEnds
    <3>. QED BY <2>1, <2>4, <3>1, ExitKeepsPromises DEF PreflightInv, GateInv, Passed, PullInv
  <2>. QED BY <2>2, <2>3, <2>4
<1>7. CASE load_images_to_cluster
  <2>1. UNCHANGED <<tags, local, markers>> /\ preflight.pc = "load"
    BY <1>7 DEF load_images_to_cluster, mirrorVars
  <2>2. CASE Exit(1)
    BY <2>2, IdlePromisesNothing DEF Exit
  <2>3. CASE Exit(preflight.code)
    BY <2>1, <2>3, ExitKeepsPromises DEF PreflightInv, GateInv, Passed, PullInv
  <2>. QED BY <1>7, <2>2, <2>3 DEF load_images_to_cluster
<1>8. CASE KillPreflight
  BY <1>8, IdlePromisesNothing DEF KillPreflight, Exit
<1>9. CASE ChangeDocker
  <2>1. CASE preflight' = Idle
    BY <2>1, IdlePromisesNothing
  <2>2. CASE UNCHANGED <<mirrorVars, markers, preflight>> /\ local \subseteq local'
    BY <2>2, GainsKeepPromises DEF mirrorVars
  <2>. QED BY <1>9, <2>1, <2>2 DEF ChangeDocker
<1>. QED BY <1>2, <1>3, <1>4, <1>5, <1>6, <1>7, <1>8, <1>9 DEF PreflightStep

\* What the preflight knows and promises is true at every moment.
LEMMA PreflightInvariant == Spec => []PreflightInv
<1>1. Init => PreflightInv
  BY DEF Init, PreflightInv, AnswersHold, GateInv, Passed, PullInv, Available, Idle, NoStatus, NoOptions
<1>2. TypeOK /\ PreflightInv /\ [Next]_vars => PreflightInv'
  <2> SUFFICES ASSUME TypeOK, PreflightInv, [Next]_vars PROVE PreflightInv'
    OBVIOUS
  <2>1. CASE MirrorNext /\ UNCHANGED <<local, markers, preflight>>
    <3>1. tags \subseteq tags'
      BY <2>1 DEF MirrorNext, StartMirror, LookForTag, fetch, StartBlob, AppendChunk,
                  ChunkFails, CheckDigest, push_blob, push_manifest, KillMirror
    <3>. QED BY <2>1, <3>1, GainsKeepPromises
  <2>2. CASE UNCHANGED vars
    BY <2>2, GainsKeepPromises DEF vars, mirrorVars
  <2>. QED BY <2>1, <2>2, PreflightInvStep DEF Next, PreflightStep
<1>. QED BY <1>1, <1>2, TypeCorrect, PTL DEF Spec

\* A gate that lets the cluster be made (exit code 0 of --check) means that the registry
\* has the whole of every image that it answered for.
THEOREM GateIsSound == Spec => []GateMeansPullable
<1>1. TypeOK /\ MirrorInv /\ PreflightInv => GateMeansPullable
  <2> SUFFICES ASSUME TypeOK, MirrorInv, PreflightInv, Succeeded("check"), strict \/ lengths,
                      NEW i \in preflight.asked, preflight.status[i].mirrored # "unknown"
               PROVE  \E r \in mirror_repo_candidates(i) : r \in tags /\ Complete(r)
    BY DEF GateMeansPullable
  <2>1. i \in Images /\ preflight.status[i].mirrored \in {"yes", "no", "unknown"}
    BY DEF TypeOK
  <2>2. preflight.status[i].mirrored # "no"
    BY DEF Succeeded, PreflightInv, GateInv, Passed
  <2>3. mirror_repo_candidates(i) \cap tags # {}
    BY <2>1, <2>2 DEF PreflightInv, AnswersHold
  <2>. QED BY <2>3 DEF MirrorInv, TagsAreComplete
<1>. QED BY <1>1, TypeCorrect, MirrorInvariant, PreflightInvariant, PTL

\* After a successful --pull every image is where the nodes or docker may have it, and is
\* marked unless docker had it.
THEOREM PullIsSound == Spec => []PulledMeansAvailable
<1>1. PreflightInv => PulledMeansAvailable
  BY DEF PreflightInv, PullInv, PulledMeansAvailable, Succeeded, Available
<1>. QED BY <1>1, PreflightInvariant, PTL
===============================================================================
