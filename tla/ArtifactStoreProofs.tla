------------------------- MODULE ArtifactStoreProofs -------------------------
(* Proofs about ArtifactStore for every set of artifacts, contents and       *)
(* callers and every number of crashes.                                      *)
EXTENDS ArtifactStore, FiniteSetTheorems, TLAPS

-----------------------------------------------------------------------------
(* The inductive invariant.                                                  *)

\* A call keeps to the steps of its operation: only a call that wrote files has
\* files to take back, those files had no row when they were written, and the
\* artifacts of a result have no row before the result commits.
CallShape(c) ==
    /\ op[c].pc \notin {"tx", "writing", "undo"} => op[c].undo = {}
    /\ op[c].pc \in {"idle", "tx", "undo"} => op[c].digest = NoContent
    /\ op[c].pc = "writing" => op[c].digest \in op[c].todo
    /\ op[c].pc \in {"sweep", "sweepRow"} => op[c].digest \in Digests
    /\ InTransaction(c) =>
        /\ \A d \in op[c].todo \cup op[c].undo : Stored(op[c].arts, d) # {}
        /\ \A d \in op[c].undo : d \notin op[c].todo /\ ~Tracked(d)
        /\ IF op[c].ingest
             THEN /\ op[c].arts = ResultArtifacts
                  /\ \A a \in Artifacts :
                        ResultArtifacts[a] # NoContent => artifact[a] = NoContent
             ELSE \E a \in Artifacts : \A b \in Artifacts :
                        op[c].arts[b] # NoContent <=> b = a

\* The transaction of c relies on the file of d: it has found or written it, or
\* is writing it.
Relies(c, d) ==
    /\ InTransaction(c)
    /\ \/ Stored(op[c].arts, d) # {} /\ d \notin op[c].todo
       \/ op[c].pc = "writing" /\ op[c].digest = d

\* A file that is still going to be removed is used by nobody, unless the
\* overlap was noted.
RemovalsNoted ==
    \A c \in Callers : \A d \in Removing(c) :
        References(d) # {} \/ (\E b \in Callers : Relies(b, d)) => d \in overlapped

\* The files that artifacts and transactions rely on are whole, or are being
\* written by the transaction itself.
FilesInPlace ==
    \A d \in Digests \ overlapped :
        /\ References(d) # {} => file[d] = "whole"
        /\ \A c \in Callers : Relies(c, d) =>
              file[d] = IF op[c].pc = "writing" /\ op[c].digest = d THEN "torn" ELSE "whole"

\* Whatever no artifact uses is on some call's list: a row without references
\* waits for its clean-up, a file without a row was written by a transaction
\* that has not committed, a torn file is being written, and a file taken away
\* stays away until its row has gone.
LeftoversListed ==
    \A d \in Digests \ interrupted :
        /\ Tracked(d) /\ References(d) = {} =>
              \E c \in Callers : op[c].pc \in {"sweep", "sweepRow"} /\ op[c].digest = d
        /\ file[d] # "absent" /\ ~Tracked(d) =>
              \E c \in Callers : \/ d \in op[c].undo
                                 \/ op[c].pc = "writing" /\ op[c].digest = d
        /\ file[d] = "torn" =>
              \E c \in Callers : op[c].pc = "writing" /\ op[c].digest = d
        /\ \A c \in Callers : op[c].pc = "sweepRow" /\ op[c].digest = d => file[d] = "absent"

ArtifactInv ==
    /\ RefCountExact
    /\ \A c \in Callers : CallShape(c)
    /\ RemovalsNoted
    /\ FilesInPlace
    /\ LeftoversListed
-----------------------------------------------------------------------------
(* What each step does to the call that takes it.                            *)

\* The calls of ArtifactTypeOK.
Calls == [pc : Steps, ingest : BOOLEAN, arts : [Artifacts -> Contents \cup {NoContent}],
          todo : SUBSET Digests, undo : SUBSET Digests, digest : Digests \cup {NoContent}]

\* The step changes the call of c only, into a call with these fields.
Becomes(c, pc, ingest, arts, todo, undo, digest) ==
    /\ op'[c].pc = pc /\ op'[c].ingest = ingest /\ op'[c].arts = arts
    /\ op'[c].todo = todo /\ op'[c].undo = undo /\ op'[c].digest = digest
    /\ \A b \in Callers : b # c => op'[b] = op[b]
    /\ op' \in [Callers -> Calls]

\* The call has returned.
BecomesIdle(c) ==
    Becomes(c, "idle", FALSE, [a \in Artifacts |-> NoContent], {}, {}, NoContent)

\* The transaction has rolled back, and the files it wrote are to be removed.
BecomesUndo(c) ==
    Becomes(c, "undo", op[c].ingest, op[c].arts, op[c].todo, op[c].undo, NoContent)

\* The transaction has committed, and the clean-up of d follows.
BecomesSweep(c, d) ==
    Becomes(c, "sweep", FALSE, [a \in Artifacts |-> NoContent], {}, {}, d)

\* A call that returns leaves nothing of itself.
LEMMA IdleFields ==
    ASSUME ArtifactTypeOK, NEW c \in Callers, op' = [op EXCEPT ![c] = Idle]
    PROVE  BecomesIdle(c)
<1>o. op \in [Callers -> Calls]
  BY DEF ArtifactTypeOK, Calls
<1>1. Idle \in Calls
  BY DEF Idle, Calls, Steps
<1> QED
  BY <1>o, <1>1 DEF BecomesIdle, Becomes, Idle

\* put_artifact and ingest_remote_result_with_artifacts open a transaction with
\* nothing written yet.
LEMMA BeginFields ==
    ASSUME ArtifactTypeOK, NEW c \in Callers
    PROVE  /\ \A a \in Artifacts, x \in Contents : BeginPut(c, a, x) =>
                Becomes(c, "tx", FALSE, [b \in Artifacts |-> IF b = a THEN x ELSE NoContent],
                        IF ShouldWrite(artifact[a], x) THEN {x} ELSE {}, {}, NoContent)
           /\ BeginIngest(c) =>
                Becomes(c, "tx", TRUE, ResultArtifacts,
                        {ResultArtifacts[a] : a \in Artifacts} \cap Digests, {}, NoContent)
<1>o. op \in [Callers -> Calls]
  BY DEF ArtifactTypeOK, Calls
<1>1. ASSUME NEW a \in Artifacts, NEW x \in Contents, BeginPut(c, a, x)
      PROVE  Becomes(c, "tx", FALSE, [b \in Artifacts |-> IF b = a THEN x ELSE NoContent],
                     IF ShouldWrite(artifact[a], x) THEN {x} ELSE {}, {}, NoContent)
  BY <1>o, <1>1 DEF BeginPut, Becomes, Idle, Calls, ShouldWrite, Steps
<1>2. ASSUME BeginIngest(c)
      PROVE  Becomes(c, "tx", TRUE, ResultArtifacts,
                     {ResultArtifacts[a] : a \in Artifacts} \cap Digests, {}, NoContent)
  BY <1>o, <1>2, ArtifactAssumption DEF BeginIngest, Becomes, Idle, Calls, Steps
<1> QED
  BY <1>1, <1>2

\* Preparing a blob (prepare_blob_write_with_executor) takes its digest off the
\* list of what is to be prepared, and remembers a file that had no row.
LEMMA BlobFields ==
    ASSUME ArtifactTypeOK, NEW c \in Callers, CallShape(c)
    PROVE  /\ \A d \in Digests : ReuseBlob(c, d) =>
                Becomes(c, "tx", op[c].ingest, op[c].arts, op[c].todo \ {d}, op[c].undo, NoContent)
           /\ \A d \in Digests : CreateBlob(c, d) =>
                Becomes(c, "writing", op[c].ingest, op[c].arts, op[c].todo, op[c].undo, d)
           /\ FinishBlob(c) =>
                Becomes(c, "tx", op[c].ingest, op[c].arts, op[c].todo \ {op[c].digest},
                        IF Tracked(op[c].digest) THEN op[c].undo
                        ELSE op[c].undo \cup {op[c].digest}, NoContent)
<1>o. op \in [Callers -> Calls] /\ op[c] \in Calls
  BY DEF ArtifactTypeOK, Calls
<1>d. op[c].pc \in {"idle", "tx", "undo"} => op[c].digest = NoContent
  BY DEF CallShape
<1>1. ASSUME NEW d \in Digests, ReuseBlob(c, d)
      PROVE  Becomes(c, "tx", op[c].ingest, op[c].arts, op[c].todo \ {d}, op[c].undo, NoContent)
  BY <1>o, <1>d, <1>1 DEF ReuseBlob, Becomes, Calls
<1>2. ASSUME NEW d \in Digests, CreateBlob(c, d)
      PROVE  Becomes(c, "writing", op[c].ingest, op[c].arts, op[c].todo, op[c].undo, d)
  BY <1>o, <1>2 DEF CreateBlob, Becomes, Calls, Steps
<1>3. ASSUME FinishBlob(c)
      PROVE  Becomes(c, "tx", op[c].ingest, op[c].arts, op[c].todo \ {op[c].digest},
                     IF Tracked(op[c].digest) THEN op[c].undo
                     ELSE op[c].undo \cup {op[c].digest}, NoContent)
  <2> DEFINE d == op[c].digest
             u == IF Tracked(d) THEN op[c].undo ELSE op[c].undo \cup {d}
  <2>1. op' = [op EXCEPT ![c] = [op[c] EXCEPT !.pc = "tx", !.digest = NoContent,
                                              !.todo = @ \ {d},
                                              !.undo = IF Tracked(d) THEN @ ELSE @ \cup {d}]]
    BY <1>3 DEF FinishBlob
  <2>2. d \in Digests
    BY <1>o, <1>3 DEF CallShape, FinishBlob, Calls
  <2>3. op[c].todo \ {d} \in SUBSET Digests /\ u \in SUBSET Digests
    BY <1>o, <2>2 DEF Calls
  <2> HIDE DEF d, u
  <2>4. Becomes(c, "tx", op[c].ingest, op[c].arts, op[c].todo \ {d}, u, NoContent)
    BY <1>o, <2>1, <2>3 DEF Becomes, Calls, Steps, u
  <2> QED
    BY <2>4 DEF d, u
<1> QED
  BY <1>1, <1>2, <1>3

\* A failed call returns, or goes on to rollback_prepared_blob_write.
LEMMA AbortFields ==
    ASSUME ArtifactTypeOK, NEW c \in Callers, CallShape(c),
           FailWrite(c) \/ FailTransaction(c) \/ (\E d \in Digests : RefuseBlob(c, d))
    PROVE  IF op[c].undo = {} THEN BecomesIdle(c) ELSE BecomesUndo(c)
<1>o. op \in [Callers -> Calls] /\ op[c] \in Calls
  BY DEF ArtifactTypeOK, Calls
<1>d. op[c].pc \in {"idle", "tx", "undo"} => op[c].digest = NoContent
  BY DEF CallShape
<1>1. CASE op[c].undo = {}
  <2>1. CASE FailWrite(c)
    <3>1. op' = [op EXCEPT ![c] = [Idle EXCEPT !.digest = NoContent]]
      BY <1>1, <2>1 DEF FailWrite, Aborted
    <3> QED
      BY <1>o, <1>1, <3>1 DEF BecomesIdle, Becomes, Idle, Calls, Steps
  <2>2. CASE FailTransaction(c) \/ (\E d \in Digests : RefuseBlob(c, d))
    BY <1>1, <2>2, IdleFields DEF FailTransaction, RefuseBlob, Aborted
  <2> QED
    BY <2>1, <2>2
<1>2. CASE op[c].undo # {}
  <2>1. CASE FailWrite(c)
    BY <1>o, <1>2, <2>1 DEF FailWrite, Aborted, BecomesUndo, Becomes, Calls, Steps
  <2>2. CASE FailTransaction(c) \/ (\E d \in Digests : RefuseBlob(c, d))
    BY <1>o, <1>d, <1>2, <2>2 DEF FailTransaction, RefuseBlob, Aborted, BecomesUndo, Becomes, Calls,
                                  Steps
  <2> QED
    BY <1>2, <2>1, <2>2
<1> QED
  BY <1>1, <1>2

\* A committed call returns, or goes on to finalize_blob_cleanup of the digest
\* that lost its last reference.
LEMMA CommitFields ==
    ASSUME ArtifactTypeOK, NEW c \in Callers
    PROVE  /\ CommitIngest(c) => BecomesIdle(c)
           /\ \A a \in Artifacts : CommitPut(c, a) =>
                IF ShouldDrop(artifact[a], op[c].arts[a]) /\ LastReference(artifact[a])
                THEN BecomesSweep(c, artifact[a]) ELSE BecomesIdle(c)
           /\ \A a \in Artifacts : DeleteArtifact(c, a) =>
                IF artifact[a] \in Digests /\ LastReference(artifact[a])
                THEN BecomesSweep(c, artifact[a]) ELSE BecomesIdle(c)
<1>o. op \in [Callers -> Calls]
  BY DEF ArtifactTypeOK, Calls
<1>1. ASSUME NEW d \in Digests, op' = [op EXCEPT ![c] = [Idle EXCEPT !.pc = "sweep", !.digest = d]]
      PROVE  BecomesSweep(c, d)
  BY <1>o, <1>1 DEF BecomesSweep, Becomes, Idle, Calls, Steps
<1>2. ASSUME NEW a \in Artifacts, CommitPut(c, a)
      PROVE  IF ShouldDrop(artifact[a], op[c].arts[a]) /\ LastReference(artifact[a])
             THEN BecomesSweep(c, artifact[a]) ELSE BecomesIdle(c)
  BY <1>1, <1>2, IdleFields DEF CommitPut, Swept, ShouldDrop
<1>3. ASSUME NEW a \in Artifacts, DeleteArtifact(c, a)
      PROVE  IF artifact[a] \in Digests /\ LastReference(artifact[a])
             THEN BecomesSweep(c, artifact[a]) ELSE BecomesIdle(c)
  BY <1>1, <1>3, IdleFields DEF DeleteArtifact, Swept
<1> QED
  BY <1>2, <1>3, IdleFields DEF CommitIngest

\* The two halves of finalize_blob_cleanup, and one file of a rollback.
LEMMA CleanupFields ==
    ASSUME ArtifactTypeOK, NEW c \in Callers
    PROVE  /\ SweepRow(c) \/ Cancel(c) => BecomesIdle(c)
           /\ SweepFile(c) =>
                Becomes(c, "sweepRow", op[c].ingest, op[c].arts, op[c].todo, op[c].undo,
                        op[c].digest)
           /\ \A d \in Digests : RemovePrepared(c, d) =>
                IF op[c].undo = {d} THEN BecomesIdle(c)
                ELSE Becomes(c, "undo", op[c].ingest, op[c].arts, op[c].todo, op[c].undo \ {d},
                             op[c].digest)
<1>o. op \in [Callers -> Calls]
  BY DEF ArtifactTypeOK, Calls
<1>1. ASSUME SweepFile(c)
      PROVE  Becomes(c, "sweepRow", op[c].ingest, op[c].arts, op[c].todo, op[c].undo,
                     op[c].digest)
  BY <1>o, <1>1 DEF SweepFile, Becomes, Calls, Steps
<1>2. ASSUME NEW d \in Digests, RemovePrepared(c, d)
      PROVE  IF op[c].undo = {d} THEN BecomesIdle(c)
             ELSE Becomes(c, "undo", op[c].ingest, op[c].arts, op[c].todo, op[c].undo \ {d},
                          op[c].digest)
  <2>1. CASE op[c].undo = {d}
    BY <1>2, <2>1, IdleFields DEF RemovePrepared
  <2>2. CASE op[c].undo # {d}
    <3>1. op' = [op EXCEPT ![c] = [op[c] EXCEPT !.undo = @ \ {d}]] /\ op[c].pc = "undo"
      BY <1>2, <2>2 DEF RemovePrepared
    <3> QED
      BY <1>o, <2>2, <3>1 DEF Becomes, Calls
  <2> QED
    BY <2>1, <2>2
<1> QED
  BY <1>1, <1>2, IdleFields DEF SweepRow, Cancel

\* What a call outside its transaction is going to remove, before and after a
\* step.
LEMMA RemovingFiles ==
    ASSUME NEW c \in Callers, NEW d
    PROVE  /\ d \in Removing(c) <=> \/ op[c].pc = "undo" /\ d \in op[c].undo
                                    \/ op[c].pc = "sweep" /\ d = op[c].digest
           /\ d \in Removing(c)' <=> \/ op'[c].pc = "undo" /\ d \in op'[c].undo
                                     \/ op'[c].pc = "sweep" /\ d = op'[c].digest
<1>1. /\ op[c].pc = "undo" => Removing(c) = op[c].undo
      /\ op[c].pc = "sweep" => Removing(c) = {op[c].digest}
      /\ op[c].pc \notin {"undo", "sweep"} => Removing(c) = {}
  BY DEF Removing
<1>2. /\ op'[c].pc = "undo" => Removing(c)' = op'[c].undo
      /\ op'[c].pc = "sweep" => Removing(c)' = {op'[c].digest}
      /\ op'[c].pc \notin {"undo", "sweep"} => Removing(c)' = {}
  BY DEF Removing
<1> QED
  BY <1>1, <1>2
-----------------------------------------------------------------------------
(* The steps keep the types, and one transaction at a time.                  *)

\* The connection is taken only when it is free.
LEMMA Exclusive ==
    ASSUME ArtifactTypeOK, NEW c \in Callers,
           \A b \in Callers : b # c => op'[b] = op[b],
           InTransaction(c)' => InTransaction(c) \/ ConnectionFree
    PROVE  (\A b, e \in Callers : InTransaction(b) /\ InTransaction(e) => b = e)'
  BY DEF ArtifactTypeOK, InTransaction, ConnectionFree

\* Every step keeps the types, and the pool's one connection serves one
\* transaction at a time.
LEMMA TypeStep ==
    ASSUME ArtifactTypeOK, \A c \in Callers : CallShape(c), [Next]_vars
    PROVE  ArtifactTypeOK'
<1>t. /\ artifact \in [Artifacts -> Contents \cup {NoContent}] /\ blobs \in [Digests -> Int]
      /\ file \in [Digests -> Files] /\ op \in [Callers -> Calls] /\ crashes \in 0..MaxCrashes
      /\ overlapped \subseteq Digests /\ interrupted \subseteq Digests /\ settled \in BOOLEAN
  BY DEF ArtifactTypeOK, Calls
<1> DEFINE Rest == /\ artifact' \in [Artifacts -> Contents \cup {NoContent}]
                   /\ blobs' \in [Digests -> Int] /\ file' \in [Digests -> Files]
                   /\ crashes' \in 0..MaxCrashes /\ settled' \in BOOLEAN
                   /\ overlapped' \subseteq Digests /\ interrupted' \subseteq Digests
<1>1. ASSUME NEW c \in Callers, Rest, op' \in [Callers -> Calls],
             \A b \in Callers : b # c => op'[b] = op[b],
             op'[c].pc \in {"tx", "writing"} => InTransaction(c) \/ ConnectionFree
      PROVE  ArtifactTypeOK'
  <2>1. (\A b, e \in Callers : InTransaction(b) /\ InTransaction(e) => b = e)'
    BY <1>1, Exclusive DEF InTransaction
  <2> QED
    BY <1>1, <2>1 DEF ArtifactTypeOK, Calls
<1>2. ASSUME NEW c \in Callers, Rest, NEW pc, NEW i, NEW arts, NEW todo, NEW undo, NEW d,
             Becomes(c, pc, i, arts, todo, undo, d),
             pc \in {"tx", "writing"} => InTransaction(c) \/ ConnectionFree
      PROVE  ArtifactTypeOK'
  BY <1>1, <1>2 DEF Becomes
<1>3. ASSUME NEW c \in Callers, Rest, BecomesIdle(c) PROVE ArtifactTypeOK'
  BY <1>2, <1>3 DEF BecomesIdle
<1>4. ASSUME NEW c \in Callers, NEW d, Rest, BecomesSweep(c, d) PROVE ArtifactTypeOK'
  BY <1>2, <1>4 DEF BecomesSweep
<1>5. ASSUME NEW c \in Callers, op[c].pc = "writing" PROVE op[c].digest \in Digests
  BY <1>t, <1>5 DEF CallShape, Calls
<1>6. ASSUME NEW c \in Callers, NEW a \in Artifacts, NEW x \in Contents, BeginPut(c, a, x)
      PROVE  ArtifactTypeOK'
  <2>1. Rest /\ ConnectionFree
    BY <1>t, <1>6 DEF BeginPut
  <2> HIDE DEF Rest
  <2> QED
    BY <1>2, <1>6, <2>1, BeginFields
<1>7. ASSUME NEW c \in Callers, BeginIngest(c) PROVE ArtifactTypeOK'
  <2>1. Rest /\ ConnectionFree
    BY <1>t, <1>7 DEF BeginIngest
  <2> HIDE DEF Rest
  <2> QED
    BY <1>2, <1>7, <2>1, BeginFields
<1>8. ASSUME NEW c \in Callers, NEW d \in Digests, ReuseBlob(c, d) \/ CreateBlob(c, d)
      PROVE  ArtifactTypeOK'
  <2>1. Rest /\ InTransaction(c)
    BY <1>t, <1>8 DEF ReuseBlob, CreateBlob, NoteOverlap, InTransaction, Files
  <2> HIDE DEF Rest
  <2> QED
    BY <1>2, <1>8, <2>1, BlobFields
<1>9. ASSUME NEW c \in Callers, FinishBlob(c) PROVE ArtifactTypeOK'
  <2>1. Rest /\ InTransaction(c)
    BY <1>t, <1>9 DEF FinishBlob, InTransaction, Files
  <2> HIDE DEF Rest
  <2> QED
    BY <1>2, <1>9, <2>1, BlobFields
<1>10. ASSUME NEW c \in Callers,
              FailWrite(c) \/ FailTransaction(c) \/ (\E d \in Digests : RefuseBlob(c, d))
       PROVE  ArtifactTypeOK'
  <2>1. Rest
    BY <1>t, <1>5, <1>10 DEF FailWrite, FailTransaction, RefuseBlob
  <2>2. IF op[c].undo = {} THEN BecomesIdle(c) ELSE BecomesUndo(c)
    BY <1>10, AbortFields
  <2> HIDE DEF Rest
  <2> QED
    BY <1>2, <1>3, <2>1, <2>2 DEF BecomesUndo
<1>11. ASSUME NEW c \in Callers, NEW a \in Artifacts, CommitPut(c, a) PROVE ArtifactTypeOK'
  <2>1. artifact' \in [Artifacts -> Contents \cup {NoContent}]
    BY <1>t, <1>11 DEF CommitPut, Calls
  <2>2. blobs' \in [Digests -> Int]
    BY <1>t, <1>11 DEF CommitPut, Decremented, Incremented
  <2>3. Rest
    BY <1>t, <1>11, <2>1, <2>2 DEF CommitPut
  <2> HIDE DEF Rest
  <2> QED
    BY <1>3, <1>4, <1>11, <2>3, CommitFields
<1>12. ASSUME NEW c \in Callers, CommitIngest(c) PROVE ArtifactTypeOK'
  <2>1. artifact' \in [Artifacts -> Contents \cup {NoContent}]
    BY <1>t, <1>12, ArtifactAssumption DEF CommitIngest
  <2>2. ASSUME NEW d \in Digests PROVE Cardinality(Stored(ResultArtifacts, d)) \in Nat
    <3>1. Stored(ResultArtifacts, d) \in SUBSET Artifacts
      BY DEF Stored
    <3> QED
      BY <3>1, ArtifactAssumption, FS_Subset, FS_CardinalityType
  <2>3. blobs' \in [Digests -> Int]
    BY <1>t, <1>12, <2>2 DEF CommitIngest, Incremented
  <2>4. Rest
    BY <1>t, <1>12, <2>1, <2>3 DEF CommitIngest
  <2> HIDE DEF Rest
  <2> QED
    BY <1>3, <1>12, <2>4, CommitFields
<1>13. ASSUME NEW c \in Callers, NEW a \in Artifacts, DeleteArtifact(c, a) PROVE ArtifactTypeOK'
  <2>1. Rest
    BY <1>t, <1>13 DEF DeleteArtifact, Decremented
  <2> HIDE DEF Rest
  <2> QED
    BY <1>3, <1>4, <1>13, <2>1, CommitFields
<1>14. ASSUME NEW c \in Callers, NEW d \in Digests, RemovePrepared(c, d) PROVE ArtifactTypeOK'
  <2>1. Rest
    BY <1>t, <1>14 DEF RemovePrepared, Files
  <2>2. IF op[c].undo = {d} THEN BecomesIdle(c)
        ELSE Becomes(c, "undo", op[c].ingest, op[c].arts, op[c].todo, op[c].undo \ {d},
                     op[c].digest)
    BY <1>14, CleanupFields
  <2> HIDE DEF Rest
  <2> QED
    BY <1>2, <1>3, <2>1, <2>2
<1>15. ASSUME NEW c \in Callers, SweepFile(c) PROVE ArtifactTypeOK'
  <2>1. Rest
    BY <1>t, <1>15 DEF SweepFile, Files
  <2> HIDE DEF Rest
  <2> QED
    BY <1>2, <1>15, <2>1, CleanupFields
<1>16. ASSUME NEW c \in Callers, SweepRow(c) \/ Cancel(c) PROVE ArtifactTypeOK'
  <2>1. Rest
    BY <1>t, <1>16 DEF SweepRow, Cancel, Unfinished, Calls
  <2> HIDE DEF Rest
  <2> QED
    BY <1>3, <1>16, <2>1, CleanupFields
<1>17. ASSUME Crash PROVE ArtifactTypeOK'
  <2>1. Idle \in Calls /\ Idle.pc = "idle"
    BY DEF Idle, Calls, Steps
  <2>2. Rest
    BY <1>t, <1>17, ArtifactAssumption DEF Crash, Unfinished, Calls
  <2> QED
    BY <1>17, <2>1, <2>2 DEF Crash, ArtifactTypeOK, Calls, InTransaction
<1>18. CASE UNCHANGED vars
  BY <1>18 DEF vars, ArtifactTypeOK, InTransaction
<1> QED
  BY <1>6, <1>7, <1>8, <1>9, <1>10, <1>11, <1>12, <1>13, <1>14, <1>15, <1>16, <1>17, <1>18 DEF Next
-----------------------------------------------------------------------------
(* Reference counts.                                                         *)

\* The artifact rows with a digest are finitely many.
LEMMA RowsFinite ==
    ASSUME NEW arts, NEW d
    PROVE  /\ IsFiniteSet(Stored(arts, d)) /\ Cardinality(Stored(arts, d)) \in Nat
           /\ Cardinality(Stored(arts, d)) = 0 <=> Stored(arts, d) = {}
<1>1. Stored(arts, d) \in SUBSET Artifacts
  BY DEF Stored
<1> QED
  BY <1>1, ArtifactAssumption, FS_Subset, FS_CardinalityType, FS_EmptySet

\* Writing one artifact row moves one reference.
LEMMA OneRowWritten ==
    ASSUME NEW arts \in [Artifacts -> Contents \cup {NoContent}], NEW a \in Artifacts, NEW new,
           NEW d, NEW after,
           after[a] = new, \A b \in Artifacts : b # a => after[b] = arts[b]
    PROVE  Cardinality(Stored(after, d)) =
             IF d = new /\ arts[a] # new THEN Cardinality(Stored(arts, d)) + 1
             ELSE IF d = arts[a] /\ arts[a] # new THEN Cardinality(Stored(arts, d)) - 1
             ELSE Cardinality(Stored(arts, d))
<1> DEFINE rows == Stored(arts, d)
<1>f. IsFiniteSet(rows)
  BY RowsFinite
<1>1. CASE d = new /\ arts[a] # new
  <2>1. Stored(after, d) = rows \cup {a} /\ a \notin rows
    BY <1>1 DEF Stored
  <2> HIDE DEF rows
  <2>2. Cardinality(rows \cup {a}) = Cardinality(rows) + 1
    BY <1>f, <2>1, FS_AddElement
  <2> QED
    BY <1>1, <2>1, <2>2 DEF rows
<1>2. CASE d # new /\ d = arts[a]
  <2>1. Stored(after, d) = rows \ {a} /\ a \in rows
    BY <1>2 DEF Stored
  <2> HIDE DEF rows
  <2>2. Cardinality(rows \ {a}) = Cardinality(rows) - 1
    BY <1>f, <2>1, FS_RemoveElement
  <2> QED
    BY <1>2, <2>1, <2>2 DEF rows
<1>3. CASE (d = new /\ arts[a] = new) \/ (d # new /\ d # arts[a])
  <2>1. Stored(after, d) = Stored(arts, d)
    BY <1>3 DEF Stored
  <2> QED
    BY <1>3, <2>1
<1> QED
  BY <1>1, <1>2, <1>3

\* The counts follow the rows.
LEMMA CountStep ==
    ASSUME ArtifactTypeOK, RefCountExact, \A c \in Callers : CallShape(c), [Next]_vars,
           NEW d \in Digests
    PROVE  Cardinality(Stored(artifact', d)) = IF blobs'[d] >= 0 THEN blobs'[d] ELSE 0
<1>t. /\ artifact \in [Artifacts -> Contents \cup {NoContent}] /\ blobs \in [Digests -> Int]
      /\ NoContent \notin Digests
  BY ArtifactAssumption DEF ArtifactTypeOK, Digests
<1>c. \A x \in Digests : Cardinality(Stored(artifact, x)) = IF blobs[x] >= 0 THEN blobs[x] ELSE 0
  BY DEF RefCountExact, Tracked, References
<1>1. ASSUME artifact' = artifact, blobs' = blobs
      PROVE  Cardinality(Stored(artifact', d)) = IF blobs'[d] >= 0 THEN blobs'[d] ELSE 0
  BY <1>c, <1>1
<1>2. ASSUME NEW x \in Digests, NEW a \in Artifacts, artifact[a] = x PROVE blobs[x] >= 1
  <2>1. a \in Stored(artifact, x)
    BY <1>2 DEF Stored
  <2> QED
    BY <1>c, <1>t, <2>1, RowsFinite
<1>3. ASSUME NEW c \in Callers, NEW a \in Artifacts, CommitPut(c, a)
      PROVE  Cardinality(Stored(artifact', d)) = IF blobs'[d] >= 0 THEN blobs'[d] ELSE 0
  <2> DEFINE old == artifact[a]
             new == op[c].arts[a]
  <2>1. artifact' = [artifact EXCEPT ![a] = new]
    BY <1>3 DEF CommitPut
  <2>2. blobs'[d] = IF d = old /\ ShouldDrop(old, new) /\ Tracked(d) THEN Decremented(d)
                    ELSE IF d = new /\ ShouldWrite(old, new) THEN Incremented(d, 1)
                    ELSE blobs[d]
    BY <1>3 DEF CommitPut
  <2> HIDE DEF new
  <2>3. Cardinality(Stored(artifact', d)) =
          IF d = new /\ old # new THEN Cardinality(Stored(artifact, d)) + 1
          ELSE IF d = old /\ old # new THEN Cardinality(Stored(artifact, d)) - 1
          ELSE Cardinality(Stored(artifact, d))
    <3>1. artifact'[a] = new /\ \A b \in Artifacts : b # a => artifact'[b] = artifact[b]
      BY <1>t, <2>1
    <3> QED
      BY <1>t, <3>1, OneRowWritten
  <2>4. d = old => blobs[d] >= 1
    BY <1>2
  <2> HIDE DEF old
  <2> QED
    BY <1>c, <1>t, <2>2, <2>3, <2>4 DEF ShouldDrop, ShouldWrite, Tracked, Decremented, Incremented
<1>4. ASSUME NEW c \in Callers, NEW a \in Artifacts, DeleteArtifact(c, a)
      PROVE  Cardinality(Stored(artifact', d)) = IF blobs'[d] >= 0 THEN blobs'[d] ELSE 0
  <2> DEFINE old == artifact[a]
  <2>1. artifact' = [artifact EXCEPT ![a] = NoContent] /\ old # NoContent
    BY <1>4 DEF DeleteArtifact
  <2>2. blobs'[d] = IF d = old /\ Tracked(old) THEN Decremented(old) ELSE blobs[d]
    BY <1>4, <1>t DEF DeleteArtifact
  <2>3. Cardinality(Stored(artifact', d)) =
          IF d = NoContent /\ old # NoContent THEN Cardinality(Stored(artifact, d)) + 1
          ELSE IF d = old /\ old # NoContent THEN Cardinality(Stored(artifact, d)) - 1
          ELSE Cardinality(Stored(artifact, d))
    <3>1. artifact'[a] = NoContent /\ \A b \in Artifacts : b # a => artifact'[b] = artifact[b]
      BY <1>t, <2>1
    <3> QED
      BY <1>t, <3>1, OneRowWritten
  <2>4. d = old => blobs[d] >= 1
    BY <1>2
  <2> HIDE DEF old
  <2> QED
    BY <1>c, <1>t, <2>1, <2>2, <2>3, <2>4 DEF Tracked, Decremented
<1>5. ASSUME NEW c \in Callers, CommitIngest(c)
      PROVE  Cardinality(Stored(artifact', d)) = IF blobs'[d] >= 0 THEN blobs'[d] ELSE 0
  <2> DEFINE before == Stored(artifact, d)
             added == Stored(ResultArtifacts, d)
  <2>1. \A a \in Artifacts : ResultArtifacts[a] # NoContent => artifact[a] = NoContent
    BY <1>5 DEF CommitIngest, CallShape, InTransaction
  <2>2. Stored(artifact', d) = before \cup added
    BY <1>5, <1>t, <2>1 DEF CommitIngest, Stored
  <2>3. before \cap added = {}
    BY <1>t, <2>1 DEF Stored
  <2>4. blobs'[d] = IF added = {} THEN blobs[d] ELSE Incremented(d, Cardinality(added))
    BY <1>5 DEF CommitIngest
  <2>5. /\ IsFiniteSet(before) /\ Cardinality(before) \in Nat
        /\ IsFiniteSet(added) /\ Cardinality(added) \in Nat
        /\ Cardinality(added) = 0 <=> added = {}
    BY RowsFinite
  <2>6. Cardinality(before) = IF blobs[d] >= 0 THEN blobs[d] ELSE 0
    BY <1>c
  <2> HIDE DEF before, added
  <2>7. Cardinality(before \cup added) = Cardinality(before) + Cardinality(added)
    <3>1. Cardinality(before \cup added) =
            Cardinality(before) + Cardinality(added) - Cardinality(before \cap added)
      BY <2>5, FS_Union
    <3>2. Cardinality(before \cap added) = 0
      BY <2>3, FS_EmptySet
    <3> QED
      BY <2>5, <3>1, <3>2
  <2> QED
    BY <1>t, <2>2, <2>4, <2>5, <2>6, <2>7 DEF Incremented
<1>6. ASSUME NEW c \in Callers, SweepRow(c)
      PROVE  Cardinality(Stored(artifact', d)) = IF blobs'[d] >= 0 THEN blobs'[d] ELSE 0
  BY <1>6, <1>c, <1>t DEF SweepRow, Sweepable
<1>7. ASSUME NEW c \in Callers
      PROVE  /\ \A a \in Artifacts, x \in Contents : BeginPut(c, a, x) => UNCHANGED <<artifact, blobs>>
             /\ \A x \in Digests : \/ ReuseBlob(c, x) \/ CreateBlob(c, x)
                                   \/ RefuseBlob(c, x) \/ RemovePrepared(c, x)
                                   => UNCHANGED <<artifact, blobs>>
             /\ BeginIngest(c) \/ FinishBlob(c) \/ FailWrite(c) \/ FailTransaction(c) \/ SweepFile(c)
                \/ Cancel(c) => UNCHANGED <<artifact, blobs>>
  BY DEF BeginPut, ReuseBlob, CreateBlob, RefuseBlob, RemovePrepared, BeginIngest, FinishBlob,
         FailWrite, FailTransaction, SweepFile, Cancel
<1>8. ASSUME Crash \/ UNCHANGED vars PROVE UNCHANGED <<artifact, blobs>>
  BY <1>8 DEF Crash, vars
<1> QED
  BY <1>1, <1>3, <1>4, <1>5, <1>6, <1>7, <1>8 DEF Next
-----------------------------------------------------------------------------
(* The shape of the calls.                                                   *)

\* A transaction keeps the rows it has read: nobody else writes meanwhile.
LEMMA OthersKeepShape ==
    ASSUME NEW e \in Callers, CallShape(e), op'[e] = op[e],
           InTransaction(e) => artifact' = artifact /\ blobs' = blobs
    PROVE  CallShape(e)'
<1>1. CASE InTransaction(e)
  BY <1>1 DEF CallShape, InTransaction, Tracked
<1>2. CASE ~InTransaction(e)
  BY <1>2 DEF CallShape, InTransaction
<1> QED
  BY <1>1, <1>2

\* Every step keeps the calls in shape: in particular the untracked digests a
\* transaction wrote stay untracked, and the origin's artifact ids stay free,
\* until it commits.
LEMMA ShapeStep ==
    ASSUME ArtifactTypeOK, \A c \in Callers : CallShape(c), [Next]_vars, NEW e \in Callers
    PROVE  CallShape(e)'
<1>t. op \in [Callers -> Calls] /\ NoContent \notin Digests
  BY ArtifactAssumption DEF ArtifactTypeOK, Calls, Digests
<1>o. ASSUME NEW c \in Callers, c # e, op'[e] = op[e],
             InTransaction(c) \/ ConnectionFree \/ UNCHANGED <<artifact, blobs>>
      PROVE  CallShape(e)'
  BY <1>o, OthersKeepShape DEF ArtifactTypeOK, ConnectionFree
<1>i. ASSUME BecomesIdle(e) PROVE CallShape(e)'
  BY <1>i DEF BecomesIdle, Becomes, CallShape, InTransaction
<1>s. ASSUME NEW d \in Digests, BecomesSweep(e, d) PROVE CallShape(e)'
  BY <1>s DEF BecomesSweep, Becomes, CallShape, InTransaction
<1>1. ASSUME NEW c \in Callers, NEW a \in Artifacts, NEW x \in Contents, BeginPut(c, a, x)
      PROVE  CallShape(e)'
  <2> DEFINE arts == [b \in Artifacts |-> IF b = a THEN x ELSE NoContent]
             todo == IF ShouldWrite(artifact[a], x) THEN {x} ELSE {}
  <2>1. Becomes(c, "tx", FALSE, arts, todo, {}, NoContent) /\ UNCHANGED <<artifact, blobs>>
    BY <1>1, BeginFields DEF BeginPut
  <2>2. /\ \A b \in Artifacts : arts[b] # NoContent <=> b = a
        /\ \A d \in todo : Stored(arts, d) # {}
    BY ArtifactAssumption DEF Stored
  <2> HIDE DEF arts, todo
  <2>3. CASE c = e
    BY <2>1, <2>2, <2>3 DEF Becomes, CallShape, InTransaction
  <2> QED
    BY <1>o, <2>1, <2>3 DEF Becomes
<1>2. ASSUME NEW c \in Callers, BeginIngest(c) PROVE CallShape(e)'
  <2> DEFINE todo == {ResultArtifacts[a] : a \in Artifacts} \cap Digests
  <2>1. /\ Becomes(c, "tx", TRUE, ResultArtifacts, todo, {}, NoContent)
        /\ UNCHANGED <<artifact, blobs>>
        /\ \A a \in Artifacts : ResultArtifacts[a] # NoContent => artifact[a] = NoContent
    BY <1>2, BeginFields DEF BeginIngest
  <2>2. \A d \in todo : Stored(ResultArtifacts, d) # {}
    BY DEF Stored
  <2> HIDE DEF todo
  <2>3. CASE c = e
    BY <2>1, <2>2, <2>3 DEF Becomes, CallShape, InTransaction
  <2> QED
    BY <1>o, <2>1, <2>3 DEF Becomes
<1>3. ASSUME NEW c \in Callers, NEW d \in Digests, ReuseBlob(c, d) PROVE CallShape(e)'
  <2>1. /\ Becomes(c, "tx", op[c].ingest, op[c].arts, op[c].todo \ {d}, op[c].undo, NoContent)
        /\ UNCHANGED <<artifact, blobs>> /\ InTransaction(c)
    BY <1>3, BlobFields DEF ReuseBlob, InTransaction
  <2>3. CASE c = e
    BY <2>1, <2>3 DEF Becomes, CallShape, InTransaction, Tracked
  <2> QED
    BY <1>o, <2>1, <2>3 DEF Becomes
<1>4. ASSUME NEW c \in Callers, NEW d \in Digests, CreateBlob(c, d) PROVE CallShape(e)'
  <2>1. /\ Becomes(c, "writing", op[c].ingest, op[c].arts, op[c].todo, op[c].undo, d)
        /\ UNCHANGED <<artifact, blobs>> /\ InTransaction(c) /\ d \in op[c].todo
    BY <1>4, BlobFields DEF CreateBlob, InTransaction
  <2>3. CASE c = e
    BY <2>1, <2>3 DEF Becomes, CallShape, InTransaction, Tracked
  <2> QED
    BY <1>o, <2>1, <2>3 DEF Becomes
<1>5. ASSUME NEW c \in Callers, FinishBlob(c) PROVE CallShape(e)'
  <2> DEFINE d == op[c].digest
             undo == IF Tracked(d) THEN op[c].undo ELSE op[c].undo \cup {d}
  <2>1. /\ Becomes(c, "tx", op[c].ingest, op[c].arts, op[c].todo \ {d}, undo, NoContent)
        /\ UNCHANGED <<artifact, blobs>> /\ InTransaction(c) /\ d \in op[c].todo
    BY <1>5, BlobFields DEF FinishBlob, InTransaction, CallShape
  <2>2. Stored(op[c].arts, d) # {}
    BY <2>1 DEF CallShape
  <2> HIDE DEF d
  <2>3. CASE c = e
    BY <2>1, <2>2, <2>3 DEF Becomes, CallShape, InTransaction, Tracked
  <2> QED
    BY <1>o, <2>1, <2>3 DEF Becomes
<1>6. ASSUME NEW c \in Callers,
             FailWrite(c) \/ FailTransaction(c) \/ (\E d \in Digests : RefuseBlob(c, d))
      PROVE  CallShape(e)'
  <2>1. /\ IF op[c].undo = {} THEN BecomesIdle(c) ELSE BecomesUndo(c)
        /\ UNCHANGED <<artifact, blobs>>
    BY <1>6, AbortFields DEF FailWrite, FailTransaction, RefuseBlob
  <2>2. CASE c = e
    BY <1>i, <2>1, <2>2 DEF BecomesUndo, Becomes, CallShape, InTransaction
  <2> QED
    BY <1>o, <2>1, <2>2 DEF BecomesIdle, BecomesUndo, Becomes
<1>7. ASSUME NEW c \in Callers, NEW d, BecomesIdle(c) \/ (d \in Digests /\ BecomesSweep(c, d)),
             InTransaction(c) \/ ConnectionFree \/ UNCHANGED <<artifact, blobs>>
      PROVE  CallShape(e)'
  <2>1. CASE c = e
    BY <1>i, <1>s, <1>7, <2>1
  <2>2. CASE c # e
    BY <1>o, <1>7, <2>2 DEF BecomesIdle, BecomesSweep, Becomes
  <2> QED
    BY <2>1, <2>2
<1>8. ASSUME NEW c \in Callers, NEW a \in Artifacts, CommitPut(c, a) \/ DeleteArtifact(c, a)
      PROVE  CallShape(e)'
  <2>1. /\ BecomesIdle(c) \/ (artifact[a] \in Digests /\ BecomesSweep(c, artifact[a]))
    BY <1>8, CommitFields DEF ShouldDrop
  <2>2. InTransaction(c) \/ ConnectionFree
    BY <1>8 DEF CommitPut, DeleteArtifact, InTransaction
  <2> QED
    BY <1>7, <2>1, <2>2
<1>9. ASSUME NEW c \in Callers, CommitIngest(c) \/ SweepRow(c) \/ Cancel(c) PROVE CallShape(e)'
  <2>1. BecomesIdle(c)
    BY <1>9, CommitFields, CleanupFields
  <2>2. InTransaction(c) \/ ConnectionFree \/ UNCHANGED <<artifact, blobs>>
    BY <1>9 DEF CommitIngest, SweepRow, Cancel, InTransaction
  <2> QED
    BY <1>7, <2>1, <2>2
<1>10. ASSUME NEW c \in Callers, NEW d \in Digests, RemovePrepared(c, d) PROVE CallShape(e)'
  <2>1. /\ IF op[c].undo = {d} THEN BecomesIdle(c)
           ELSE Becomes(c, "undo", op[c].ingest, op[c].arts, op[c].todo, op[c].undo \ {d},
                        op[c].digest)
        /\ UNCHANGED <<artifact, blobs>> /\ op[c].pc = "undo"
    BY <1>10, CleanupFields DEF RemovePrepared
  <2>2. CASE c = e
    BY <1>i, <2>1, <2>2 DEF Becomes, CallShape, InTransaction
  <2> QED
    BY <1>o, <2>1, <2>2 DEF BecomesIdle, Becomes
<1>11. ASSUME NEW c \in Callers, SweepFile(c) PROVE CallShape(e)'
  <2>1. /\ Becomes(c, "sweepRow", op[c].ingest, op[c].arts, op[c].todo, op[c].undo, op[c].digest)
        /\ UNCHANGED <<artifact, blobs>> /\ op[c].pc = "sweep"
    BY <1>11, CleanupFields DEF SweepFile
  <2>2. CASE c = e
    BY <2>1, <2>2 DEF Becomes, CallShape, InTransaction
  <2> QED
    BY <1>o, <2>1, <2>2 DEF Becomes
<1>12. ASSUME Crash PROVE CallShape(e)'
  <2>1. op'[e] = Idle
    BY <1>12 DEF Crash
  <2> QED
    BY <2>1 DEF CallShape, InTransaction, Idle
<1>13. ASSUME UNCHANGED vars PROVE CallShape(e)'
  BY <1>13, OthersKeepShape DEF vars
<1> QED
  BY <1>1, <1>2, <1>3, <1>4, <1>5, <1>6, <1>8, <1>9, <1>10, <1>11, <1>12, <1>13 DEF Next
-----------------------------------------------------------------------------
(* Files about to be removed.                                                *)

\* A call that does not move neither begins to rely on a file nor to remove it.
LEMMA OthersRely ==
    ASSUME NEW b \in Callers, op'[b] = op[b], NEW d
    PROVE  (Relies(b, d)' <=> Relies(b, d)) /\ (d \in Removing(b)' <=> d \in Removing(b))
  BY RemovingFiles DEF Relies, InTransaction

\* Every step notes the overlap when a digest comes into use that another
\* call's rollback or clean-up is going to remove; a call that starts to remove a
\* file has just given up the last use of it.
LEMMA RemovalsStep ==
    ASSUME ArtifactInv, [Next]_vars, NEW e \in Callers, NEW d \in Digests, d \in Removing(e)',
           References(d)' # {} \/ \E b \in Callers : Relies(b, d)'
    PROVE  d \in overlapped'
<1>i. /\ ArtifactTypeOK /\ RefCountExact /\ \A c \in Callers : CallShape(c)
      /\ op \in [Callers -> Calls] /\ NoContent \notin Digests
      /\ artifact \in [Artifacts -> Contents \cup {NoContent}] /\ blobs \in [Digests -> Int]
  BY ArtifactAssumption DEF ArtifactInv, RefCountExact, ArtifactTypeOK, Calls, Digests
<1>x. \A b, c \in Callers : InTransaction(b) /\ InTransaction(c) => b = c
  BY <1>i DEF ArtifactTypeOK
<1>n. \A c \in Callers : d \in Removing(c) /\ (References(d) # {} \/ \E b \in Callers : Relies(b, d))
        => d \in overlapped
  BY DEF ArtifactInv, RemovalsNoted
<1>z. /\ ~Tracked(d) => References(d) = {}
      /\ (blobs'[d] <= 0) => References(d)' = {}
  <2>1. Cardinality(Stored(artifact', d)) = IF blobs'[d] >= 0 THEN blobs'[d] ELSE 0
    BY <1>i, CountStep
  <2>2. Cardinality(Stored(artifact, d)) = IF blobs[d] >= 0 THEN blobs[d] ELSE 0
    BY <1>i DEF RefCountExact, References, Tracked
  <2>3. blobs'[d] \in Int
    BY <1>i, TypeStep DEF ArtifactTypeOK
  <2> QED
    BY <1>i, <2>1, <2>2, <2>3, RowsFinite DEF References, Tracked
<1> SUFFICES ASSUME d \notin overlapped' PROVE FALSE
  OBVIOUS
<1>k. ASSUME NEW c \in Callers, d \in Removing(c), overlapped \subseteq overlapped',
             References(d)' # {} => References(d) # {} \/ \E b \in Callers : Relies(b, d),
             \A b \in Callers : Relies(b, d)' => References(d) # {} \/ Relies(b, d)
      PROVE  FALSE
  BY <1>k, <1>n
<1>f. ASSUME References(d)' = {}, \A b \in Callers : ~InTransaction(b)' PROVE FALSE
  BY <1>f DEF Relies
<1>m. ASSUME NEW c \in Callers, \A b \in Callers : b # c => op'[b] = op[b]
      PROVE  \A b \in Callers : b # c => (Relies(b, d)' <=> Relies(b, d))
                                         /\ (d \in Removing(b)' <=> d \in Removing(b))
  BY <1>m, OthersRely
<1>1. ASSUME NEW c \in Callers, NEW a \in Artifacts, NEW x \in Contents, BeginPut(c, a, x)
      PROVE  FALSE
  <2> DEFINE arts == [b \in Artifacts |-> IF b = a THEN x ELSE NoContent]
             todo == IF ShouldWrite(artifact[a], x) THEN {x} ELSE {}
  <2>1. Becomes(c, "tx", FALSE, arts, todo, {}, NoContent) /\ UNCHANGED <<artifact, overlapped>>
    <3>1. ArtifactTypeOK
      BY <1>i
    <3> QED
      BY <1>1, <3>1, BeginFields DEF BeginPut
  <2>2. d \in todo \/ Stored(arts, d) = {} \/ References(d) # {}
    BY <1>i DEF Stored, References, ShouldWrite
  <2> HIDE DEF arts, todo
  <2>3. Relies(c, d)' => References(d) # {}
    BY <2>1, <2>2 DEF Relies, Becomes
  <2>4. d \notin Removing(c)'
    BY <2>1, RemovingFiles DEF Becomes
  <2> QED
    BY <1>k, <1>m, <2>1, <2>3, <2>4 DEF Becomes, References
<1>2. ASSUME NEW c \in Callers, BeginIngest(c) PROVE FALSE
  <2> DEFINE todo == {ResultArtifacts[a] : a \in Artifacts} \cap Digests
  <2>1. /\ Becomes(c, "tx", TRUE, ResultArtifacts, todo, {}, NoContent)
        /\ UNCHANGED <<artifact, overlapped>>
    BY <1>2, <1>i, BeginFields DEF BeginIngest
  <2>2. d \in todo \/ Stored(ResultArtifacts, d) = {}
    BY DEF Stored
  <2> HIDE DEF todo
  <2>3. ~Relies(c, d)'
    BY <2>1, <2>2 DEF Relies, Becomes
  <2>4. d \notin Removing(c)'
    BY <2>1, RemovingFiles DEF Becomes
  <2> QED
    BY <1>k, <1>m, <2>1, <2>3, <2>4 DEF Becomes, References
<1>3. ASSUME NEW c \in Callers, NEW x \in Digests, ReuseBlob(c, x) \/ CreateBlob(c, x) PROVE FALSE
  <2>1. /\ \/ Becomes(c, "tx", op[c].ingest, op[c].arts, op[c].todo \ {x}, op[c].undo, NoContent)
           \/ Becomes(c, "writing", op[c].ingest, op[c].arts, op[c].todo, op[c].undo, x)
        /\ op[c].pc = "tx" /\ artifact' = artifact /\ NoteOverlap(c, x)
    BY <1>3, <1>i, BlobFields DEF ReuseBlob, CreateBlob
  <2>2. overlapped \subseteq overlapped'
    BY <2>1 DEF NoteOverlap
  <2>3. d \notin Removing(c)'
    BY <2>1, RemovingFiles DEF Becomes
  <2>4. e # c /\ d \in Removing(e)
    BY <1>m, <2>1, <2>3 DEF Becomes
  <2>5. d # x
    BY <2>1, <2>4 DEF NoteOverlap
  <2>6. Relies(c, d)' => Relies(c, d)
    BY <2>1, <2>5 DEF Relies, Becomes, InTransaction
  <2> QED
    BY <1>k, <1>m, <2>1, <2>2, <2>4, <2>6 DEF Becomes, References
<1>4. ASSUME NEW c \in Callers, FinishBlob(c) PROVE FALSE
  <2> DEFINE x == op[c].digest
             undo == IF Tracked(x) THEN op[c].undo ELSE op[c].undo \cup {x}
  <2>1. /\ Becomes(c, "tx", op[c].ingest, op[c].arts, op[c].todo \ {x}, undo, NoContent)
        /\ UNCHANGED <<artifact, overlapped>> /\ op[c].pc = "writing"
    BY <1>4, <1>i, BlobFields DEF FinishBlob
  <2> HIDE DEF undo
  <2>2. d \notin Removing(c)'
    BY <2>1, RemovingFiles DEF Becomes
  <2>3. Relies(c, d)' => Relies(c, d)
    BY <2>1 DEF Relies, Becomes, InTransaction
  <2> QED
    BY <1>k, <1>m, <2>1, <2>2, <2>3 DEF Becomes, References
<1>5. ASSUME NEW c \in Callers,
             FailWrite(c) \/ FailTransaction(c) \/ (\E x \in Digests : RefuseBlob(c, x))
      PROVE  FALSE
  <2>1. /\ IF op[c].undo = {} THEN BecomesIdle(c) ELSE BecomesUndo(c)
        /\ UNCHANGED <<artifact, overlapped>> /\ InTransaction(c)
    BY <1>5, <1>i, AbortFields DEF FailWrite, FailTransaction, RefuseBlob, InTransaction
  <2>2. /\ op'[c].pc \in {"idle", "undo"} /\ (d \in Removing(c)' => d \in op[c].undo)
        /\ \A b \in Callers : b # c => op'[b] = op[b]
    BY <2>1, RemovingFiles DEF BecomesIdle, BecomesUndo, Becomes
  <2>3. \A b \in Callers : ~InTransaction(b)'
    BY <1>x, <2>1, <2>2 DEF InTransaction
  <2>4. CASE e = c
    <3>1. ~Tracked(d)
      BY <1>i, <2>1, <2>2, <2>4 DEF CallShape
    <3> QED
      BY <1>f, <1>z, <2>1, <2>3, <3>1 DEF References
  <2>5. CASE e # c
    BY <1>k, <1>m, <2>1, <2>2, <2>3, <2>5 DEF References, Relies
  <2> QED
    BY <2>4, <2>5
<1>6. ASSUME NEW c \in Callers, NEW a \in Artifacts, CommitPut(c, a) PROVE FALSE
  <2> DEFINE old == artifact[a]
             new == op[c].arts[a]
  <2>1. /\ IF ShouldDrop(old, new) /\ LastReference(old)
           THEN BecomesSweep(c, old) ELSE BecomesIdle(c)
        /\ artifact' = [artifact EXCEPT ![a] = new] /\ overlapped' = overlapped
        /\ op[c].pc = "tx" /\ op[c].todo = {}
    BY <1>6, <1>i, CommitFields DEF CommitPut
  <2>2. /\ op'[c].pc \in {"idle", "sweep"}
        /\ d \in Removing(c)' => d = old /\ ShouldDrop(old, new) /\ LastReference(old)
        /\ \A b \in Callers : b # c => op'[b] = op[b]
    BY <2>1, RemovingFiles DEF BecomesIdle, BecomesSweep, Becomes
  <2>3. \A b \in Callers : ~InTransaction(b)'
    BY <1>x, <2>1, <2>2 DEF InTransaction
  <2>4. CASE e = c
    <3>1. blobs'[d] = Decremented(d) /\ LastReference(d)
      BY <1>6, <2>2, <2>4 DEF CommitPut, LastReference
    <3>2. blobs'[d] <= 0
      BY <1>i, <3>1 DEF LastReference, Decremented
    <3> QED
      BY <1>f, <1>z, <2>3, <3>2
  <2>5. CASE e # c
    <3>1. References(d)' # {} => References(d) # {} \/ d = new
      BY <1>i, <2>1 DEF References, Stored
    <3>2. d = new => Relies(c, d)
      BY <2>1 DEF Relies, InTransaction, Stored
    <3> QED
      BY <1>k, <1>m, <2>1, <2>2, <2>3, <2>5, <3>1, <3>2 DEF Relies
  <2> QED
    BY <2>4, <2>5
<1>7. ASSUME NEW c \in Callers, CommitIngest(c) PROVE FALSE
  <2>1. BecomesIdle(c) /\ overlapped' = overlapped /\ op[c].pc = "tx" /\ op[c].todo = {}
    BY <1>7, <1>i, CommitFields DEF CommitIngest
  <2>2. /\ op'[c].pc = "idle" /\ d \notin Removing(c)'
        /\ \A b \in Callers : b # c => op'[b] = op[b]
    BY <2>1, RemovingFiles DEF BecomesIdle, Becomes
  <2>3. \A b \in Callers : ~InTransaction(b)'
    BY <1>x, <2>1, <2>2 DEF InTransaction
  <2>4. References(d)' # {} => References(d) # {} \/ Stored(ResultArtifacts, d) # {}
    BY <1>7 DEF References, Stored, CommitIngest
  <2>5. Stored(ResultArtifacts, d) # {} => Relies(c, d)
    BY <1>7, <1>i, <2>1 DEF Relies, InTransaction, CallShape, CommitIngest
  <2> QED
    BY <1>k, <1>m, <2>1, <2>2, <2>3, <2>4, <2>5 DEF Relies
<1>8. ASSUME NEW c \in Callers, NEW a \in Artifacts, DeleteArtifact(c, a) PROVE FALSE
  <2> DEFINE old == artifact[a]
  <2>1. /\ IF old \in Digests /\ LastReference(old) THEN BecomesSweep(c, old) ELSE BecomesIdle(c)
        /\ artifact' = [artifact EXCEPT ![a] = NoContent] /\ overlapped' = overlapped
        /\ ConnectionFree
    BY <1>8, <1>i, CommitFields DEF DeleteArtifact
  <2>2. /\ op'[c].pc \in {"idle", "sweep"}
        /\ d \in Removing(c)' => d = old /\ LastReference(old)
        /\ \A b \in Callers : b # c => op'[b] = op[b]
    BY <2>1, RemovingFiles DEF BecomesIdle, BecomesSweep, Becomes
  <2>3. \A b \in Callers : ~InTransaction(b)'
    BY <2>1, <2>2 DEF InTransaction, ConnectionFree
  <2>4. CASE e = c
    <3>1. blobs'[d] = Decremented(d) /\ LastReference(d)
      BY <1>8, <1>i, <2>2, <2>4 DEF DeleteArtifact, LastReference
    <3>2. blobs'[d] <= 0
      BY <1>i, <3>1 DEF LastReference, Decremented
    <3> QED
      BY <1>f, <1>z, <2>3, <3>2
  <2>5. CASE e # c
    <3>1. References(d)' # {} => References(d) # {}
      BY <1>i, <2>1 DEF References, Stored
    <3> QED
      BY <1>k, <1>m, <2>1, <2>2, <2>3, <2>5, <3>1 DEF Relies
  <2> QED
    BY <2>4, <2>5
<1>9. ASSUME NEW c \in Callers, NEW x \in Digests, RemovePrepared(c, x) PROVE FALSE
  <2>1. /\ IF op[c].undo = {x} THEN BecomesIdle(c)
           ELSE Becomes(c, "undo", op[c].ingest, op[c].arts, op[c].todo, op[c].undo \ {x},
                        op[c].digest)
        /\ UNCHANGED <<artifact, overlapped>> /\ op[c].pc = "undo"
    BY <1>9, <1>i, CleanupFields DEF RemovePrepared
  <2>2. /\ \A b \in Callers : b # c => op'[b] = op[b]
        /\ op'[c].pc \in {"idle", "undo"}
        /\ op'[c].pc = "undo" /\ d \in op'[c].undo => d \in op[c].undo
    BY <2>1 DEF BecomesIdle, Becomes
  <2>3. ~Relies(c, d)' /\ (d \in Removing(c)' => d \in Removing(c))
    BY <2>1, <2>2, RemovingFiles DEF Relies, InTransaction
  <2> QED
    BY <1>k, <1>m, <2>1, <2>2, <2>3 DEF References
<1>10. ASSUME NEW c \in Callers, SweepFile(c) \/ SweepRow(c) \/ Cancel(c) PROVE FALSE
  <2>1. /\ op'[c].pc \in {"idle", "sweepRow"} /\ UNCHANGED <<artifact, overlapped>>
        /\ \A b \in Callers : b # c => op'[b] = op[b]
    BY <1>10, <1>i, CleanupFields DEF SweepFile, SweepRow, Cancel, BecomesIdle, Becomes
  <2>2. ~Relies(c, d)' /\ d \notin Removing(c)'
    BY <2>1, RemovingFiles DEF Relies, InTransaction
  <2> QED
    BY <1>k, <1>m, <2>1, <2>2 DEF References
<1>11. ASSUME Crash PROVE FALSE
  <2>1. op'[e].pc = "idle"
    BY <1>11 DEF Crash, Idle
  <2> QED
    BY <2>1, RemovingFiles
<1>12. ASSUME UNCHANGED vars PROVE FALSE
  BY <1>12, <1>k, OthersRely DEF vars, References
<1> QED
  BY <1>1, <1>2, <1>3, <1>4, <1>5, <1>6, <1>7, <1>8, <1>9, <1>10, <1>11, <1>12 DEF Next
-----------------------------------------------------------------------------
(* Files that are relied on.                                                 *)

\* Every step keeps the files in place that rows and open transactions rely on,
\* but for noted overlaps.
LEMMA FilesStep ==
    ASSUME ArtifactInv, [Next]_vars, NEW d \in Digests, d \notin overlapped'
    PROVE  /\ References(d)' # {} => file'[d] = "whole"
           /\ \A b \in Callers : Relies(b, d)' =>
                file'[d] = IF op'[b].pc = "writing" /\ op'[b].digest = d THEN "torn" ELSE "whole"
<1> DEFINE Found == file'[d] = "whole"
           Held(b) == file'[d] = IF op'[b].pc = "writing" /\ op'[b].digest = d THEN "torn" ELSE "whole"
           Goal == (References(d)' # {} => Found) /\ \A b \in Callers : Relies(b, d)' => Held(b)
<1> SUFFICES Goal
  OBVIOUS
<1>y. ArtifactTypeOK /\ \A c \in Callers : CallShape(c)
  BY DEF ArtifactInv, RefCountExact
<1>t. /\ op \in [Callers -> Calls] /\ NoContent \notin Digests /\ file \in [Digests -> Files]
      /\ artifact \in [Artifacts -> Contents \cup {NoContent}]
  BY <1>y, ArtifactAssumption DEF ArtifactTypeOK, Calls, Digests
<1>x. \A b, c \in Callers : InTransaction(b) /\ InTransaction(c) => b = c
  BY <1>y DEF ArtifactTypeOK
<1>n. ASSUME d \notin overlapped
      PROVE  /\ References(d) # {} => file[d] = "whole"
             /\ \A b \in Callers : Relies(b, d) =>
                  file[d] = IF op[b].pc = "writing" /\ op[b].digest = d THEN "torn" ELSE "whole"
             /\ \A c \in Callers : d \in Removing(c) =>
                  References(d) = {} /\ \A b \in Callers : ~Relies(b, d)
  BY <1>n DEF ArtifactInv, FilesInPlace, RemovalsNoted
<1>k. ASSUME NEW c \in Callers, d \notin overlapped, file'[d] = file[d],
             \A b \in Callers : b # c => op'[b] = op[b],
             References(d)' # {} => References(d) # {} \/ file'[d] = "whole",
             Relies(c, d)' => Held(c)
      PROVE  Goal
  <2>1. \A b \in Callers : b # c => (Relies(b, d)' <=> Relies(b, d))
    BY <1>k, OthersRely
  <2> QED
    BY <1>k, <1>n, <2>1
<1>f. ASSUME NEW c \in Callers, InTransaction(c) \/ ConnectionFree, op'[c].pc \notin {"tx", "writing"},
             \A b \in Callers : b # c => op'[b] = op[b], References(d)' # {} => file'[d] = "whole"
      PROVE  Goal
  BY <1>f, <1>x DEF Relies, InTransaction, ConnectionFree
<1>1. ASSUME NEW c \in Callers, NEW a \in Artifacts, NEW x \in Contents, BeginPut(c, a, x)
      PROVE  Goal
  <2> DEFINE arts == [b \in Artifacts |-> IF b = a THEN x ELSE NoContent]
             todo == IF ShouldWrite(artifact[a], x) THEN {x} ELSE {}
  <2>1. /\ Becomes(c, "tx", FALSE, arts, todo, {}, NoContent)
        /\ UNCHANGED <<artifact, file, overlapped>>
    BY <1>1, <1>y, BeginFields DEF BeginPut
  <2>2. d \in todo \/ Stored(arts, d) = {} \/ References(d) # {}
    BY <1>t DEF Stored, References, ShouldWrite
  <2> HIDE DEF arts, todo
  <2>3. Relies(c, d)' => References(d) # {}
    BY <2>1, <2>2 DEF Relies, Becomes
  <2>4. Relies(c, d)' => Held(c)
    BY <1>n, <2>1, <2>3 DEF Becomes
  <2> QED
    BY <1>k, <2>1, <2>4 DEF Becomes, References
<1>2. ASSUME NEW c \in Callers, BeginIngest(c) PROVE Goal
  <2> DEFINE todo == {ResultArtifacts[a] : a \in Artifacts} \cap Digests
  <2>1. /\ Becomes(c, "tx", TRUE, ResultArtifacts, todo, {}, NoContent)
        /\ UNCHANGED <<artifact, file, overlapped>>
    BY <1>2, <1>y, BeginFields DEF BeginIngest
  <2>2. d \in todo \/ Stored(ResultArtifacts, d) = {}
    BY DEF Stored
  <2> HIDE DEF todo
  <2>3. ~Relies(c, d)'
    BY <2>1, <2>2 DEF Relies, Becomes
  <2> QED
    BY <1>k, <2>1, <2>3 DEF Becomes, References
<1>3. ASSUME NEW c \in Callers, NEW x \in Digests, ReuseBlob(c, x) PROVE Goal
  <2>1. /\ Becomes(c, "tx", op[c].ingest, op[c].arts, op[c].todo \ {x}, op[c].undo, NoContent)
        /\ op[c].pc = "tx" /\ UNCHANGED <<artifact, file>> /\ file[x] = "whole"
        /\ d \notin overlapped
    BY <1>3, <1>y, BlobFields DEF ReuseBlob, Usable, NoteOverlap
  <2>2. Relies(c, d)' => Relies(c, d) \/ d = x
    BY <2>1 DEF Relies, Becomes, InTransaction
  <2>3. Relies(c, d)' => Held(c)
    BY <1>n, <2>1, <2>2 DEF Becomes
  <2> QED
    BY <1>k, <2>1, <2>3 DEF Becomes, References
<1>4. ASSUME NEW c \in Callers, NEW x \in Digests, CreateBlob(c, x) PROVE Goal
  <2>1. /\ Becomes(c, "writing", op[c].ingest, op[c].arts, op[c].todo, op[c].undo, x)
        /\ op[c].pc = "tx" /\ artifact' = artifact /\ file[x] = "absent"
        /\ file' = [file EXCEPT ![x] = "torn"] /\ d \notin overlapped
    BY <1>4, <1>y, BlobFields DEF CreateBlob, NoteOverlap
  <2>2. CASE d # x
    <3>1. Relies(c, d)' => Relies(c, d)
      BY <2>1, <2>2 DEF Relies, Becomes, InTransaction
    <3>2. Relies(c, d)' => Held(c)
      BY <1>n, <1>t, <2>1, <2>2, <3>1 DEF Becomes
    <3> QED
      BY <1>k, <1>t, <2>1, <2>2, <3>2 DEF Becomes, References
  <2>3. CASE d = x
    <3>1. References(d)' = {}
      BY <1>n, <2>1, <2>3 DEF References
    <3>2. \A b \in Callers : Relies(b, d)' => b = c
      BY <1>x, <2>1 DEF Relies, InTransaction, Becomes
    <3>3. Held(c)
      BY <1>t, <2>1, <2>3 DEF Becomes
    <3> QED
      BY <3>1, <3>2, <3>3
  <2> QED
    BY <2>2, <2>3
<1>5. ASSUME NEW c \in Callers, FinishBlob(c) PROVE Goal
  <2> DEFINE x == op[c].digest
             undo == IF Tracked(x) THEN op[c].undo ELSE op[c].undo \cup {x}
  <2>1. /\ Becomes(c, "tx", op[c].ingest, op[c].arts, op[c].todo \ {x}, undo, NoContent)
        /\ UNCHANGED <<artifact, overlapped>> /\ op[c].pc = "writing"
        /\ file'[d] = IF d = x /\ file[d] = "torn" THEN "whole" ELSE file[d]
    <3>1. Becomes(c, "tx", op[c].ingest, op[c].arts, op[c].todo \ {x}, undo, NoContent)
      BY <1>5, <1>y, BlobFields
    <3> QED
      BY <1>5, <1>t, <3>1 DEF FinishBlob
  <2> HIDE DEF undo
  <2>2. Relies(c, d)' => Relies(c, d)
    BY <2>1 DEF Relies, Becomes, InTransaction
  <2>3. Relies(c, d)' => Held(c)
    BY <1>n, <2>1, <2>2 DEF Becomes
  <2>4. References(d)' # {} => file'[d] = "whole"
    BY <1>n, <2>1 DEF References
  <2>5. \A b \in Callers : Relies(b, d)' => b = c
    BY <1>x, <2>1 DEF Relies, InTransaction, Becomes
  <2> QED
    BY <2>3, <2>4, <2>5
<1>6. ASSUME NEW c \in Callers,
             FailWrite(c) \/ FailTransaction(c) \/ (\E x \in Digests : RefuseBlob(c, x))
      PROVE  Goal
  <2>1. /\ IF op[c].undo = {} THEN BecomesIdle(c) ELSE BecomesUndo(c)
        /\ UNCHANGED <<artifact, file, overlapped>> /\ InTransaction(c)
    BY <1>6, <1>y, AbortFields DEF FailWrite, FailTransaction, RefuseBlob, InTransaction
  <2>2. op'[c].pc \notin {"tx", "writing"} /\ \A b \in Callers : b # c => op'[b] = op[b]
    BY <2>1 DEF BecomesIdle, BecomesUndo, Becomes
  <2> QED
    BY <1>f, <1>n, <2>1, <2>2 DEF References
<1>7. ASSUME NEW c \in Callers, NEW a \in Artifacts, CommitPut(c, a) PROVE Goal
  <2> DEFINE new == op[c].arts[a]
  <2>1. /\ \/ BecomesSweep(c, artifact[a]) \/ BecomesIdle(c)
        /\ artifact' = [artifact EXCEPT ![a] = new] /\ UNCHANGED <<overlapped, file>>
        /\ op[c].pc = "tx" /\ op[c].todo = {}
    BY <1>7, <1>y, CommitFields DEF CommitPut
  <2>2. op'[c].pc \notin {"tx", "writing"} /\ \A b \in Callers : b # c => op'[b] = op[b]
    BY <2>1 DEF BecomesIdle, BecomesSweep, Becomes
  <2>3. References(d)' # {} => References(d) # {} \/ d = new
    BY <1>t, <2>1 DEF References, Stored
  <2>4. d = new => Relies(c, d)
    BY <2>1 DEF Relies, InTransaction, Stored
  <2> QED
    BY <1>f, <1>n, <2>1, <2>2, <2>3, <2>4 DEF InTransaction
<1>8. ASSUME NEW c \in Callers, CommitIngest(c) PROVE Goal
  <2>1. /\ BecomesIdle(c) /\ UNCHANGED <<overlapped, file>> /\ op[c].pc = "tx" /\ op[c].todo = {}
    BY <1>8, <1>y, CommitFields DEF CommitIngest
  <2>2. op'[c].pc \notin {"tx", "writing"} /\ \A b \in Callers : b # c => op'[b] = op[b]
    BY <2>1 DEF BecomesIdle, Becomes
  <2>3. References(d)' # {} => References(d) # {} \/ Stored(ResultArtifacts, d) # {}
    BY <1>8 DEF References, Stored, CommitIngest
  <2>4. Stored(ResultArtifacts, d) # {} => Relies(c, d)
    BY <1>8, <1>y, <2>1 DEF Relies, InTransaction, CallShape, CommitIngest
  <2> QED
    BY <1>f, <1>n, <2>1, <2>2, <2>3, <2>4 DEF InTransaction
<1>9. ASSUME NEW c \in Callers, NEW a \in Artifacts, DeleteArtifact(c, a) PROVE Goal
  <2>1. /\ \/ BecomesSweep(c, artifact[a]) \/ BecomesIdle(c)
        /\ artifact' = [artifact EXCEPT ![a] = NoContent] /\ UNCHANGED <<overlapped, file>>
        /\ ConnectionFree
    BY <1>9, <1>y, CommitFields DEF DeleteArtifact
  <2>2. op'[c].pc \notin {"tx", "writing"} /\ \A b \in Callers : b # c => op'[b] = op[b]
    BY <2>1 DEF BecomesIdle, BecomesSweep, Becomes
  <2>3. References(d)' # {} => References(d) # {}
    BY <1>t, <2>1 DEF References, Stored
  <2> QED
    BY <1>f, <1>n, <2>1, <2>2, <2>3
<1>10. ASSUME NEW c \in Callers, NEW x \in Digests, x \in Removing(c), op'[c].pc \notin {"tx", "writing"},
              file' = [file EXCEPT ![x] = "absent"], UNCHANGED <<artifact, overlapped>>,
              \A b \in Callers : b # c => op'[b] = op[b]
       PROVE  Goal
  <2>1. ~Relies(c, d)'
    BY <1>10 DEF Relies, InTransaction
  <2>2. CASE d # x
    BY <1>10, <1>k, <1>t, <2>1, <2>2 DEF References
  <2>3. CASE d = x
    <3>1. \A b \in Callers : b # c => (Relies(b, d)' <=> Relies(b, d))
      BY <1>10, OthersRely
    <3> QED
      BY <1>10, <1>n, <2>1, <2>3, <3>1 DEF References
  <2> QED
    BY <2>2, <2>3
<1>11. ASSUME NEW c \in Callers, NEW x \in Digests, RemovePrepared(c, x) PROVE Goal
  <2>1. op'[c].pc \notin {"tx", "writing"} /\ \A b \in Callers : b # c => op'[b] = op[b]
    BY <1>11, <1>y, CleanupFields DEF BecomesIdle, Becomes
  <2>2. x \in Removing(c)
    BY <1>11, RemovingFiles DEF RemovePrepared
  <2> QED
    BY <1>10, <1>11, <2>1, <2>2 DEF RemovePrepared
<1>12. ASSUME NEW c \in Callers, SweepFile(c) PROVE Goal
  <2>1. op'[c].pc \notin {"tx", "writing"} /\ \A b \in Callers : b # c => op'[b] = op[b]
    BY <1>12, <1>y, CleanupFields DEF Becomes
  <2>2. op[c].digest \in Removing(c) /\ op[c].digest \in Digests
    BY <1>12, <1>y, RemovingFiles DEF SweepFile, CallShape
  <2> QED
    BY <1>10, <1>12, <2>1, <2>2 DEF SweepFile
<1>13. ASSUME NEW c \in Callers, SweepRow(c) \/ Cancel(c) PROVE Goal
  <2>1. BecomesIdle(c) /\ UNCHANGED <<artifact, file, overlapped>>
    BY <1>13, <1>y, CleanupFields DEF SweepRow, Cancel
  <2>2. ~Relies(c, d)'
    BY <2>1 DEF Relies, InTransaction, BecomesIdle, Becomes
  <2> QED
    BY <1>k, <2>1, <2>2 DEF BecomesIdle, Becomes, References
<1>14. ASSUME Crash PROVE Goal
  <2>1. \A b \in Callers : op'[b].pc = "idle"
    BY <1>14 DEF Crash, Idle
  <2> QED
    BY <1>14, <1>n, <2>1 DEF Crash, References, Relies, InTransaction
<1>15. ASSUME UNCHANGED vars PROVE Goal
  BY <1>15, <1>n, OthersRely DEF vars, References
<1> HIDE DEF Goal
<1> QED
  BY <1>1, <1>2, <1>3, <1>4, <1>5, <1>6, <1>7, <1>8, <1>9, <1>11, <1>12, <1>13, <1>14, <1>15 DEF Next
-----------------------------------------------------------------------------
(* What is left over.                                                        *)

\* Every step keeps what is unused on the list of a call that will remove it, or
\* notes that the call was interrupted.
LEMMA LeftoversStep ==
    ASSUME ArtifactInv, [Next]_vars, NEW d \in Digests, d \notin interrupted'
    PROVE  /\ Tracked(d)' /\ References(d)' = {} =>
                \E c \in Callers : op'[c].pc \in {"sweep", "sweepRow"} /\ op'[c].digest = d
           /\ file'[d] # "absent" /\ ~Tracked(d)' =>
                \E c \in Callers : \/ d \in op'[c].undo
                                   \/ op'[c].pc = "writing" /\ op'[c].digest = d
           /\ file'[d] = "torn" =>
                \E c \in Callers : op'[c].pc = "writing" /\ op'[c].digest = d
           /\ \A c \in Callers : op'[c].pc = "sweepRow" /\ op'[c].digest = d => file'[d] = "absent"
<1> DEFINE Sweeps(r) == r.pc \in {"sweep", "sweepRow"} /\ r.digest = d
           Writes(r) == r.pc = "writing" /\ r.digest = d
           Wrote(r) == d \in r.undo \/ Writes(r)
           SweepsRow(r) == r.pc = "sweepRow" /\ r.digest = d
           Unused == Tracked(d) /\ References(d) = {}
           Loose == file[d] # "absent" /\ ~Tracked(d)
           Goal == /\ Unused' => \E c \in Callers : Sweeps(op'[c])
                   /\ Loose' => \E c \in Callers : Wrote(op'[c])
                   /\ file'[d] = "torn" => \E c \in Callers : Writes(op'[c])
                   /\ \A c \in Callers : SweepsRow(op'[c]) => file'[d] = "absent"
<1> SUFFICES Goal
  OBVIOUS
<1>y. ArtifactTypeOK /\ RefCountExact /\ \A c \in Callers : CallShape(c)
  BY DEF ArtifactInv, RefCountExact
<1>t. /\ op \in [Callers -> Calls] /\ NoContent \notin Digests /\ file \in [Digests -> Files]
      /\ artifact \in [Artifacts -> Contents \cup {NoContent}] /\ blobs \in [Digests -> Int]
  BY <1>y, ArtifactAssumption DEF ArtifactTypeOK, Calls, Digests
<1>n. ASSUME d \notin interrupted
      PROVE  /\ Unused => \E c \in Callers : Sweeps(op[c])
             /\ Loose => \E c \in Callers : Wrote(op[c])
             /\ file[d] = "torn" => \E c \in Callers : Writes(op[c])
             /\ \A c \in Callers : SweepsRow(op[c]) => file[d] = "absent"
  BY <1>n DEF ArtifactInv, LeftoversListed
<1>z. Cardinality(References(d)) = IF blobs[d] >= 0 THEN blobs[d] ELSE 0
  BY <1>y DEF RefCountExact, Tracked
<1>b. blobs[d] \in Int
  BY <1>t
<1>r. References(d) # {} => blobs[d] >= 1
  BY <1>t, <1>z, RowsFinite DEF References
<1> HIDE DEF Sweeps, Writes, Wrote, SweepsRow, Unused, Loose
<1>k. ASSUME NEW c \in Callers, \A b \in Callers : b # c => op'[b] = op[b], d \notin interrupted,
             Unused' => (Unused /\ ~Sweeps(op[c])) \/ Sweeps(op'[c]),
             Loose' => (Loose /\ ~Wrote(op[c])) \/ Wrote(op'[c]),
             file'[d] = "torn" => (file[d] = "torn" /\ ~Writes(op[c])) \/ Writes(op'[c]),
             \A b \in Callers : b # c /\ SweepsRow(op[b]) => file'[d] = "absent",
             SweepsRow(op'[c]) => file'[d] = "absent"
      PROVE  Goal
  <2>1. Unused' => \E b \in Callers : Sweeps(op'[b])
    BY <1>k, <1>n
  <2>2. Loose' => \E b \in Callers : Wrote(op'[b])
    BY <1>k, <1>n
  <2>3. file'[d] = "torn" => \E b \in Callers : Writes(op'[b])
    BY <1>k, <1>n
  <2>4. \A b \in Callers : SweepsRow(op'[b]) => file'[d] = "absent"
    BY <1>k, <1>n
  <2> QED
    BY <2>1, <2>2, <2>3, <2>4
<1> HIDE DEF Goal
<1>u. ASSUME UNCHANGED <<artifact, blobs>>
      PROVE  /\ Unused' <=> Unused
             /\ file'[d] = file[d] => (Loose' <=> Loose)
  BY <1>u DEF Unused, Loose, Tracked, References
<1>1. ASSUME NEW c \in Callers, op[c].pc \in {"idle", "tx"},
             op'[c].pc \in {"idle", "tx", "undo"}, op[c].undo \subseteq op'[c].undo,
             \A b \in Callers : b # c => op'[b] = op[b],
             UNCHANGED <<artifact, blobs, file, interrupted>>
      PROVE  Goal
  <2>1. ~Sweeps(op[c]) /\ ~Writes(op[c]) /\ ~SweepsRow(op'[c])
    BY <1>1 DEF Sweeps, Writes, SweepsRow
  <2>2. Wrote(op[c]) => Wrote(op'[c])
    BY <1>1, <2>1 DEF Wrote
  <2> QED
    BY <1>1, <1>k, <1>n, <1>u, <2>1, <2>2
<1>2. ASSUME NEW c \in Callers, NEW a \in Artifacts, NEW x \in Contents, BeginPut(c, a, x)
      PROVE  Goal
  <2>1. op[c].pc = "idle" /\ op[c].undo = {} /\ UNCHANGED <<artifact, blobs, file, interrupted>>
    BY <1>2 DEF BeginPut, Idle
  <2>2. op'[c].pc = "tx" /\ \A b \in Callers : b # c => op'[b] = op[b]
    BY <1>2, <1>y, BeginFields DEF Becomes
  <2> QED
    BY <1>1, <2>1, <2>2
<1>3. ASSUME NEW c \in Callers, BeginIngest(c) PROVE Goal
  <2>1. op[c].pc = "idle" /\ op[c].undo = {} /\ UNCHANGED <<artifact, blobs, file, interrupted>>
    BY <1>3 DEF BeginIngest, Idle
  <2>2. op'[c].pc = "tx" /\ \A b \in Callers : b # c => op'[b] = op[b]
    BY <1>3, <1>y, BeginFields DEF Becomes
  <2> QED
    BY <1>1, <2>1, <2>2
<1>4. ASSUME NEW c \in Callers, NEW x \in Digests, ReuseBlob(c, x) PROVE Goal
  <2>1. op[c].pc = "tx" /\ UNCHANGED <<artifact, blobs, file, interrupted>>
    BY <1>4 DEF ReuseBlob
  <2>2. /\ op'[c].pc = "tx" /\ op'[c].undo = op[c].undo
        /\ \A b \in Callers : b # c => op'[b] = op[b]
    BY <1>4, <1>y, BlobFields DEF Becomes
  <2> QED
    BY <1>1, <2>1, <2>2
<1>5. ASSUME NEW c \in Callers, FailTransaction(c) \/ \E x \in Digests : RefuseBlob(c, x) PROVE Goal
  <2>1. op[c].pc = "tx" /\ UNCHANGED <<artifact, blobs, file, interrupted>>
    BY <1>5 DEF FailTransaction, RefuseBlob
  <2>2. IF op[c].undo = {} THEN BecomesIdle(c) ELSE BecomesUndo(c)
    BY <1>5, <1>y, AbortFields
  <2>3. /\ op'[c].pc \in {"idle", "undo"} /\ op'[c].undo = op[c].undo
        /\ \A b \in Callers : b # c => op'[b] = op[b]
    BY <2>2 DEF BecomesIdle, BecomesUndo, Becomes
  <2> QED
    BY <1>1, <2>1, <2>3
<1>6. ASSUME NEW c \in Callers, FailWrite(c) PROVE Goal
  <2>1. /\ op[c].pc = "writing" /\ UNCHANGED <<artifact, blobs, file>>
        /\ d # op[c].digest /\ d \notin interrupted
    BY <1>6 DEF FailWrite
  <2>2. IF op[c].undo = {} THEN BecomesIdle(c) ELSE BecomesUndo(c)
    BY <1>6, <1>y, AbortFields
  <2>3. /\ op'[c].pc \in {"idle", "undo"} /\ op'[c].undo = op[c].undo
        /\ \A b \in Callers : b # c => op'[b] = op[b]
    BY <2>2 DEF BecomesIdle, BecomesUndo, Becomes
  <2>4. ~Sweeps(op[c]) /\ ~Writes(op[c]) /\ ~SweepsRow(op'[c])
    BY <2>1, <2>3 DEF Sweeps, Writes, SweepsRow
  <2>5. Wrote(op[c]) => Wrote(op'[c])
    BY <2>3, <2>4 DEF Wrote
  <2> QED
    BY <1>k, <1>n, <1>u, <2>1, <2>3, <2>4, <2>5
<1>7. ASSUME NEW c \in Callers, NEW x \in Digests, CreateBlob(c, x) PROVE Goal
  <2>1. /\ Becomes(c, "writing", op[c].ingest, op[c].arts, op[c].todo, op[c].undo, x)
        /\ op[c].pc = "tx" /\ UNCHANGED <<artifact, blobs>> /\ file[x] = "absent"
        /\ file' = [file EXCEPT ![x] = "torn"] /\ d \notin interrupted
    BY <1>7, <1>y, BlobFields DEF CreateBlob
  <2>2. ~Sweeps(op[c]) /\ ~Writes(op[c]) /\ ~SweepsRow(op'[c])
    BY <2>1 DEF Sweeps, Writes, SweepsRow, Becomes
  <2>3. Wrote(op[c]) => Wrote(op'[c])
    BY <2>1, <2>2 DEF Wrote, Becomes
  <2>4. CASE d = x
    <3>1. Writes(op'[c]) /\ Wrote(op'[c])
      BY <2>1, <2>4 DEF Writes, Wrote, Becomes
    <3>2. \A b \in Callers : ~SweepsRow(op[b])
      BY <1>7, <2>4 DEF CreateBlob, SweepsRow
    <3> QED
      BY <1>k, <1>u, <2>1, <2>2, <3>1, <3>2 DEF Becomes
  <2>5. CASE d # x
    <3>1. file'[d] = file[d]
      BY <1>t, <2>1, <2>5
    <3> QED
      BY <1>k, <1>n, <1>u, <2>1, <2>2, <2>3, <3>1 DEF Becomes
  <2> QED
    BY <2>4, <2>5
<1>8. ASSUME NEW c \in Callers, FinishBlob(c) PROVE Goal
  <2> DEFINE x == op[c].digest
             undo == IF Tracked(x) THEN op[c].undo ELSE op[c].undo \cup {x}
  <2>1. Becomes(c, "tx", op[c].ingest, op[c].arts, op[c].todo \ {x}, undo, NoContent)
    BY <1>8, <1>y, BlobFields
  <2>2. /\ UNCHANGED <<artifact, blobs>> /\ op[c].pc = "writing" /\ d \notin interrupted
        /\ file'[d] = IF d = x /\ file[d] = "torn" THEN "whole" ELSE file[d]
    BY <1>8, <1>t DEF FinishBlob
  <2>3. ~Sweeps(op[c]) /\ ~SweepsRow(op'[c])
    BY <2>1, <2>2 DEF Sweeps, SweepsRow, Becomes
  <2>4. Wrote(op[c]) /\ ~Tracked(d) => Wrote(op'[c])
    BY <2>1, <2>2 DEF Wrote, Writes, Becomes
  <2>5. file'[d] = "torn" => file[d] = "torn" /\ ~Writes(op[c])
    BY <2>2 DEF Writes
  <2>6. Loose' => Loose /\ ~Tracked(d)
    BY <2>2 DEF Loose, Tracked
  <2>7. \A b \in Callers : SweepsRow(op[b]) => file'[d] = "absent"
    BY <1>n, <2>2
  <2> QED
    BY <1>k, <1>u, <2>1, <2>2, <2>3, <2>4, <2>5, <2>6, <2>7 DEF Becomes
<1>9. ASSUME NEW c \in Callers, op[c].pc \in {"idle", "tx"}, UNCHANGED <<file, interrupted>>,
             BecomesIdle(c) \/ \E x : BecomesSweep(c, x),
             Unused' => Unused \/ Sweeps(op'[c]),
             Loose' => Loose /\ d \notin op[c].undo
      PROVE  Goal
  <2>1. op'[c].pc \in {"idle", "sweep"} /\ \A b \in Callers : b # c => op'[b] = op[b]
    BY <1>9 DEF BecomesIdle, BecomesSweep, Becomes
  <2>2. ~Sweeps(op[c]) /\ ~Writes(op[c]) /\ ~SweepsRow(op'[c])
    BY <1>9, <2>1 DEF Sweeps, Writes, SweepsRow
  <2>3. Wrote(op[c]) => d \in op[c].undo
    BY <2>2 DEF Wrote
  <2> QED
    BY <1>9, <1>k, <1>n, <2>1, <2>2, <2>3
<1>10. ASSUME NEW c \in Callers, NEW a \in Artifacts, CommitPut(c, a) PROVE Goal
  <2> DEFINE old == artifact[a]
             new == op[c].arts[a]
  <2>1. /\ IF ShouldDrop(old, new) /\ LastReference(old)
           THEN BecomesSweep(c, old) ELSE BecomesIdle(c)
        /\ artifact' = [artifact EXCEPT ![a] = new] /\ UNCHANGED <<file, interrupted>>
        /\ op[c].pc = "tx" /\ op[c].todo = {} /\ ~op[c].ingest /\ new # NoContent
    BY <1>10, <1>y, CommitFields DEF CommitPut
  <2>b. blobs'[d] = IF d = old /\ old # new /\ blobs[d] >= 0
                    THEN (IF blobs[d] > 1 THEN blobs[d] - 1 ELSE 0)
                    ELSE IF d = new /\ old # new
                    THEN (IF blobs[d] < 0 THEN 0 ELSE blobs[d]) + 1
                    ELSE blobs[d]
    BY <1>10 DEF CommitPut, ShouldDrop, ShouldWrite, Tracked, Decremented, Incremented
  <2>2. d \in op[c].undo => d = new
    BY <1>t, <1>y, <2>1 DEF CallShape, InTransaction, Stored, Calls
  <2>3. d = new => References(d)' # {}
    BY <1>t, <2>1 DEF References, Stored
  <2>4. d = new => blobs'[d] >= 0
    <3>1. d = new /\ old = new => References(d) # {}
      BY DEF References, Stored
    <3> HIDE DEF old, new
    <3> QED
      BY <1>b, <1>r, <2>b, <3>1
  <2>5. blobs[d] >= 0 => blobs'[d] >= 0
    BY <1>b, <2>b
  <2>6. Loose' => Loose /\ d \notin op[c].undo
    BY <2>1, <2>2, <2>4, <2>5 DEF Loose, Tracked
  <2>7. CASE d = old /\ old # new /\ blobs[d] <= 1
    <3>1. References(d) # {}
      BY <2>7 DEF References, Stored
    <3>2. BecomesSweep(c, d)
      <4>1. ShouldDrop(old, new) /\ LastReference(old)
        BY <1>b, <1>r, <2>7, <3>1 DEF ShouldDrop, LastReference, Tracked
      <4> QED
        BY <2>1, <2>7, <4>1
    <3>3. Sweeps(op'[c])
      BY <3>2 DEF Sweeps, BecomesSweep, Becomes
    <3> QED
      BY <1>9, <2>1, <2>6, <3>2, <3>3
  <2>8. CASE d = old /\ old # new /\ blobs[d] > 1
    <3>1. blobs'[d] = blobs[d] - 1
      BY <1>b, <2>b, <2>8
    <3>2. Cardinality(References(d)') = IF blobs'[d] >= 0 THEN blobs'[d] ELSE 0
      BY <1>y, CountStep DEF References
    <3>3. References(d)' # {}
      <4>1. Cardinality(References(d)') # 0
        BY <1>b, <2>8, <3>1, <3>2
      <4> QED
        BY <4>1, FS_EmptySet
    <3> QED
      BY <1>9, <2>1, <2>6, <3>3 DEF Unused
  <2>9. CASE d # old \/ old = new
    <3>1. Unused' => Unused
      <4>1. References(d)' = {} => References(d) = {} /\ d # new
        BY <1>t, <2>1, <2>3, <2>9 DEF References, Stored
      <4>2. d # new => blobs'[d] = blobs[d]
        BY <2>b, <2>9
      <4> QED
        BY <4>1, <4>2 DEF Unused, Tracked
    <3> QED
      BY <1>9, <2>1, <2>6, <3>1
  <2> QED
    BY <1>b, <2>7, <2>8, <2>9
<1>11. ASSUME NEW c \in Callers, CommitIngest(c) PROVE Goal
  <2>1. /\ BecomesIdle(c) /\ UNCHANGED <<file, interrupted>> /\ op[c].pc = "tx"
        /\ op[c].ingest /\ op[c].arts = ResultArtifacts
        /\ blobs'[d] = IF Stored(ResultArtifacts, d) = {} THEN blobs[d]
                       ELSE Incremented(d, Cardinality(Stored(ResultArtifacts, d)))
    BY <1>11, <1>y, CommitFields DEF CommitIngest, CallShape, InTransaction
  <2>2. d \in op[c].undo => Stored(ResultArtifacts, d) # {}
    BY <1>y, <2>1 DEF CallShape, InTransaction
  <2>3. Stored(ResultArtifacts, d) # {} => blobs'[d] >= 0
    BY <1>t, <2>1, RowsFinite DEF Incremented
  <2>4. Loose' => Loose /\ d \notin op[c].undo
    BY <1>t, <2>1, <2>2, <2>3 DEF Loose, Tracked
  <2>5. Unused' => Unused
    <3>1. References(d)' = {} => Stored(ResultArtifacts, d) = {} /\ References(d) = {}
      <4>1. \A a \in Artifacts : ResultArtifacts[a] # NoContent => artifact[a] = NoContent
        BY <1>y, <2>1 DEF CallShape, InTransaction
      <4>2. \A a \in Artifacts : artifact'[a] = IF ResultArtifacts[a] = NoContent
                                                THEN artifact[a] ELSE ResultArtifacts[a]
        BY <1>11 DEF CommitIngest
      <4> QED
        BY <1>t, <4>1, <4>2 DEF References, Stored
    <3> QED
      BY <2>1, <3>1 DEF Unused, Tracked
  <2> QED
    BY <1>9, <2>1, <2>4, <2>5
<1>12. ASSUME NEW c \in Callers, NEW a \in Artifacts, DeleteArtifact(c, a) PROVE Goal
  <2> DEFINE old == artifact[a]
  <2>1. /\ IF old \in Digests /\ LastReference(old) THEN BecomesSweep(c, old) ELSE BecomesIdle(c)
        /\ artifact' = [artifact EXCEPT ![a] = NoContent] /\ UNCHANGED <<file, interrupted>>
    BY <1>12, <1>y, CommitFields DEF DeleteArtifact
  <2>b. blobs'[d] = IF d = old /\ blobs[d] >= 0
                    THEN (IF blobs[d] > 1 THEN blobs[d] - 1 ELSE 0) ELSE blobs[d]
    BY <1>12, <1>t DEF DeleteArtifact, Tracked, Decremented
  <2>2. op[c].pc = "idle" /\ op[c].undo = {}
    BY <1>12 DEF DeleteArtifact, Idle
  <2>3. Loose' => Loose /\ d \notin op[c].undo
    <3>1. blobs[d] >= 0 => blobs'[d] >= 0
      BY <1>b, <2>b
    <3> QED
      BY <2>1, <2>2, <3>1 DEF Loose, Tracked
  <2>4. CASE d = old /\ blobs[d] <= 1
    <3>1. References(d) # {}
      BY <2>4 DEF References, Stored
    <3>2. BecomesSweep(c, d)
      <4>1. LastReference(old)
        BY <1>b, <1>r, <2>4, <3>1 DEF LastReference, Tracked
      <4> QED
        BY <2>1, <2>4, <4>1
    <3>3. Sweeps(op'[c])
      BY <3>2 DEF Sweeps, BecomesSweep, Becomes
    <3> QED
      BY <1>9, <2>1, <2>2, <2>3, <3>2, <3>3
  <2>5. CASE d = old /\ blobs[d] > 1
    <3>1. blobs'[d] = blobs[d] - 1
      BY <1>b, <2>b, <2>5
    <3>2. Cardinality(References(d)') = IF blobs'[d] >= 0 THEN blobs'[d] ELSE 0
      BY <1>y, CountStep DEF References
    <3>3. References(d)' # {}
      <4>1. Cardinality(References(d)') # 0
        BY <1>b, <2>5, <3>1, <3>2
      <4> QED
        BY <4>1, FS_EmptySet
    <3> QED
      BY <1>9, <2>1, <2>2, <2>3, <3>3 DEF Unused
  <2>6. CASE d # old
    <3>1. Unused' => Unused
      <4>1. References(d)' = References(d)
        BY <1>t, <2>1, <2>6 DEF References, Stored
      <4> QED
        BY <2>6, <2>b, <4>1 DEF Unused, Tracked
    <3> QED
      BY <1>9, <2>1, <2>2, <2>3, <3>1
  <2> QED
    BY <1>b, <2>4, <2>5, <2>6
<1>13. ASSUME NEW c \in Callers, NEW x \in Digests, RemovePrepared(c, x) PROVE Goal
  <2>1. /\ op[c].pc = "undo" /\ file' = [file EXCEPT ![x] = "absent"]
        /\ UNCHANGED <<artifact, blobs, interrupted>>
    BY <1>13 DEF RemovePrepared
  <2>2. IF op[c].undo = {x} THEN BecomesIdle(c)
        ELSE Becomes(c, "undo", op[c].ingest, op[c].arts, op[c].todo, op[c].undo \ {x},
                     op[c].digest)
    BY <1>13, <1>y, CleanupFields
  <2>3. /\ op'[c].pc \in {"idle", "undo"} /\ op'[c].undo = op[c].undo \ {x}
        /\ \A b \in Callers : b # c => op'[b] = op[b]
    BY <2>2 DEF BecomesIdle, Becomes
  <2>4. ~Sweeps(op[c]) /\ ~Writes(op[c]) /\ ~SweepsRow(op'[c])
    BY <2>1, <2>3 DEF Sweeps, Writes, SweepsRow
  <2>5. CASE d = x
    BY <1>k, <1>t, <1>u, <2>1, <2>3, <2>4, <2>5 DEF Loose
  <2>6. CASE d # x
    <3>1. file'[d] = file[d]
      BY <1>t, <2>1, <2>6
    <3>2. Wrote(op[c]) => Wrote(op'[c])
      BY <2>3, <2>4, <2>6 DEF Wrote
    <3> QED
      BY <1>k, <1>n, <1>u, <2>1, <2>3, <2>4, <3>1, <3>2
  <2> QED
    BY <2>5, <2>6
<1>14. ASSUME NEW c \in Callers, SweepFile(c) PROVE Goal
  <2>1. /\ op[c].pc = "sweep" /\ file' = [file EXCEPT ![op[c].digest] = "absent"]
        /\ UNCHANGED <<artifact, blobs, interrupted>> /\ op[c].undo = {}
    BY <1>14, <1>y DEF SweepFile, CallShape
  <2>2. /\ op'[c].pc = "sweepRow" /\ op'[c].digest = op[c].digest
        /\ \A b \in Callers : b # c => op'[b] = op[b]
    BY <1>14, <1>y, CleanupFields DEF Becomes
  <2>3. ~Wrote(op[c]) /\ ~Writes(op[c]) /\ (Sweeps(op[c]) => Sweeps(op'[c]))
    BY <2>1, <2>2 DEF Sweeps, Writes, Wrote
  <2>4. file'[d] = IF d = op[c].digest THEN "absent" ELSE file[d]
    BY <1>t, <2>1
  <2>5. SweepsRow(op'[c]) => file'[d] = "absent"
    BY <2>2, <2>4 DEF SweepsRow
  <2>6. Loose' => Loose
    BY <2>1, <2>4 DEF Loose, Tracked
  <2>7. (Unused' => Unused) /\ (file'[d] = "torn" => file[d] = "torn")
    BY <1>u, <2>1, <2>4
  <2>8. \A b \in Callers : SweepsRow(op[b]) => file'[d] = "absent"
    BY <1>n, <2>1, <2>4
  <2> QED
    BY <1>k, <2>1, <2>2, <2>3, <2>5, <2>6, <2>7, <2>8
<1>15. ASSUME NEW c \in Callers, SweepRow(c) PROVE Goal
  <2>1. /\ op[c].pc = "sweepRow" /\ op[c].undo = {} /\ UNCHANGED <<artifact, file, interrupted>>
        /\ blobs'[d] = IF d = op[c].digest /\ blobs[d] = 0 THEN -1 ELSE blobs[d]
    BY <1>15, <1>y DEF SweepRow, Sweepable, CallShape
  <2>2. op'[c].pc = "idle" /\ \A b \in Callers : b # c => op'[b] = op[b]
    BY <1>15, <1>y, CleanupFields DEF BecomesIdle, Becomes
  <2>3. ~Wrote(op[c]) /\ ~Writes(op[c]) /\ ~SweepsRow(op'[c])
    BY <2>1, <2>2 DEF SweepsRow, Writes, Wrote
  <2>4. Unused' => Unused /\ d # op[c].digest
    <3>1. References(d) = {} /\ blobs[d] >= 0 => blobs[d] = 0
      BY <1>z, FS_EmptySet
    <3> QED
      BY <1>t, <2>1, <3>1 DEF Unused, Tracked, References
  <2>5. Sweeps(op[c]) => d = op[c].digest
    BY DEF Sweeps
  <2>6. Loose' => Loose
    <3>1. d = op[c].digest => file[d] = "absent"
      BY <1>n, <2>1 DEF SweepsRow
    <3> QED
      BY <2>1, <3>1 DEF Loose, Tracked
  <2> QED
    BY <1>k, <1>n, <2>1, <2>2, <2>3, <2>4, <2>5, <2>6
<1>16. ASSUME NEW c \in Callers, Cancel(c) PROVE Goal
  <2>1. /\ op[c].pc # "writing" /\ UNCHANGED <<artifact, blobs, file>>
        /\ d \notin interrupted /\ d \notin op[c].undo /\ d # op[c].digest
    BY <1>16 DEF Cancel, Unfinished
  <2>2. op'[c].pc = "idle" /\ \A b \in Callers : b # c => op'[b] = op[b]
    BY <1>16, <1>y, CleanupFields DEF BecomesIdle, Becomes
  <2>3. ~Wrote(op[c]) /\ ~Writes(op[c]) /\ ~Sweeps(op[c]) /\ ~SweepsRow(op'[c])
    BY <2>1, <2>2 DEF SweepsRow, Writes, Wrote, Sweeps
  <2> QED
    BY <1>k, <1>n, <1>u, <2>1, <2>2, <2>3
<1>17. ASSUME Crash PROVE Goal
  <2>1. /\ \A b \in Callers : op'[b].pc = "idle"
        /\ UNCHANGED <<artifact, blobs, file>> /\ d \notin interrupted
        /\ \A b \in Callers : d \notin op[b].undo /\ d # op[b].digest
    BY <1>17 DEF Crash, Idle, Unfinished
  <2>2. \A b \in Callers : ~Wrote(op[b]) /\ ~Writes(op[b]) /\ ~Sweeps(op[b])
    BY <2>1 DEF Writes, Wrote, Sweeps
  <2>3. \A b \in Callers : ~SweepsRow(op'[b])
    BY <2>1 DEF SweepsRow
  <2> QED
    BY <1>n, <1>u, <2>1, <2>2, <2>3 DEF Goal
<1>18. ASSUME UNCHANGED vars PROVE Goal
  BY <1>18, <1>n, <1>u DEF vars, Goal
<1> QED
  BY <1>2, <1>3, <1>4, <1>5, <1>6, <1>7, <1>8, <1>10, <1>11, <1>12, <1>13, <1>14, <1>15, <1>16,
     <1>17, <1>18 DEF Next
-----------------------------------------------------------------------------
(* The theorems.                                                             *)

\* Every step keeps the inductive invariant.
LEMMA ArtifactInvStep == ArtifactInv /\ [Next]_vars => ArtifactInv'
<1> SUFFICES ASSUME ArtifactInv, [Next]_vars PROVE ArtifactInv'
  OBVIOUS
<1>1. ArtifactTypeOK /\ RefCountExact /\ \A c \in Callers : CallShape(c)
  BY DEF ArtifactInv, RefCountExact
<1>2. ArtifactTypeOK'
  BY <1>1, TypeStep
<1>3. RefCountExact'
  BY <1>1, <1>2, CountStep DEF RefCountExact, References, Tracked
<1>4. \A c \in Callers : CallShape(c)'
  BY <1>1, ShapeStep
<1>5. \A c \in Callers : \A d \in Removing(c)' : d \in Digests
  <2> SUFFICES ASSUME NEW c \in Callers, NEW d \in Removing(c)' PROVE d \in Digests
    OBVIOUS
  <2>1. op'[c].undo \subseteq Digests /\ (op'[c].pc = "sweep" => op'[c].digest \in Digests)
    BY <1>2, <1>4 DEF ArtifactTypeOK, CallShape
  <2> QED
    BY <2>1, RemovingFiles
<1>6. RemovalsNoted'
  BY <1>5, RemovalsStep DEF RemovalsNoted
<1>7. FilesInPlace'
  BY FilesStep DEF FilesInPlace
<1>8. LeftoversListed'
  BY LeftoversStep DEF LeftoversListed
<1> QED
  BY <1>3, <1>4, <1>6, <1>7, <1>8 DEF ArtifactInv

\* The inductive invariant holds in every reachable state.
LEMMA ArtifactInvariant == Spec => []ArtifactInv
<1>1. Init => ArtifactInv
  <2> SUFFICES ASSUME Init PROVE ArtifactInv
    OBVIOUS
  <2>1. Idle \in Calls
    BY DEF Idle, Calls, Steps
  <2>2. ArtifactTypeOK
    <3>1. op \in [Callers -> Calls] /\ \A c \in Callers : ~InTransaction(c)
      BY <2>1 DEF Init, InTransaction, Idle
    <3>2. /\ artifact \in [Artifacts -> Contents \cup {NoContent}] /\ blobs \in [Digests -> Int]
          /\ file \in [Digests -> Files] 
          /\ overlapped \subseteq Digests /\ interrupted \subseteq Digests
      BY DEF Init, Files
    <3>3. settled \in BOOLEAN
      BY DEF Init
    <3>4. crashes \in 0..MaxCrashes
      BY ArtifactAssumption DEF Init
    <3> QED
      BY <3>1, <3>2, <3>3, <3>4 DEF ArtifactTypeOK, Calls
  <2>3. \A d \in Digests : References(d) = {} /\ ~Tracked(d) /\ file[d] = "absent"
    BY ArtifactAssumption DEF Init, References, Stored, Tracked, Digests
  <2>4. RefCountExact
    BY <2>2, <2>3, FS_EmptySet DEF RefCountExact
  <2>5. \A c \in Callers : op[c].pc = "idle" /\ op[c].undo = {} /\ op[c].digest = NoContent
    BY DEF Init, Idle
  <2>6. \A c \in Callers : CallShape(c) /\ \A d : ~Relies(c, d)
    BY <2>5 DEF CallShape, InTransaction, Relies
  <2>7. \A c \in Callers : Removing(c) = {}
    BY <2>5 DEF Removing
  <2> QED
    BY <2>3, <2>4, <2>5, <2>6, <2>7
       DEF ArtifactInv, RemovalsNoted, FilesInPlace, LeftoversListed
<1> QED
  BY <1>1, ArtifactInvStep, PTL DEF Spec

\* put_artifact, delete_artifact and ingest_remote_result_with_artifacts keep
\* every ref_count equal to the number of artifact rows with the digest, for any
\* number of concurrent callers, artifacts and crashes.
THEOREM ReferencesAreCounted == Spec => []RefCountExact
  BY ArtifactInvariant, PTL DEF ArtifactInv

\* get_artifact finds the file of every row, through failing writes, cancelled
\* calls and crashes, except for a digest stored again while another call was
\* still going to remove its file.
THEOREM ArtifactsCanBeRead == Spec => []BlobBacked
<1>1. ArtifactInv => BlobBacked
  <2> SUFFICES ASSUME ArtifactInv, NEW a \in Artifacts, artifact[a] \in Digests,
                      artifact[a] \notin overlapped
               PROVE  file[artifact[a]] = "whole"
    BY DEF BlobBacked, Servable
  <2>1. References(artifact[a]) # {}
    BY DEF References, Stored
  <2> QED
    BY <2>1 DEF ArtifactInv, FilesInPlace
<1> QED
  BY <1>1, ArtifactInvariant, PTL

\* finalize_blob_cleanup and rollback_prepared_blob_write leave nothing behind
\* unless a call was interrupted, and only such a leftover, or a removal in
\* progress, makes prepare_blob_write_with_executor refuse a content.
THEOREM LeftoversHaveCauses == Spec => []LeftoversExplained
<1>1. ArtifactInv => NothingLeftBehind
  <2> SUFFICES ASSUME ArtifactInv, NEW d \in Digests, d \notin interrupted,
                      file[d] # "absent" \/ Tracked(d), References(d) = {}
               PROVE  \E c \in Callers : d \in Unfinished(c)
    BY DEF NothingLeftBehind
  <2>1. \E c \in Callers : d \in op[c].undo \/ op[c].digest = d
    BY DEF ArtifactInv, LeftoversListed
  <2> QED
    BY <2>1 DEF Unfinished
<1>2. ArtifactInv => RefusedOnlyForLeftovers
  <2> SUFFICES ASSUME ArtifactInv, NEW c \in Callers, NEW d \in op[c].todo, op[c].pc = "tx",
                      ~Usable(d), file[d] # "absent", d \notin interrupted
               PROVE  \E b \in Callers \ {c} : d \in Removing(b)
    BY DEF RefusedOnlyForLeftovers
  <2>1. /\ d \in Digests /\ file[d] \in Files /\ InTransaction(c)
        /\ \A b \in Callers : InTransaction(b) => b = c
    BY DEF ArtifactInv, RefCountExact, ArtifactTypeOK, InTransaction
  <2>2. ~Tracked(d)
    BY <2>1 DEF ArtifactInv, LeftoversListed, Usable, Files, InTransaction
  <2>3. PICK b \in Callers : d \in op[b].undo \/ (op[b].pc = "writing" /\ op[b].digest = d)
    <3>1. LeftoversListed
      BY DEF ArtifactInv
    <3> QED
      BY <2>1, <2>2, <3>1 DEF LeftoversListed
  <2>4. b # c
    BY <2>1, <2>3 DEF ArtifactInv, CallShape
  <2>5. op[b].pc = "undo" /\ d \in op[b].undo
    BY <2>1, <2>3, <2>4 DEF ArtifactInv, CallShape, InTransaction
  <2> QED
    BY <2>4, <2>5, RemovingFiles
<1> QED
  BY <1>1, <1>2, ArtifactInvariant, PTL DEF LeftoversExplained
=============================================================================
