---------------------------- MODULE ArtifactStore ----------------------------
(* keryx-store's artifacts: rows in SQLite, large contents in files named by *)
(* their digest, and a reference count per digest.  A call runs one SQLite   *)
(* transaction (the pool has one connection, so one at a time) but touches   *)
(* the blob directory inside it, before it commits, and again after it has   *)
(* committed.  What interleaves are the calls outside their transactions, an *)
(* RPC whose caller goes away at an await, failing writes, and crashes of    *)
(* the daemon.                                                               *)
(*                                                                           *)
(* A content and its digest are one value.  Whether a content is small       *)
(* enough to be stored inline depends on the content alone.                  *)
EXTENDS Integers, FiniteSets

CONSTANTS Artifacts,        \* artifact ids
          Contents,         \* contents, each with a digest of its own
          InlineContents,   \* the contents of at most MAX_INLINE_ARTIFACT_BYTES
          NoContent,        \* "no artifact row"
          ResultArtifacts,  \* [Artifacts -> Contents \cup {NoContent}]: the
                            \* artifacts of a remote result
          Callers,          \* RPCs in flight
          MaxCrashes        \* bound: crashes of the daemon

Digests == Contents \ InlineContents

ASSUME ArtifactAssumption ==
    /\ NoContent \notin Contents
    /\ ResultArtifacts \in [Artifacts -> Contents \cup {NoContent}]
    /\ IsFiniteSet(Artifacts)
    /\ MaxCrashes \in Nat

VARIABLES
    artifact,   \* [Artifacts -> the content of the row, or NoContent]
    blobs,      \* [Digests -> the row's ref_count, or -1 without a row]
    file,       \* [Digests -> what the blob directory holds]
    settled,    \* whether the remote result has been ingested
    op,         \* [Callers -> the call in progress]
    crashes,
    overlapped, \* history: digests written while another call was still going
                \* to remove their file
    interrupted \* history: digests whose file or row may have been left behind:
                \* a call stopped half way, or rewrote the file between the two
                \* halves of another call's clean-up

vars == <<artifact, blobs, file, settled, op, crashes, overlapped, interrupted>>

Files == {"absent", "torn", "whole"}
Steps == {"idle", "tx", "writing", "undo", "sweep", "sweepRow"}

\* A call: whether it ingests a result, what it stores, the digests it has
\* still to prepare, the files it takes away again if its transaction fails, and
\* the digest it is busy with.
Idle == [pc |-> "idle", ingest |-> FALSE,
         arts |-> [a \in Artifacts |-> NoContent],
         todo |-> {}, undo |-> {}, digest |-> NoContent]

InTransaction(c) == op[c].pc \in {"tx", "writing"}

ConnectionFree == \A c \in Callers : ~InTransaction(c)
Tracked(d) == blobs[d] >= 0
Stored(arts, d) == {a \in Artifacts : arts[a] = d}
References(d) == Stored(artifact, d)

\* The files a call outside its transaction is going to remove.
Removing(c) == CASE op[c].pc = "undo" -> op[c].undo
                 [] op[c].pc = "sweep" -> {op[c].digest}
                 [] OTHER -> {}

Init == /\ artifact = [a \in Artifacts |-> NoContent]
        /\ blobs = [d \in Digests |-> -1]
        /\ file = [d \in Digests |-> "absent"]
        /\ settled = FALSE
        /\ op = [c \in Callers |-> Idle]
        /\ crashes = 0
        /\ overlapped = {}
        /\ interrupted = {}
-----------------------------------------------------------------------------
(* Opening a transaction.                                                    *)

\* should_write_blob_association, which is also should_prepare_blob_write.
ShouldWrite(old, new) == new \in Digests /\ old # new

\* Fault: the reference of a replaced content is kept.
FaultyShouldDrop(old, new) == FALSE

ShouldDrop(old, new) == old \in Digests /\ old # new

\* put_artifact up to the first blob: the size and digest checks passed, the
\* task exists.
BeginPut(c, a, x) ==
    /\ op[c] = Idle
    /\ ConnectionFree
    /\ op' = [op EXCEPT ![c] = [Idle EXCEPT
                 !.pc = "tx",
                 !.arts = [b \in Artifacts |-> IF b = a THEN x ELSE NoContent],
                 !.todo = IF ShouldWrite(artifact[a], x) THEN {x} ELSE {}]]
    /\ UNCHANGED <<artifact, blobs, file, settled, crashes, overlapped,
                   interrupted>>

\* ingest_remote_result_with_artifacts up to the first blob: no result yet and
\* none of the origin's artifact ids taken.
BeginIngest(c) ==
    /\ op[c] = Idle
    /\ ConnectionFree
    /\ ~settled
    /\ \A a \in Artifacts : ResultArtifacts[a] # NoContent => artifact[a] = NoContent
    /\ op' = [op EXCEPT ![c] = [Idle EXCEPT
                 !.pc = "tx",
                 !.ingest = TRUE,
                 !.arts = ResultArtifacts,
                 !.todo = {ResultArtifacts[a] : a \in Artifacts} \cap Digests]]
    /\ UNCHANGED <<artifact, blobs, file, settled, crashes, overlapped,
                   interrupted>>
-----------------------------------------------------------------------------
(* Preparing the blobs, inside the transaction.                              *)

\* Fault: what an aborted call had written stays.
FaultyAborted(c) == Idle

\* An error before the commit: the transaction rolls back, and the files this
\* call wrote are to be removed.
Aborted(c) == IF op[c].undo = {} THEN Idle ELSE [op[c] EXCEPT !.pc = "undo"]

\* A digest some other call is about to remove is written.
NoteOverlap(c, d) ==
    overlapped' = overlapped \cup
        {x \in {d} : \E b \in Callers \ {c} : x \in Removing(b)}

\* Fault: an untracked digest is taken on trust when its file exists.
TrustingUsable(d) == file[d] # "absent"

\* The digest has a row, and its file reads back as the content.
Usable(d) == Tracked(d) /\ file[d] = "whole"

\* The row and the file are as the last put left them: nothing to write.
ReuseBlob(c, d) ==
    /\ op[c].pc = "tx"
    /\ d \in op[c].todo
    /\ Usable(d)
    /\ op' = [op EXCEPT ![c].todo = @ \ {d}]
    /\ NoteOverlap(c, d)
    /\ UNCHANGED <<artifact, blobs, file, settled, crashes, interrupted>>

\* The file has to be created: create_new succeeds because there is none.
CreateBlob(c, d) ==
    /\ op[c].pc = "tx"
    /\ d \in op[c].todo
    /\ file[d] = "absent"
    /\ file' = [file EXCEPT ![d] = "torn"]
    /\ op' = [op EXCEPT ![c] = [op[c] EXCEPT !.pc = "writing", !.digest = d]]
    /\ NoteOverlap(c, d)
    /\ interrupted' = interrupted \cup
          {x \in {d} : \E b \in Callers : op[b].pc = "sweepRow" /\ op[b].digest = x}
    /\ UNCHANGED <<artifact, blobs, settled, crashes>>

\* write_all and sync_all succeed; only a digest that had no row is removed
\* again on rollback.
FinishBlob(c) ==
    /\ op[c].pc = "writing"
    /\ LET d == op[c].digest IN
       /\ file' = [file EXCEPT ![d] = IF @ = "torn" THEN "whole" ELSE @]
       /\ op' = [op EXCEPT ![c] = [op[c] EXCEPT
                    !.pc = "tx", !.digest = NoContent, !.todo = @ \ {d},
                    !.undo = IF Tracked(d) THEN @ ELSE @ \cup {d}]]
    /\ UNCHANGED <<artifact, blobs, settled, crashes, overlapped, interrupted>>

\* write_all or sync_all fails: the new file is left as it is.
FailWrite(c) ==
    /\ op[c].pc = "writing"
    /\ op' = [op EXCEPT ![c] = [Aborted(c) EXCEPT !.digest = NoContent]]
    /\ interrupted' = interrupted \cup {op[c].digest}
    /\ UNCHANGED <<artifact, blobs, file, settled, crashes, overlapped>>

\* The content cannot be stored: the file is there without a row (create_new),
\* or the row's file does not read back.
RefuseBlob(c, d) ==
    /\ op[c].pc = "tx"
    /\ d \in op[c].todo
    /\ ~Usable(d)
    /\ file[d] # "absent"
    /\ op' = [op EXCEPT ![c] = Aborted(c)]
    /\ UNCHANGED <<artifact, blobs, file, settled, crashes, overlapped,
                   interrupted>>
-----------------------------------------------------------------------------
(* Committing.                                                               *)

\* increment_blob_ref for every row that is new for its digest.
Incremented(d, new) == (IF blobs[d] < 0 THEN 0 ELSE blobs[d]) + new

\* decrement_blob_ref found at most one reference: it sets the count to 0 and
\* asks for the clean-up.
LastReference(d) == Tracked(d) /\ blobs[d] <= 1

Decremented(d) == IF Tracked(d) /\ blobs[d] > 1 THEN blobs[d] - 1 ELSE 0

\* After the commit: the clean-up of the digest, if it lost its last reference.
Swept(d) == IF d \in Digests /\ LastReference(d)
              THEN [Idle EXCEPT !.pc = "sweep", !.digest = d] ELSE Idle

\* put_artifact commits: the old association is dropped, the new one counted,
\* the row replaced.
CommitPut(c, a) ==
    LET old == artifact[a]
        new == op[c].arts[a]
    IN  /\ op[c].pc = "tx"
        /\ op[c].todo = {}
        /\ ~op[c].ingest
        /\ new # NoContent
        /\ blobs' = [d \in Digests |->
              IF d = old /\ ShouldDrop(old, new) /\ Tracked(d) THEN Decremented(d)
              ELSE IF d = new /\ ShouldWrite(old, new) THEN Incremented(d, 1)
              ELSE blobs[d]]
        /\ artifact' = [artifact EXCEPT ![a] = new]
        /\ op' = [op EXCEPT ![c] = IF ShouldDrop(old, new) THEN Swept(old) ELSE Idle]
        /\ UNCHANGED <<file, settled, crashes, overlapped, interrupted>>

\* The result, its artifacts and their references commit together.
CommitIngest(c) ==
    /\ op[c].pc = "tx"
    /\ op[c].todo = {}
    /\ op[c].ingest
    /\ blobs' = [d \in Digests |->
          IF Stored(ResultArtifacts, d) = {} THEN blobs[d]
          ELSE Incremented(d, Cardinality(Stored(ResultArtifacts, d)))]
    /\ artifact' = [a \in Artifacts |-> IF ResultArtifacts[a] = NoContent
                                          THEN artifact[a] ELSE ResultArtifacts[a]]
    /\ settled' = TRUE
    /\ op' = [op EXCEPT ![c] = Idle]
    /\ UNCHANGED <<file, crashes, overlapped, interrupted>>

\* A statement or the commit fails: nothing of the transaction stays.
FailTransaction(c) ==
    /\ op[c].pc = "tx"
    /\ op[c].todo = {}
    /\ op' = [op EXCEPT ![c] = Aborted(c)]
    /\ UNCHANGED <<artifact, blobs, file, settled, crashes, overlapped,
                   interrupted>>

\* delete_artifact: the whole transaction, up to the clean-up.
DeleteArtifact(c, a) ==
    LET old == artifact[a] IN
    /\ op[c] = Idle
    /\ ConnectionFree
    /\ old # NoContent
    /\ artifact' = [artifact EXCEPT ![a] = NoContent]
    /\ blobs' = IF old \in Digests /\ Tracked(old)
                  THEN [blobs EXCEPT ![old] = Decremented(old)] ELSE blobs
    /\ op' = [op EXCEPT ![c] = Swept(old)]
    /\ UNCHANGED <<file, settled, crashes, overlapped, interrupted>>
-----------------------------------------------------------------------------
(* Removing files, outside the transaction.                                  *)

\* rollback_prepared_blob_write, one file at a time.
RemovePrepared(c, d) ==
    /\ op[c].pc = "undo"
    /\ d \in op[c].undo
    /\ file' = [file EXCEPT ![d] = "absent"]
    /\ op' = [op EXCEPT ![c] = IF op[c].undo = {d} THEN Idle
                               ELSE [op[c] EXCEPT !.undo = @ \ {d}]]
    /\ UNCHANGED <<artifact, blobs, settled, crashes, overlapped, interrupted>>

\* finalize_blob_cleanup: first the file, ...
SweepFile(c) ==
    /\ op[c].pc = "sweep"
    /\ file' = [file EXCEPT ![op[c].digest] = "absent"]
    /\ op' = [op EXCEPT ![c].pc = "sweepRow"]
    /\ UNCHANGED <<artifact, blobs, settled, crashes, overlapped, interrupted>>

Sweepable(d) == blobs[d] = 0

\* ... then the row, if nobody has referenced the digest again meanwhile.
SweepRow(c) ==
    /\ op[c].pc = "sweepRow"
    /\ ConnectionFree
    /\ blobs' = [d \in Digests |->
                   IF d = op[c].digest /\ Sweepable(d) THEN -1 ELSE blobs[d]]
    /\ op' = [op EXCEPT ![c] = Idle]
    /\ UNCHANGED <<artifact, file, settled, crashes, overlapped, interrupted>>
-----------------------------------------------------------------------------
(* What can interrupt a call.                                                *)

\* The files and rows a call would still have removed or committed.
Unfinished(c) == op[c].undo \cup ({op[c].digest} \cap Digests)

\* The RPC's future is dropped at an await: its transaction rolls back and
\* nothing after it runs.  A blocking write is never interrupted.
Cancel(c) ==
    /\ op[c].pc \in Steps \ {"idle", "writing"}
    /\ op' = [op EXCEPT ![c] = Idle]
    /\ interrupted' = interrupted \cup Unfinished(c)
    /\ UNCHANGED <<artifact, blobs, file, settled, crashes, overlapped>>

Crash ==
    /\ crashes < MaxCrashes
    /\ crashes' = crashes + 1
    /\ op' = [c \in Callers |-> Idle]
    /\ interrupted' = interrupted \cup UNION {Unfinished(c) : c \in Callers}
    /\ UNCHANGED <<artifact, blobs, file, settled, overlapped>>

Next ==
    \/ \E c \in Callers :
          \/ \E a \in Artifacts, x \in Contents : BeginPut(c, a, x)
          \/ BeginIngest(c)
          \/ \E d \in Digests : \/ ReuseBlob(c, d) \/ CreateBlob(c, d)
                                \/ RefuseBlob(c, d) \/ RemovePrepared(c, d)
          \/ FinishBlob(c) \/ FailWrite(c)
          \/ \E a \in Artifacts : CommitPut(c, a) \/ DeleteArtifact(c, a)
          \/ CommitIngest(c) \/ FailTransaction(c)
          \/ SweepFile(c) \/ SweepRow(c) \/ Cancel(c)
    \/ Crash

Spec == Init /\ [][Next]_vars
-----------------------------------------------------------------------------
(* What the store promises.                                                  *)

\* Every variable has its type, and the connection is held by one call at most.
ArtifactTypeOK ==
    /\ artifact \in [Artifacts -> Contents \cup {NoContent}]
    /\ blobs \in [Digests -> Int]
    /\ file \in [Digests -> Files]
    /\ settled \in BOOLEAN
    /\ op \in [Callers -> [pc : Steps, ingest : BOOLEAN,
                           arts : [Artifacts -> Contents \cup {NoContent}],
                           todo : SUBSET Digests, undo : SUBSET Digests,
                           digest : Digests \cup {NoContent}]]
    /\ crashes \in 0..MaxCrashes
    /\ overlapped \subseteq Digests
    /\ interrupted \subseteq Digests
    /\ \A b, c \in Callers : InTransaction(b) /\ InTransaction(c) => b = c

\* A blob's ref_count is the number of artifact rows with its digest, and a
\* digest without a row has none: replacing, ingesting, deleting, failing and
\* crashing keep put_artifact's two tables in step (and every row, file and
\* call in its type).
RefCountExact ==
    /\ ArtifactTypeOK
    /\ \A d \in Digests :
        Cardinality(References(d)) = IF Tracked(d) THEN blobs[d] ELSE 0

\* get_artifact can return the artifact: its row holds it, or its file reads
\* back as the content of its digest.
Servable(a) == artifact[a] \in Digests => file[artifact[a]] = "whole"

\* Every artifact row whose content is in the blob directory can be read back,
\* through failing writes, cancelled calls and crashes; the one exception is a
\* digest stored again while another call's clean-up or rollback was still
\* going to remove its file.
BlobBacked == \A a \in Artifacts : Servable(a) \/ artifact[a] \in overlapped

\* docs/rfc/009-artifact-storage.md:5 ("Larger artifacts are represented by
\* metadata rows plus content-addressed blob references"): every row of a large
\* artifact references a blob that is there.  finalize_blob_cleanup removes the
\* file after the transaction that counted the references has ended.
ReferencedBlobExists == \A a \in Artifacts : Servable(a)

\* Nothing is left behind: a file or a row of a digest that no artifact uses
\* belongs to a call in progress, unless a crash, a cancelled call or a failed
\* write left it, or a put that failed had written it between the two halves of
\* another call's clean-up.  In particular an ingest that fails on its second artifact
\* takes the file of the first away again.
NothingLeftBehind ==
    \A d \in Digests \ interrupted :
        /\ file[d] # "absent" \/ Tracked(d)
        /\ References(d) = {}
        => \E c \in Callers : d \in Unfinished(c)

\* A content is refused only because an interrupted call left its file behind,
\* or because another call is about to remove that file.
RefusedOnlyForLeftovers ==
    \A c \in Callers : \A d \in op[c].todo :
        op[c].pc = "tx" /\ ~Usable(d) /\ file[d] # "absent"
        => \/ d \in interrupted
           \/ \E b \in Callers \ {c} : d \in Removing(b)

\* What is in the blob directory or the blobs table without being used is
\* explained by an interrupted call, and only such a leftover refuses a content
\* (prepare_blob_write_with_executor, rollback_prepared_blob_write).
LeftoversExplained == NothingLeftBehind /\ RefusedOnlyForLeftovers
=============================================================================
