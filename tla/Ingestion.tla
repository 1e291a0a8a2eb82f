----------------------------- MODULE Ingestion -----------------------------
(***************************************************************************)
(* What an execution does before its graph starts: it makes the files of   *)
(* the run part of its corpus (retrieval/attached.py, ingestion.py), each  *)
(* in a task of its own.  A file's raw copy, its source with document and  *)
(* chunks, and the vectors of its chunks are separate writes, and two      *)
(* executions of one run may be at any of them: nothing renews a lease     *)
(* here.  What the executions then tell is RunStory.                       *)
(***************************************************************************)
EXTENDS RunStory

CONSTANTS
    Uploads,     \* the files attached to the run
    Readable,    \* those a parser can read
    Chunks,      \* chunks of a document (at most max_chunks_per_document)
    MaxChunks,   \* max_chunks_per_document
    Batch,       \* embedding_batch_size
    Page,        \* rows one read of a repository returns (ABSOLUTE_MAX_ROWS)
    Embedder     \* whether an embedding model is configured

ASSUME IngestionAssumption ==
    /\ Readable \subseteq Uploads /\ IsFiniteSet(Uploads)
    /\ Chunks \in Nat /\ MaxChunks \in Nat /\ Chunks <= MaxChunks
    /\ Batch \in Nat \ {0} /\ Page \in Nat \ {0} /\ Embedder \in BOOLEAN

VARIABLES
    task,      \* where each execution is with each file
    saw,       \* the document its transaction found
    batch,     \* the chunks it has sent for embedding
    passes,    \* the passes it has left
    copied,    \* files whose raw copy is stored
    lock,      \* the advisory lock of each file's source
    sources,   \* the number of sources of each file, with document and chunks
    vectors    \* chunks of each file with a vector

corpus == <<copied, lock, sources, vectors>>
ingesting == <<task, saw, batch, passes>>
allVars == <<vars, corpus, ingesting>>

Tasks == {"out", "looking", "copying", "parsing", "storing", "locked",
          "embedding", "waiting", "done", "skipped", "broken"}

IngestInit ==
    /\ task = [e \in Executions |-> [u \in Uploads |-> "out"]]
    /\ saw = [e \in Executions |-> [u \in Uploads |-> FALSE]]
    /\ batch = [e \in Executions |-> [u \in Uploads |-> {}]]
    /\ passes = [e \in Executions |-> [u \in Uploads |-> 0]]
    /\ copied = {}
    /\ lock = [u \in Uploads |-> None]
    /\ sources = [u \in Uploads |-> 0]
    /\ vectors = [u \in Uploads |-> {}]

----------------------------------------------------------------------------
At(e, u, t) == phase[e] = "primed" /\ task[e][u] = t
Moves(e, u, t) == task' = [task EXCEPT ![e][u] = t]

\* Mutant: a last batch that is not full gets no pass.
PassesFloor == MaxChunks \div Batch
\* Enough for every batch and for a read that finds none.
Passes == (MaxChunks + Batch - 1) \div Batch + 1

\* The document is stored; what is left are vectors.
Embeds(e, u) ==
    /\ Moves(e, u, IF Embedder THEN "embedding" ELSE "done")
    /\ passes' = [passes EXCEPT ![e][u] = Passes]

\* An ingestion that already ran is only completed.
Look(e, u) ==
    /\ At(e, u, "looking")
    /\ IF sources[u] > 0 THEN Embeds(e, u)
                         ELSE Moves(e, u, "copying") /\ UNCHANGED passes
    /\ UNCHANGED <<corpus, saw, batch>>

\* The raw copy has its content for a name: copying again changes nothing.
Copy(e, u) ==
    /\ At(e, u, "copying")
    /\ copied' = copied \cup {u}
    /\ Moves(e, u, "parsing")
    /\ UNCHANGED <<lock, sources, vectors, saw, batch, passes>>

\* A file that cannot be read costs the run that file.
Parse(e, u) ==
    /\ At(e, u, "parsing")
    /\ Moves(e, u, IF u \in Readable THEN "storing" ELSE "skipped")
    /\ UNCHANGED <<corpus, saw, batch, passes>>

\* Mutant: the source is looked up before the lock is taken.
FindUnlocked(e, u) ==
    /\ At(e, u, "storing")
    /\ saw' = [saw EXCEPT ![e][u] = sources[u] > 0]
    /\ Moves(e, u, "locked")
    /\ UNCHANGED <<corpus, batch, passes>>
\* Writers of one source queue for its lock; whoever gets it sees what the one
\* before has committed.
Find(e, u) ==
    /\ At(e, u, "storing") /\ lock[u] = None
    /\ lock' = [lock EXCEPT ![u] = e]
    /\ saw' = [saw EXCEPT ![e][u] = sources[u] > 0]
    /\ Moves(e, u, "locked")
    /\ UNCHANGED <<copied, sources, vectors, batch, passes>>

\* Source, document and chunks, without vectors, are committed together.
Store(e, u) ==
    /\ At(e, u, "locked")
    /\ lock' = [lock EXCEPT ![u] = None]
    /\ sources' = IF saw[e][u] THEN sources ELSE [sources EXCEPT ![u] = @ + 1]
    /\ Embeds(e, u)
    /\ UNCHANGED <<copied, vectors, saw, batch>>

Pending(u) == (1 .. Chunks) \ vectors[u]

\* The first of what has no vector, in document order.
FirstOf(S) == {c \in S : Cardinality({d \in S : d < c}) < Min2(Batch, Page)}

\* A batch is sent for its vectors.  The loop's bound ends it with whatever is
\* left.
Batches(e, u) ==
    /\ At(e, u, "embedding")
    /\ IF passes[e][u] = 0 \/ Pending(u) = {}
       THEN Moves(e, u, "done") /\ UNCHANGED <<batch, passes>>
       ELSE /\ Moves(e, u, "waiting")
            /\ batch' = [batch EXCEPT ![e][u] = FirstOf(Pending(u))]
            /\ passes' = [passes EXCEPT ![e][u] = @ - 1]
    /\ UNCHANGED <<corpus, saw>>

\* The gateway answers; chunks that have got a vector meanwhile keep it.
Fill(e, u) ==
    /\ At(e, u, "waiting")
    /\ vectors' = [vectors EXCEPT ![u] = @ \cup batch[e][u]]
    /\ batch' = [batch EXCEPT ![e][u] = {}]
    /\ Moves(e, u, "embedding")
    /\ UNCHANGED <<copied, lock, sources, saw, passes>>

Working == Tasks \ {"out", "done", "skipped", "broken"}

\* What the task of a file holds is given back with its transaction.
Gives(e, u) ==
    /\ lock' = [lock EXCEPT ![u] = IF @ = e THEN None ELSE @]
    /\ batch' = [batch EXCEPT ![e][u] = {}]
    /\ UNCHANGED <<copied, sources, vectors, saw, passes>>

\* A parser that does not answer in time and a vector that is not one are
\* errors of the document, although it may be stored.
Refuses(e, u) ==
    /\ At(e, u, "parsing") \/ At(e, u, "waiting")
    /\ Moves(e, u, "skipped") /\ Gives(e, u)

\* The database, the store or the model fails.
Fails(e, u) ==
    /\ \E t \in Working : At(e, u, t)
    /\ Moves(e, u, "broken") /\ Gives(e, u)

Ingests(e, u) ==
    \/ Look(e, u) \/ Copy(e, u) \/ Parse(e, u) \/ Find(e, u) \/ Store(e, u)
    \/ Batches(e, u) \/ Fill(e, u)

----------------------------------------------------------------------------
(* The execution around it *)

\* Its files are taken up side by side.
Begins(e) ==
    /\ task' = [task EXCEPT ![e] = [u \in Uploads |-> "looking"]]
    /\ UNCHANGED <<corpus, saw, batch, passes>>

\* All are in, or given up.
Ready(e) == \A u \in Uploads : task[e][u] \in {"done", "skipped"}

\* One failure cancels the others, and fails the execution.
Broken(e) == \E u \in Uploads : task[e][u] = "broken"

Abandons(e) ==
    /\ task' = [task EXCEPT ![e] = [u \in Uploads |-> "out"]]
    /\ lock' = [u \in Uploads |-> IF lock[u] = e THEN None ELSE lock[u]]
    /\ batch' = [batch EXCEPT ![e] = [u \in Uploads |-> {}]]
    /\ UNCHANGED <<copied, sources, vectors, saw, passes>>

StoryGoesOn(e) ==
    \/ Prime(e) /\ Begins(e)
    \/ Ready(e) /\ Resume(e) /\ UNCHANGED <<corpus, ingesting>>
    \/ Broken(e) /\ BriefFails(e) /\ Abandons(e)
    \/ Works(e) /\ UNCHANGED <<corpus, ingesting>>

IngestGoesOn(e, u) == Ingests(e, u) /\ UNCHANGED vars

IngestFails(e, u) == (Refuses(e, u) \/ Fails(e, u)) /\ FileFails

ExecInit == Init /\ IngestInit

ExecNext ==
    \/ \E e \in Executions :
         \/ StoryGoesOn(e)
         \/ (RecordFails(e) \/ Breaks(e)) /\ UNCHANGED <<corpus, ingesting>>
         \/ Crash(e) /\ Abandons(e)
         \/ \E u \in Uploads : IngestGoesOn(e, u) \/ IngestFails(e, u)
    \/ (CancelReads \/ Cancels \/ CancelRollsBack) /\ UNCHANGED <<corpus, ingesting>>

ExecSpec == ExecInit /\ [][ExecNext]_allVars

SomebodyGoesOn ==
    \/ Cancels /\ UNCHANGED <<corpus, ingesting>>
    \/ \E e \in Executions : StoryGoesOn(e) \/ \E u \in Uploads : IngestGoesOn(e, u)

ExecFairness == WF_allVars(SomebodyGoesOn)

ExecFairSpec == ExecSpec /\ ExecFairness

----------------------------------------------------------------------------
\* Types: the story's and the corpus'.
TypesOK ==
    /\ TypeOK
    /\ task \in [Executions -> [Uploads -> Tasks]]
    /\ saw \in [Executions -> [Uploads -> BOOLEAN]]
    /\ batch \in [Executions -> [Uploads -> SUBSET (1 .. Chunks)]]
    /\ passes \in [Executions -> [Uploads -> 0 .. Passes]]
    /\ copied \subseteq Uploads
    /\ lock \in [Uploads -> Executions \cup {None}]
    /\ sources \in [Uploads -> Nat]
    /\ vectors \in [Uploads -> SUBSET (1 .. Chunks)]

\* However many executions ingest a file at once, it is one source of the run;
\* and a file an execution counts as ingested has its copy, its document and,
\* with a model to embed them, all its vectors, whatever failed in between, if a
\* batch is not larger than what a read returns (ingest, _store, embed_pending).
IngestedOnce ==
    \A u \in Uploads :
        /\ sources[u] <= 1
        /\ \A e \in Executions : task[e][u] = "done" =>
             /\ u \in copied /\ sources[u] = 1
             /\ Embedder /\ Batch <= Page => Pending(u) = {}
=============================================================================
