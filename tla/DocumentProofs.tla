--------------------------- MODULE DocumentProofs ---------------------------
(***************************************************************************)
(* What holds of documents: of the ingestion pipeline first, then of a     *)
(* search over it.                                                         *)
(***************************************************************************)
EXTENDS KnowledgeSearch, TLAPS

(***************************************************************************)
(* What holds of IngestionPipeline for any set of contents and requests,   *)
(* any number of attempts and however often the worker dies.               *)
(*                                                                         *)
(* No transaction spans the database and the vector store.  What keeps     *)
(* them together is what the worker knows at each step although the API    *)
(* writes to the same rows: its copies of the statuses are out of date in  *)
(* one way only (CopiesFresh), the chunks that it embeds stay              *)
(* (ChunksKept), and the index stays empty while it is being replaced      *)
(* (IndexEmptied).                                                         *)
(***************************************************************************)

\* The types of all but the auxiliary variable.
RowsOK ==
    /\ document \in Document
    /\ version \in [Versions -> Version]
    /\ points \subseteq Versions
    /\ job \in [Jobs -> Job]
    /\ worker \in Worker
    /\ session \in [Handlers -> Session]
    /\ requests \in Nat
    /\ crashes \in Nat

\* Steps at which the worker has read the rows of its job, has read chunks to
\* embed, works on one version, and has emptied the index.
Reading == {"loaded", "parsing", "chunking", "embedding", "indexing", "cleared",
            "upserted", "excluded", "rebuilding", "marked", "erased", "failing"}
Embedding == {"embedding", "indexing", "cleared", "upserted"}
OneVersion == {"parsing", "chunking", "excluded", "rebuilding"} \cup Embedding
Emptied == {"cleared", "rebuilding", "erased"}
Deleting == {"marked", "erased"}

Locking == {"upload", "accept", "delete"}

\* What a request is about, and the stage an upload asks for.
Sound(s) ==
    /\ s.op = "delete" <=> s.stage = "delete"
    /\ s.op \notin {"idle", "delete"} => s.version \in Versions
    /\ s.op = "accept" => s.stage = IF s.status = "absent" THEN "parse" ELSE "reindex"

\* One request at a time holds the document's lock.
Requests ==
    /\ \A h \in Handlers : Sound(session[h])
    /\ \A h, i \in Handlers : session[h].op \in Locking /\ session[i].op \in Locking => h = i

WorkerJobs ==
    /\ worker.step \notin {"down", "idle"} => worker.job \in Jobs
    /\ worker.step \in OneVersion => worker.job # Deletion
    /\ worker.step \in Deleting => worker.job = Deletion

\* The API writes no status but RECEIVED.
CopiesFresh ==
    worker.step \in Reading =>
        \A v \in Versions :
            (worker.job = Deletion /\ worker.step # "failing") \/ v = Subject =>
                version[v].status \in {worker.loaded[v], "received"}

ChunksKept == worker.step \in Embedding => version[Subject].chunks

IndexEmptied == worker.step \in Emptied => points = {}

\* An attempt is left to a job that can be claimed, and to one that a dead
\* worker has left behind: its death counts.
Bounded(j, down, deaths) ==
    /\ j.attempts <= MaxAttempts + deaths
    /\ j.state = "pending" => j.attempts = 0
    /\ j.state = "failed_retryable" \/ (j.state = "in_progress" /\ down) =>
         j.attempts < MaxAttempts + deaths

JobsBounded == \A k \in Jobs : Bounded(job[k], worker.step = "down", crashes)

Stores ==
    /\ CopiesFresh
    /\ ChunksKept
    /\ IndexEmptied
    /\ IndexedHasChunks
    /\ NoDanglingPoints
    /\ OneVersionSearchable

IInv == RowsOK /\ Requests /\ WorkerJobs /\ JobsBounded /\ Stores

USE PipelineAssumption

-----------------------------------------------------------------------------
(***************************************************************************)
(* Names and rows.                                                         *)
(***************************************************************************)

LEMMA JobNames ==
    /\ Deletion \in Jobs
    /\ \A k \in Jobs \ {Deletion} : VersionOf(k) \in Versions
    /\ \A k \in Jobs : Type(k) \in Stages => k # Deletion
    /\ \A s \in Stages, v \in Versions :
         <<s, v>> \in Jobs /\ VersionOf(<<s, v>>) = v
  BY DEF Jobs, Deletion, Stages, VersionOf, Type

LEMMA NewJobRow ==
    ASSUME NEW v \in Versions \cup {None}, NEW down \in BOOLEAN, NEW deaths \in Nat
    PROVE  /\ Pending(v) \in Job
           /\ Pending(v).state = "pending" /\ Pending(v).version = v
           /\ Bounded(Pending(v), down, deaths)
           /\ NewJob \in Job
           /\ Bounded(NewJob, down, deaths)
  <1>1. PICK new : new = [NewJob EXCEPT !.state = "pending", !.version = v]
    OBVIOUS
  <1>2. /\ new \in Job /\ new.attempts = 0 /\ new.state = "pending" /\ new.version = v
        /\ NewJob \in Job /\ NewJob.attempts = 0 /\ NewJob.state = "none"
    BY <1>1 DEF NewJob, Job
  <1>3. Bounded(new, down, deaths) /\ Bounded(NewJob, down, deaths)
    BY <1>2 DEF Bounded
  <1> QED BY <1>1, <1>2, <1>3 DEF Pending

\* A job that is enqueued has all its attempts.
LEMMA EnqueueRows ==
    ASSUME NEW jobs \in [Jobs -> Job], NEW k \in Jobs, NEW v \in Versions \cup {None},
           NEW down \in BOOLEAN, NEW deaths \in Nat,
           \A i \in Jobs : Bounded(jobs[i], down, deaths)
    PROVE  /\ Enqueue(jobs, k, v) \in [Jobs -> Job]
           /\ \A i \in Jobs : Bounded(Enqueue(jobs, k, v)[i], down, deaths)
  <1>1. Pending(v) \in Job /\ Bounded(Pending(v), down, deaths)
    BY NewJobRow
  <1> QED BY <1>1 DEF Enqueue

\* What a request enqueues.
LEMMA InsertedRows ==
    ASSUME IInv, NEW h \in Handlers, session[h].op # "idle"
    PROVE  /\ Requested(session[h]) \in Jobs /\ job \in [Jobs -> Job]
           /\ session[h].version \in Versions \cup {None}
           /\ session[h].op # "delete" =>
                /\ session[h].version \in Versions /\ session[h].stage \in Stages
                /\ Requested(session[h]) = <<session[h].stage, session[h].version>>
           /\ session[h].op = "delete" => Requested(session[h]) = Deletion
           /\ Inserted(session[h]) \in [Jobs -> Job]
           /\ \A k \in Jobs : Bounded(Inserted(session[h])[k], worker.step = "down", crashes)
  <1> DEFINE s == session[h]
  <1>1. s \in Session /\ Sound(s) /\ crashes \in Nat /\ job \in [Jobs -> Job]
    BY DEF IInv, RowsOK, Requests
  <1>2. s.version \in Versions \cup {None}
        /\ s.stage \in Stages \cup {"delete"}
    BY <1>1 DEF Session
  <1>3. CASE s.op = "delete"
    <2>1. Requested(s) = Deletion
      BY <1>1, <1>3 DEF Sound, Requested
    <2>2. Pending(s.version) \in Job /\ Bounded(Pending(s.version), worker.step = "down", crashes)
      BY <1>1, <1>2, NewJobRow
    <2> QED BY <1>1, <1>2, <1>3, <2>1, <2>2, JobNames DEF Inserted, IInv, JobsBounded
  <1>4. CASE s.op # "delete"
    <2>1. s.version \in Versions /\ s.stage \in Stages
          /\ Requested(s) = <<s.stage, s.version>>
      BY <1>1, <1>2, <1>4 DEF Sound, Requested
    <2>2. Pending(s.version) \in Job /\ Bounded(Pending(s.version), worker.step = "down", crashes)
      BY <1>1, <1>2, NewJobRow
    <2>3. Requested(s) \in Jobs
      BY <2>1, JobNames
    <2> QED BY <1>1, <1>2, <1>4, <2>1, <2>2, <2>3 DEF Inserted, IInv, JobsBounded
  <1> QED BY <1>3, <1>4

-----------------------------------------------------------------------------
(***************************************************************************)
(* The two stores, by what a step does to them.                            *)
(***************************************************************************)

\* A step that touches neither.
LEMMA StoresUntouched ==
    ASSUME Stores, UNCHANGED <<version, points, worker>>
    PROVE  Stores'
  BY DEF Stores, CopiesFresh, ChunksKept, IndexEmptied, IndexedHasChunks,
         NoDanglingPoints, OneVersionSearchable, Subject

\* The API: statuses become RECEIVED, chunks stay.
LEMMA StoresReceive ==
    ASSUME RowsOK, WorkerJobs, Stores, UNCHANGED <<points, worker>>,
           \A v \in Versions : /\ version'[v].chunks = version[v].chunks
                               /\ version'[v].status \in {version[v].status, "received"}
    PROVE  Stores'
  <1>1. CopiesFresh'
    BY DEF Stores, CopiesFresh, Subject
  <1>2. ChunksKept'
    BY JobNames DEF Stores, ChunksKept, Subject, WorkerJobs, Embedding, OneVersion
  <1>3. IndexEmptied'
    BY DEF Stores, IndexEmptied
  <1>4. IndexedHasChunks'
    BY DEF Stores, IndexedHasChunks
  <1>5. NoDanglingPoints'
    BY DEF Stores, NoDanglingPoints, RowsOK
  <1>6. OneVersionSearchable'
    BY DEF Stores, OneVersionSearchable
  <1> QED BY <1>1, <1>2, <1>3, <1>4, <1>5, <1>6 DEF Stores

\* The worker is, or becomes, without copies, and leaves the index alone.
LEMMA StoresReleased ==
    ASSUME Stores, worker'.step \in {"down", "idle", "claimed"}, points' = points,
           IndexedHasChunks', NoDanglingPoints'
    PROVE  Stores'
  <1>1. CopiesFresh' /\ ChunksKept' /\ IndexEmptied'
    BY DEF CopiesFresh, ChunksKept, IndexEmptied, Reading, Embedding, Emptied
  <1>2. OneVersionSearchable'
    BY DEF Stores, OneVersionSearchable
  <1> QED BY <1>1, <1>2 DEF Stores


-----------------------------------------------------------------------------
(***************************************************************************)
(* The API.                                                                *)
(***************************************************************************)

\* The sessions and the queue, with both stores left alone.
LEMMA QueueStep ==
    ASSUME IInv, RowsOK', Requests', UNCHANGED <<version, points, worker, crashes>>,
           \A k \in Jobs : Bounded(job'[k], worker.step = "down", crashes)
    PROVE  IInv'
  <1>1. WorkerJobs' /\ JobsBounded'
    BY DEF IInv, WorkerJobs, JobsBounded
  <1>2. Stores'
    BY StoresUntouched DEF IInv
  <1> QED BY <1>1, <1>2 DEF IInv

LEMMA BeginStep ==
    ASSUME IInv, NEW h \in Handlers, NEW s \in Session, Sound(s), s.op # "accept",
           s.op \in Locking => ~Locked,
           Begin(h, s)
    PROVE  IInv'
  <1>1. RowsOK'
    BY DEF IInv, RowsOK, Begin
  <1>2. \A k \in Jobs : Bounded(job'[k], worker.step = "down", crashes)
    BY DEF IInv, JobsBounded, Begin
  <1>3. Requests'
    BY DEF IInv, RowsOK, Requests, Begin, Locked, Locking
  <1> QED BY <1>1, <1>2, <1>3, QueueStep DEF Begin

LEMMA IdleSession == Idle \in Session /\ Idle.op = "idle" /\ Sound(Idle)
  BY DEF Idle, Session, Statuses, Stages, Sound

\* A request that becomes s, and holds no lock that it did not hold before.
LEMMA SessionStep ==
    ASSUME IInv, NEW h \in Handlers, NEW s \in Session, Sound(s),
           s.op \in Locking => session[h].op \in Locking,
           session' = [session EXCEPT ![h] = s]
    PROVE  session' \in [Handlers -> Session] /\ Requests'
  BY DEF IInv, RowsOK, Requests

LEMMA UploadBeginStep ==
    ASSUME IInv, NEW h \in Handlers, NEW v \in Versions, UploadBegin(h, v)
    PROVE  IInv'
  <1>1. PICK s : s = [Idle EXCEPT !.op = "upload", !.version = v,
                                  !.status = version[v].status, !.error = version[v].error]
    OBVIOUS
  <1>2. version[v] \in Version
    BY DEF IInv, RowsOK
  <1>3. s \in Session /\ s.op = "upload" /\ Sound(s)
    BY <1>1, <1>2 DEF Idle, Session, Version, Stages, Sound
  <1> QED BY <1>1, <1>3, BeginStep DEF UploadBegin

LEMMA RetryBeginStep ==
    ASSUME IInv, NEW h \in Handlers, RetryBegin(h)
    PROVE  IInv'
  <1> DEFINE v == document.current
             blocked == version[v].status = "chunked" /\ version[v].error = "blocked"
  <1>1. PICK s : s = [Idle EXCEPT !.op = "retry", !.version = v, !.error = version[v].error,
                        !.stage = IF blocked \/ version[v].chunks THEN "embed" ELSE "parse"]
    OBVIOUS
  <1>2. v \in Versions /\ version[v] \in Version
    BY DEF IInv, RowsOK, Document, RetryBegin
  <1>3. s \in Session /\ s.op = "retry" /\ Sound(s)
    BY <1>1, <1>2 DEF Idle, Session, Version, Stages, Statuses, Sound
  <1> QED BY <1>1, <1>3, BeginStep DEF RetryBegin, Locking

LEMMA ReindexBeginStep ==
    ASSUME IInv, NEW h \in Handlers, ReindexBegin(h)
    PROVE  IInv'
  <1>1. PICK s : s = [Idle EXCEPT !.op = "reindex", !.version = document.current,
                                  !.stage = "reindex"]
    OBVIOUS
  <1>2. document.current \in Versions
    BY DEF IInv, RowsOK, Document, ReindexBegin
  <1>3. s \in Session /\ s.op = "reindex" /\ Sound(s)
    BY <1>1, <1>2 DEF Idle, Session, Stages, Statuses, Sound
  <1> QED BY <1>1, <1>3, BeginStep DEF ReindexBegin, Locking

LEMMA DeleteBeginStep ==
    ASSUME IInv, NEW h \in Handlers, NEW v \in Versions \cup {None}, DeleteBegin(h, v)
    PROVE  IInv'
  <1>1. PICK b \in BOOLEAN : b = ~Active(Deletion)
    OBVIOUS
  <1>2. PICK s : s = [Idle EXCEPT !.op = "delete", !.version = v, !.stage = "delete",
                                  !.insert = b]
    OBVIOUS
  <1>3. s \in Session /\ s.op = "delete" /\ Sound(s)
    BY <1>2 DEF Idle, Session, Stages, Statuses, Sound
  <1> QED BY <1>1, <1>2, <1>3, BeginStep DEF DeleteBegin

\* Only a session changes.
LEMMA RequestStep ==
    ASSUME IInv, NEW h \in Handlers, NEW s \in Session, Sound(s),
           s.op \in Locking => session[h].op \in Locking,
           session' = [session EXCEPT ![h] = s],
           UNCHANGED <<document, version, points, job, worker, requests, crashes>>
    PROVE  IInv'
  <1>1. session' \in [Handlers -> Session] /\ Requests'
    BY SessionStep
  <1>2. RowsOK'
    BY <1>1 DEF IInv, RowsOK
  <1>3. \A k \in Jobs : Bounded(job'[k], worker.step = "down", crashes)
    BY DEF IInv, JobsBounded
  <1> QED BY <1>1, <1>2, <1>3, QueueStep

LEMMA UploadAcceptStep ==
    ASSUME IInv, NEW h \in Handlers, UploadAccept(h)
    PROVE  IInv'
  <1> DEFINE o == session[h]
             stage == IF o.status = "absent" THEN "parse" ELSE "reindex"
  <1>1. o \in Session /\ o.op = "upload" /\ o.version \in Versions
        /\ session \in [Handlers -> Session]
    BY DEF IInv, RowsOK, Requests, Sound, UploadAccept
  <1>2. PICK g \in {"parse", "reindex"} : g = stage
    OBVIOUS
  <1>3. PICK b \in BOOLEAN : b = (RequiresReindex(o) /\ ~Active(<<stage, o.version>>))
    OBVIOUS
  <1>4. PICK s : s = [o EXCEPT !.op = "accept", !.stage = g, !.insert = b]
    OBVIOUS
  <1>5. s \in Session /\ s.op = "accept" /\ s.stage = g /\ s.status = o.status
        /\ s.version = o.version
    BY <1>1, <1>4 DEF Session, Stages
  <1>6. Sound(s)
    BY <1>1, <1>2, <1>5 DEF Sound
  <1>7. session' = [session EXCEPT ![h] = s]
    BY <1>1, <1>2, <1>3, <1>4 DEF UploadAccept
  <1> QED BY <1>1, <1>5, <1>6, <1>7, RequestStep DEF UploadAccept, Locking

LEMMA EnqueueLookStep ==
    ASSUME IInv, NEW h \in Handlers, EnqueueLook(h)
    PROVE  IInv'
  <1> DEFINE o == session[h]
  <1>1. o \in Session /\ o.op \in {"retry", "reindex"} /\ Sound(o)
        /\ session \in [Handlers -> Session]
    BY DEF IInv, RowsOK, Requests, EnqueueLook
  <1>2. PICK b \in BOOLEAN : b = ~Busy(o.version)
    OBVIOUS
  <1>3. PICK s : s = [o EXCEPT !.op = "enqueue", !.insert = b]
    OBVIOUS
  <1>4. s \in Session /\ s.op = "enqueue" /\ s.stage = o.stage /\ s.version = o.version
    BY <1>1, <1>3 DEF Session
  <1>5. Sound(s)
    BY <1>1, <1>4 DEF Sound
  <1>6. session' = [session EXCEPT ![h] = s]
    BY <1>1, <1>2, <1>3 DEF EnqueueLook
  <1> QED BY <1>4, <1>5, <1>6, RequestStep DEF EnqueueLook, Locking

LEMMA RollbackStep ==
    ASSUME IInv, NEW h \in Handlers, Rollback(h)
    PROVE  IInv'
  BY IdleSession, RequestStep DEF Rollback, Locking

\* A request that commits: statuses become RECEIVED at most.
LEMMA CommitStep ==
    ASSUME IInv, NEW h \in Handlers, session[h].op # "idle",
           document' \in Document, version' \in [Versions -> Version],
           \A v \in Versions : /\ version'[v].chunks = version[v].chunks
                               /\ version'[v].status \in {version[v].status, "received"},
           job' = Inserted(session[h]),
           session' = [session EXCEPT ![h] = Idle],
           UNCHANGED <<points, worker, requests, crashes>>
    PROVE  IInv'
  <1>1. /\ job' \in [Jobs -> Job]
        /\ \A k \in Jobs : Bounded(job'[k], worker.step = "down", crashes)
    BY InsertedRows
  <1>2. session' \in [Handlers -> Session] /\ Requests'
    BY IdleSession, SessionStep DEF Locking
  <1>3. RowsOK'
    BY <1>1, <1>2 DEF IInv, RowsOK
  <1>4. WorkerJobs' /\ JobsBounded'
    BY <1>1 DEF IInv, WorkerJobs, JobsBounded
  <1>5. Stores'
    BY StoresReceive DEF IInv
  <1> QED BY <1>2, <1>3, <1>4, <1>5 DEF IInv

LEMMA DeleteDocumentStep ==
    ASSUME IInv, NEW h \in Handlers, DeleteDocument(h)
    PROVE  IInv'
  <1>1. document' \in Document /\ version' \in [Versions -> Version]
    BY DEF IInv, RowsOK, Document, DeleteDocument
  <1> QED BY <1>1, CommitStep DEF DeleteDocument

\* UPDATEs of the status and the error of one version.
LEMMA StatusRow ==
    ASSUME version \in [Versions -> Version], NEW v \in Versions,
           NEW s \in Statuses, NEW e \in {"none", "blocked", "other"},
           version' = [version EXCEPT ![v].status = s, ![v].error = e]
    PROVE  /\ version' \in [Versions -> Version]
           /\ version'[v].status = s
           /\ \A u \in Versions \ {v} : version'[u] = version[u]
           /\ \A u \in Versions : /\ version'[u].chunks = version[u].chunks
                                  /\ version'[u].sections = version[u].sections
  <1>1. PICK new : new = [version[v] EXCEPT !.status = s, !.error = e]
    OBVIOUS
  <1>2. version[v] \in Version
    OBVIOUS
  <1>3. /\ new \in Version /\ new.status = s
        /\ new.chunks = version[v].chunks /\ new.sections = version[v].sections
    BY <1>1, <1>2 DEF Version
  <1>4. version' = [version EXCEPT ![v] = new]
    BY <1>1
  <1> QED BY <1>3, <1>4

LEMMA UploadCommitRows ==
    ASSUME IInv, NEW h \in Handlers, UploadCommit(h)
    PROVE  /\ session[h].version \in Versions /\ version' \in [Versions -> Version]
           /\ \A u \in Versions \ {session[h].version} : version'[u] = version[u]
           /\ \A u \in Versions : version'[u].chunks = version[u].chunks
           /\ version'[session[h].version].status =
                IF RequiresReindex(session[h]) /\ session[h].status # "received"
                THEN "received" ELSE version[session[h].version].status
  <1> DEFINE s == session[h]
  <1>1. PICK v \in Versions : v = s.version
    BY InsertedRows DEF UploadCommit
  <1>2. version[v] \in Version /\ version \in [Versions -> Version]
    BY DEF IInv, RowsOK
  <1>3. version[v].status \in Statuses /\ version[v].error \in {"none", "blocked", "other"}
        /\ "received" \in Statuses
    BY <1>2 DEF Version, Statuses
  <1>4. CASE ~RequiresReindex(s)
    BY <1>1, <1>2, <1>4 DEF UploadCommit
  <1>5. CASE RequiresReindex(s)
    <2>1. PICK t \in {version[v].status, "received"} :
            t = IF s.status = "received" THEN version[v].status ELSE "received"
      OBVIOUS
    <2>2. PICK e \in {"none", "blocked", "other"} :
            e = IF s.error = "none" THEN version[v].error ELSE "none"
      BY <1>3
    <2>3. version' = [version EXCEPT ![v].status = t, ![v].error = e]
      BY <1>1, <1>5, <2>1, <2>2 DEF UploadCommit
    <2>4. t \in Statuses
      BY <1>3
    <2>5. /\ version' \in [Versions -> Version] /\ version'[v].status = t
          /\ \A u \in Versions \ {v} : version'[u] = version[u]
          /\ \A u \in Versions : version'[u].chunks = version[u].chunks
      BY <1>2, <2>3, <2>4, StatusRow
    <2> QED BY <1>1, <1>5, <2>1, <2>5
  <1> QED BY <1>4, <1>5

LEMMA UploadCommitStep ==
    ASSUME IInv, NEW h \in Handlers, UploadCommit(h)
    PROVE  IInv'
  <1>1. document' \in Document
    BY UploadCommitRows DEF Document, UploadCommit
  <1>2. \A u \in Versions : version'[u].status \in {version[u].status, "received"}
    BY UploadCommitRows
  <1> QED BY <1>1, <1>2, UploadCommitRows, CommitStep DEF UploadCommit

LEMMA EnqueueDocumentJobStep ==
    ASSUME IInv, NEW h \in Handlers, EnqueueDocumentJob(h)
    PROVE  IInv'
  <1> DEFINE s == session[h]
             v == s.version
  <1>1. v \in Versions
    BY InsertedRows DEF EnqueueDocumentJob
  <1>2. version[v] \in Version /\ version \in [Versions -> Version]
    BY <1>1 DEF IInv, RowsOK
  <1>3. document' \in Document
    BY DEF IInv, RowsOK, EnqueueDocumentJob
  <1>4. PICK new : new = [version[v] EXCEPT !.error = "none"]
    OBVIOUS
  <1>5. new \in Version /\ new.chunks = version[v].chunks /\ new.status = version[v].status
    BY <1>2, <1>4 DEF Version
  <1>6. version' = version \/ version' = [version EXCEPT ![v] = new]
    BY <1>4 DEF EnqueueDocumentJob
  <1>7. /\ version' \in [Versions -> Version]
        /\ \A u \in Versions : /\ version'[u].chunks = version[u].chunks
                               /\ version'[u].status \in {version[u].status, "received"}
    BY <1>1, <1>2, <1>5, <1>6
  <1> QED BY <1>3, <1>7, CommitStep DEF EnqueueDocumentJob

-----------------------------------------------------------------------------
(***************************************************************************)
(* The worker and its queue.                                               *)
(***************************************************************************)

\* The worker is without copies after the step.
LEMMA ReleaseStep ==
    ASSUME IInv, worker' \in Worker, worker'.step \in {"down", "idle", "claimed"},
           worker'.step = "claimed" => worker'.job \in Jobs,
           job' \in [Jobs -> Job], crashes' \in Nat,
           \A k \in Jobs : Bounded(job'[k], worker'.step = "down", crashes'),
           version' \in [Versions -> Version], points' = points,
           IndexedHasChunks', NoDanglingPoints',
           UNCHANGED <<document, session, requests>>
    PROVE  IInv'
  <1>1. RowsOK'
    BY DEF IInv, RowsOK
  <1>2. Requests'
    BY DEF IInv, Requests
  <1>3. WorkerJobs' /\ JobsBounded'
    BY DEF WorkerJobs, JobsBounded, OneVersion, Embedding, Deleting
  <1>4. Stores'
    BY StoresReleased DEF IInv
  <1> QED BY <1>1, <1>2, <1>3, <1>4 DEF IInv

LEMMA UnloadedWorkers ==
    /\ Down \in Worker /\ Down.step = "down"
    /\ IdleWorker \in Worker /\ IdleWorker.step = "idle"
    /\ \A k \in Jobs : LET w == [IdleWorker EXCEPT !.step = "claimed", !.job = k]
                       IN  w \in Worker /\ w.step = "claimed" /\ w.job = k
  <1>1. Unloaded \in [Versions -> Statuses]
    BY DEF Unloaded, Statuses
  <1>2. Down \in Worker /\ Down.step = "down"
    BY <1>1 DEF Down, Worker
  <1>3. IdleWorker \in Worker /\ IdleWorker.step = "idle"
    BY <1>2 DEF IdleWorker, Worker
  <1>4. ASSUME NEW k \in Jobs
        PROVE  LET w == [IdleWorker EXCEPT !.step = "claimed", !.job = k]
               IN  w \in Worker /\ w.step = "claimed" /\ w.job = k
    <2>1. PICK w : w = [IdleWorker EXCEPT !.step = "claimed", !.job = k]
      OBVIOUS
    <2>2. w \in Worker /\ w.step = "claimed" /\ w.job = k
      BY <1>3, <2>1 DEF Worker
    <2> QED BY <2>1, <2>2
  <1> QED BY <1>2, <1>3, <1>4

\* The database is left alone.
LEMMA SameStores ==
    ASSUME IInv, UNCHANGED <<version, points>>
    PROVE  /\ version' \in [Versions -> Version]
           /\ IndexedHasChunks' /\ NoDanglingPoints'
  BY DEF IInv, RowsOK, Stores, IndexedHasChunks, NoDanglingPoints

LEMMA StartStep ==
    ASSUME IInv, Start
    PROVE  IInv'
  <1>1. job \in [Jobs -> Job] /\ crashes \in Nat /\ worker.step = "down"
    BY DEF IInv, RowsOK, Start
  <1>2. \A k \in Jobs : job'[k] \in Job /\ Bounded(job'[k], FALSE, crashes)
    <2> SUFFICES ASSUME NEW k \in Jobs
                 PROVE  job'[k] \in Job /\ Bounded(job'[k], FALSE, crashes)
      OBVIOUS
    <2>1. job[k] \in Job /\ Bounded(job[k], TRUE, crashes)
      BY <1>1 DEF IInv, JobsBounded
    <2>2. PICK new : new = [job[k] EXCEPT !.state = "failed_retryable", !.error = "restart"]
      OBVIOUS
    <2>3. /\ new \in Job /\ new.attempts = job[k].attempts /\ new.state = "failed_retryable"
      BY <2>1, <2>2 DEF Job
    <2>4. job'[k] = IF job[k].state = "in_progress" THEN new ELSE job[k]
      BY <2>2 DEF Start
    <2>5. CASE job[k].state = "in_progress"
      BY <2>1, <2>3, <2>4, <2>5 DEF Bounded
    <2>6. CASE job[k].state # "in_progress"
      BY <2>1, <2>4, <2>6 DEF Bounded
    <2> QED BY <2>5, <2>6
  <1>3. job' \in [Jobs -> Job]
    BY <1>2 DEF Start
  <1>4. worker' = IdleWorker /\ UNCHANGED <<document, version, points, session, requests, crashes>>
    BY DEF Start
  <1>5. worker' \in Worker /\ worker'.step = "idle"
    BY <1>4, UnloadedWorkers
  <1>6. \A k \in Jobs : Bounded(job'[k], worker'.step = "down", crashes')
    BY <1>2, <1>4, <1>5 DEF Bounded
  <1> QED BY <1>1, <1>3, <1>4, <1>5, <1>6, SameStores, ReleaseStep

LEMMA ClaimStep ==
    ASSUME IInv, NEW k \in Jobs, Claim(k)
    PROVE  IInv'
  <1>1. job \in [Jobs -> Job] /\ crashes \in Nat /\ job[k] \in Job
    BY DEF IInv, RowsOK
  <1>2. PICK new : new = [job[k] EXCEPT !.state = "in_progress", !.attempts = @ + 1]
    OBVIOUS
  <1>a. job[k].attempts \in Nat
    BY <1>1 DEF Job
  <1>3. new \in Job /\ new.attempts = job[k].attempts + 1 /\ new.state = "in_progress"
    <2>1. PICK n \in Nat : n = job[k].attempts + 1
      BY <1>a
    <2>2. new = [job[k] EXCEPT !.state = "in_progress", !.attempts = n]
      BY <1>2, <2>1
    <2> QED BY <1>1, <2>1, <2>2 DEF Job
  <1>4. job' = [job EXCEPT ![k] = new]
    BY <1>2 DEF Claim
  <1>5. Bounded(new, FALSE, crashes)
    BY <1>1, <1>a, <1>3 DEF IInv, JobsBounded, Bounded, Claim
  <1>6. \A i \in Jobs : Bounded(job[i], FALSE, crashes)
    BY DEF IInv, JobsBounded, Bounded, Claim
  <1>7. UNCHANGED <<document, version, points, session, requests, crashes>>
    BY DEF Claim
  <1>8. worker' \in Worker /\ worker'.step = "claimed" /\ worker'.job = k
    BY UnloadedWorkers DEF Claim
  <1>9. job' \in [Jobs -> Job]
    BY <1>1, <1>3, <1>4
  <1>10. \A i \in Jobs : Bounded(job'[i], worker'.step = "down", crashes')
    BY <1>1, <1>4, <1>5, <1>6, <1>7, <1>8 DEF Bounded
  <1> QED BY <1>1, <1>7, <1>8, <1>9, <1>10, SameStores, ReleaseStep

LEMMA CrashStep ==
    ASSUME IInv, Crash
    PROVE  IInv'
  <1>1. job \in [Jobs -> Job] /\ crashes \in Nat /\ crashes' = crashes + 1
        /\ UNCHANGED <<document, version, points, job, session, requests>>
    BY DEF IInv, RowsOK, Crash
  <1>2. worker' \in Worker /\ worker'.step = "down"
    BY UnloadedWorkers DEF Crash
  <1>3. \A k \in Jobs : Bounded(job'[k], worker'.step = "down", crashes')
    <2> SUFFICES ASSUME NEW k \in Jobs
                 PROVE  Bounded(job[k], TRUE, crashes + 1)
      BY <1>1, <1>2 DEF Bounded
    <2>1. job[k].attempts \in Nat
      BY <1>1 DEF Job
    <2>2. /\ job[k].attempts <= MaxAttempts + crashes
          /\ job[k].state = "pending" => job[k].attempts = 0
      BY DEF IInv, JobsBounded, Bounded
    <2> QED BY <1>1, <2>1, <2>2 DEF Bounded
  <1> QED BY <1>1, <1>2, <1>3, SameStores, ReleaseStep

-----------------------------------------------------------------------------
(***************************************************************************)
(* The end of a job.                                                       *)
(***************************************************************************)

\* The version a stage works on, and its row.
LEMMA SubjectRow ==
    ASSUME IInv, worker.step \in Reading, worker.job # Deletion
    PROVE  /\ worker.job \in Jobs /\ Subject \in Versions
           /\ version \in [Versions -> Version] /\ version[Subject] \in Version
           /\ version[Subject].status \in {worker.loaded[Subject], "received"}
           /\ version[Subject].status = "indexed" => version[Subject].chunks
           /\ Subject \in points => version[Subject].chunks
  <1>1. worker.job \in Jobs /\ Subject \in Versions
    BY JobNames DEF IInv, WorkerJobs, Reading, Subject
  <1>2. version \in [Versions -> Version] /\ version[Subject] \in Version
    BY <1>1 DEF IInv, RowsOK
  <1>3. version[Subject].status \in {worker.loaded[Subject], "received"}
    BY <1>1 DEF IInv, Stores, CopiesFresh
  <1> QED BY <1>1, <1>2, <1>3 DEF IInv, Stores, IndexedHasChunks, NoDanglingPoints

LEMMA LoadedStep ==
    ASSUME NEW type \in Stages, Loaded(type), IInv
    PROVE  worker.step = "loaded" /\ worker.step \in Reading /\ worker.job # Deletion
  <1>1. worker.step = "loaded" /\ worker.job \in Jobs
    BY DEF Loaded, IInv, WorkerJobs
  <1> QED BY <1>1, JobNames DEF Loaded, Reading

LEMMA WorkingStep ==
    ASSUME IInv, worker.step \in OneVersion
    PROVE  worker.step \in Reading /\ worker.job # Deletion
  BY DEF IInv, WorkerJobs, OneVersion, Embedding, Reading

\* A status that the worker writes is written, or what the API wrote stays.
LEMMA WrittenStatus ==
    ASSUME IInv, worker.step \in Reading, worker.job # Deletion, NEW s \in Statuses
    PROVE  /\ Written(Subject, s) \in Statuses
           /\ Written(Subject, s) \in {s, "received"}
  <1>1. version[Subject].status \in Statuses
    BY SubjectRow DEF Version
  <1> QED BY <1>1, SubjectRow DEF Written

LEMMA SucceededRows ==
    ASSUME IInv, worker.step \in Reading
    PROVE  /\ Succeeded \in [Jobs -> Job]
           /\ \A k \in Jobs : Bounded(Succeeded[k], FALSE, crashes)
  <1>1. job \in [Jobs -> Job] /\ crashes \in Nat
    BY DEF IInv, RowsOK
  <1>2. NewJob \in Job /\ Bounded(NewJob, FALSE, crashes)
    BY <1>1, NewJobRow
  <1>3. \A k \in Jobs : Bounded(job[k], FALSE, crashes)
    BY DEF IInv, JobsBounded, Bounded
  <1> QED BY <1>1, <1>2, <1>3 DEF Succeeded

\* A stage that ends well, with the row r.
LEMMA FinishStep ==
    ASSUME IInv, worker.step \in Reading, worker.job # Deletion,
           NEW r \in Version, NEW next \in Stages, Finish(r, next),
           r.status = "indexed" => r.chunks,
           Subject \in points => r.chunks
    PROVE  IInv'
  <1>1. /\ Subject \in Versions /\ version \in [Versions -> Version]
        /\ version' = [version EXCEPT ![Subject] = r]
        /\ worker' = IdleWorker
        /\ UNCHANGED <<document, points, session, requests, crashes>>
    BY SubjectRow DEF Finish
  <1>2. version' \in [Versions -> Version] /\ version'[Subject] = r
        /\ \A v \in Versions \ {Subject} : version'[v] = version[v]
    BY <1>1
  <1>3. IndexedHasChunks' /\ NoDanglingPoints'
    BY <1>1, <1>2 DEF IInv, RowsOK, Stores, IndexedHasChunks, NoDanglingPoints
  <1>4. crashes \in Nat /\ <<next, Subject>> \in Jobs /\ FALSE \in BOOLEAN
        /\ Subject \in Versions \cup {None}
    BY <1>1, JobNames DEF IInv, RowsOK
  <1>5. /\ Enqueue(Succeeded, <<next, Subject>>, Subject) \in [Jobs -> Job]
        /\ \A k \in Jobs :
             Bounded(Enqueue(Succeeded, <<next, Subject>>, Subject)[k], FALSE, crashes)
    BY <1>4, SucceededRows, EnqueueRows
  <1>6. job' = Enqueue(Succeeded, <<next, Subject>>, Subject)
    BY DEF Finish
  <1>7. worker' \in Worker /\ worker'.step = "idle"
    BY <1>1, UnloadedWorkers
  <1>8. \A k \in Jobs : Bounded(job'[k], worker'.step = "down", crashes')
    BY <1>1, <1>5, <1>6, <1>7 DEF Bounded
  <1> QED BY <1>1, <1>2, <1>3, <1>4, <1>5, <1>6, <1>7, <1>8, ReleaseStep

\* A job that ends well without a successor.
LEMMA SucceedStep ==
    ASSUME IInv, worker.step \in Reading, job' = Succeeded, worker' = IdleWorker,
           version' \in [Versions -> Version], IndexedHasChunks', NoDanglingPoints',
           UNCHANGED <<document, points, session, requests, crashes>>
    PROVE  IInv'
  <1>1. worker' \in Worker /\ worker'.step = "idle"
    BY UnloadedWorkers
  <1>2. \A k \in Jobs : Bounded(job'[k], worker'.step = "down", crashes')
    BY <1>1, SucceededRows DEF Bounded
  <1>3. job' \in [Jobs -> Job] /\ crashes' \in Nat
    BY SucceededRows DEF IInv, RowsOK
  <1> QED BY <1>1, <1>2, <1>3, ReleaseStep

\* The worker keeps its job.
LEMMA ReadingStep ==
    ASSUME IInv, worker.step # "down", worker.job \in Jobs,
           worker' \in Worker, worker'.step \in Reading, worker'.job = worker.job,
           worker'.step \in OneVersion => worker.job # Deletion,
           worker'.step \in Deleting => worker.job = Deletion,
           version' \in [Versions -> Version], points' \subseteq Versions, Stores',
           UNCHANGED <<document, job, session, requests, crashes>>
    PROVE  IInv'
  <1>1. RowsOK'
    BY DEF IInv, RowsOK
  <1>2. Requests'
    BY DEF IInv, Requests
  <1>3. WorkerJobs'
    BY DEF WorkerJobs
  <1>4. JobsBounded'
    BY DEF IInv, JobsBounded, Bounded, Reading
  <1> QED BY <1>1, <1>2, <1>3, <1>4 DEF IInv

LEMMA FailStep ==
    ASSUME IInv, worker.step \in Reading, NEW error \in Faults, Fail(error)
    PROVE  /\ IInv'
           /\ worker'.step = "failing" /\ worker'.job = worker.job
  <1> DEFINE k == worker.job
  <1>1. /\ worker.step # "down" /\ k \in Jobs /\ version \in [Versions -> Version]
        /\ UNCHANGED <<document, version, points, job, session, requests, crashes>>
    BY DEF IInv, RowsOK, WorkerJobs, Reading, Fail
  <1>2. PICK e \in {"none", "blocked", "other"} :
          e = IF k = Deletion THEN "none" ELSE version[Subject].error
    BY <1>1, JobNames DEF Subject, Version
  <1>3. PICK copies : copies = IF k = Deletion THEN Unloaded
                               ELSE [Unloaded EXCEPT ![Subject] = version[Subject].status]
    OBVIOUS
  <1>4. Unloaded \in [Versions -> Statuses]
    BY DEF Unloaded, Statuses
  <1>5. /\ copies \in [Versions -> Statuses]
        /\ k # Deletion => copies[Subject] = version[Subject].status
    BY <1>1, <1>3, <1>4, JobNames DEF Subject, Version
  <1>6. IdleWorker \in Worker /\ IdleWorker.loaded = Unloaded
    BY UnloadedWorkers DEF IdleWorker, Down
  <1>7. worker' = [IdleWorker EXCEPT !.step = "failing", !.job = k, !.fault = error,
                                     !.error = e, !.loaded = copies]
    BY <1>2, <1>3, <1>6 DEF Fail
  <1>8. /\ worker' \in Worker /\ worker'.step = "failing" /\ worker'.job = k
        /\ worker'.loaded = copies
    BY <1>1, <1>5, <1>6, <1>7 DEF Worker
  <1>9. Stores'
    <2>1. CopiesFresh'
      BY <1>1, <1>5, <1>8, JobNames DEF CopiesFresh, Subject, Deletion, VersionOf
    <2>2. ChunksKept' /\ IndexEmptied'
      BY <1>8 DEF ChunksKept, IndexEmptied, Embedding, Emptied
    <2>3. IndexedHasChunks' /\ NoDanglingPoints' /\ OneVersionSearchable'
      BY <1>1 DEF IInv, Stores, IndexedHasChunks, NoDanglingPoints, OneVersionSearchable
    <2> QED BY <2>1, <2>2, <2>3 DEF Stores
  <1>10. version' \in [Versions -> Version] /\ points' \subseteq Versions
    BY <1>1 DEF IInv, RowsOK
  <1>11. worker'.step \in Reading /\ worker'.step \notin OneVersion \cup Deleting
    BY <1>8 DEF Reading, OneVersion, Embedding, Deleting
  <1>12. IInv'
    BY <1>1, <1>8, <1>9, <1>10, <1>11, ReadingStep
  <1> QED BY <1>8, <1>12

\* What becomes of a job that failed.
LEMMA FailedRow ==
    ASSUME IInv, worker.step = "failing"
    PROVE  /\ worker.job \in Jobs /\ Failed \in Job
           /\ \/ Failed.state = "failed_permanent" /\ Failed.attempts = 0
              \/ /\ Failed.state = "failed_retryable"
                 /\ Failed.attempts = job[worker.job].attempts
                 /\ job[worker.job].attempts < MaxAttempts
           /\ Failed.state = "failed_retryable" => Failed.version = job[worker.job].version
  <1> DEFINE k == worker.job
             code == IF worker.fault = "transition" THEN "transition" ELSE "other"
  <1>1. k \in Jobs /\ job[k] \in Job
    BY DEF IInv, RowsOK, WorkerJobs
  <1>2. PICK lost : lost = [NewJob EXCEPT !.state = "failed_permanent", !.error = code]
    OBVIOUS
  <1>3. PICK kept : kept = [job[k] EXCEPT !.state = "failed_retryable", !.error = code]
    OBVIOUS
  <1>4. PICK c \in {"transition", "other"} : c = code
    OBVIOUS
  <1>5. lost \in Job /\ lost.state = "failed_permanent" /\ lost.attempts = 0
    BY <1>2, <1>4 DEF NewJob, Job
  <1>6. /\ kept \in Job /\ kept.state = "failed_retryable"
        /\ kept.attempts = job[k].attempts /\ kept.version = job[k].version
        /\ job[k].attempts \in Nat
    BY <1>1, <1>3, <1>4 DEF Job
  <1>7. Failed = IF Permanent THEN lost ELSE kept
    BY <1>2, <1>3 DEF Failed
  <1>8. ~Permanent => job[k].attempts < MaxAttempts
    BY <1>6 DEF Permanent, Exhausted
  <1> QED BY <1>1, <1>5, <1>6, <1>7, <1>8

\* The row a stage that failed leaves: what it writes, or RECEIVED.
LEMMA FailedVersion ==
    ASSUME IInv, worker.step = "failing", worker.job # Deletion, FailCommit
    PROVE  /\ Subject \in Versions /\ version' \in [Versions -> Version]
           /\ version'[Subject].status # "indexed"
           /\ \A u \in Versions \ {Subject} : version'[u] = version[u]
           /\ \A u \in Versions : version'[u].chunks = version[u].chunks
  <1>1. Subject \in Versions /\ version \in [Versions -> Version] /\ version[Subject] \in Version
    BY SubjectRow DEF Reading
  <1>2. PICK m \in {"chunked", "failed"} : m = Marks.status
    BY DEF Marks
  <1>3. Marks.error \in {"blocked", "other"}
    BY DEF Marks
  <1>4. m \in Statuses /\ m # "indexed"
    BY DEF Statuses
  <1>5. PICK t \in Statuses : t = Written(Subject, m) /\ t # "indexed"
    BY <1>4, WrittenStatus DEF Reading
  <1>6. PICK e \in {"none", "blocked", "other"} :
          version' = [version EXCEPT ![Subject].status = t, ![Subject].error = e]
    BY <1>1, <1>2, <1>3, <1>5 DEF FailCommit, Version
  <1>7. /\ version' \in [Versions -> Version] /\ version'[Subject].status = t
        /\ \A u \in Versions \ {Subject} : version'[u] = version[u]
        /\ \A u \in Versions : version'[u].chunks = version[u].chunks
    BY <1>1, <1>5, <1>6, StatusRow
  <1> QED BY <1>1, <1>5, <1>7

\* A job that fails is retried only while an attempt is left to it.
LEMMA FailCommitStep ==
    ASSUME IInv, FailCommit
    PROVE  IInv'
  <1> DEFINE k == worker.job
  <1>1. job \in [Jobs -> Job] /\ crashes \in Nat /\ k \in Jobs /\ job[k] \in Job
    BY DEF IInv, RowsOK, WorkerJobs, FailCommit
  <1>2. worker' \in Worker /\ worker'.step = "idle"
        /\ UNCHANGED <<document, points, session, requests, crashes>>
    BY UnloadedWorkers DEF FailCommit
  <1>3. PICK j \in Job : j = Failed
    BY FailedRow DEF FailCommit
  <1>4. job' = [job EXCEPT ![k] = j]
    BY <1>3 DEF FailCommit
  <1>5. \A i \in Jobs : Bounded(job[i], FALSE, crashes)
    BY DEF IInv, JobsBounded, Bounded
  <1>6. Bounded(j, FALSE, crashes)
    <2>1. job[k].attempts \in Nat
      BY <1>1 DEF Job
    <2> QED BY <1>1, <1>3, <2>1, FailedRow DEF Bounded, FailCommit
  <1>7. job' \in [Jobs -> Job] /\ \A i \in Jobs : Bounded(job'[i], FALSE, crashes)
    BY <1>1, <1>3, <1>4, <1>5, <1>6
  <1>8. \A i \in Jobs : Bounded(job'[i], worker'.step = "down", crashes')
    BY <1>2, <1>7 DEF Bounded
  <1>9. version' \in [Versions -> Version] /\ IndexedHasChunks' /\ NoDanglingPoints'
    <2>1. CASE k = Deletion
      BY <1>2, <2>1, SameStores DEF FailCommit
    <2>2. CASE k # Deletion
      <3>1. worker.step = "failing"
        BY DEF FailCommit
      <3> QED
        BY <1>2, <2>2, <3>1, FailedVersion
           DEF IInv, RowsOK, Stores, IndexedHasChunks, NoDanglingPoints
    <2> QED BY <2>1, <2>2
  <1> QED BY <1>1, <1>2, <1>7, <1>8, <1>9, ReleaseStep

-----------------------------------------------------------------------------
(***************************************************************************)
(* Steps in the middle of a job.                                           *)
(***************************************************************************)

LEMMA LoadStep ==
    ASSUME IInv, Load
    PROVE  IInv'
  <1> DEFINE k == worker.job
  <1>1. worker \in Worker /\ k \in Jobs /\ version \in [Versions -> Version]
        /\ worker.step = "claimed"
        /\ UNCHANGED <<document, version, points, job, session, requests, crashes>>
    BY DEF IInv, RowsOK, WorkerJobs, Load
  <1>2. PICK copies : copies = [v \in Versions |-> IF k = Deletion \/ v = VersionOf(k)
                                                 THEN version[v].status ELSE "absent"]
    OBVIOUS
  <1>3. copies \in [Versions -> Statuses]
    BY <1>1, <1>2 DEF Version, Statuses
  <1>4. PICK a \in BOOLEAN : a = (~document.deleted
                              /\ (k = Deletion \/ document.current = VersionOf(k)))
    OBVIOUS
  <1>5. worker' = [worker EXCEPT !.step = "loaded", !.active = a, !.loaded = copies]
    BY <1>2, <1>4 DEF Load
  <1>6. worker' \in Worker /\ worker'.step = "loaded" /\ worker'.job = k
        /\ worker'.loaded = copies
    BY <1>1, <1>3, <1>5 DEF Worker
  <1>7. Stores'
    <2>1. CopiesFresh'
      BY <1>1, <1>2, <1>6 DEF CopiesFresh, Subject
    <2>2. ChunksKept' /\ IndexEmptied'
      BY <1>6 DEF ChunksKept, IndexEmptied, Embedding, Emptied
    <2>3. IndexedHasChunks' /\ NoDanglingPoints' /\ OneVersionSearchable'
      BY <1>1 DEF IInv, Stores, IndexedHasChunks, NoDanglingPoints, OneVersionSearchable
    <2> QED BY <2>1, <2>2, <2>3 DEF Stores
  <1> QED BY <1>1, <1>6, <1>7, ReadingStep DEF IInv, RowsOK, Reading, OneVersion, Embedding, Deleting

\* The worker moves on and leaves the database alone.
LEMMA MoveStep ==
    ASSUME IInv, worker.step \in Reading \ {"failing"}, NEW step \in Reading,
           worker' = [worker EXCEPT !.step = step],
           step \in OneVersion => worker.job # Deletion,
           step \in Deleting => worker.job = Deletion,
           step \in Embedding => worker.step \in Embedding,
           UNCHANGED <<document, version, job, session, requests, crashes>>,
           points' \subseteq Versions, IndexEmptied', NoDanglingPoints',
           OneVersionSearchable'
    PROVE  IInv'
  <1>1. worker \in Worker /\ worker.job \in Jobs /\ version \in [Versions -> Version]
    BY DEF IInv, RowsOK, WorkerJobs, Reading
  <1>2. worker' \in Worker /\ worker'.step = step /\ worker'.job = worker.job
        /\ worker'.loaded = worker.loaded
    BY <1>1 DEF Worker, Reading
  <1>3. CopiesFresh' /\ ChunksKept' /\ IndexedHasChunks'
    BY <1>2 DEF IInv, Stores, CopiesFresh, ChunksKept, IndexedHasChunks, Subject
  <1>4. Stores'
    BY <1>3 DEF Stores
  <1> QED BY <1>1, <1>2, <1>4, ReadingStep DEF Reading

\* The worker commits a status and goes on.
LEMMA AdvanceStep ==
    ASSUME IInv, worker.step \in Reading, worker.job # Deletion,
           NEW s \in Statuses \ {"indexed"}, NEW step \in OneVersion \ Emptied,
           Advance(s, step),
           step \in Embedding => version[Subject].chunks
    PROVE  IInv'
  <1>1. /\ worker \in Worker /\ worker.job \in Jobs /\ Subject \in Versions
        /\ version \in [Versions -> Version] /\ version[Subject] \in Version
        /\ UNCHANGED <<document, points, job, session, requests, crashes>>
    BY SubjectRow DEF IInv, RowsOK, Advance
  <1>2. PICK t \in Statuses : t = Written(Subject, s) /\ t \in {s, "received"}
    BY WrittenStatus
  <1>3. PICK new : new = [version[Subject] EXCEPT !.status = t]
    OBVIOUS
  <1>4. new \in Version /\ new.status = t /\ new.chunks = version[Subject].chunks
    BY <1>1, <1>2, <1>3 DEF Version
  <1>5. version' = [version EXCEPT ![Subject] = new]
    BY <1>2, <1>3 DEF Advance
  <1>6. PICK copies : copies = [worker.loaded EXCEPT ![Subject] = s]
    OBVIOUS
  <1>7. worker.loaded \in [Versions -> Statuses]
    BY <1>1 DEF Worker
  <1>8. copies \in [Versions -> Statuses] /\ copies[Subject] = s
    BY <1>1, <1>6, <1>7
  <1>9. worker' = [worker EXCEPT !.step = step, !.loaded = copies]
    BY <1>6 DEF Advance
  <1>10. worker' \in Worker /\ worker'.step = step /\ worker'.job = worker.job
         /\ worker'.loaded = copies
    BY <1>1, <1>8, <1>9 DEF Worker, OneVersion, Embedding
  <1>11. Subject' = Subject
    BY <1>10 DEF Subject
  <1>12. /\ version' \in [Versions -> Version] /\ version'[Subject] = new
         /\ \A v \in Versions \ {Subject} : version'[v] = version[v]
    BY <1>1, <1>4, <1>5
  <1>13. Stores'
    <2>1. CopiesFresh'
      BY <1>2, <1>4, <1>8, <1>10, <1>11, <1>12 DEF CopiesFresh
    <2>2. ChunksKept'
      BY <1>4, <1>10, <1>11, <1>12 DEF ChunksKept
    <2>3. IndexEmptied'
      BY <1>10 DEF IndexEmptied
    <2>4. IndexedHasChunks'
      BY <1>2, <1>4, <1>12 DEF IInv, Stores, IndexedHasChunks
    <2>5. NoDanglingPoints'
      BY <1>1, <1>4, <1>12 DEF IInv, RowsOK, Stores, NoDanglingPoints
    <2>6. OneVersionSearchable'
      BY <1>1 DEF IInv, Stores, OneVersionSearchable
    <2> QED BY <2>1, <2>2, <2>3, <2>4, <2>5, <2>6 DEF Stores
  <1> QED
    BY <1>1, <1>10, <1>12, <1>13, ReadingStep
    DEF IInv, RowsOK, Reading, OneVersion, Embedding, Deleting

-----------------------------------------------------------------------------
(***************************************************************************)
(* The stages.                                                             *)
(***************************************************************************)

LEMMA ParseResumeStep ==
    ASSUME IInv, ParseResume
    PROVE  IInv'
  <1> DEFINE v == version[Subject]
  <1>1. worker.step \in Reading /\ worker.job # Deletion
    BY LoadedStep DEF ParseResume, Stages
  <1>2. v \in Version /\ (v.status = "indexed" => v.chunks) /\ (Subject \in points => v.chunks)
    BY <1>1, SubjectRow
  <1>3. CASE v.chunks /\ Finish([v EXCEPT !.status = Written(Subject, "chunked"),
                                        !.error = "none"], "embed")
    <2>1. PICK t \in Statuses : t = Written(Subject, "chunked")
      BY <1>1, WrittenStatus DEF Statuses
    <2>2. PICK r : r = [v EXCEPT !.status = t, !.error = "none"]
      OBVIOUS
    <2>3. r \in Version /\ r.chunks
      BY <1>2, <1>3, <2>2 DEF Version
    <2>4. Finish(r, "embed")
      BY <1>3, <2>1, <2>2
    <2> QED BY <1>1, <2>3, <2>4, FinishStep DEF Stages
  <1>4. CASE Finish([v EXCEPT !.status = Written(Subject, "parsed")], "chunk")
    <2>1. PICK t \in Statuses : t = Written(Subject, "parsed") /\ t # "indexed"
      BY <1>1, WrittenStatus DEF Statuses
    <2>2. PICK r : r = [v EXCEPT !.status = t]
      OBVIOUS
    <2>3. r \in Version /\ r.status = t /\ r.chunks = v.chunks
      BY <1>2, <2>2 DEF Version
    <2>4. Finish(r, "chunk")
      BY <1>4, <2>1, <2>2
    <2> QED BY <1>1, <1>2, <2>1, <2>3, <2>4, FinishStep DEF Stages
  <1> QED BY <1>3, <1>4 DEF ParseResume

LEMMA ParseStartStep ==
    ASSUME IInv, ParseStart
    PROVE  IInv'
  <1>1. worker.step \in Reading /\ worker.job # Deletion
    BY LoadedStep DEF ParseStart, Stages
  <1>2. CASE Advance("parsing", "parsing")
    BY <1>1, <1>2, AdvanceStep DEF Statuses, OneVersion, Embedding, Emptied
  <1>3. CASE Fail("transition")
    BY <1>1, <1>3, FailStep DEF Faults
  <1> QED BY <1>2, <1>3 DEF ParseStart

LEMMA ParseDoneStep ==
    ASSUME IInv, ParseDone
    PROVE  IInv'
  <1> DEFINE v == version[Subject]
  <1>1. worker.step \in Reading /\ worker.job # Deletion
    BY WorkingStep DEF ParseDone, OneVersion
  <1>2. v \in Version /\ (Subject \in points => v.chunks)
    BY <1>1, SubjectRow
  <1>3. PICK t \in Statuses : t = Written(Subject, "parsed") /\ t # "indexed"
    BY <1>1, WrittenStatus DEF Statuses
  <1>4. PICK r : r = [v EXCEPT !.status = t, !.sections = TRUE]
    OBVIOUS
  <1>5. r \in Version /\ r.status = t /\ r.chunks = v.chunks
    BY <1>2, <1>4 DEF Version
  <1>6. Finish(r, "chunk")
    BY <1>3, <1>4 DEF ParseDone
  <1> QED BY <1>1, <1>2, <1>3, <1>5, <1>6, FinishStep DEF Stages

LEMMA ChunkStartStep ==
    ASSUME IInv, ChunkStart
    PROVE  IInv'
  <1>1. worker.step \in Reading /\ worker.job # Deletion
    BY LoadedStep DEF ChunkStart, Stages
  <1>2. CASE Advance("chunking", "chunking")
    BY <1>1, <1>2, AdvanceStep DEF Statuses, OneVersion, Embedding, Emptied
  <1>3. CASE Fail("transition")
    BY <1>1, <1>3, FailStep DEF Faults
  <1> QED BY <1>2, <1>3 DEF ChunkStart

LEMMA ChunkDoneStep ==
    ASSUME IInv, ChunkDone
    PROVE  IInv'
  <1> DEFINE v == version[Subject]
  <1>1. worker.step \in Reading /\ worker.job # Deletion
    BY WorkingStep DEF ChunkDone, OneVersion
  <1>2. v \in Version
    BY <1>1, SubjectRow
  <1>3. PICK t \in Statuses : t = Written(Subject, "chunked")
    BY <1>1, WrittenStatus DEF Statuses
  <1>4. PICK r : r = [v EXCEPT !.status = t, !.chunks = TRUE]
    OBVIOUS
  <1>5. r \in Version /\ r.chunks
    BY <1>2, <1>3, <1>4 DEF Version
  <1>6. Finish(r, "embed")
    BY <1>3, <1>4 DEF ChunkDone
  <1> QED BY <1>1, <1>5, <1>6, FinishStep DEF Stages

LEMMA EmbedExcludeStep ==
    ASSUME IInv, EmbedExclude
    PROVE  IInv'
  <1>1. worker.step \in Reading \ {"failing"} /\ worker.job # Deletion
    BY LoadedStep DEF EmbedExclude, Stages, Loaded
  <1>2. points' \subseteq points /\ worker' = [worker EXCEPT !.step = "excluded"]
        /\ UNCHANGED <<document, version, job, session, requests, crashes>>
    BY DEF EmbedExclude
  <1>3. worker'.step = "excluded"
    BY <1>2 DEF IInv, RowsOK, Worker
  <1>4. points' \subseteq Versions /\ IndexEmptied' /\ NoDanglingPoints' /\ OneVersionSearchable'
    BY <1>2, <1>3
    DEF IInv, RowsOK, Stores, IndexEmptied, Emptied, NoDanglingPoints, OneVersionSearchable
  <1> QED BY <1>1, <1>2, <1>4, MoveStep DEF Reading, Embedding, Deleting

LEMMA EmbedStartStep ==
    ASSUME IInv, EmbedStart
    PROVE  IInv'
  <1>1. worker.step \in Reading /\ worker.job # Deletion
    BY LoadedStep DEF EmbedStart, Stages
  <1>2. CASE version[Subject].chunks /\ Advance("embedding", "embedding")
    BY <1>1, <1>2, AdvanceStep DEF Statuses, OneVersion, Embedding, Emptied
  <1>3. CASE \E error \in {"content", "transition"} : Fail(error)
    BY <1>1, <1>3, FailStep DEF Faults
  <1> QED BY <1>2, <1>3 DEF EmbedStart

LEMMA EmbedDoneStep ==
    ASSUME IInv, EmbedDone
    PROVE  IInv'
  <1>1. worker.step \in Reading /\ worker.job # Deletion
    BY WorkingStep DEF EmbedDone, OneVersion, Embedding
  <1>2. version[Subject].chunks
    BY DEF IInv, Stores, ChunksKept, EmbedDone, Embedding
  <1> QED
    BY <1>1, <1>2, AdvanceStep DEF EmbedDone, Statuses, OneVersion, Embedding, Emptied

\* The index is emptied at a step that leads to one where it has to be empty.
LEMMA EmptyStep ==
    ASSUME IInv, worker.step \in Reading \ {"failing"}, NEW step \in Emptied,
           worker' = [worker EXCEPT !.step = step], points' = {},
           step \in OneVersion => worker.job # Deletion,
           step \in Deleting => worker.job = Deletion,
           step \in Embedding => worker.step \in Embedding,
           UNCHANGED <<document, version, job, session, requests, crashes>>
    PROVE  IInv'
  <1>1. points' \subseteq Versions /\ IndexEmptied' /\ NoDanglingPoints' /\ OneVersionSearchable'
    BY DEF IndexEmptied, NoDanglingPoints, OneVersionSearchable
  <1> QED BY <1>1, MoveStep DEF Emptied, Reading

LEMMA IndexClearStep ==
    ASSUME IInv, IndexClear
    PROVE  IInv'
  <1>1. worker.step \in Reading /\ worker.job # Deletion
    BY WorkingStep DEF IndexClear, OneVersion, Embedding
  <1> QED BY <1>1, EmptyStep DEF IndexClear, Emptied, Embedding, Deleting

LEMMA IndexUpsertStep ==
    ASSUME IInv, IndexUpsert
    PROVE  IInv'
  <1>1. worker.step \in Reading /\ worker.job # Deletion /\ worker.step = "cleared"
    BY WorkingStep DEF IndexUpsert, OneVersion, Embedding
  <1>2. points = {} /\ version[Subject].chunks /\ Subject \in Versions
    BY <1>1, SubjectRow DEF IInv, Stores, IndexEmptied, ChunksKept, Emptied, Embedding
  <1>3. points' = {Subject} /\ worker' = [worker EXCEPT !.step = "upserted"]
        /\ UNCHANGED <<document, version, job, session, requests, crashes>>
    BY <1>2 DEF IndexUpsert
  <1>4. worker'.step = "upserted"
    BY <1>3 DEF IInv, RowsOK, Worker
  <1>5. points' \subseteq Versions /\ IndexEmptied' /\ NoDanglingPoints' /\ OneVersionSearchable'
    BY <1>2, <1>3, <1>4 DEF IndexEmptied, Emptied, NoDanglingPoints, OneVersionSearchable
  <1> QED BY <1>1, <1>3, <1>5, MoveStep DEF Reading, Embedding, Deleting

LEMMA IndexCommitStep ==
    ASSUME IInv, IndexCommit
    PROVE  IInv'
  <1>1. worker.step \in Reading /\ worker.job # Deletion
    BY WorkingStep DEF IndexCommit, OneVersion, Embedding
  <1>2. Subject \in Versions /\ version \in [Versions -> Version] /\ version[Subject].chunks
    BY <1>1, SubjectRow DEF IInv, Stores, ChunksKept, IndexCommit, Embedding
  <1>3. PICK t \in Statuses : t = Written(Subject, "indexed")
    BY <1>1, WrittenStatus DEF Statuses
  <1>4. version' = [version EXCEPT ![Subject].status = t, ![Subject].error = "none"]
        /\ job' = Succeeded /\ worker' = IdleWorker
        /\ UNCHANGED <<document, points, session, requests, crashes>>
    BY <1>3 DEF IndexCommit
  <1>5. /\ version' \in [Versions -> Version]
        /\ \A v \in Versions \ {Subject} : version'[v] = version[v]
        /\ \A v \in Versions : version'[v].chunks = version[v].chunks
    BY <1>2, <1>4, StatusRow
  <1>6. IndexedHasChunks' /\ NoDanglingPoints'
    BY <1>2, <1>4, <1>5 DEF IInv, RowsOK, Stores, IndexedHasChunks, NoDanglingPoints
  <1> QED BY <1>1, <1>4, <1>5, <1>6, SucceedStep

LEMMA RebuildClearStep ==
    ASSUME IInv, RebuildClear
    PROVE  IInv'
  <1>1. worker.step \in Reading /\ worker.job # Deletion
    BY LoadedStep DEF RebuildClear, Stages
  <1> QED BY <1>1, EmptyStep DEF RebuildClear, Loaded, Emptied, Embedding, Deleting

LEMMA RebuildCommitStep ==
    ASSUME IInv, RebuildCommit
    PROVE  IInv'
  <1> DEFINE v == version[Subject]
  <1>1. worker.step \in Reading /\ worker.job # Deletion
    BY WorkingStep DEF RebuildCommit, OneVersion
  <1>2. v \in Version /\ points = {}
    BY <1>1, SubjectRow DEF IInv, Stores, IndexEmptied, Emptied, RebuildCommit
  <1>3. PICK t \in Statuses : t = Written(Subject, "received") /\ t # "indexed"
    BY <1>1, WrittenStatus DEF Statuses
  <1>4. PICK r : r = [v EXCEPT !.status = t, !.error = "none", !.sections = FALSE,
                               !.chunks = FALSE]
    OBVIOUS
  <1>5. r \in Version /\ r.status = t
    BY <1>2, <1>4 DEF Version
  <1>6. Finish(r, "parse")
    BY <1>3, <1>4 DEF RebuildCommit
  <1> QED BY <1>1, <1>2, <1>3, <1>5, <1>6, FinishStep DEF Stages

LEMMA CloseStep ==
    ASSUME IInv, Close
    PROVE  IInv'
  <1>1. worker.step \in Reading
    BY DEF Close, Loaded, Reading
  <1> QED BY <1>1, SameStores, SucceedStep DEF Close

LEMMA DeleteMarkStep ==
    ASSUME IInv, DeleteMark
    PROVE  IInv'
  <1>1. /\ worker \in Worker /\ worker.step = "loaded" /\ worker.job \in Jobs
        /\ version \in [Versions -> Version]
        /\ UNCHANGED <<document, points, job, session, requests, crashes>>
    BY DEF IInv, RowsOK, WorkerJobs, DeleteMark, Loaded
  <1>2. worker.job = Deletion
    BY <1>1, JobNames DEF DeleteMark, Loaded, Jobs, Stages, Type
  <1>3. PICK copies : copies = [v \in Versions |-> IF v \in ToDelete THEN "delete_pending"
                                                 ELSE worker.loaded[v]]
    OBVIOUS
  <1>4. worker.loaded \in [Versions -> Statuses]
    BY <1>1 DEF Worker
  <1>5. copies \in [Versions -> Statuses]
    BY <1>3, <1>4 DEF Statuses
  <1>6. worker' = [worker EXCEPT !.step = "marked", !.loaded = copies]
    BY <1>3 DEF DeleteMark
  <1>7. worker' \in Worker /\ worker'.step = "marked" /\ worker'.job = worker.job
        /\ worker'.loaded = copies
    BY <1>1, <1>5, <1>6 DEF Worker
  <1>8. ASSUME NEW v \in Versions
        PROVE  /\ version'[v] \in Version
               /\ version'[v].chunks = version[v].chunks
               /\ version'[v].status \in {copies[v], "received"}
               /\ version'[v].status \in {version[v].status, "delete_pending"}
    <2>1. version[v] \in Version /\ version[v].status \in {worker.loaded[v], "received"}
      BY <1>1, <1>2 DEF IInv, Stores, CopiesFresh, Reading
    <2>2. CASE v \notin ToDelete
      <3>1. version'[v] = version[v] /\ copies[v] = worker.loaded[v]
        BY <1>3, <2>2 DEF DeleteMark
      <3> QED BY <2>1, <3>1
    <2>3. CASE v \in ToDelete
      <3>1. PICK t \in Statuses : t = Written(v, "delete_pending")
                                 /\ t \in {"delete_pending", version[v].status}
        BY <2>1 DEF Written, Version, Statuses
      <3>2. PICK new : new = [version[v] EXCEPT !.status = t]
        OBVIOUS
      <3>3. new \in Version /\ new.status = t /\ new.chunks = version[v].chunks
        BY <2>1, <3>1, <3>2 DEF Version
      <3>4. version'[v] = new /\ copies[v] = "delete_pending"
        BY <1>3, <2>3, <3>1, <3>2 DEF DeleteMark
      <3>5. t \in {"delete_pending", "received"}
        BY <2>1, <3>1 DEF Written
      <3> QED BY <3>1, <3>3, <3>4, <3>5
    <2> QED BY <2>2, <2>3
  <1>9. version' \in [Versions -> Version]
    BY <1>8 DEF DeleteMark
  <1>10. Stores'
    <2>1. CopiesFresh'
      BY <1>7, <1>8 DEF CopiesFresh
    <2>2. ChunksKept' /\ IndexEmptied'
      BY <1>7 DEF ChunksKept, IndexEmptied, Embedding, Emptied
    <2>3. IndexedHasChunks'
      BY <1>8 DEF IInv, Stores, IndexedHasChunks
    <2>4. NoDanglingPoints' /\ OneVersionSearchable'
      BY <1>1, <1>8 DEF IInv, RowsOK, Stores, NoDanglingPoints, OneVersionSearchable
    <2> QED BY <2>1, <2>2, <2>3, <2>4 DEF Stores
  <1> QED
    BY <1>1, <1>2, <1>7, <1>9, <1>10, ReadingStep
    DEF IInv, RowsOK, Reading, OneVersion, Embedding, Deleting

LEMMA DeletePointsStep ==
    ASSUME IInv, DeletePoints
    PROVE  IInv'
  <1>1. worker.step = "marked" /\ worker.step \in Reading /\ worker.job = Deletion
    BY DEF IInv, WorkerJobs, DeletePoints, Reading, Deleting
  <1> QED BY <1>1, EmptyStep DEF DeletePoints, Emptied, OneVersion, Embedding

LEMMA DeleteCommitStep ==
    ASSUME IInv, DeleteCommit
    PROVE  IInv'
  <1>1. /\ worker.step = "erased" /\ worker.step \in Reading
        /\ version \in [Versions -> Version]
        /\ job' = Succeeded /\ worker' = IdleWorker
        /\ UNCHANGED <<document, points, session, requests, crashes>>
    BY DEF IInv, RowsOK, DeleteCommit, Reading
  <1>2. points' = {}
    BY <1>1 DEF IInv, Stores, IndexEmptied, Emptied
  <1>3. worker.job = Deletion
    BY <1>1 DEF IInv, WorkerJobs, Deleting
  <1>4. ASSUME NEW v \in Versions
        PROVE  version'[v] \in Version /\ version'[v].status # "indexed"
    <2>1. version[v] \in Version /\ version[v].status \in {worker.loaded[v], "received"}
      BY <1>1, <1>3 DEF IInv, Stores, CopiesFresh
    <2>2. PICK t \in Statuses :
            /\ t = IF v \in ToDelete THEN "deleted_from_index" ELSE version[v].status
            /\ t # "indexed"
      BY <2>1 DEF ToDelete, Version, Statuses
    <2>3. PICK new : new = [version[v] EXCEPT !.chunks = FALSE, !.status = t]
      OBVIOUS
    <2>4. new \in Version /\ new.status = t
      BY <2>1, <2>2, <2>3 DEF Version
    <2>5. version'[v] = new
      BY <2>2, <2>3 DEF DeleteCommit
    <2> QED BY <2>2, <2>4, <2>5
  <1>5. version' \in [Versions -> Version]
    BY <1>4 DEF DeleteCommit
  <1>6. IndexedHasChunks' /\ NoDanglingPoints'
    BY <1>2, <1>4 DEF IndexedHasChunks, NoDanglingPoints
  <1> QED BY <1>1, <1>5, <1>6, SucceedStep

LEMMA FailureStep ==
    ASSUME IInv, Failure
    PROVE  IInv'
  <1>1. worker.step \in Reading
    BY DEF Failure, Loaded, Reading
  <1>2. PICK error \in Faults : Fail(error)
    BY DEF Failure, Faults
  <1> QED BY <1>1, <1>2, FailStep

-----------------------------------------------------------------------------
(***************************************************************************)
(* The invariant.                                                          *)
(***************************************************************************)

LEMMA InitInv == Init => IInv
  <1> SUFFICES ASSUME Init PROVE IInv
    OBVIOUS
  <1>1. PICK blank : blank = [status |-> "absent", error |-> "none",
                              sections |-> FALSE, chunks |-> FALSE]
    OBVIOUS
  <1>2. blank \in Version /\ blank.status = "absent"
    BY <1>1 DEF Version, Statuses
  <1>3. version \in [Versions -> Version]
        /\ \A v \in Versions : version[v].status = "absent"
    BY <1>1, <1>2 DEF Init
  <1>4. document \in Document /\ points = {} /\ requests = 0 /\ crashes = 0
    BY DEF Init, Document
  <1>5. NewJob \in Job /\ Bounded(NewJob, TRUE, 0)
    BY NewJobRow
  <1>6. job \in [Jobs -> Job] /\ \A k \in Jobs : job[k] = NewJob
    BY <1>5 DEF Init
  <1>7. worker \in Worker /\ worker.step = "down"
    BY UnloadedWorkers DEF Init
  <1>8. session \in [Handlers -> Session] /\ \A h \in Handlers : session[h] = Idle
    BY IdleSession DEF Init
  <1>9. RowsOK
    BY <1>3, <1>4, <1>6, <1>7, <1>8 DEF RowsOK
  <1>10. Requests
    BY <1>8, IdleSession DEF Requests, Locking
  <1>11. WorkerJobs
    BY <1>7 DEF WorkerJobs, OneVersion, Embedding, Deleting
  <1>12. JobsBounded
    BY <1>4, <1>5, <1>6, <1>7 DEF JobsBounded, Bounded
  <1>13. Stores
    BY <1>3, <1>4, <1>7
    DEF Stores, CopiesFresh, ChunksKept, IndexEmptied, Reading, Embedding, Emptied,
        IndexedHasChunks, NoDanglingPoints, OneVersionSearchable
  <1> QED BY <1>9, <1>10, <1>11, <1>12, <1>13 DEF IInv

LEMMA NextInv == IInv /\ [Next]_vars => IInv'
  <1> SUFFICES ASSUME IInv, [Next]_vars PROVE IInv'
    OBVIOUS
  <1>1. ASSUME NEW h \in Handlers, NEW v \in Versions, UploadBegin(h, v) PROVE IInv'
    BY <1>1, UploadBeginStep
  <1>2. ASSUME NEW h \in Handlers, UploadCommit(h) PROVE IInv'
    BY <1>2, UploadCommitStep
  <1>3. ASSUME NEW h \in Handlers, UploadAccept(h) \/ EnqueueLook(h) \/ Rollback(h)
        PROVE  IInv'
    BY <1>3, UploadAcceptStep, EnqueueLookStep, RollbackStep
  <1>4. ASSUME NEW h \in Handlers, RetryBegin(h) PROVE IInv'
    BY <1>4, RetryBeginStep
  <1>5. ASSUME NEW h \in Handlers, ReindexBegin(h) PROVE IInv'
    BY <1>5, ReindexBeginStep
  <1>6. ASSUME NEW h \in Handlers, EnqueueDocumentJob(h) PROVE IInv'
    BY <1>6, EnqueueDocumentJobStep
  <1>7. ASSUME NEW h \in Handlers, DeleteDocument(h) PROVE IInv'
    BY <1>7, DeleteDocumentStep
  <1>12. ASSUME NEW h \in Handlers, NEW v \in Versions \cup {None}, DeleteBegin(h, v)
         PROVE  IInv'
    BY <1>12, DeleteBeginStep
  <1>8. ASSUME Stage PROVE IInv'
    BY <1>8, ParseResumeStep, ParseStartStep, ParseDoneStep, ChunkStartStep, ChunkDoneStep,
       EmbedExcludeStep, EmbedStartStep, EmbedDoneStep, IndexClearStep, IndexUpsertStep,
       IndexCommitStep, RebuildClearStep, RebuildCommitStep, CloseStep, DeleteMarkStep,
       DeletePointsStep, DeleteCommitStep, FailureStep, FailCommitStep
    DEF Stage
  <1>9. ASSUME Work PROVE IInv'
    BY <1>8, <1>9, StartStep, ClaimStep, LoadStep DEF Work
  <1>10. CASE Crash
    BY <1>10, CrashStep
  <1>11. CASE UNCHANGED vars
    <2>1. RowsOK' /\ Requests'
      BY <1>11 DEF vars, IInv, RowsOK, Requests
    <2>2. \A k \in Jobs : Bounded(job'[k], worker.step = "down", crashes)
      BY <1>11 DEF vars, IInv, JobsBounded
    <2> QED BY <1>11, <2>1, <2>2, QueueStep DEF vars
  <1> QED
    BY <1>1, <1>2, <1>3, <1>4, <1>5, <1>6, <1>7, <1>9, <1>10, <1>11, <1>12 DEF Next

LEMMA Invariance == Spec => []IInv
  BY InitInv, NextInv, PTL DEF Spec

-----------------------------------------------------------------------------
(***************************************************************************)
(* What follows.                                                           *)
(***************************************************************************)

\* Only versions are noted as stranded.
LEMMA StrandedStep ==
    ASSUME IInv, stranded \subseteq Versions, [Next]_vars
    PROVE  stranded' \subseteq Versions
  <1>1. ASSUME NEW h \in Handlers, UploadCommit(h) PROVE stranded' \subseteq Versions
    <2>1. stranded' \subseteq stranded \cup {session[h].version}
      BY <1>1 DEF UploadCommit
    <2> QED BY <1>1, <2>1, UploadCommitRows
  <1>2. CASE FailCommit
    <2>1. CASE worker.job = Deletion
      BY <1>2, <2>1 DEF FailCommit
    <2>2. CASE worker.job # Deletion
      <3>1. Subject \in Versions
        BY <1>2, <2>2, SubjectRow DEF FailCommit, Reading
      <3> QED BY <1>2, <2>2, <3>1 DEF FailCommit
    <2> QED BY <2>1, <2>2
  <1>3. ASSUME NEW error, Fail(error) PROVE stranded' \subseteq Versions
    BY <1>3 DEF Fail
  <1>4. ASSUME NEW t, NEW step, Advance(t, step) PROVE stranded' \subseteq Versions
    BY <1>4 DEF Advance
  <1>5. ASSUME NEW r, NEW next, Finish(r, next) PROVE stranded' \subseteq Versions
    BY <1>5 DEF Finish
  <1>6. CASE Stage
    BY <1>2, <1>3, <1>4, <1>5, <1>6
       DEF Stage, ParseResume, ParseStart, ParseDone, ChunkStart, ChunkDone, EmbedExclude,
           EmbedStart, EmbedDone, IndexClear, IndexUpsert, IndexCommit, RebuildClear,
           RebuildCommit, Close, DeleteMark, DeletePoints, DeleteCommit, Failure
  <1>7. CASE Work \/ Crash \/ UNCHANGED vars
    BY <1>6, <1>7 DEF Work, Start, Claim, Load, Crash, vars
  <1>8. ASSUME NEW h \in Handlers, NEW t, Begin(h, t) PROVE stranded' \subseteq Versions
    BY <1>8 DEF Begin
  <1>9. ASSUME NEW h \in Handlers,
               \/ \E v \in Versions : UploadBegin(h, v)
               \/ UploadAccept(h)
               \/ \E v \in Versions \cup {None} : DeleteBegin(h, v)
               \/ DeleteDocument(h)
               \/ RetryBegin(h) \/ ReindexBegin(h)
               \/ EnqueueLook(h) \/ EnqueueDocumentJob(h)
               \/ Rollback(h)
        PROVE  stranded' \subseteq Versions
    BY <1>8, <1>9 DEF UploadBegin, UploadAccept, DeleteBegin, DeleteDocument, RetryBegin,
                      ReindexBegin, EnqueueLook, EnqueueDocumentJob, Rollback
  <1> QED BY <1>1, <1>7, <1>9 DEF Next

\* Rows, jobs and copies have their types.
THEOREM TypeCorrect == Spec => []TypeOK
  <1>1. Init => stranded \subseteq Versions
    BY DEF Init
  <1>2. IInv /\ stranded \subseteq Versions /\ [Next]_vars => (stranded \subseteq Versions)'
    BY StrandedStep
  <1>3. IInv /\ stranded \subseteq Versions => TypeOK
    BY DEF IInv, RowsOK, TypeOK
  <1> QED BY <1>1, <1>2, <1>3, Invariance, PTL DEF Spec

\* Whatever overlaps and whenever the worker dies, a version that is called
\* indexed has its chunks (ingestion_worker.py _reindex and _delete against
\* _embed_and_index).
THEOREM IndexedVersionsHaveChunks == Spec => []IndexedHasChunks
  <1>1. IInv => IndexedHasChunks
    BY DEF IInv, Stores
  <1> QED BY <1>1, Invariance, PTL

\* The vector store holds no point whose chunk is gone from PostgreSQL.
THEOREM PointsHaveChunks == Spec => []NoDanglingPoints
  <1>1. IInv => NoDanglingPoints
    BY DEF IInv, Stores
  <1> QED BY <1>1, Invariance, PTL

\* Two versions of a document are never in the vector store together.
THEOREM PointsOfOneVersion == Spec => []OneVersionSearchable
  <1>1. IInv => OneVersionSearchable
    BY DEF IInv, Stores
  <1> QED BY <1>1, Invariance, PTL

\* A job is attempted max_attempts times, and once more for each death of the
\* worker.
THEOREM AttemptsAreBounded == Spec => []AttemptsBounded
  <1>1. IInv => AttemptsBounded
    BY DEF IInv, JobsBounded, Bounded, AttemptsBounded
  <1> QED BY <1>1, Invariance, PTL

-----------------------------------------------------------------------------
(***************************************************************************)
(* What holds of a search over the pipeline, for any number of contents    *)
(* and requests.                                                           *)
(*                                                                         *)
(* A search changes nothing, so the pipeline goes on under it as its own   *)
(* module says (SearchOverPipeline), and all that is proved of it above    *)
(* holds here.  That results were served rests on what the search has read *)
(* of a hit so far: a copy that admits the hit was true of the rows at     *)
(* some moment since the search began (CopiesWereTrue).                    *)
(***************************************************************************)

UnderWay == search.step \in {"embedding", "retrieved", "document", "version"}

\* Nothing was served during the search that is not noted.
ServedIsNoted ==
    UnderWay => ActiveVersions \subseteq during.active /\ IndexedVersions \subseteq during.indexed

CopiesWereTrue ==
    /\ search.step \in {"document", "version"} =>
         /\ search.hit \in Versions
         /\ ~search.document.deleted /\ search.document.current = search.hit
               => search.hit \in during.active
    /\ search.step = "version" /\ search.status = "indexed" => search.hit \in during.indexed

SearchInv ==
    /\ SearchTypeOK
    /\ ServedIsNoted
    /\ CopiesWereTrue
    /\ ResultsWereServed

-----------------------------------------------------------------------------
(***************************************************************************)
(* A search is invisible to the pipeline.                                  *)
(***************************************************************************)

LEMMA SearchStepIsPipelineStep ==
    ASSUME [SearchNext]_<<vars, searchVars>>
    PROVE  [Next]_vars
  <1>1. CASE SearchNext
    BY <1>1 DEF SearchNext, Ask, Retrieve, ReadDocument, ReadVersion, ReadChunk, Answer,
                End, Pipeline
  <1>2. CASE UNCHANGED <<vars, searchVars>>
    BY <1>2
  <1> QED BY <1>1, <1>2

\* The composition implements the pipeline: searching changes neither a row nor
\* a point, and no job waits for it.
THEOREM SearchOverPipeline == SearchSpec => Spec
  <1>1. SearchInit => Init
    BY DEF SearchInit
  <1> QED BY <1>1, SearchStepIsPipelineStep, PTL DEF SearchSpec, Spec

-----------------------------------------------------------------------------
(***************************************************************************)
(* The invariant.                                                          *)
(***************************************************************************)

LEMMA SearchInitInv == SearchInit => SearchInv
  <1> SUFFICES ASSUME SearchInit PROVE SearchInv
    OBVIOUS
  <1>1. search = NoSearch /\ NoSearch \in Searches
    BY DEF SearchInit, NoSearch, Searches, Document, Statuses
  <1>2. search.step = "idle" /\ search.results = {}
    BY <1>1 DEF NoSearch
  <1>3. SearchTypeOK
    BY <1>1 DEF SearchInit, SearchTypeOK
  <1> QED BY <1>2, <1>3 DEF SearchInv, ServedIsNoted, CopiesWereTrue, UnderWay,
                            ResultsWereServed

\* The rows stay as they are while the search reads.
LEMMA ReadStep ==
    ASSUME SearchInv, UNCHANGED vars, Unwatched
    PROVE  /\ ActiveVersions' = ActiveVersions /\ IndexedVersions' = IndexedVersions
           /\ during' = during /\ wiped' = wiped
  BY DEF vars, Unwatched, ActiveVersions, IndexedVersions

LEMMA AskStep == ASSUME SearchInv, Ask PROVE SearchInv'
  <1>1. PICK new : new = [NoSearch EXCEPT !.step = "embedding"]
    OBVIOUS
  <1>2. new \in Searches /\ new.step = "embedding" /\ new.results = {}
    BY <1>1 DEF NoSearch, Searches, Document, Statuses
  <1>3. /\ search' = new
        /\ during' = [active |-> ActiveVersions, indexed |-> IndexedVersions,
                      steady |-> Steady]
        /\ ActiveVersions' = ActiveVersions /\ IndexedVersions' = IndexedVersions
        /\ wiped' = wiped
    BY <1>1 DEF Ask, vars, ActiveVersions, IndexedVersions
  <1>4. /\ ActiveVersions \subseteq Versions /\ IndexedVersions \subseteq Versions
        /\ Steady \subseteq Versions
    BY DEF ActiveVersions, IndexedVersions, Steady, Searchable
  <1>5. SearchTypeOK'
    BY <1>2, <1>3, <1>4 DEF SearchInv, SearchTypeOK
  <1>6. ServedIsNoted'
    BY <1>3 DEF ServedIsNoted
  <1>7. CopiesWereTrue' /\ ResultsWereServed'
    BY <1>2, <1>3 DEF CopiesWereTrue, ResultsWereServed
  <1> QED BY <1>5, <1>6, <1>7 DEF SearchInv

LEMMA RetrieveStep == ASSUME SearchInv, RowsOK, Retrieve PROVE SearchInv'
  <1>o. search \in Searches
    BY DEF SearchInv, SearchTypeOK
  <1>1. PICK new : new = [search EXCEPT !.step = "retrieved", !.hits = points]
    OBVIOUS
  <1>2. new \in Searches /\ new.step = "retrieved" /\ new.results = search.results
    BY <1>o, <1>1 DEF Searches, RowsOK
  <1>3. search' = new /\ UNCHANGED vars /\ Unwatched /\ UnderWay
    BY <1>1 DEF Retrieve, UnderWay
  <1> QED BY <1>2, <1>3, ReadStep
          DEF SearchInv, SearchTypeOK, ServedIsNoted, CopiesWereTrue, ResultsWereServed

LEMMA ReadDocumentStep ==
    ASSUME SearchInv, RowsOK, NEW v \in Versions, ReadDocument(v)
    PROVE  SearchInv'
  <1>o. search \in Searches
    BY DEF SearchInv, SearchTypeOK
  <1>1. PICK new : new = [search EXCEPT !.step = "document", !.hit = v,
                                        !.document = document]
    OBVIOUS
  <1>2. /\ new \in Searches /\ new.step = "document" /\ new.hit = v
        /\ new.document = document /\ new.results = search.results
    BY <1>o, <1>1 DEF Searches, RowsOK
  <1>3. search' = new /\ UNCHANGED vars /\ Unwatched /\ UnderWay
    BY <1>1 DEF ReadDocument, UnderWay
  <1>4. ~document.deleted /\ document.current = v => v \in during.active
    BY <1>3 DEF SearchInv, ServedIsNoted, ActiveVersions
  <1>5. CopiesWereTrue'
    BY <1>2, <1>3, <1>4, ReadStep DEF CopiesWereTrue
  <1> QED BY <1>2, <1>3, <1>5, ReadStep
          DEF SearchInv, SearchTypeOK, ServedIsNoted, ResultsWereServed

LEMMA ReadVersionStep == ASSUME SearchInv, RowsOK, ReadVersion PROVE SearchInv'
  <1>o. search \in Searches
    BY DEF SearchInv, SearchTypeOK
  <1>h. search.step = "document" /\ search.hit \in Versions
    BY DEF ReadVersion, SearchInv, CopiesWereTrue
  <1>s. version[search.hit].status \in Statuses
    BY <1>h DEF RowsOK, Version
  <1>1. PICK new : new = [search EXCEPT !.step = "version",
                                        !.status = version[search.hit].status]
    OBVIOUS
  <1>2. /\ new \in Searches /\ new.step = "version" /\ new.hit = search.hit
        /\ new.document = search.document /\ new.status = version[search.hit].status
        /\ new.results = search.results
    BY <1>o, <1>s, <1>1 DEF Searches
  <1>3. search' = new /\ UNCHANGED vars /\ Unwatched /\ UnderWay
    BY <1>1, <1>h DEF ReadVersion, UnderWay
  <1>4. version[search.hit].status = "indexed" => search.hit \in during.indexed
    BY <1>3, <1>h DEF SearchInv, ServedIsNoted, IndexedVersions
  <1>5. CopiesWereTrue'
    BY <1>2, <1>3, <1>4, <1>h, ReadStep DEF SearchInv, CopiesWereTrue
  <1> QED BY <1>2, <1>3, <1>5, ReadStep
          DEF SearchInv, SearchTypeOK, ServedIsNoted, ResultsWereServed

LEMMA ReadChunkStep == ASSUME SearchInv, ReadChunk PROVE SearchInv'
  <1>o. search \in Searches
    BY DEF SearchInv, SearchTypeOK
  <1>h. search.step = "version" /\ search.hit \in Versions
    BY DEF ReadChunk, SearchInv, CopiesWereTrue
  <1>n. NoSearch.document \in Document
    BY DEF NoSearch, Document
  <1>1. PICK found : found = IF Admitted /\ version[search.hit].chunks
                             THEN search.results \cup {search.hit} ELSE search.results
    OBVIOUS
  <1>2. found \subseteq during.active \cap during.indexed /\ found \subseteq Versions
    BY <1>1, <1>h, <1>o DEF Admitted, SearchInv, CopiesWereTrue, ResultsWereServed, Searches
  <1>3. PICK new : new = [search EXCEPT !.step = "retrieved", !.hits = @ \ {search.hit},
                             !.hit = None, !.document = NoSearch.document,
                             !.status = "absent", !.results = found]
    OBVIOUS
  <1>4. new \in Searches /\ new.step = "retrieved" /\ new.results = found
    BY <1>o, <1>n, <1>2, <1>3 DEF Searches, Statuses
  <1>5. search' = new /\ UNCHANGED vars /\ Unwatched /\ UnderWay
    BY <1>1, <1>3, <1>h DEF ReadChunk, UnderWay
  <1> QED BY <1>2, <1>4, <1>5, ReadStep
          DEF SearchInv, SearchTypeOK, ServedIsNoted, CopiesWereTrue, ResultsWereServed

LEMMA AnswerStep == ASSUME SearchInv, Answer PROVE SearchInv'
  <1>o. search \in Searches
    BY DEF SearchInv, SearchTypeOK
  <1>1. PICK new : new = [search EXCEPT !.step = "answered"]
    OBVIOUS
  <1>2. new \in Searches /\ new.step = "answered" /\ new.results = search.results
    BY <1>o, <1>1 DEF Searches
  <1>3. search' = new /\ UNCHANGED vars /\ Unwatched
    BY <1>1 DEF Answer
  <1> QED BY <1>2, <1>3, ReadStep
          DEF SearchInv, SearchTypeOK, ServedIsNoted, UnderWay, CopiesWereTrue,
              ResultsWereServed

LEMMA EndStep == ASSUME SearchInv, End PROVE SearchInv'
  <1>1. search' = NoSearch /\ NoSearch \in Searches
    BY DEF End, NoSearch, Searches, Document, Statuses
  <1>2. search'.step = "idle" /\ search'.results = {}
    BY <1>1 DEF NoSearch
  <1>3. SearchTypeOK'
    BY <1>1 DEF End, SearchInv, SearchTypeOK
  <1> QED BY <1>2, <1>3 DEF SearchInv, ServedIsNoted, UnderWay, CopiesWereTrue,
                            ResultsWereServed

LEMMA PipelineStep == ASSUME SearchInv, RowsOK', Pipeline PROVE SearchInv'
  <1>1. /\ ActiveVersions' \subseteq Versions /\ IndexedVersions' \subseteq Versions
    BY DEF ActiveVersions, IndexedVersions
  <1>2. CASE search.step \in {"idle", "answered"}
    <2>1. search' = search /\ during' = during /\ wiped' \in BOOLEAN
      BY <1>2 DEF Pipeline, SearchInv, SearchTypeOK
    <2> QED BY <1>2, <2>1
            DEF SearchInv, SearchTypeOK, ServedIsNoted, UnderWay, CopiesWereTrue,
                ResultsWereServed
  <1>3. CASE search.step \notin {"idle", "answered"}
    <2>1. /\ search' = search /\ wiped' \in BOOLEAN
          /\ during' = [active |-> during.active \cup ActiveVersions',
                        indexed |-> during.indexed \cup IndexedVersions',
                        steady |-> during.steady \cap Steady']
      BY <1>3 DEF Pipeline, SearchInv, SearchTypeOK
    <2>2. SearchTypeOK'
      BY <1>1, <2>1 DEF SearchInv, SearchTypeOK
    <2>3. ServedIsNoted'
      BY <2>1 DEF ServedIsNoted
    <2>4. CopiesWereTrue' /\ ResultsWereServed'
      BY <2>1 DEF SearchInv, CopiesWereTrue, ResultsWereServed
    <2> QED BY <2>2, <2>3, <2>4 DEF SearchInv
  <1> QED BY <1>2, <1>3

LEMMA SearchNextInv ==
    ASSUME SearchInv, RowsOK, RowsOK', [SearchNext]_<<vars, searchVars>>
    PROVE  SearchInv'
  <1>1. CASE Ask BY <1>1, AskStep
  <1>2. CASE Retrieve BY <1>2, RetrieveStep
  <1>3. ASSUME NEW v \in Versions, ReadDocument(v) PROVE SearchInv'
    BY <1>3, ReadDocumentStep
  <1>4. CASE ReadVersion BY <1>4, ReadVersionStep
  <1>5. CASE ReadChunk BY <1>5, ReadChunkStep
  <1>6. CASE Answer BY <1>6, AnswerStep
  <1>7. CASE End BY <1>7, EndStep
  <1>8. CASE Pipeline BY <1>8, PipelineStep
  <1>9. CASE UNCHANGED <<vars, searchVars>>
    BY <1>9 DEF vars, searchVars, SearchInv, SearchTypeOK, ServedIsNoted, UnderWay,
                CopiesWereTrue, ResultsWereServed, ActiveVersions, IndexedVersions
  <1> QED BY <1>1, <1>2, <1>3, <1>4, <1>5, <1>6, <1>7, <1>8, <1>9 DEF SearchNext

-----------------------------------------------------------------------------

THEOREM SearchInductive == SearchSpec => []SearchInv
  <1>1. IInv => RowsOK
    BY DEF IInv
  <1>2. SearchSpec => []RowsOK
    BY <1>1, SearchOverPipeline, Invariance, PTL
  <1> QED BY <1>2, SearchInitInv, SearchNextInv, PTL DEF SearchSpec

\* Every reachable state of a search is well typed.
THEOREM SearchTypeCorrect == SearchSpec => []SearchTypeOK
  <1>1. SearchInv => SearchTypeOK
    BY DEF SearchInv
  <1> QED BY <1>1, SearchInductive, PTL

\* What a search shows was current, not deleted and indexed while it ran,
\* however many uploads, deletions, failures and deaths overlapped with it.
THEOREM ResultsServed == SearchSpec => []ResultsWereServed
  <1>1. SearchInv => ResultsWereServed
    BY DEF SearchInv
  <1> QED BY <1>1, SearchInductive, PTL

-----------------------------------------------------------------------------
(***************************************************************************)
(* That what is searchable is found.                                       *)
(*                                                                         *)
(* The stores agree on a version that is indexed and that no stage works   *)
(* on: IndexHolds.  A job that empties the index does so while every other *)
(* version the document may show has a stage to come (IndexerAlone), and a *)
(* job that takes out its own version leaves it to another stage           *)
(* (ExclusionFollowed); deletions write the rows first (NothingIndexed).   *)
(* An upload that shows an older version again may rely on a rebuild that  *)
(* ends while it commits: then the version is not indexed (JoinedRebuilt). *)
(***************************************************************************)

\* A stage of the version is queued or at work, the worker's own not counted.
StageOtherThan(k, v) == \E i \in Jobs \ {Deletion, k} : VersionOf(i) = v /\ Active(i)

Worked(v) == StageOtherThan(Deletion, v)

Served(v) == document.current = v /\ version[v].status = "indexed"

JobsNamed ==
    \A k \in Jobs \ {Deletion} : Active(k) => job[k].version = VersionOf(k)

JobLocked ==
    worker.step \notin {"down", "idle"} => job[worker.job].state = "in_progress"

ToEmbed == (Loaded("embed") /\ worker.active) \/ worker.step \in Embedding

IndexerAlone ==
    ToEmbed => \A v \in Versions \ {Subject} : Served(v) => Worked(v)

UpsertDone == worker.step = "upserted" => Subject \in points

NothingIndexed ==
    worker.step \in Deleting => \A v \in Versions : version[v].status # "indexed"

ExclusionFollowed ==
    worker.step = "excluded" =>
        /\ Type(worker.job) = "embed"
        /\ ~wiped /\ Served(Subject) => StageOtherThan(worker.job, Subject)

IndexHolds == ~wiped => \A v \in Versions : Served(v) /\ ~Worked(v) => v \in points

EmbedJobs == worker.step \in Embedding => Type(worker.job) = "embed"

\* A request to show a version again that has found a rebuild of it.
Joined(s) ==
    /\ s.op = "accept" /\ s.stage = "reindex" /\ ~s.insert
    /\ document.current # s.version

\* The rebuild is active, or has ended and nothing indexes the version.
Rebuilt(v) ==
    \/ Active(<<"reindex", v>>)
    \/ version[v].status # "indexed" /\ ~(ToEmbed /\ Subject = v)

JoinedRebuilt == \A h \in Handlers : Joined(session[h]) => Rebuilt(session[h].version)

FoundInv ==
    /\ JobsNamed
    /\ JobLocked
    /\ IndexerAlone
    /\ UpsertDone
    /\ NothingIndexed
    /\ ExclusionFollowed
    /\ IndexHolds
    /\ EmbedJobs
    /\ JoinedRebuilt

-----------------------------------------------------------------------------
(***************************************************************************)
(* The API.                                                                *)
(***************************************************************************)

\* What enqueue_job leaves alone, and the job that there is after it.
LEMMA EnqueueEffect ==
    ASSUME NEW jobs \in [Jobs -> Job], NEW k \in Jobs, NEW v \in Versions \cup {None}
    PROVE  /\ \A i \in Jobs \ {k} : Enqueue(jobs, k, v)[i] = jobs[i]
           /\ Active(k) => Enqueue(jobs, k, v)[k] = jobs[k]
           /\ ~Active(k) => /\ Enqueue(jobs, k, v)[k].state = "pending"
                            /\ Enqueue(jobs, k, v)[k].version = v
  <1>1. PICK new : new = Pending(v)
    OBVIOUS
  <1>2. new.state = "pending" /\ new.version = v
    BY <1>1, NewJobRow
  <1>3. Enqueue(jobs, k, v) = IF Active(k) THEN jobs ELSE [jobs EXCEPT ![k] = new]
    BY <1>1 DEF Enqueue
  <1> QED BY <1>2, <1>3

\* What a request enqueues is its version's own, and no active job is touched.
LEMMA InsertedFound ==
    ASSUME IInv, FoundInv, NEW h \in Handlers, session[h].op # "idle",
           ~Refused(session[h]), job' = Inserted(session[h])
    PROVE  /\ \A k \in Jobs : Active(k) => job'[k] = job[k]
           /\ JobsNamed'
           /\ session[h].insert => job'[Requested(session[h])].state = "pending"
  <1> DEFINE s == session[h]
  <1>1. PICK k \in Jobs : k = Requested(s)
    BY InsertedRows
  <1>2. PICK new : new = Pending(s.version)
    OBVIOUS
  <1>3. new.state = "pending" /\ new.version = s.version /\ job \in [Jobs -> Job]
    BY <1>2, InsertedRows, NewJobRow
  <1>4. k # Deletion => VersionOf(k) = s.version
    BY <1>1, InsertedRows, JobNames
  <1>5. CASE ~s.insert
    BY <1>5 DEF Inserted, FoundInv, JobsNamed, Active
  <1>6. CASE s.insert
    <2>1. job' = [job EXCEPT ![k] = new] /\ ~Active(k)
      BY <1>1, <1>2, <1>6 DEF Inserted, Refused
    <2>2. job'[k] = new /\ \A i \in Jobs \ {k} : job'[i] = job[i]
      BY <1>3, <2>1
    <2>3. JobsNamed'
      BY <1>3, <1>4, <2>2 DEF FoundInv, JobsNamed, Active
    <2> QED BY <1>1, <1>3, <2>1, <2>2, <2>3
  <1> QED BY <1>5, <1>6

\* What a request leaves of the queue: no active job is touched, and a version
\* comes to be served only with a stage to come.
LEMMA RequestFound ==
    ASSUME IInv, FoundInv, UNCHANGED <<points, worker>>, wiped => wiped',
           \A k \in Jobs : Active(k) => job'[k] = job[k],
           JobsNamed', JoinedRebuilt',
           \A v \in Versions :
               /\ version'[v].status = "indexed" => version[v].status = "indexed"
               /\ Served(v)' => \/ Served(v)
                                \/ job'[<<"reindex", v>>].state
                                     \in {"pending", "in_progress", "failed_retryable"}
    PROVE  FoundInv'
  <1>1. \A k \in Jobs : Active(k) => Active(k)'
    BY DEF Active
  <1>2. \A v \in Versions : Served(v)' => Served(v) \/ Active(<<"reindex", v>>)'
    BY DEF Active
  <1>3. ASSUME NEW v \in Versions
        PROVE  /\ <<"reindex", v>> \in Jobs \ {Deletion}
               /\ VersionOf(<<"reindex", v>>) = v
               /\ Type(<<"reindex", v>>) = "reindex"
    <2>1. /\ <<"reindex", v>> \in Jobs /\ VersionOf(<<"reindex", v>>) = v
          /\ Type(<<"reindex", v>>) = "reindex"
      BY JobNames DEF Stages, Type
    <2> QED BY <2>1 DEF Deletion, Type
  <1>4. \A v \in Versions : Worked(v) => Worked(v)'
    BY <1>1 DEF Worked, StageOtherThan
  <1>5. \A v \in Versions : Served(v)' => Served(v) \/ Worked(v)'
    BY <1>2, <1>3 DEF Worked, StageOtherThan
  <1>6. JobLocked'
    BY DEF FoundInv, JobLocked, IInv, WorkerJobs, Active
  <1>7. Subject' = Subject /\ ToEmbed' = ToEmbed
    BY DEF Subject, ToEmbed, Loaded
  <1>8. IndexerAlone'
    BY <1>4, <1>5, <1>7 DEF FoundInv, IndexerAlone
  <1>9. UpsertDone' /\ NothingIndexed'
    BY <1>7 DEF FoundInv, UpsertDone, NothingIndexed
  <1>10. ExclusionFollowed'
    <2> SUFFICES ASSUME worker.step = "excluded", ~wiped', Served(Subject)'
                 PROVE  StageOtherThan(worker.job, Subject)'
      BY <1>7 DEF FoundInv, ExclusionFollowed
    <2>1. Subject \in Versions /\ Type(worker.job) = "embed"
      BY SubjectRow, WorkingStep DEF FoundInv, ExclusionFollowed, OneVersion
    <2>2. <<"reindex", Subject>> # worker.job
      BY <1>3, <2>1
    <2>3. CASE Served(Subject)
      BY <1>1, <1>7, <2>3 DEF FoundInv, ExclusionFollowed, StageOtherThan
    <2>4. CASE Active(<<"reindex", Subject>>)'
      BY <1>3, <1>7, <2>1, <2>2, <2>4 DEF StageOtherThan
    <2> QED BY <1>2, <1>7, <2>1, <2>3, <2>4
  <1>11. IndexHolds' /\ EmbedJobs'
    BY <1>4, <1>5 DEF FoundInv, IndexHolds, EmbedJobs
  <1> QED BY <1>6, <1>8, <1>9, <1>10, <1>11 DEF FoundInv

\* A request that becomes s.
LEMMA JoinedKept ==
    ASSUME IInv, FoundInv, NEW h \in Handlers, NEW s,
           session' = [session EXCEPT ![h] = s],
           Joined(s) => s.version \in Versions /\ Active(<<"reindex", s.version>>),
           \A k \in Jobs : Active(k) => job'[k] = job[k],
           \A v \in Versions : version'[v].status = version[v].status,
           document'.current = document.current, worker' = worker
    PROVE  JoinedRebuilt'
  <1>1. session'[h] = s /\ \A i \in Handlers \ {h} : session'[i] = session[i]
    BY DEF IInv, RowsOK
  <1>2. ToEmbed' = ToEmbed /\ Subject' = Subject
    BY DEF ToEmbed, Loaded, Subject
  <1>3. ASSUME NEW v \in Versions
        PROVE  /\ Active(<<"reindex", v>>) => Active(<<"reindex", v>>)'
               /\ Rebuilt(v) => Rebuilt(v)'
    <2>1. PICK k \in Jobs : k = <<"reindex", v>>
      BY JobNames DEF Stages
    <2>2. Active(k) => Active(k)'
      BY DEF Active
    <2>3. Active(<<"reindex", v>>) => Active(<<"reindex", v>>)'
      BY <2>1, <2>2
    <2> QED BY <1>2, <2>3 DEF Rebuilt
  <1>4. \A i \in Handlers : session[i].op = "accept" => session[i].version \in Versions
    BY DEF IInv, Requests, Sound
  <1> SUFFICES ASSUME NEW i \in Handlers, Joined(session[i])'
               PROVE  Rebuilt(session[i].version)'
    BY DEF JoinedRebuilt
  <1>5. CASE i = h
    <2>1. Joined(s)
      BY <1>1, <1>5 DEF Joined
    <2>2. Rebuilt(s.version)'
      BY <1>3, <2>1 DEF Rebuilt
    <2>3. session'[i].version = s.version
      BY <1>1, <1>5
    <2> QED BY <2>2, <2>3 DEF Rebuilt
  <1>6. CASE i # h
    <2>1. PICK v : v = session[i].version /\ v = session'[i].version
      BY <1>1, <1>6
    <2>2. Joined(session[i])
      BY <1>1, <1>6 DEF Joined
    <2>3. v \in Versions /\ Rebuilt(v)
      BY <1>4, <2>1, <2>2 DEF FoundInv, JoinedRebuilt, Joined
    <2>4. Rebuilt(v)'
      BY <1>3, <2>3
    <2> QED BY <2>1, <2>4 DEF Rebuilt
  <1> QED BY <1>5, <1>6

\* A request begins, looks for a job or is rolled back.
LEMMA SessionFound ==
    ASSUME IInv, FoundInv, wiped => wiped', NEW h \in Handlers, NEW s,
           session' = [session EXCEPT ![h] = s],
           Joined(s) => s.version \in Versions /\ Active(<<"reindex", s.version>>),
           UNCHANGED <<document, version, points, job, worker>>
    PROVE  FoundInv'
  <1>1. JobsNamed'
    BY DEF FoundInv, JobsNamed, Active
  <1>2. \A v \in Versions : Served(v)' = Served(v)
    BY DEF Served
  <1>3. JoinedRebuilt'
    BY JoinedKept
  <1> QED BY <1>1, <1>2, <1>3, RequestFound

LEMMA BeginFound ==
    ASSUME IInv, FoundInv, wiped => wiped', NEW h \in Handlers,
           \/ \E v \in Versions : UploadBegin(h, v)
           \/ \E v \in Versions \cup {None} : DeleteBegin(h, v)
           \/ RetryBegin(h) \/ ReindexBegin(h)
    PROVE  FoundInv'
  <1>1. ASSUME NEW s, s.op # "accept", Begin(h, s) PROVE FoundInv'
    BY <1>1, SessionFound DEF Begin, Joined
  <1>2. ASSUME NEW v \in Versions, UploadBegin(h, v) PROVE FoundInv'
    <2>1. PICK s : s = [Idle EXCEPT !.op = "upload", !.version = v,
                                    !.status = version[v].status, !.error = version[v].error]
      OBVIOUS
    <2>2. s.op # "accept" /\ Begin(h, s)
      BY <1>2, <2>1 DEF UploadBegin, Idle
    <2> QED BY <1>1, <2>2
  <1>3. ASSUME NEW v \in Versions \cup {None}, DeleteBegin(h, v) PROVE FoundInv'
    <2>1. PICK s : s = [Idle EXCEPT !.op = "delete", !.version = v, !.stage = "delete",
                                    !.insert = ~Active(Deletion)]
      OBVIOUS
    <2>2. s.op # "accept" /\ Begin(h, s)
      BY <1>3, <2>1 DEF DeleteBegin, Idle
    <2> QED BY <1>1, <2>2
  <1>4. CASE RetryBegin(h)
    <2> DEFINE v == document.current
               blocked == version[v].status = "chunked" /\ version[v].error = "blocked"
    <2>1. PICK s : s = [Idle EXCEPT !.op = "retry", !.version = v, !.error = version[v].error,
                          !.stage = IF blocked \/ version[v].chunks THEN "embed" ELSE "parse"]
      OBVIOUS
    <2>2. s.op # "accept" /\ Begin(h, s)
      BY <1>4, <2>1 DEF RetryBegin, Idle
    <2> QED BY <1>1, <2>2
  <1>5. CASE ReindexBegin(h)
    <2>1. PICK s : s = [Idle EXCEPT !.op = "reindex", !.version = document.current,
                                    !.stage = "reindex"]
      OBVIOUS
    <2>2. s.op # "accept" /\ Begin(h, s)
      BY <1>5, <2>1 DEF ReindexBegin, Idle
    <2> QED BY <1>1, <2>2
  <1> QED BY <1>2, <1>3, <1>4, <1>5

\* An upload that is to show a version again has found a rebuild, or inserts one.
LEMMA UploadAcceptFound ==
    ASSUME IInv, FoundInv, wiped => wiped', NEW h \in Handlers, UploadAccept(h)
    PROVE  FoundInv'
  <1> DEFINE o == session[h]
             stage == IF o.status = "absent" THEN "parse" ELSE "reindex"
             insert == RequiresReindex(o) /\ ~Active(<<stage, o.version>>)
  <1>1. o \in Session /\ o.version \in Versions /\ session \in [Handlers -> Session]
    BY DEF IInv, RowsOK, Requests, Sound, UploadAccept
  <1>2. PICK s : s = [o EXCEPT !.op = "accept", !.stage = stage, !.insert = insert]
    OBVIOUS
  <1>3. s.stage = stage /\ s.insert = insert /\ s.version = o.version
    BY <1>1, <1>2 DEF Session
  <1>4. session' = [session EXCEPT ![h] = s]
    BY <1>1, <1>2 DEF UploadAccept
  <1>5. ASSUME Joined(s) PROVE Active(<<"reindex", s.version>>)
    BY <1>3, <1>5 DEF Joined, RequiresReindex
  <1> QED BY <1>1, <1>3, <1>4, <1>5, SessionFound DEF UploadAccept

LEMMA EnqueueLookFound ==
    ASSUME IInv, FoundInv, wiped => wiped', NEW h \in Handlers, EnqueueLook(h)
    PROVE  FoundInv'
  <1> DEFINE o == session[h]
  <1>1. o \in Session /\ session \in [Handlers -> Session]
    BY DEF IInv, RowsOK
  <1>2. PICK s : s = [o EXCEPT !.op = "enqueue", !.insert = ~Busy(o.version)]
    OBVIOUS
  <1>3. s.op = "enqueue"
    BY <1>1, <1>2 DEF Session
  <1>4. session' = [session EXCEPT ![h] = s]
    BY <1>1, <1>2 DEF EnqueueLook
  <1> QED BY <1>3, <1>4, SessionFound DEF EnqueueLook, Joined

LEMMA RollbackFound ==
    ASSUME IInv, FoundInv, wiped => wiped', NEW h \in Handlers, Rollback(h)
    PROVE  FoundInv'
  BY IdleSession, SessionFound DEF Rollback, Joined

LEMMA DeleteDocumentFound ==
    ASSUME IInv, FoundInv, wiped => wiped', NEW h \in Handlers, DeleteDocument(h)
    PROVE  FoundInv'
  <1>1. (\A k \in Jobs : Active(k) => job'[k] = job[k]) /\ JobsNamed'
    BY InsertedFound DEF DeleteDocument
  <1>2. document'.current = document.current /\ UNCHANGED <<version, points, worker>>
    BY DEF IInv, RowsOK, Document, DeleteDocument
  <1>3. \A v \in Versions : Served(v)' = Served(v)
    BY <1>2 DEF Served
  <1>4. JoinedRebuilt'
    BY <1>1, <1>2, IdleSession, JoinedKept DEF DeleteDocument, Joined
  <1> QED BY <1>1, <1>2, <1>3, <1>4, RequestFound

\* A version that becomes the current one without having been it is received
\* again, or a rebuild of it is active, or it is not indexed (requires_reindex).
LEMMA UploadCommitFound ==
    ASSUME IInv, FoundInv, wiped => wiped', NEW h \in Handlers, UploadCommit(h)
    PROVE  FoundInv'
  <1> DEFINE s == session[h]
  <1>1. PICK v \in Versions : v = s.version
    BY UploadCommitRows
  <1>2. document'.current = v /\ UNCHANGED <<points, worker>>
    BY <1>1 DEF UploadCommit
  <1>3. /\ \A k \in Jobs : Active(k) => job'[k] = job[k]
        /\ JobsNamed'
        /\ s.insert => job'[Requested(s)].state = "pending"
    BY InsertedFound DEF UploadCommit
  <1>4. /\ \A u \in Versions \ {v} : version'[u] = version[u]
        /\ version'[v].status = IF RequiresReindex(s) /\ s.status # "received"
                                THEN "received" ELSE version[v].status
    BY <1>1, UploadCommitRows
  <1>5. JoinedRebuilt'
    <2>1. session'[h] = Idle /\ \A i \in Handlers \ {h} : session'[i] = session[i]
      BY DEF IInv, RowsOK, UploadCommit
    <2>2. \A i \in Handlers \ {h} : session[i].op # "accept"
      BY DEF IInv, Requests, Locking, UploadCommit
    <2>3. \A i \in Handlers : session'[i].op # "accept"
      BY <2>1, <2>2, IdleSession
    <2> QED BY <2>3 DEF JoinedRebuilt, Joined
  <1>6. ASSUME Served(v)'
        PROVE  Served(v) \/ Active(<<"reindex", v>>)'
    <2>1. PICK k \in Jobs : k = <<"reindex", v>>
      BY JobNames DEF Stages
    <2>2. Active(k) => Active(k)'
      BY <1>3 DEF Active
    <2>3. version'[v].status = "indexed"
      BY <1>6 DEF Served
    <2>4. version[v].status = "indexed" /\ (RequiresReindex(s) => s.status = "received")
      BY <1>4, <2>3
    <2>5. CASE document.current = v
      BY <2>4, <2>5 DEF Served
    <2>6. CASE document.current # v
      <3>1. s.status = "received" /\ s.stage = "reindex"
        BY <1>1, <2>4, <2>6 DEF RequiresReindex, IInv, Requests, Sound, UploadCommit
      <3>2. CASE s.insert
        <4>1. Requested(s) = k
          BY <1>1, <2>1, <3>1 DEF Requested
        <4>2. Active(k)'
          BY <1>3, <3>2, <4>1 DEF Active
        <4> QED BY <2>1, <4>2
      <3>3. CASE ~s.insert
        <4>1. Joined(s)
          BY <1>1, <2>6, <3>1, <3>3 DEF Joined, UploadCommit
        <4>2. Rebuilt(v)
          BY <1>1, <4>1 DEF FoundInv, JoinedRebuilt
        <4>3. Active(k)
          BY <2>1, <2>4, <4>2 DEF Rebuilt
        <4> QED BY <2>1, <2>2, <4>3
      <3> QED BY <3>2, <3>3
    <2> QED BY <2>5, <2>6
  <1>7. \A u \in Versions :
            /\ version'[u].status = "indexed" => version[u].status = "indexed"
            /\ Served(u)' => \/ Served(u)
                             \/ job'[<<"reindex", u>>].state
                                  \in {"pending", "in_progress", "failed_retryable"}
    <2>1. \A u \in Versions : version'[u].status = "indexed" => version[u].status = "indexed"
      BY <1>4
    <2>2. \A u \in Versions : Served(u)' => u = v
      BY <1>2 DEF Served
    <2>3. Served(v)' => \/ Served(v)
                        \/ job'[<<"reindex", v>>].state
                             \in {"pending", "in_progress", "failed_retryable"}
      BY <1>6 DEF Active
    <2> QED BY <2>1, <2>2, <2>3
  <1> QED BY <1>2, <1>3, <1>5, <1>7, RequestFound

LEMMA EnqueueDocumentJobFound ==
    ASSUME IInv, FoundInv, wiped => wiped', NEW h \in Handlers, EnqueueDocumentJob(h)
    PROVE  FoundInv'
  <1> DEFINE s == session[h]
             v == s.version
  <1>1. v \in Versions /\ version \in [Versions -> Version] /\ version[v] \in Version
    <2>1. v \in Versions
      BY InsertedRows DEF EnqueueDocumentJob
    <2> QED BY <2>1 DEF IInv, RowsOK
  <1>2. PICK new : new = [version[v] EXCEPT !.error = "none"]
    OBVIOUS
  <1>3. new.status = version[v].status
    BY <1>1, <1>2 DEF Version
  <1>4. version' = version \/ version' = [version EXCEPT ![v] = new]
    BY <1>2 DEF EnqueueDocumentJob
  <1>5. \A u \in Versions : version'[u].status = version[u].status
    BY <1>1, <1>3, <1>4
  <1>6. \A u \in Versions : Served(u)' = Served(u)
    BY <1>5 DEF Served, EnqueueDocumentJob
  <1>7. (\A k \in Jobs : Active(k) => job'[k] = job[k]) /\ JobsNamed'
    BY InsertedFound DEF EnqueueDocumentJob
  <1>8. JoinedRebuilt'
    BY <1>5, <1>7, IdleSession, JoinedKept DEF EnqueueDocumentJob, Joined
  <1> QED BY <1>5, <1>6, <1>7, <1>8, RequestFound DEF EnqueueDocumentJob

-----------------------------------------------------------------------------
(***************************************************************************)
(* The worker leaves a job, or takes one up.                               *)
(***************************************************************************)

\* The worker is at no step that anything is said of but its lock.
LEMMA ReleaseFound ==
    ASSUME FoundInv, wiped => wiped',
           worker'.step \in {"down", "idle", "claimed"}, JobLocked', JobsNamed', JoinedRebuilt',
           \A v \in Versions : Served(v)' /\ ~Worked(v)' =>
               (Served(v) /\ ~Worked(v) /\ points' = points) \/ v \in points'
    PROVE  FoundInv'
  <1>1. IndexerAlone' /\ UpsertDone' /\ NothingIndexed' /\ ExclusionFollowed' /\ EmbedJobs'
    BY DEF IndexerAlone, ToEmbed, Loaded, Embedding, UpsertDone, NothingIndexed, Deleting,
           ExclusionFollowed, EmbedJobs
  <1>2. IndexHolds'
    BY DEF FoundInv, IndexHolds
  <1> QED BY <1>1, <1>2 DEF FoundInv

\* Every job stays as active as it was.
LEMMA SameWorked ==
    ASSUME IInv, FoundInv, UNCHANGED <<document, version, session>>,
           worker'.step \in {"down", "idle", "claimed"},
           \A k \in Jobs : Active(k)' <=> Active(k)
    PROVE  /\ \A v \in Versions : (Served(v)' <=> Served(v)) /\ (Worked(v)' <=> Worked(v))
           /\ JoinedRebuilt'
  <1>1. \A v \in Versions : (Served(v)' <=> Served(v)) /\ (Worked(v)' <=> Worked(v))
    BY DEF Served, Worked, StageOtherThan
  <1>2. ~ToEmbed'
    BY DEF ToEmbed, Loaded, Embedding
  <1> SUFFICES ASSUME NEW h \in Handlers, Joined(session[h])'
               PROVE  Rebuilt(session[h].version)'
    BY <1>1 DEF JoinedRebuilt
  <1>3. Joined(session[h])
    BY DEF Joined
  <1>4. PICK v \in Versions : v = session[h].version
    BY <1>3 DEF IInv, Requests, Sound, Joined
  <1>5. Rebuilt(v)
    BY <1>3, <1>4 DEF FoundInv, JoinedRebuilt
  <1>6. PICK k \in Jobs : k = <<"reindex", v>>
    BY JobNames DEF Stages
  <1>7. Active(<<"reindex", v>>) => Active(<<"reindex", v>>)'
    BY <1>6
  <1>8. Rebuilt(v)'
    BY <1>2, <1>5, <1>7 DEF Rebuilt
  <1> QED BY <1>4, <1>8 DEF Rebuilt

LEMMA StartFound == ASSUME IInv, FoundInv, wiped => wiped', Start PROVE FoundInv'
  <1>1. ASSUME NEW k \in Jobs
        PROVE  /\ Active(k)' <=> Active(k)
               /\ job'[k].version = job[k].version
    <2>1. job[k] \in Job
      BY DEF IInv, RowsOK
    <2>2. PICK new : new = [job[k] EXCEPT !.state = "failed_retryable", !.error = "restart"]
      OBVIOUS
    <2>3. new.state = "failed_retryable" /\ new.version = job[k].version
      BY <2>1, <2>2 DEF Job
    <2>4. job'[k] = IF job[k].state = "in_progress" THEN new ELSE job[k]
      BY <2>2 DEF Start
    <2> QED BY <2>3, <2>4 DEF Active
  <1>2. worker'.step = "idle" /\ UNCHANGED <<document, version, points, session>>
    BY UnloadedWorkers DEF Start
  <1>3. JobsNamed' /\ JobLocked'
    BY <1>1, <1>2 DEF FoundInv, JobsNamed, JobLocked
  <1> QED BY <1>1, <1>2, <1>3, SameWorked, ReleaseFound

LEMMA ClaimFound ==
    ASSUME IInv, FoundInv, wiped => wiped', NEW k \in Jobs, Claim(k)
    PROVE  FoundInv'
  <1>1. job \in [Jobs -> Job] /\ job[k] \in Job
    BY DEF IInv, RowsOK
  <1>2. PICK new : new = [job[k] EXCEPT !.state = "in_progress", !.attempts = @ + 1]
    OBVIOUS
  <1>3. new.state = "in_progress" /\ new.version = job[k].version
    BY <1>1, <1>2 DEF Job
  <1>4. job' = [job EXCEPT ![k] = new] /\ Active(k)
    BY <1>2 DEF Claim, Active
  <1>5. \A i \in Jobs : (Active(i)' <=> Active(i)) /\ job'[i].version = job[i].version
    BY <1>1, <1>3, <1>4 DEF Active
  <1>6. worker'.step = "claimed" /\ worker'.job = k
        /\ UNCHANGED <<document, version, points, session>>
    BY UnloadedWorkers DEF Claim
  <1>7. JobsNamed' /\ JobLocked'
    BY <1>1, <1>3, <1>4, <1>5, <1>6 DEF FoundInv, JobsNamed, JobLocked
  <1> QED BY <1>5, <1>6, <1>7, SameWorked, ReleaseFound

LEMMA CrashFound == ASSUME IInv, FoundInv, wiped => wiped', Crash PROVE FoundInv'
  <1>1. worker'.step = "down" /\ UNCHANGED <<document, version, points, job, session>>
    BY UnloadedWorkers DEF Crash
  <1>2. JobsNamed' /\ JobLocked' /\ \A k \in Jobs : Active(k)' <=> Active(k)
    BY <1>1 DEF FoundInv, JobsNamed, JobLocked, Active
  <1> QED BY <1>1, <1>2, SameWorked, ReleaseFound

\* The end of a job: no other is touched, and its own version is then not served,
\* or has its points, or is worked on further.
LEMMA LeaveFound ==
    ASSUME IInv, FoundInv, wiped => wiped', worker.step \in Reading, worker' = IdleWorker,
           UNCHANGED <<document, points, session>>, JobsNamed',
           \A k \in Jobs \ {worker.job} : Active(k) => Active(k)',
           \A v \in Versions :
               /\ worker.job = Deletion \/ v # Subject => (Served(v)' => Served(v))
               /\ v = Subject /\ worker.job # Deletion =>
                    wiped' \/ ~Served(v)' \/ Worked(v)' \/ v \in points
               /\ version'[v].status = "indexed" =>
                    version[v].status = "indexed" \/ (ToEmbed /\ Subject = v)
               /\ v = Subject /\ Type(worker.job) = "reindex" =>
                    version'[v].status # "indexed"
    PROVE  FoundInv'
  <1>1. worker'.step = "idle" /\ worker.job \in Jobs
    BY UnloadedWorkers DEF IInv, WorkerJobs, Reading
  <1>2. ASSUME NEW v \in Versions, worker.job = Deletion \/ v # Subject, Worked(v)
        PROVE  Worked(v)'
    BY <1>2 DEF Worked, StageOtherThan, Subject
  <1>3. JobLocked'
    BY <1>1 DEF JobLocked
  <1>4. JoinedRebuilt'
    <2> SUFFICES ASSUME NEW h \in Handlers, Joined(session[h])'
                 PROVE  Rebuilt(session[h].version)'
      BY DEF JoinedRebuilt
    <2>1. Joined(session[h])
      BY DEF Joined
    <2>2. PICK v \in Versions : v = session[h].version
      BY <2>1 DEF IInv, Requests, Sound, Joined
    <2>3. Rebuilt(v)
      BY <2>1, <2>2 DEF FoundInv, JoinedRebuilt
    <2>4. ~ToEmbed'
      BY <1>1 DEF ToEmbed, Loaded, Embedding
    <2>5. PICK k \in Jobs : k = <<"reindex", v>>
      BY JobNames DEF Stages
    <2>6. k = worker.job => v = Subject /\ Type(worker.job) = "reindex"
      BY <2>5 DEF Subject, VersionOf, Type
    <2>7. CASE version'[v].status # "indexed"
      BY <2>2, <2>4, <2>7 DEF Rebuilt
    <2>8. CASE version'[v].status = "indexed"
      <3>1. Active(<<"reindex", v>>)
        BY <2>3, <2>8 DEF Rebuilt
      <3>2. Active(k)'
        BY <2>5, <2>6, <2>8, <3>1
      <3>3. Rebuilt(v)'
        BY <2>5, <3>2 DEF Rebuilt
      <3> QED BY <2>2, <3>3 DEF Rebuilt
    <2> QED BY <2>7, <2>8
  <1>5. CASE wiped'
    BY <1>1, <1>3, <1>4, <1>5
       DEF FoundInv, IndexHolds, IndexerAlone, ToEmbed, Loaded, Embedding, UpsertDone,
           NothingIndexed, Deleting, ExclusionFollowed, EmbedJobs
  <1>6. CASE ~wiped'
    BY <1>1, <1>2, <1>3, <1>4, <1>6, ReleaseFound DEF FoundInv, IndexHolds
  <1> QED BY <1>5, <1>6

\* The job that the worker holds is active.
LEMMA HeldJob ==
    ASSUME IInv, FoundInv, worker.step \in Reading
    PROVE  /\ worker.job \in Jobs /\ Active(worker.job) /\ job \in [Jobs -> Job]
           /\ worker.job # Deletion => Worked(Subject)
  <1>1. worker.job \in Jobs /\ Active(worker.job) /\ job \in [Jobs -> Job]
    BY DEF IInv, RowsOK, WorkerJobs, FoundInv, JobLocked, Reading, Active
  <1> QED BY <1>1 DEF Worked, StageOtherThan, Subject

\* The worker's job is replaced by one that has its version if it is active.
LEMMA JobReplaced ==
    ASSUME IInv, FoundInv, worker.step \in Reading, NEW j \in Job,
           job' = [job EXCEPT ![worker.job] = j],
           j.state \in {"pending", "in_progress", "failed_retryable"} =>
               j.version = job[worker.job].version
    PROVE  /\ JobsNamed'
           /\ \A k \in Jobs \ {worker.job} : Active(k) => Active(k)'
  <1>1. worker.job \in Jobs /\ Active(worker.job) /\ job \in [Jobs -> Job]
    BY HeldJob
  <1>2. job'[worker.job] = j /\ \A k \in Jobs \ {worker.job} : job'[k] = job[k]
    BY <1>1
  <1>3. JobsNamed'
    BY <1>1, <1>2 DEF FoundInv, JobsNamed, Active
  <1> QED BY <1>2, <1>3 DEF Active

LEMMA SucceededFound ==
    ASSUME IInv, FoundInv, worker.step \in Reading, job' = Succeeded
    PROVE  /\ JobsNamed'
           /\ \A k \in Jobs \ {worker.job} : Active(k) => Active(k)'
  <1>1. NewJob \in Job /\ NewJob.state = "none"
    BY DEF NewJob, Job
  <1> QED BY <1>1, JobReplaced DEF Succeeded

LEMMA FinishFound ==
    ASSUME IInv, FoundInv, wiped => wiped', worker.step \in Reading, worker.job # Deletion,
           NEW r \in Version, NEW next \in Stages, Finish(r, next), r.status # "indexed"
    PROVE  FoundInv'
  <1> DEFINE k == <<next, Subject>>
  <1>1. /\ Subject \in Versions /\ version \in [Versions -> Version]
        /\ version' = [version EXCEPT ![Subject] = r]
        /\ worker' = IdleWorker
        /\ UNCHANGED <<document, points, session>>
    BY SubjectRow DEF Finish
  <1>2. k \in Jobs /\ VersionOf(k) = Subject /\ Subject \in Versions \cup {None}
    BY <1>1, JobNames
  <1>3. worker.job \in Jobs /\ job \in [Jobs -> Job] /\ Succeeded \in [Jobs -> Job]
    BY HeldJob, SucceededRows
  <1>4. /\ Succeeded[worker.job].state = "none"
        /\ \A i \in Jobs \ {worker.job} : Succeeded[i] = job[i]
    BY <1>3 DEF Succeeded, NewJob
  <1>5. job' = Enqueue(Succeeded, k, Subject)
    BY DEF Finish
  <1> HIDE DEF k
  <1>6. /\ \A i \in Jobs \ {k} : job'[i] = Succeeded[i]
        /\ Active(k) => job'[k] = Succeeded[k]
        /\ ~Active(k) => job'[k].state = "pending" /\ job'[k].version = Subject
    BY <1>2, <1>3, <1>5, EnqueueEffect
  <1>7. JobsNamed'
    BY <1>2, <1>4, <1>6 DEF FoundInv, JobsNamed, Active
  <1>8. \A i \in Jobs \ {worker.job} : Active(i) => Active(i)'
    BY <1>4, <1>6 DEF Active
  <1>9. \A v \in Versions : /\ v # Subject => Served(v)' = Served(v)
                            /\ v = Subject => ~Served(v)'
                            /\ version'[v].status = "indexed" => version[v].status = "indexed"
                            /\ v = Subject => version'[v].status # "indexed"
    <2>1. version'[Subject] = r /\ \A v \in Versions \ {Subject} : version'[v] = version[v]
      BY <1>1
    <2> QED BY <1>1, <2>1 DEF Served
  <1> QED BY <1>1, <1>7, <1>8, <1>9, LeaveFound

LEMMA FailCommitFound ==
    ASSUME IInv, FoundInv, wiped => wiped', FailCommit
    PROVE  FoundInv'
  <1> DEFINE k == worker.job
  <1>1. worker.step = "failing" /\ worker.step \in Reading /\ worker' = IdleWorker
        /\ UNCHANGED <<document, points, session>>
    BY DEF FailCommit, Reading
  <1>2. PICK j \in Job : j = Failed
    BY <1>1, FailedRow
  <1>3. job' = [job EXCEPT ![worker.job] = j]
    BY <1>2 DEF FailCommit
  <1>4. j.state \in {"pending", "in_progress", "failed_retryable"} => j.version = job[k].version
    BY <1>1, <1>2, FailedRow
  <1>5. /\ JobsNamed'
        /\ \A i \in Jobs \ {worker.job} : Active(i) => Active(i)'
    BY <1>1, <1>3, <1>4, JobReplaced
  <1>6. CASE k = Deletion
    <2>1. Type(k) # "reindex" /\ version' = version
      BY <1>6 DEF Type, Deletion, FailCommit
    <2>2. \A v \in Versions : Served(v)' = Served(v)
      BY <1>1, <2>1 DEF Served
    <2> QED BY <1>1, <1>5, <1>6, <2>1, <2>2, LeaveFound
  <1>7. CASE k # Deletion
    <2>1. /\ version'[Subject].status # "indexed"
          /\ \A u \in Versions \ {Subject} : version'[u] = version[u]
      BY <1>1, <1>7, FailedVersion
    <2>2. \A v \in Versions : /\ v # Subject => Served(v)' = Served(v)
                              /\ v = Subject => ~Served(v)'
                              /\ version'[v].status = "indexed" => version[v].status = "indexed"
      BY <1>1, <2>1 DEF Served
    <2> QED BY <1>1, <1>5, <1>7, <2>1, <2>2, LeaveFound
  <1> QED BY <1>6, <1>7

LEMMA IndexCommitFound ==
    ASSUME IInv, FoundInv, wiped => wiped', IndexCommit
    PROVE  FoundInv'
  <1>1. worker.step \in Reading /\ worker.job # Deletion /\ Subject \in points
    BY WorkingStep DEF IndexCommit, OneVersion, Embedding, FoundInv, UpsertDone
  <1>2. Subject \in Versions /\ version \in [Versions -> Version]
    BY <1>1, SubjectRow
  <1>3. PICK t \in Statuses : t = Written(Subject, "indexed")
    BY <1>1, WrittenStatus DEF Statuses
  <1>4. version' = [version EXCEPT ![Subject].status = t, ![Subject].error = "none"]
        /\ job' = Succeeded /\ worker' = IdleWorker
        /\ UNCHANGED <<document, points, session>>
    BY <1>3 DEF IndexCommit
  <1>5. \A v \in Versions \ {Subject} : version'[v] = version[v]
    BY <1>2, <1>4, StatusRow
  <1>6. \A v \in Versions \ {Subject} : Served(v)' = Served(v)
    BY <1>4, <1>5 DEF Served
  <1>7. ToEmbed /\ Type(worker.job) = "embed"
    BY DEF IndexCommit, ToEmbed, Embedding, FoundInv, EmbedJobs
  <1> QED BY <1>1, <1>4, <1>5, <1>6, <1>7, SucceededFound, LeaveFound

LEMMA CloseFound ==
    ASSUME IInv, FoundInv, wiped => wiped', Close
    PROVE  FoundInv'
  <1>1. /\ worker.step \in Reading /\ job' = Succeeded /\ worker' = IdleWorker
        /\ UNCHANGED <<document, version, points, session>>
    BY DEF Close, Loaded, Reading
  <1>2. \A v \in Versions : Served(v)' = Served(v)
    BY <1>1 DEF Served
  <1>3. /\ JobsNamed'
        /\ \A k \in Jobs \ {worker.job} : Active(k) => Active(k)'
    BY <1>1, SucceededFound
  <1>4. CASE worker.job = Deletion
    <2>1. Type(worker.job) # "reindex"
      BY <1>4 DEF Type, Deletion
    <2> QED BY <1>1, <1>2, <1>3, <1>4, <2>1, LeaveFound
  <1>5. CASE worker.job # Deletion
    <2>1. worker.step = "excluded" /\ Subject \in Versions
      BY <1>1, <1>5, SubjectRow, JobNames DEF Close, Loaded, Type, Jobs, Stages, Deletion
    <2>2. PICK w \in Versions : w = Subject
      BY <2>1
    <2>3. ~wiped' /\ Served(w) => StageOtherThan(worker.job, w)
      BY <2>1, <2>2 DEF FoundInv, ExclusionFollowed
    <2>4. StageOtherThan(worker.job, w) => Worked(w)'
      BY <1>3 DEF StageOtherThan, Worked
    <2>5. Type(worker.job) # "reindex"
      BY <2>1 DEF FoundInv, ExclusionFollowed
    <2> QED BY <1>1, <1>2, <1>3, <1>5, <2>2, <2>3, <2>4, <2>5, LeaveFound
  <1> QED BY <1>4, <1>5

LEMMA DeleteCommitFound ==
    ASSUME IInv, FoundInv, wiped => wiped', DeleteCommit
    PROVE  FoundInv'
  <1>1. /\ worker.step = "erased" /\ worker.step \in Reading /\ worker.job = Deletion
        /\ version \in [Versions -> Version]
        /\ job' = Succeeded /\ worker' = IdleWorker
        /\ UNCHANGED <<document, points, session>>
    BY DEF IInv, RowsOK, WorkerJobs, DeleteCommit, Reading, Deleting
  <1>2. ASSUME NEW v \in Versions PROVE version'[v].status # "indexed"
    <2>1. version[v] \in Version /\ version[v].status # "indexed"
      BY <1>1 DEF FoundInv, NothingIndexed, Deleting
    <2>2. PICK t \in Statuses :
            /\ t = IF v \in ToDelete THEN "deleted_from_index" ELSE version[v].status
            /\ t # "indexed"
      BY <2>1 DEF Version, Statuses
    <2>3. PICK new : new = [version[v] EXCEPT !.chunks = FALSE, !.status = t]
      OBVIOUS
    <2>4. new.status = t
      BY <2>1, <2>3 DEF Version
    <2>5. version'[v] = new
      BY <2>2, <2>3 DEF DeleteCommit
    <2> QED BY <2>2, <2>4, <2>5
  <1>3. \A v \in Versions : ~Served(v)'
    BY <1>2 DEF Served
  <1> QED BY <1>1, <1>2, <1>3, SucceededFound, LeaveFound

-----------------------------------------------------------------------------
(***************************************************************************)
(* The worker goes on with its job.                                        *)
(***************************************************************************)

LEMMA GoOnFound ==
    ASSUME IInv, FoundInv, wiped => wiped', worker.step \notin {"down", "idle"},
           worker'.job = worker.job, UNCHANGED <<document, job, session>>,
           \A v \in Versions : version'[v].status = "indexed" => version[v].status = "indexed",
           ToEmbed' => ToEmbed \/ document.current = Subject,
           worker'.step \in Embedding => ToEmbed,
           UpsertDone', NothingIndexed', ExclusionFollowed',
           ~wiped' => \A v \in Versions : Served(v) /\ ~Worked(v) /\ v \in points => v \in points'
    PROVE  FoundInv'
  <1>1. JobsNamed' /\ JobLocked'
    BY DEF FoundInv, JobsNamed, JobLocked, Active
  <1>2. Subject' = Subject
    BY DEF Subject
  <1>3. \A v \in Versions : (Served(v)' => Served(v)) /\ (Worked(v)' <=> Worked(v))
    BY DEF Served, Worked, StageOtherThan, Active
  <1>4. IndexerAlone'
    BY <1>2, <1>3 DEF FoundInv, IndexerAlone, Served
  <1>5. IndexHolds'
    BY <1>3 DEF FoundInv, IndexHolds
  <1>6. EmbedJobs'
    BY DEF FoundInv, EmbedJobs, ToEmbed, Loaded
  <1>7. JoinedRebuilt'
    <2> SUFFICES ASSUME NEW h \in Handlers, Joined(session[h])'
                 PROVE  Rebuilt(session[h].version)'
      BY DEF JoinedRebuilt
    <2>1. Joined(session[h]) /\ document.current # session[h].version
      BY DEF Joined
    <2>2. PICK v \in Versions : v = session[h].version
      BY <2>1 DEF IInv, Requests, Sound, Joined
    <2>3. Rebuilt(v)
      BY <2>1, <2>2 DEF FoundInv, JoinedRebuilt
    <2>4. Rebuilt(v)'
      BY <1>2, <2>1, <2>2, <2>3 DEF Rebuilt, Active
    <2> QED BY <2>2, <2>4 DEF Rebuilt
  <1> QED BY <1>1, <1>4, <1>5, <1>6, <1>7 DEF FoundInv

\* The worker reads the rows again after a failure.
LEMMA FailFound ==
    ASSUME IInv, FoundInv, wiped => wiped', worker.step \in Reading,
           NEW error \in Faults, Fail(error)
    PROVE  FoundInv'
  <1>1. worker'.step = "failing" /\ worker'.job = worker.job
    BY FailStep
  <1>2. UNCHANGED <<document, version, points, job, session>>
    BY DEF Fail
  <1>3. ~ToEmbed' /\ worker'.step \notin Embedding
    BY <1>1 DEF ToEmbed, Loaded, Embedding
  <1>4. UpsertDone' /\ NothingIndexed' /\ ExclusionFollowed'
    BY <1>1 DEF UpsertDone, NothingIndexed, Deleting, ExclusionFollowed
  <1> QED BY <1>1, <1>2, <1>3, <1>4, GoOnFound DEF Reading

LEMMA LoadFound == ASSUME IInv, FoundInv, wiped => wiped', Load PROVE FoundInv'
  <1>1. /\ worker \in Worker /\ worker.step = "claimed" /\ worker.job \in Jobs
        /\ UNCHANGED <<document, version, points, job, session>>
    BY DEF IInv, RowsOK, WorkerJobs, Load
  <1>2. PICK copies : copies = [v \in Versions |->
                                  IF worker.job = Deletion \/ v = VersionOf(worker.job)
                                  THEN version[v].status ELSE "absent"]
    OBVIOUS
  <1>3. PICK a \in BOOLEAN :
          a = (~document.deleted
                 /\ (worker.job = Deletion \/ document.current = VersionOf(worker.job)))
    OBVIOUS
  <1>4. worker' = [worker EXCEPT !.step = "loaded", !.active = a, !.loaded = copies]
    BY <1>2, <1>3 DEF Load
  <1>5. worker'.step = "loaded" /\ worker'.job = worker.job /\ worker'.active = a
    BY <1>1, <1>4 DEF Worker
  <1>6. (ToEmbed' => document.current = Subject) /\ worker'.step \notin Embedding
    BY <1>3, <1>5, JobNames DEF ToEmbed, Loaded, Embedding, Subject, Stages, Deletion, Type
  <1>7. UpsertDone' /\ NothingIndexed' /\ ExclusionFollowed'
    BY <1>5 DEF UpsertDone, NothingIndexed, Deleting, ExclusionFollowed
  <1> QED BY <1>1, <1>5, <1>6, <1>7, GoOnFound

\* A status on the way to another is never INDEXED.
LEMMA AdvanceFound ==
    ASSUME IInv, FoundInv, wiped => wiped', worker.step \in Reading, worker.job # Deletion,
           NEW s \in Statuses \ {"indexed"},
           NEW step \in {"parsing", "chunking", "embedding", "indexing"},
           Advance(s, step),
           step \in Embedding => ToEmbed
    PROVE  FoundInv'
  <1>1. /\ worker \in Worker /\ Subject \in Versions
        /\ version \in [Versions -> Version] /\ version[Subject] \in Version
        /\ UNCHANGED <<document, points, job, session>>
    BY SubjectRow DEF IInv, RowsOK, Advance
  <1>2. PICK t \in Statuses : t = Written(Subject, s) /\ t # "indexed"
    BY WrittenStatus
  <1>3. PICK new : new = [version[Subject] EXCEPT !.status = t]
    OBVIOUS
  <1>4. new.status = t
    BY <1>1, <1>3 DEF Version
  <1>5. version' = [version EXCEPT ![Subject] = new]
    BY <1>2, <1>3 DEF Advance
  <1>6. \A v \in Versions : version'[v].status = "indexed" => version[v].status = "indexed"
    BY <1>1, <1>2, <1>4, <1>5
  <1>7. PICK copies : copies = [worker.loaded EXCEPT ![Subject] = s]
    OBVIOUS
  <1>8. worker' = [worker EXCEPT !.step = step, !.loaded = copies]
    BY <1>7 DEF Advance
  <1>9. worker'.step = step /\ worker'.job = worker.job
    BY <1>1, <1>8 DEF Worker
  <1>10. ToEmbed' => ToEmbed
    BY <1>9 DEF ToEmbed, Loaded
  <1>11. UpsertDone' /\ NothingIndexed' /\ ExclusionFollowed'
    BY <1>9 DEF UpsertDone, NothingIndexed, Deleting, ExclusionFollowed
  <1> QED BY <1>1, <1>6, <1>9, <1>10, <1>11, GoOnFound DEF Reading

\* The worker moves on and leaves the database alone.
LEMMA MoveFound ==
    ASSUME IInv, FoundInv, wiped => wiped', worker.step \in Reading,
           NEW step \in Reading, worker' = [worker EXCEPT !.step = step],
           UNCHANGED <<document, version, job, session>>,
           step \in Embedding => ToEmbed, step # "loaded",
           step = "upserted" => Subject \in points',
           step \in Deleting => \A v \in Versions : version[v].status # "indexed",
           step = "excluded" => /\ Type(worker.job) = "embed"
                                /\ ~wiped' => ~Served(Subject),
           ~wiped' => \A v \in Versions : Served(v) /\ ~Worked(v) /\ v \in points => v \in points'
    PROVE  FoundInv'
  <1>1. worker \in Worker
    BY DEF IInv, RowsOK
  <1>2. worker'.step = step /\ worker'.job = worker.job
    BY <1>1 DEF Worker
  <1>3. Subject' = Subject
    BY <1>2 DEF Subject
  <1>4. Served(Subject)' <=> Served(Subject)
    BY <1>3 DEF Served
  <1>5. ToEmbed' => ToEmbed
    BY <1>2 DEF ToEmbed, Loaded
  <1>6. UpsertDone' /\ NothingIndexed' /\ ExclusionFollowed'
    BY <1>2, <1>3, <1>4 DEF UpsertDone, NothingIndexed, ExclusionFollowed
  <1> QED BY <1>2, <1>5, <1>6, GoOnFound DEF Reading

LEMMA EmbedExcludeFound ==
    ASSUME IInv, FoundInv, wiped' = (wiped \/ Wiping), EmbedExclude
    PROVE  FoundInv'
  <1>1. worker.step \in Reading /\ worker.job # Deletion /\ Type(worker.job) = "embed"
    BY LoadedStep DEF EmbedExclude, Loaded, Stages
  <1>2. Subject \in Versions /\ Worked(Subject)
    BY <1>1, SubjectRow, HeldJob
  <1>3. points' = points \ {Subject} /\ worker' = [worker EXCEPT !.step = "excluded"]
        /\ UNCHANGED <<document, version, job, session>>
    BY DEF EmbedExclude
  <1>4. ~wiped' => ~Served(Subject)
    BY <1>2 DEF Wiping, Served, IndexedVersions
  <1>5. \A v \in Versions : Served(v) /\ ~Worked(v) /\ v \in points => v \in points'
    BY <1>2, <1>3
  <1> QED BY <1>1, <1>3, <1>4, <1>5, MoveFound DEF Reading, Embedding, Deleting

LEMMA IndexClearFound ==
    ASSUME IInv, FoundInv, wiped => wiped', IndexClear
    PROVE  FoundInv'
  <1>1. worker.step \in Reading /\ worker.job # Deletion /\ ToEmbed
    BY WorkingStep DEF IndexClear, OneVersion, Embedding, ToEmbed
  <1>2. \A v \in Versions : Served(v) => Worked(v)
    BY <1>1, HeldJob DEF FoundInv, IndexerAlone
  <1> QED BY <1>1, <1>2, MoveFound DEF IndexClear, Reading, Deleting

LEMMA IndexUpsertFound ==
    ASSUME IInv, FoundInv, wiped => wiped', IndexUpsert
    PROVE  FoundInv'
  <1>1. worker.step \in Reading /\ worker.job # Deletion /\ ToEmbed
    BY WorkingStep DEF IndexUpsert, OneVersion, Embedding, ToEmbed
  <1> QED BY <1>1, MoveFound DEF IndexUpsert, Reading, Deleting

LEMMA RebuildClearFound ==
    ASSUME IInv, FoundInv, wiped' = (wiped \/ Wiping), RebuildClear
    PROVE  FoundInv'
  <1>1. worker.step \in Reading /\ worker.job # Deletion
    BY LoadedStep DEF RebuildClear, Stages
  <1>2. ~wiped' => points \subseteq {Subject}
    BY DEF Wiping
  <1>3. ~wiped' => \A v \in Versions : ~(Served(v) /\ ~Worked(v) /\ v \in points)
    BY <1>1, <1>2, HeldJob
  <1> QED BY <1>1, <1>3, MoveFound DEF RebuildClear, Reading, Embedding, Deleting

LEMMA DeleteMarkFound ==
    ASSUME IInv, FoundInv, wiped => wiped', DeleteMark
    PROVE  FoundInv'
  <1>1. /\ worker \in Worker /\ worker.step = "loaded" /\ worker.job \in Jobs
        /\ version \in [Versions -> Version]
        /\ UNCHANGED <<document, points, job, session>>
    BY DEF IInv, RowsOK, WorkerJobs, DeleteMark, Loaded
  <1>2. worker.job = Deletion
    BY <1>1, JobNames DEF DeleteMark, Loaded, Jobs, Stages, Type
  <1>3. PICK copies : copies = [v \in Versions |-> IF v \in ToDelete THEN "delete_pending"
                                                 ELSE worker.loaded[v]]
    OBVIOUS
  <1>4. worker' = [worker EXCEPT !.step = "marked", !.loaded = copies]
    BY <1>3 DEF DeleteMark
  <1>5. worker'.step = "marked" /\ worker'.job = worker.job
    BY <1>1, <1>4 DEF Worker
  <1>6. ASSUME NEW v \in Versions
        PROVE  version'[v].status # "indexed"
    <2>1. version[v] \in Version /\ version[v].status \in {worker.loaded[v], "received"}
      BY <1>1, <1>2 DEF IInv, Stores, CopiesFresh, Reading
    <2>2. CASE v \notin ToDelete
      BY <2>1, <2>2 DEF DeleteMark, ToDelete
    <2>3. CASE v \in ToDelete
      <3>1. PICK t : t = Written(v, "delete_pending") /\ t # "indexed"
        BY <2>1 DEF Written
      <3>2. PICK new : new = [version[v] EXCEPT !.status = t]
        OBVIOUS
      <3>3. new.status = t
        BY <2>1, <3>2 DEF Version
      <3>4. version'[v] = new
        BY <2>3, <3>1, <3>2 DEF DeleteMark
      <3> QED BY <3>1, <3>3, <3>4
    <2> QED BY <2>2, <2>3
  <1>7. ~ToEmbed' /\ worker'.step \notin Embedding
    BY <1>5 DEF ToEmbed, Loaded, Embedding
  <1>8. UpsertDone' /\ NothingIndexed' /\ ExclusionFollowed'
    BY <1>5, <1>6 DEF UpsertDone, NothingIndexed, ExclusionFollowed
  <1> QED BY <1>1, <1>5, <1>6, <1>7, <1>8, GoOnFound

LEMMA DeletePointsFound ==
    ASSUME IInv, FoundInv, wiped => wiped', DeletePoints
    PROVE  FoundInv'
  <1>1. worker.step \in Reading /\ \A v \in Versions : version[v].status # "indexed"
    BY DEF FoundInv, NothingIndexed, DeletePoints, Reading, Deleting
  <1>2. \A v \in Versions : ~Served(v)
    BY <1>1 DEF Served
  <1> QED BY <1>1, <1>2, MoveFound DEF DeletePoints, Reading, Embedding

-----------------------------------------------------------------------------
(***************************************************************************)
(* The stages.                                                             *)
(***************************************************************************)

\* The row a stage ends with.
LEMMA FinishedRow ==
    ASSUME IInv, worker.step \in Reading, worker.job # Deletion,
           NEW s \in Statuses \ {"indexed"}
    PROVE  /\ version[Subject] \in Version
           /\ Written(Subject, s) \in Statuses /\ Written(Subject, s) # "indexed"
  <1>1. Written(Subject, s) \in Statuses /\ Written(Subject, s) # "indexed"
    BY WrittenStatus
  <1> QED BY <1>1, SubjectRow

LEMMA ParseFound ==
    ASSUME IInv, FoundInv, wiped => wiped', ParseResume \/ ParseStart \/ ParseDone
    PROVE  FoundInv'
  <1> DEFINE v == version[Subject]
  <1>1. worker.step \in Reading /\ worker.job # Deletion
    BY LoadedStep, WorkingStep DEF ParseResume, ParseStart, ParseDone, OneVersion, Stages
  <1>2. /\ v \in Version
        /\ \A s \in {"chunked", "parsed"} :
             Written(Subject, s) \in Statuses /\ Written(Subject, s) # "indexed"
    BY <1>1, FinishedRow DEF Statuses
  <1>3. PICK c \in Statuses : c = Written(Subject, "chunked") /\ c # "indexed"
    BY <1>2
  <1>4. PICK p \in Statuses : p = Written(Subject, "parsed") /\ p # "indexed"
    BY <1>2
  <1>5. CASE ParseResume
    <2>1. CASE Finish([v EXCEPT !.status = Written(Subject, "chunked"), !.error = "none"],
                      "embed")
      <3>1. PICK r : r = [v EXCEPT !.status = c, !.error = "none"]
        OBVIOUS
      <3>2. r \in Version /\ r.status = c
        BY <1>2, <3>1 DEF Version
      <3>3. Finish(r, "embed")
        BY <1>3, <2>1, <3>1
      <3> QED BY <1>1, <1>3, <3>2, <3>3, FinishFound DEF Stages
    <2>2. CASE Finish([v EXCEPT !.status = Written(Subject, "parsed")], "chunk")
      <3>1. PICK r : r = [v EXCEPT !.status = p]
        OBVIOUS
      <3>2. r \in Version /\ r.status = p
        BY <1>2, <3>1 DEF Version
      <3>3. Finish(r, "chunk")
        BY <1>4, <2>2, <3>1
      <3> QED BY <1>1, <1>4, <3>2, <3>3, FinishFound DEF Stages
    <2> QED BY <1>5, <2>1, <2>2 DEF ParseResume
  <1>6. CASE ParseStart
    <2>1. CASE Advance("parsing", "parsing")
      BY <1>1, <2>1, AdvanceFound DEF Statuses, Embedding
    <2>2. CASE Fail("transition")
      BY <1>1, <2>2, FailFound DEF Faults
    <2> QED BY <1>6, <2>1, <2>2 DEF ParseStart
  <1>7. CASE ParseDone
    <2>1. PICK r : r = [v EXCEPT !.status = p, !.sections = TRUE]
      OBVIOUS
    <2>2. r \in Version /\ r.status = p
      BY <1>2, <2>1 DEF Version
    <2>3. Finish(r, "chunk")
      BY <1>4, <1>7, <2>1 DEF ParseDone
    <2> QED BY <1>1, <1>4, <2>2, <2>3, FinishFound DEF Stages
  <1> QED BY <1>5, <1>6, <1>7

LEMMA ChunkFound ==
    ASSUME IInv, FoundInv, wiped => wiped', ChunkStart \/ ChunkDone
    PROVE  FoundInv'
  <1> DEFINE v == version[Subject]
  <1>1. worker.step \in Reading /\ worker.job # Deletion
    BY LoadedStep, WorkingStep DEF ChunkStart, ChunkDone, OneVersion, Stages
  <1>2. CASE ChunkStart
    <2>1. CASE Advance("chunking", "chunking")
      BY <1>1, <2>1, AdvanceFound DEF Statuses, Embedding
    <2>2. CASE Fail("transition")
      BY <1>1, <2>2, FailFound DEF Faults
    <2> QED BY <1>2, <2>1, <2>2 DEF ChunkStart
  <1>3. CASE ChunkDone
    <2>1. PICK c \in Statuses : c = Written(Subject, "chunked") /\ c # "indexed"
      BY <1>1, FinishedRow DEF Statuses
    <2>2. PICK r : r = [v EXCEPT !.status = c, !.chunks = TRUE]
      OBVIOUS
    <2>3. r \in Version /\ r.status = c
      <3>1. v \in Version
        BY <1>1, SubjectRow
      <3> QED BY <2>2, <3>1 DEF Version
    <2>4. Finish(r, "embed")
      BY <1>3, <2>1, <2>2 DEF ChunkDone
    <2> QED BY <1>1, <2>1, <2>3, <2>4, FinishFound DEF Stages
  <1> QED BY <1>2, <1>3

LEMMA EmbedFound ==
    ASSUME IInv, FoundInv, wiped => wiped', EmbedStart \/ EmbedDone
    PROVE  FoundInv'
  <1>1. worker.step \in Reading /\ worker.job # Deletion /\ ToEmbed
    BY LoadedStep, WorkingStep
       DEF EmbedStart, EmbedDone, OneVersion, Embedding, Stages, ToEmbed
  <1>2. CASE Advance("embedding", "embedding")
    BY <1>1, <1>2, AdvanceFound DEF Statuses
  <1>3. CASE Advance("indexing", "indexing")
    BY <1>1, <1>3, AdvanceFound DEF Statuses
  <1>4. CASE \E error \in {"content", "transition"} : Fail(error)
    BY <1>1, <1>4, FailFound DEF Faults
  <1> QED BY <1>2, <1>3, <1>4 DEF EmbedStart, EmbedDone

LEMMA RebuildCommitFound ==
    ASSUME IInv, FoundInv, wiped => wiped', RebuildCommit
    PROVE  FoundInv'
  <1> DEFINE v == version[Subject]
  <1>1. worker.step \in Reading /\ worker.job # Deletion
    BY WorkingStep DEF RebuildCommit, OneVersion
  <1>2. PICK t \in Statuses : t = Written(Subject, "received") /\ t # "indexed"
    BY <1>1, FinishedRow DEF Statuses
  <1>3. PICK r : r = [v EXCEPT !.status = t, !.error = "none", !.sections = FALSE,
                               !.chunks = FALSE]
    OBVIOUS
  <1>4. r \in Version /\ r.status = t
    <2>1. v \in Version
      BY <1>1, SubjectRow
    <2> QED BY <1>3, <2>1 DEF Version
  <1>5. Finish(r, "parse")
    BY <1>2, <1>3 DEF RebuildCommit
  <1> QED BY <1>1, <1>2, <1>4, <1>5, FinishFound DEF Stages

LEMMA FailureFound ==
    ASSUME IInv, FoundInv, wiped => wiped', Failure
    PROVE  FoundInv'
  <1>1. worker.step \in Reading
    BY DEF Failure, Loaded, Reading
  <1>2. PICK error \in Faults : Fail(error)
    BY DEF Failure, Faults
  <1> QED BY <1>1, <1>2, FailFound

LEMMA FoundInit == Init => FoundInv
  <1> SUFFICES ASSUME Init PROVE FoundInv
    OBVIOUS
  <1>1. /\ worker.step = "down" /\ document.current = None
        /\ \A k \in Jobs : job[k].state = "none"
    BY UnloadedWorkers DEF Init, NewJob
  <1>2. \A v \in Versions : ~Served(v)
    BY <1>1 DEF Served
  <1>3. \A h \in Handlers : ~Joined(session[h])
    BY IdleSession DEF Init, Joined
  <1> QED BY <1>1, <1>2, <1>3
          DEF FoundInv, JobsNamed, Active, JobLocked, IndexerAlone, ToEmbed, Loaded, Embedding,
              UpsertDone, NothingIndexed, Deleting, ExclusionFollowed, IndexHolds, EmbedJobs,
              JoinedRebuilt

LEMMA FoundNext ==
    ASSUME IInv, FoundInv, Next, wiped' = (wiped \/ Wiping)
    PROVE  FoundInv'
  <1>0. wiped => wiped'
    OBVIOUS
  <1>1. ASSUME NEW h \in Handlers,
               \/ \E v \in Versions : UploadBegin(h, v)
               \/ \E v \in Versions \cup {None} : DeleteBegin(h, v)
               \/ RetryBegin(h) \/ ReindexBegin(h)
        PROVE  FoundInv'
    BY <1>0, <1>1, BeginFound
  <1>2. ASSUME NEW h \in Handlers, UploadAccept(h) PROVE FoundInv'
    BY <1>0, <1>2, UploadAcceptFound
  <1>3. ASSUME NEW h \in Handlers, UploadCommit(h) PROVE FoundInv'
    BY <1>0, <1>3, UploadCommitFound
  <1>4. ASSUME NEW h \in Handlers, EnqueueLook(h) PROVE FoundInv'
    BY <1>0, <1>4, EnqueueLookFound
  <1>5. ASSUME NEW h \in Handlers, EnqueueDocumentJob(h) PROVE FoundInv'
    BY <1>0, <1>5, EnqueueDocumentJobFound
  <1>6. ASSUME NEW h \in Handlers, DeleteDocument(h) \/ Rollback(h) PROVE FoundInv'
    BY <1>0, <1>6, DeleteDocumentFound, RollbackFound
  <1>7. CASE Start
    BY <1>0, <1>7, StartFound
  <1>8. ASSUME NEW k \in Jobs, Claim(k) PROVE FoundInv'
    BY <1>0, <1>8, ClaimFound
  <1>9. CASE Load
    BY <1>0, <1>9, LoadFound
  <1>10. ASSUME Stage PROVE FoundInv'
    BY <1>0, <1>10, ParseFound, ChunkFound, EmbedExcludeFound, EmbedFound, IndexClearFound,
       IndexUpsertFound, IndexCommitFound, RebuildClearFound, RebuildCommitFound, CloseFound,
       DeleteMarkFound, DeletePointsFound, DeleteCommitFound, FailureFound, FailCommitFound
    DEF Stage
  <1>11. CASE Crash
    BY <1>0, <1>11, CrashFound
  <1> QED
    BY <1>1, <1>2, <1>3, <1>4, <1>5, <1>6, <1>7, <1>8, <1>9, <1>10, <1>11 DEF Next, Work

-----------------------------------------------------------------------------
(***************************************************************************)
(* The search.                                                             *)
(***************************************************************************)

\* A version that was steady throughout is steady now, and it is among the hits
\* that are left or among the results, with copies that admit it.
SteadySoFar == UnderWay => during.steady \subseteq Steady

SteadyIsKept ==
    ~wiped =>
        /\ search.step \in {"retrieved", "document", "version"} =>
             during.steady \subseteq search.hits \cup search.results
        /\ search.step \in {"document", "version"} /\ search.hit \in during.steady =>
             ~search.document.deleted /\ search.document.current = search.hit
        /\ search.step = "version" /\ search.hit \in during.steady => search.status = "indexed"

FindInv == FoundInv /\ SteadySoFar /\ SteadyIsKept /\ SearchableIsFound

LEMMA SteadyIsServed ==
    ASSUME RowsOK, FoundInv, NEW v \in Steady
    PROVE  /\ v \in Versions /\ Served(v) /\ ~document.deleted /\ version[v].chunks
           /\ ~wiped => v \in points
  <1>1. v \in Versions /\ Served(v) /\ ~document.deleted /\ version[v].chunks /\ ~Busy(v)
    BY DEF Steady, Searchable, ActiveVersions, IndexedVersions, Served
  <1>2. ~Worked(v)
    BY <1>1 DEF Busy, Worked, StageOtherThan, FoundInv, JobsNamed
  <1> QED BY <1>1, <1>2 DEF FoundInv, IndexHolds

\* A step of the search changes nothing of the pipeline.
LEMMA SearchReads ==
    ASSUME FoundInv, UNCHANGED <<vars, wiped>>
    PROVE  FoundInv' /\ Steady' = Steady
  <1>1. UNCHANGED <<document, version, points, job, worker, session, wiped>>
    BY DEF vars
  <1>2. Steady' = Steady
    BY <1>1 DEF Steady, Searchable, ActiveVersions, IndexedVersions, Busy, Active
  <1>3. FoundInv'
    BY <1>1
       DEF FoundInv, JobsNamed, JobLocked, IndexerAlone, ToEmbed, Loaded, UpsertDone,
           NothingIndexed, ExclusionFollowed, IndexHolds, Served, Worked, StageOtherThan,
           Active, Subject, EmbedJobs, JoinedRebuilt, Joined, Rebuilt
  <1> QED BY <1>2, <1>3

LEMMA FindStep ==
    ASSUME IInv, SearchInv, FindInv, [SearchNext]_<<vars, searchVars>>
    PROVE  FindInv'
  <1>1. search \in Searches /\ RowsOK
    BY DEF SearchInv, SearchTypeOK, IInv
  <1>2. CASE Ask
    <2>1. PICK new : new = [NoSearch EXCEPT !.step = "embedding"]
      OBVIOUS
    <2>2. search' = new /\ new.step = "embedding"
      BY <1>2, <2>1 DEF Ask, NoSearch
    <2>3. UNCHANGED <<vars, wiped>> /\ during'.steady = Steady
      BY <1>2 DEF Ask
    <2>4. FoundInv' /\ Steady' = Steady
      BY <2>3, SearchReads DEF FindInv
    <2> QED BY <2>2, <2>3, <2>4 DEF FindInv, SteadySoFar, SteadyIsKept, SearchableIsFound
  <1>3. CASE Retrieve
    <2>1. PICK new : new = [search EXCEPT !.step = "retrieved", !.hits = points]
      OBVIOUS
    <2>2. search' = new /\ new.step = "retrieved" /\ new.hits = points
      BY <1>1, <1>3, <2>1 DEF Retrieve, Searches
    <2>3. UNCHANGED <<vars, wiped, during>> /\ UnderWay
      BY <1>3 DEF Retrieve, Unwatched, UnderWay
    <2>4. FoundInv' /\ Steady' = Steady
      BY <2>3, SearchReads DEF FindInv
    <2>5. ~wiped => during.steady \subseteq points
      BY <1>1, <2>3, SteadyIsServed DEF FindInv, SteadySoFar
    <2> QED BY <2>2, <2>3, <2>4, <2>5 DEF FindInv, SteadySoFar, SteadyIsKept, SearchableIsFound
  <1>4. ASSUME NEW v \in Versions, ReadDocument(v) PROVE FindInv'
    <2>1. PICK new : new = [search EXCEPT !.step = "document", !.hit = v,
                                          !.document = document]
      OBVIOUS
    <2>2. /\ search' = new /\ new.step = "document" /\ new.hit = v
          /\ new.document = document /\ new.hits = search.hits
          /\ new.results = search.results
      BY <1>1, <1>4, <2>1 DEF ReadDocument, Searches
    <2>3. UNCHANGED <<vars, wiped, during>> /\ UnderWay /\ search.step = "retrieved"
      BY <1>4 DEF ReadDocument, Unwatched, UnderWay
    <2>4. FoundInv' /\ Steady' = Steady
      BY <2>3, SearchReads DEF FindInv
    <2>5. v \in during.steady => ~document.deleted /\ document.current = v
      BY <1>1, <2>3, SteadyIsServed DEF FindInv, SteadySoFar, Served
    <2> QED BY <2>2, <2>3, <2>4, <2>5 DEF FindInv, SteadySoFar, SteadyIsKept, SearchableIsFound
  <1>5. CASE ReadVersion
    <2>1. PICK new : new = [search EXCEPT !.step = "version",
                                          !.status = version[search.hit].status]
      OBVIOUS
    <2>2. /\ search' = new /\ new.step = "version" /\ new.hit = search.hit
          /\ new.status = version[search.hit].status /\ new.document = search.document
          /\ new.hits = search.hits /\ new.results = search.results
      BY <1>1, <1>5, <2>1 DEF ReadVersion, Searches
    <2>3. UNCHANGED <<vars, wiped, during>> /\ UnderWay /\ search.step = "document"
      BY <1>5 DEF ReadVersion, Unwatched, UnderWay
    <2>4. FoundInv' /\ Steady' = Steady
      BY <2>3, SearchReads DEF FindInv
    <2>5. search.hit \in during.steady => version[search.hit].status = "indexed"
      BY <1>1, <2>3, SteadyIsServed DEF FindInv, SteadySoFar, Served
    <2> QED BY <2>2, <2>3, <2>4, <2>5 DEF FindInv, SteadySoFar, SteadyIsKept, SearchableIsFound
  <1>6. CASE ReadChunk
    <2>1. PICK found : found = IF Admitted /\ version[search.hit].chunks
                               THEN search.results \cup {search.hit} ELSE search.results
      OBVIOUS
    <2>2. PICK new : new = [search EXCEPT !.step = "retrieved", !.hits = @ \ {search.hit},
                               !.hit = None, !.document = NoSearch.document,
                               !.status = "absent", !.results = found]
      OBVIOUS
    <2>3. /\ search' = new /\ new.step = "retrieved"
          /\ new.hits = search.hits \ {search.hit} /\ new.results = found
      BY <1>1, <1>6, <2>1, <2>2 DEF ReadChunk, Searches
    <2>4. UNCHANGED <<vars, wiped, during>> /\ UnderWay /\ search.step = "version"
      BY <1>6 DEF ReadChunk, Unwatched, UnderWay
    <2>5. FoundInv' /\ Steady' = Steady
      BY <2>4, SearchReads DEF FindInv
    <2>6. ~wiped /\ search.hit \in during.steady => search.hit \in found
      <3>1. search.hit \in during.steady => version[search.hit].chunks
        BY <1>1, <2>4, SteadyIsServed DEF FindInv, SteadySoFar
      <3> QED BY <2>1, <2>4, <3>1 DEF FindInv, SteadyIsKept, Admitted
    <2>7. search.results \subseteq found
      BY <2>1
    <2>8. ~wiped => during.steady \subseteq (search.hits \ {search.hit}) \cup found
      BY <2>4, <2>6, <2>7 DEF FindInv, SteadyIsKept
    <2> QED BY <2>3, <2>4, <2>5, <2>8 DEF FindInv, SteadySoFar, SteadyIsKept, SearchableIsFound
  <1>7. CASE Answer
    <2>1. PICK new : new = [search EXCEPT !.step = "answered"]
      OBVIOUS
    <2>2. search' = new /\ new.step = "answered" /\ new.results = search.results
      BY <1>1, <1>7, <2>1 DEF Answer, Searches
    <2>3. /\ UNCHANGED <<vars, wiped, during>>
          /\ search.step = "retrieved" /\ search.hits = {}
      BY <1>7 DEF Answer, Unwatched
    <2>4. FoundInv'
      BY <2>3, SearchReads DEF FindInv
    <2> QED BY <2>2, <2>3, <2>4
            DEF FindInv, SteadySoFar, UnderWay, SteadyIsKept, SearchableIsFound
  <1>8. CASE End
    <2>1. search'.step = "idle" /\ UNCHANGED <<vars, wiped>>
      BY <1>8 DEF End, NoSearch
    <2>2. FoundInv'
      BY <2>1, SearchReads DEF FindInv
    <2> QED BY <2>1, <2>2 DEF FindInv, SteadySoFar, UnderWay, SteadyIsKept, SearchableIsFound
  <1>9. CASE Pipeline
    <2>1. Next /\ wiped' = (wiped \/ Wiping) /\ search' = search
      BY <1>9 DEF Pipeline
    <2>2. FoundInv'
      BY <2>1, FoundNext DEF FindInv
    <2>3. /\ search.step \in {"idle", "answered"} => during'.steady = during.steady
          /\ UnderWay => during'.steady = during.steady \cap Steady'
      BY <1>9 DEF Pipeline, UnderWay
    <2>4. SteadySoFar'
      BY <2>1, <2>3 DEF SteadySoFar, UnderWay
    <2>5. SteadyIsKept'
      BY <2>1, <2>3 DEF FindInv, SteadyIsKept, UnderWay
    <2>6. SearchableIsFound'
      BY <2>1, <2>3 DEF FindInv, SearchableIsFound
    <2> QED BY <2>2, <2>4, <2>5, <2>6 DEF FindInv
  <1>10. CASE UNCHANGED <<vars, searchVars>>
    <2>1. UNCHANGED <<vars, search, during, wiped>>
      BY <1>10 DEF searchVars
    <2>2. FoundInv' /\ Steady' = Steady
      BY <2>1, SearchReads DEF FindInv
    <2> QED BY <2>1, <2>2
            DEF FindInv, SteadySoFar, UnderWay, SteadyIsKept, SearchableIsFound
  <1> QED BY <1>2, <1>3, <1>4, <1>5, <1>6, <1>7, <1>8, <1>9, <1>10 DEF SearchNext

LEMMA FindInit == SearchInit => FindInv
  <1> SUFFICES ASSUME SearchInit PROVE FindInv
    OBVIOUS
  <1>1. search.step = "idle"
    BY DEF SearchInit, NoSearch
  <1> QED BY <1>1, FoundInit
          DEF SearchInit, FindInv, SteadySoFar, UnderWay, SteadyIsKept, SearchableIsFound

\* A version that the document pages call searchable throughout a search, with
\* no job at work on it, is among the results, whatever uploads, failures and
\* deaths of the worker came before: the stores agree on it although every stage
\* writes them one after the other.
THEOREM SearchableVersionsAreFound == SearchSpec => []SearchableIsFound
  <1>1. SearchSpec => []IInv
    BY SearchOverPipeline, Invariance, PTL
  <1>2. IInv /\ SearchInv /\ FindInv /\ [SearchNext]_<<vars, searchVars>> => FindInv'
    BY FindStep
  <1>3. FindInv => SearchableIsFound
    BY DEF FindInv
  <1> QED BY <1>1, <1>2, <1>3, FindInit, SearchInductive, PTL DEF SearchSpec

=============================================================================
