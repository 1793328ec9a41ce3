-------------------------- MODULE IngestionPipeline --------------------------
(***************************************************************************)
(* The ingestion of one document: uploads and deletions accepted by the    *)
(* API (app/services/document_ingestion_service.py and the document routes *)
(* of the tenant), the durable job queue (app/repositories/                *)
(* document_repository.py) and the worker that parses, chunks, embeds and  *)
(* indexes its versions (app/services/ingestion_worker.py).                *)
(*                                                                         *)
(* The database and the vector store are two stores: a stage commits to    *)
(* the one and writes to the other, and may die or fail in between.  The   *)
(* worker works on copies of the rows that it read when it loaded the job, *)
(* and its UPDATEs name only the columns it changed from those copies.     *)
(*                                                                         *)
(* One worker: a file lock keeps a second one from starting, so stale      *)
(* locks are recovered at startup only.  The partial unique indexes admit  *)
(* one active job per version and stage and one active deletion, so a job  *)
(* is named by these; a job that succeeded is forgotten, one that failed   *)
(* for good when the next one of its name is enqueued.  Jobs are claimed   *)
(* in any order: created_at is the start of the enqueuing transaction, and *)
(* transactions overlap.                                                   *)
(* Uploads and deletions hold the document's row lock until they commit;   *)
(* inserts that wait for this lock in their foreign-key checks do not wait *)
(* here, which only adds interleavings.  A request looks for an active job *)
(* without a lock, and inserts its own, or none, when it commits.  In the  *)
(* worker the two are one step: nobody else ends a job it has found, and   *)
(* an insert of another in between fails its commit as a lost call does.   *)
(* Replayed idempotency keys change nothing and are left out.              *)
(***************************************************************************)
EXTENDS Naturals, FiniteSets

CONSTANTS
    Versions,       \* contents of the document, by hash
    Handlers,       \* concurrent API requests
    None,           \* no version, no job
    MaxAttempts,    \* max_attempts of a job
    MaxRequests,    \* bound: API requests
    MaxCrashes      \* bound: deaths of the worker

ASSUME PipelineAssumption ==
    /\ None \notin Versions
    /\ MaxAttempts \in Nat \ {0}
    /\ MaxRequests \in Nat
    /\ MaxCrashes \in Nat

VARIABLES
    document,   \* the row in documents
    version,    \* document_versions, with their sections and chunks
    points,     \* the versions that have points in the vector store
    job,        \* ingestion_jobs
    worker,     \* the ingestion worker and its copies
    session,    \* what each API request is doing
    requests,   \* API requests so far
    crashes,    \* deaths of the worker so far
    stranded    \* auxiliary: versions left RECEIVED with no job to process them

vars == <<document, version, points, job, worker, session, requests, crashes, stranded>>

Stages == {"parse", "chunk", "embed", "reindex"}
Deletion == <<"delete", None>>
Jobs == (Stages \X Versions) \cup {Deletion}
VersionOf(k) == k[2]
Type(k) == k[1]

Statuses == {"absent", "received", "parsing", "parsed", "chunking", "chunked",
             "embedding", "indexing", "indexed", "failed", "delete_pending",
             "deleted_from_index"}

Document == [deleted : BOOLEAN, current : Versions \cup {None}]

\* error: error_code, told apart as tenants' retries do ("blocked": the
\* provider or the vector store was not available).
Version == [status : Statuses, error : {"none", "blocked", "other"},
            sections : BOOLEAN, chunks : BOOLEAN]

\* Exceptions of a stage: a transition that is refused, another ValueError, no
\* embedding provider, one or a vector store that does not answer, any other.
Faults == {"transition", "content", "unconfigured", "unavailable", "transient"}

Job == [state : {"none", "pending", "in_progress", "failed_retryable",
                 "failed_permanent"},
        attempts : Nat, version : Versions \cup {None},
        error : {"none", "restart", "transition", "other"}]

\* loaded: the statuses in the worker's copies; active: what it read of the
\* document (not deleted and, for a stage, this version is the current one);
\* fault, error: what a stage failed with, and error_code as _fail read it.
Worker == [step : {"down", "idle", "claimed", "loaded", "parsing", "chunking",
                   "embedding", "indexing", "cleared", "upserted", "excluded",
                   "rebuilding", "marked", "erased", "failing"},
           job : Jobs \cup {None}, active : BOOLEAN,
           loaded : [Versions -> Statuses],
           fault : {"none"} \cup Faults, error : {"none", "blocked", "other"}]

\* status, error: the copies of the version's columns; insert: no active job was
\* found, and one for the stage is to be inserted.
Session == [op : {"idle", "upload", "accept", "retry", "reindex", "enqueue", "delete"},
            version : Versions \cup {None}, status : Statuses,
            error : {"none", "blocked", "other"}, stage : Stages \cup {"delete"},
            insert : BOOLEAN]

NewJob == [state |-> "none", attempts |-> 0,
           version |-> None, error |-> "none"]

Unloaded == [v \in Versions |-> "absent"]
Down == [step |-> "down", job |-> None, active |-> FALSE, loaded |-> Unloaded,
         fault |-> "none", error |-> "none"]
IdleWorker == [Down EXCEPT !.step = "idle"]
Idle == [op |-> "idle", version |-> None, status |-> "absent", error |-> "none",
         stage |-> "parse", insert |-> FALSE]

Init ==
    /\ document = [deleted |-> FALSE, current |-> None]
    /\ version = [v \in Versions |-> [status |-> "absent", error |-> "none",
                                      sections |-> FALSE, chunks |-> FALSE]]
    /\ points = {}
    /\ job = [k \in Jobs |-> NewJob]
    /\ worker = Down
    /\ session = [h \in Handlers |-> Idle]
    /\ requests = 0
    /\ crashes = 0
    /\ stranded = {}

-----------------------------------------------------------------------------
(***************************************************************************)
(* The queue.                                                              *)
(***************************************************************************)

Active(k) == job[k].state \in {"pending", "in_progress", "failed_retryable"}

\* active_job_for_version
Busy(v) == \E k \in Jobs : Active(k) /\ job[k].version = v

Pending(v) == [NewJob EXCEPT !.state = "pending", !.version = v]

\* enqueue_job: an active job of the same name is returned instead.
Enqueue(jobs, k, v) == IF Active(k) THEN jobs ELSE [jobs EXCEPT ![k] = Pending(v)]

\* _succeed
Succeeded == [job EXCEPT ![worker.job] = NewJob]

-----------------------------------------------------------------------------
(***************************************************************************)
(* The API.                                                                *)
(***************************************************************************)

\* The lock that get_logical and get_document_for_update take.
Locked == \E h \in Handlers : session[h].op \in {"upload", "accept", "delete"}

Begin(h, s) ==
    /\ session[h].op = "idle"
    /\ requests < MaxRequests
    /\ requests' = requests + 1
    /\ session' = [session EXCEPT ![h] = s]
    /\ UNCHANGED <<document, version, points, job, worker, crashes, stranded>>

\* The job that a request enqueues.
Requested(s) == IF s.stage = "delete" THEN Deletion ELSE <<s.stage, s.version>>

\* The queue once the request s has committed.
Inserted(s) == IF s.insert THEN [job EXCEPT ![Requested(s)] = Pending(s.version)] ELSE job

\* The partial unique index refuses the insert: another request was faster.
Refused(s) == s.insert /\ Active(Requested(s))

\* accept, upsert: the document is locked, the version with this content is
\* read, and the file is received.
UploadBegin(h, v) ==
    /\ ~Locked
    /\ Begin(h, [Idle EXCEPT !.op = "upload", !.version = v,
                             !.status = version[v].status, !.error = version[v].error])

\* requires_reindex, decided on the copy read before the file was received; the
\* document is locked.  A new version is to be parsed.
RequiresReindex(s) == document.current # s.version \/ s.status # "indexed"

\* accept: the look for an active job, if the version needs one.
UploadAccept(h) ==
    LET s == session[h]
        stage == IF s.status = "absent" THEN "parse" ELSE "reindex"
    IN  /\ s.op = "upload"
        /\ session' = [session EXCEPT
              ![h].op = "accept", ![h].stage = stage,
              ![h].insert = RequiresReindex(s) /\ ~Active(<<stage, s.version>>)]
        /\ UNCHANGED <<document, version, points, job, worker, requests, crashes, stranded>>

\* The job that was found has ended since, and none is inserted.
Lost(s) == RequiresReindex(s) /\ ~s.insert /\ ~Active(Requested(s))

\* accept: the commit.
UploadCommit(h) ==
    LET s == session[h]
        v == s.version
    IN  /\ s.op = "accept" /\ ~Refused(s)
        /\ document' = [deleted |-> FALSE, current |-> v]
        /\ version' = IF ~RequiresReindex(s) THEN version
                      ELSE [version EXCEPT
                              ![v].status = IF s.status = "received" THEN @ ELSE "received",
                              ![v].error = IF s.error = "none" THEN @ ELSE "none"]
        /\ job' = Inserted(s)
        /\ stranded' = IF Lost(s) THEN stranded \cup {v}
                       ELSE IF s.insert THEN stranded \ {v} ELSE stranded
        /\ session' = [session EXCEPT ![h] = Idle]
        /\ UNCHANGED <<points, worker, requests, crashes>>

\* The file is refused or cannot be stored, or the commit fails.
Rollback(h) ==
    /\ session[h].op # "idle"
    /\ session' = [session EXCEPT ![h] = Idle]
    /\ UNCHANGED <<document, version, points, job, worker, requests, crashes, stranded>>

\* _delete_eligibility
DeleteEligible == ~document.deleted /\ ~Active(Deletion)

\* _delete of a connector (v is None), and delete_document of the tenant, which
\* names the current version in its job: the document is locked, and the look
\* for an active deletion.
DeleteBegin(h, v) ==
    /\ ~Locked
    /\ document.current # None /\ ~document.deleted
    /\ \/ v = None
       \/ v = document.current /\ DeleteEligible
    /\ Begin(h, [Idle EXCEPT !.op = "delete", !.version = v, !.stage = "delete",
                             !.insert = ~Active(Deletion)])

\* The two, to their commits.
DeleteDocument(h) ==
    /\ session[h].op = "delete" /\ ~Refused(session[h])
    /\ document' = [document EXCEPT !.deleted = TRUE]
    /\ job' = Inserted(session[h])
    /\ session' = [session EXCEPT ![h] = Idle]
    /\ UNCHANGED <<version, points, worker, requests, crashes, stranded>>

\* retry_document: the checks.
RetryBegin(h) ==
    LET v == document.current
        blocked == version[v].status = "chunked" /\ version[v].error = "blocked"
    IN  /\ v # None
        /\ blocked \/ version[v].status = "failed"
        /\ Begin(h, [Idle EXCEPT !.op = "retry", !.version = v, !.error = version[v].error,
                       !.stage = IF blocked \/ version[v].chunks THEN "embed" ELSE "parse"])

\* reindex_document: the checks.
ReindexBegin(h) ==
    /\ document.current # None /\ ~document.deleted
    /\ Begin(h, [Idle EXCEPT !.op = "reindex", !.version = document.current,
                             !.stage = "reindex"])

\* _enqueue_document_job: the looks for an active job of the version.
EnqueueLook(h) ==
    /\ session[h].op \in {"retry", "reindex"}
    /\ session' = [session EXCEPT ![h].op = "enqueue",
                                  ![h].insert = ~Busy(session[h].version)]
    /\ UNCHANGED <<document, version, points, job, worker, requests, crashes, stranded>>

\* _enqueue_document_job: the commit.
EnqueueDocumentJob(h) ==
    LET s == session[h]
    IN  /\ s.op = "enqueue" /\ ~Refused(s)
        /\ version' = IF s.stage = "embed" /\ s.error # "none"
                      THEN [version EXCEPT ![s.version].error = "none"] ELSE version
        /\ job' = Inserted(s)
        /\ stranded' = IF s.insert THEN stranded \ {s.version} ELSE stranded
        /\ session' = [session EXCEPT ![h] = Idle]
        /\ UNCHANGED <<document, points, worker, requests, crashes>>

-----------------------------------------------------------------------------
(***************************************************************************)
(* The worker: its queue.                                                  *)
(***************************************************************************)

\* recover_orphaned_jobs_after_lock_handoff
Start ==
    /\ worker.step = "down"
    /\ job' = [k \in Jobs |->
                 IF job[k].state = "in_progress"
                 THEN [job[k] EXCEPT !.state = "failed_retryable",
                                     !.error = "restart"]
                 ELSE job[k]]
    /\ worker' = IdleWorker
    /\ UNCHANGED <<document, version, points, session, requests, crashes, stranded>>

\* claim_job, once next_retry_at has passed, which may be at any time.
Claim(k) ==
    /\ worker.step = "idle"
    /\ job[k].state \in {"pending", "failed_retryable"}
    /\ job' = [job EXCEPT ![k].state = "in_progress", ![k].attempts = @ + 1]
    /\ worker' = [IdleWorker EXCEPT !.step = "claimed", !.job = k]
    /\ UNCHANGED <<document, version, points, session, requests, crashes, stranded>>

\* _records, or the rows of _delete.
Load ==
    LET k == worker.job
    IN  /\ worker.step = "claimed"
        /\ worker' = [worker EXCEPT
              !.step = "loaded",
              !.active = ~document.deleted
                           /\ (k = Deletion \/ document.current = VersionOf(k)),
              !.loaded = [v \in Versions |->
                            IF k = Deletion \/ v = VersionOf(k)
                            THEN version[v].status ELSE "absent"]]
        /\ UNCHANGED <<document, version, points, job, session, requests, crashes, stranded>>

Loaded(type) == worker.step = "loaded" /\ Type(worker.job) = type

\* The version a stage works on.
Subject == VersionOf(worker.job)

\* A status as an UPDATE leaves it: written if it differs from the copy.
Written(v, new) == IF worker.loaded[v] = new THEN version[v].status ELSE new

\* The status table, for the transitions that a stage starts with; the later
\* ones follow a status the worker has just set.
Sources == [parsing |-> {"parsing", "received", "parsed", "chunked", "indexed",
                         "failed", "deleted_from_index"},
            chunking |-> {"chunking", "parsed"},
            embedding |-> {"embedding", "chunked", "indexed", "failed"}]

MayBecome(status) == worker.loaded[Subject] \in Sources[status]

\* No attempt is left.
Exhausted(k) == job[k].attempts >= MaxAttempts

\* _fail: everything uncommitted is rolled back and the rows are read again.
Fail(error) ==
    LET k == worker.job
    IN  /\ worker' = [IdleWorker EXCEPT
              !.step = "failing", !.job = k, !.fault = error,
              !.error = IF k = Deletion THEN "none" ELSE version[Subject].error,
              !.loaded = IF k = Deletion THEN @
                         ELSE [@ EXCEPT ![Subject] = version[Subject].status]]
        /\ UNCHANGED <<document, version, points, job, session, requests, crashes, stranded>>

\* What _fail makes of the job, and of its version.
Permanent == worker.fault \in {"transition", "content", "unconfigured"} \/ Exhausted(worker.job)

Failed ==
    LET code == IF worker.fault = "transition" THEN "transition" ELSE "other"
    IN  IF Permanent
        THEN [NewJob EXCEPT !.state = "failed_permanent", !.error = code]
        ELSE [job[worker.job] EXCEPT !.state = "failed_retryable", !.error = code]

Marks == IF worker.fault \in {"unavailable", "unconfigured"}
         THEN [status |-> "chunked", error |-> "blocked"]
         ELSE [status |-> "failed", error |-> "other"]

\* Mutant: the job keeps its lock.
FailLocked ==
    /\ worker.step = "failing"
    /\ worker' = IdleWorker
    /\ UNCHANGED <<document, version, points, job, session, requests, crashes, stranded>>

\* _fail: the commit.  error_code is written unless the copy has the same one;
\* two codes of one kind may differ.
FailCommit ==
    /\ worker.step = "failing"
    /\ job' = [job EXCEPT ![worker.job] = Failed]
    /\ \/ worker.job = Deletion /\ UNCHANGED <<version, stranded>>
       \/ /\ worker.job # Deletion
          /\ \E error \in {Marks.error, version[Subject].error} :
                /\ error # Marks.error => worker.error = Marks.error
                /\ version' = [version EXCEPT
                      ![Subject].status = Written(Subject, Marks.status),
                      ![Subject].error = error]
          /\ stranded' = IF /\ Permanent /\ Type(worker.job) = "reindex"
                            /\ Written(Subject, Marks.status) = "received"
                         THEN stranded \cup {Subject} ELSE stranded
    /\ worker' = IdleWorker
    /\ UNCHANGED <<document, points, session, requests, crashes>>

\* A step of the worker that commits the status s, and goes on.
Advance(s, step) ==
    /\ version' = [version EXCEPT ![Subject].status = Written(Subject, s)]
    /\ worker' = [worker EXCEPT !.step = step, !.loaded[Subject] = s]
    /\ UNCHANGED <<document, points, job, session, requests, crashes, stranded>>

\* The end of a stage: the version becomes v and the next stage is enqueued.
Finish(v, next) ==
    /\ version' = [version EXCEPT ![Subject] = v]
    /\ job' = Enqueue(Succeeded, <<next, Subject>>, Subject)
    /\ worker' = IdleWorker
    /\ UNCHANGED <<document, points, session, requests, crashes, stranded>>

-----------------------------------------------------------------------------
(***************************************************************************)
(* The worker: its stages.                                                 *)
(***************************************************************************)

\* _parse: what an earlier attempt left is used again.
ParseResume ==
    LET v == version[Subject]
    IN  /\ Loaded("parse")
        /\ \/ /\ v.chunks
              /\ Finish([v EXCEPT !.status = Written(Subject, "chunked"),
                                  !.error = "none"], "embed")
           \/ /\ ~v.chunks /\ v.sections
              /\ Finish([v EXCEPT !.status = Written(Subject, "parsed")], "chunk")

ParseStart ==
    /\ Loaded("parse")
    /\ ~version[Subject].chunks /\ ~version[Subject].sections
    /\ IF MayBecome("parsing") THEN Advance("parsing", "parsing") ELSE Fail("transition")

ParseDone ==
    /\ worker.step = "parsing"
    /\ Finish([version[Subject] EXCEPT !.status = Written(Subject, "parsed"),
                                       !.sections = TRUE], "chunk")

\* _chunk
ChunkStart ==
    /\ Loaded("chunk")
    /\ IF MayBecome("chunking") THEN Advance("chunking", "chunking") ELSE Fail("transition")

ChunkDone ==
    /\ worker.step = "chunking" /\ version[Subject].sections
    /\ Finish([version[Subject] EXCEPT !.status = Written(Subject, "chunked"),
                                       !.chunks = TRUE], "embed")

\* Mutant: the points of the document are removed.
EmbedExcludeDocument ==
    /\ Loaded("embed") /\ ~worker.active
    /\ points' = {}
    /\ worker' = [worker EXCEPT !.step = "excluded"]
    /\ UNCHANGED <<document, version, job, session, requests, crashes, stranded>>

\* _embed_and_index of a version that is not to be searched.
EmbedExclude ==
    /\ Loaded("embed") /\ ~worker.active
    /\ points' = points \ {Subject}
    /\ worker' = [worker EXCEPT !.step = "excluded"]
    /\ UNCHANGED <<document, version, job, session, requests, crashes, stranded>>

EmbedStart ==
    /\ Loaded("embed") /\ worker.active
    /\ IF ~version[Subject].chunks THEN Fail("content")
       ELSE IF MayBecome("embedding") THEN Advance("embedding", "embedding")
       ELSE Fail("transition")

\* The vectors have been computed.
EmbedDone ==
    /\ worker.step = "embedding"
    /\ Advance("indexing", "indexing")

\* Mutant: only the version's own points are removed.
IndexClearVersion ==
    /\ worker.step = "indexing"
    /\ points' = points \ {Subject}
    /\ worker' = [worker EXCEPT !.step = "cleared"]
    /\ UNCHANGED <<document, version, job, session, requests, crashes, stranded>>

\* vectors.delete_document, then vectors.upsert
IndexClear ==
    /\ worker.step = "indexing"
    /\ points' = {}
    /\ worker' = [worker EXCEPT !.step = "cleared"]
    /\ UNCHANGED <<document, version, job, session, requests, crashes, stranded>>

IndexUpsert ==
    /\ worker.step = "cleared"
    /\ points' = points \cup {Subject}
    /\ worker' = [worker EXCEPT !.step = "upserted"]
    /\ UNCHANGED <<document, version, job, session, requests, crashes, stranded>>

IndexCommit ==
    /\ worker.step = "upserted"
    /\ version' = [version EXCEPT ![Subject].status = Written(Subject, "indexed"),
                                  ![Subject].error = "none"]
    /\ job' = Succeeded
    /\ worker' = IdleWorker
    /\ UNCHANGED <<document, points, session, requests, crashes, stranded>>

\* Mutant: the points are left to the next indexing.
RebuildWithoutClear ==
    /\ Loaded("reindex")
    /\ worker' = [worker EXCEPT !.step = "rebuilding"]
    /\ UNCHANGED <<document, version, points, job, session, requests, crashes, stranded>>

\* _reindex
RebuildClear ==
    /\ Loaded("reindex")
    /\ points' = {}
    /\ worker' = [worker EXCEPT !.step = "rebuilding"]
    /\ UNCHANGED <<document, version, job, session, requests, crashes, stranded>>

\* Mutant: no stage follows.
RebuildEnqueuesNothing ==
    /\ worker.step = "rebuilding"
    /\ version' = [version EXCEPT ![Subject].status = Written(Subject, "received"),
                                  ![Subject].sections = FALSE, ![Subject].chunks = FALSE]
    /\ job' = Succeeded
    /\ worker' = IdleWorker
    /\ UNCHANGED <<document, points, session, requests, crashes, stranded>>

RebuildCommit ==
    /\ worker.step = "rebuilding"
    /\ Finish([version[Subject] EXCEPT !.status = Written(Subject, "received"),
                                       !.error = "none", !.sections = FALSE,
                                       !.chunks = FALSE], "parse")

\* End of a job that changes no version.
Close ==
    /\ \/ worker.step = "excluded"
       \/ Loaded("delete") /\ worker.active   \* a superseded deletion is skipped
    /\ job' = Succeeded
    /\ worker' = IdleWorker
    /\ UNCHANGED <<document, version, points, session, requests, crashes, stranded>>

\* The versions that _delete found in the index.
ToDelete == {v \in Versions : worker.loaded[v] \notin {"absent", "deleted_from_index"}}

\* _delete
DeleteMark ==
    /\ Loaded("delete") /\ ~worker.active
    /\ version' = [v \in Versions |->
                     IF v \in ToDelete
                     THEN [version[v] EXCEPT !.status = Written(v, "delete_pending")]
                     ELSE version[v]]
    /\ worker' = [worker EXCEPT
          !.step = "marked",
          !.loaded = [v \in Versions |->
                        IF v \in ToDelete THEN "delete_pending" ELSE @[v]]]
    /\ UNCHANGED <<document, points, job, session, requests, crashes, stranded>>

DeletePoints ==
    /\ worker.step = "marked"
    /\ points' = {}
    /\ worker' = [worker EXCEPT !.step = "erased"]
    /\ UNCHANGED <<document, version, job, session, requests, crashes, stranded>>

DeleteCommit ==
    /\ worker.step = "erased"
    /\ version' = [v \in Versions |->
                     [version[v] EXCEPT
                        !.chunks = FALSE,
                        !.status = IF v \in ToDelete THEN "deleted_from_index" ELSE @]]
    /\ job' = Succeeded
    /\ worker' = IdleWorker
    /\ UNCHANGED <<document, points, session, requests, crashes, stranded>>

\* What may go wrong at each step.  A call to the vector store may time out
\* before or after it took effect.
Failure ==
    \/ worker.step \in {"parsing", "chunking"} /\ (Fail("content") \/ Fail("transient"))
    \/ /\ worker.step = "embedding"
       /\ \E error \in {"content", "transient", "unavailable", "unconfigured"} : Fail(error)
    \/ worker.step \in {"indexing", "cleared", "upserted"} /\ Fail("unavailable")
    \/ /\ \/ Loaded("parse") /\ (version[Subject].chunks \/ version[Subject].sections)
          \/ Loaded("embed") /\ ~worker.active
          \/ Loaded("reindex")
          \/ worker.step \in {"excluded", "rebuilding", "marked", "erased"}
       /\ Fail("transient")

\* The worker's process dies.
Crash ==
    /\ worker.step # "down"
    /\ crashes < MaxCrashes
    /\ crashes' = crashes + 1
    /\ worker' = Down
    /\ UNCHANGED <<document, version, points, job, session, requests, stranded>>

Stage ==
    \/ ParseResume \/ ParseStart \/ ParseDone
    \/ ChunkStart \/ ChunkDone
    \/ EmbedExclude \/ EmbedStart \/ EmbedDone
    \/ IndexClear \/ IndexUpsert \/ IndexCommit
    \/ RebuildClear \/ RebuildCommit
    \/ Close \/ DeleteMark \/ DeletePoints \/ DeleteCommit
    \/ Failure \/ FailCommit

Work == Start \/ (\E k \in Jobs : Claim(k)) \/ Load \/ Stage

Next ==
    \/ \E h \in Handlers :
         \/ \E v \in Versions : UploadBegin(h, v)
         \/ UploadAccept(h) \/ UploadCommit(h)
         \/ \E v \in Versions \cup {None} : DeleteBegin(h, v)
         \/ DeleteDocument(h)
         \/ RetryBegin(h) \/ ReindexBegin(h)
         \/ EnqueueLook(h) \/ EnqueueDocumentJob(h)
         \/ Rollback(h)
    \/ Work
    \/ Crash

Spec == Init /\ [][Next]_vars

(***************************************************************************)
(* The worker is started again when it has died, and works on.  Nothing is *)
(* assumed of the providers: every call may fail.                          *)
(***************************************************************************)
Fairness == WF_vars(Work)

FairSpec == Spec /\ Fairness

-----------------------------------------------------------------------------
(***************************************************************************)
(* Properties.                                                             *)
(***************************************************************************)

\* Type invariant of the two stores, the queue and the actors.
TypeOK ==
    /\ document \in Document
    /\ version \in [Versions -> Version]
    /\ points \subseteq Versions
    /\ job \in [Jobs -> Job]
    /\ worker \in Worker
    /\ session \in [Handlers -> Session]
    /\ requests \in Nat
    /\ crashes \in Nat
    /\ stranded \subseteq Versions

\* A version that the document list calls indexed has its chunks, whatever
\* uploads, rebuilds, deletions and crashes overlapped.
IndexedHasChunks ==
    \A v \in Versions : version[v].status = "indexed" => version[v].chunks

\* The vector store never holds a point whose chunk is gone from PostgreSQL,
\* although no transaction spans the two.
NoDanglingPoints == \A v \in points : version[v].chunks

\* ADR 0009: "the new current version replaces old active points".  Two
\* versions of the document are never in the vector store together.
OneVersionSearchable == \A u, v \in points : u = v

\* Only a death of the worker grants an attempt beyond max_attempts.
AttemptsBounded == \A k \in Jobs : job[k].attempts <= MaxAttempts + crashes

\* ADR 0009: a job that was accepted is finished one way or the other, across
\* restarts and although every provider may fail for ever.
JobsSettle == \A k \in Jobs : Active(k) ~> ~Active(k)

InTransit == {"received", "parsing", "parsed", "chunking", "embedding", "indexing"}

\* The current version of a document is not shown as being processed for ever,
\* unless an upload counted on a rebuild that ended while it was committing.
ProcessingEnds ==
    \A v \in Versions :
        document.current = v /\ ~document.deleted /\ version[v].status \in InTransit
            ~> \/ document.current # v \/ document.deleted
               \/ version[v].status \notin InTransit \/ v \in stranded

\* ADR 0009: "Restarted workers resume PostgreSQL jobs": a job recovered from
\* a dead worker is not thrown away for the status that worker left.
RestartedJobsResume ==
    [][\A k \in Jobs \ {Deletion} :
           /\ job[k].error = "restart"
           /\ version[VersionOf(k)].status \in {"parsing", "chunking", "embedding", "indexing"}
           => job'[k].error # "transition"]_vars

=============================================================================
