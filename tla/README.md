# PEKA verification project

TLA+ models of the PEKA SaaS backend, the TLC runs that check them and the
TLAPS proofs about them. Paths below are relative to `backend/app/` unless they
start with `docs/`, `frontend/` or `backend/`.

## The system

PEKA is a multi-tenant SaaS control plane (FastAPI, SQLAlchemy, PostgreSQL).
Customers run *connectors* that register, send heartbeats and poll for work;
users chat with an assistant whose answers come from tools the connectors run,
or from documents that were ingested into a vector store. Tenants have users
with local passwords or single sign-on; the platform has administrators of its
own who create, suspend and delete tenants.

Almost nothing but the database connects the requests. Handlers run concurrently
(threads, several processes), each in a session of its own at READ COMMITTED;
most of them read a row, decide and later write it without a lock. Sessions are
created with `autoflush=False, expire_on_commit=False` (`db/session.py`), so an
object read once keeps its values until it is written, and an UPDATE names only
the columns whose value changed from the one loaded. That is the source of
almost every hazard here, and the models keep it: a handler that reads, decides
and then writes is two or more actions; only a statement that holds the row lock
from its SELECT to its COMMIT is one.

### Inventory

| Part | State | Operations | What makes it hard | What makes it correct |
|---|---|---|---|---|
| Operational tool RPC (`services/operational_tool_service.py`, `connector_knowledge_service.py`, the polling loops) | `operational_tool_requests` | create, claim (with a sweep of overdue rows), submit, expire, clear the payload, two polling consumers | claims time out and are retried; late results; two sweepers write rows they read earlier; a consumer is cancelled or its process dies | the last claim answers; expiry only after the deadline; settled is final; knowledge payloads are erased; waiting ends |
| Connector registration (`services/connector_service.py`) | registration tokens, connectors | issue, revoke, register, retire, two expiry sweeps | only `register` locks the token; the limit is counted, not constrained; the unique index decides at commit | a token makes one connector; an appliance is active once; revocation wins; expiry is recorded |
| Connector status (`connector_status_service.py`, `connector_service.py`) | one row per connector | heartbeat, failed authentication, recalculation, retirement, maintenance loop | no operation locks the row: overlapping ones mix their columns | retirement is final and shows; failures are never invented; silence is noticed |
| AI conversations (`ai_conversation_service.py`, its repository, `api/routes/tenant/ai_answer.py`, `ai_conversations.py`) | conversations, messages | create, archive, restore, delete, read the context, begin (with `fail_stale`), complete, fail, cancel, list | a generation outlives the staleness limit; two questions at once; the stream breaks; the conversation is deleted between its lookup and the insert | one answer streams; what is told is stored; settled is final; streaming ends; a message has a conversation; deleted is final |
| Document ingestion (`document_ingestion_service.py`, `ingestion_worker.py`, `document_repository.py`, `api/routes/tenant/documents.py`) | documents, versions, jobs, chunks, vector points | upload, delete, retry, reindex, claim, parse, chunk, embed, recover | a crash between stages; a stage that works on copies read earlier; the vector store is outside the transaction | jobs settle; INDEXED means chunks; points have chunks; one version is searchable |
| Knowledge search and vector store (`knowledge_service.py`, `vector_store.py`) | none of its own | embed the query, search, check each hit | points, document, version and chunk are read one after the other while the pipeline runs | what is shown was current, indexed and not deleted; what is called searchable is found |
| Answer generation (`ai_answer_service.py`, `prompt_builder.py`, `llm_provider.py`) | one request | retrieve, budget the prompt, stream or post, filter reasoning, validate citations, retry, tell | tags cut by chunks; streams cut short; retries inside retries; cancellation | citations refer to what was supplied; reasoning never shows; events in order; bounded posts |
| Passwords, invitations, activation, administrators of a tenant (`tenant_password_reset_service.py`, `tenant_account_activation_service.py`, `tenant_admin_*`, `tenant_local_authentication_service.py`, `tenant_user_management_service.py`) | users, invitations, reset tokens | log in, request and use a link, invite, activate, create, change role, activity or password | only reset tokens are locked; the lockout count is a read-modify-write; the last-administrator rule is counted | a link works once; a superseded link does not; nobody is locked out unearned; somebody can administer |
| Platform administrators (`platform_user_service.py`, `platform_authentication_service.py`, `platform_admin_*`, `cli`) | administrators, invitations | log in, create, invite, use a link, role, activity, recover | no lock at all; a recovery waits for its operator between read and write | an administrator remains; links work once; a recovery unlocks |
| Tenants and registry (`tenant_service.py`, `tenant_registry_manager.py`, `core/tenant_registry.py`) | tenants, the registry in memory | create, update, suspend, delete, refresh, publish, load | commit and publication are separate steps; the process may end between them | the registry resolves what the table holds; only suspended tenants go |
| Single sign-on (`tenant_sso_service.py`, `tenant_oidc_auth_session_service.py`, `oidc_*`) | configuration, one-time login states, bindings of accounts | configure, test, begin, validate, consume, find or bind or create the account | steps around network calls; lazy writers; two claims that may identify a person | a state completes one login; a person has one account; what is stored is what was saved |
| Rate limiting (`core/rate_limit.py`) | a window per key, in memory | check | the clock is read before the lock | no window admits more than the limit |
| Assistant intents, parsing and chunking | none | text processing | - | chunks cover the text |
| Request plumbing, CLI and scripts, migrations, user interface | none that the others rely on | - | - | - |

How they interact: chat (AI conversations) files operational requests and
polls them, or asks the answer service, which searches what the pipeline has
indexed; a connector must be registered, not retired and reachable (status) to
be chosen; retirement ends its claims; suspension of a tenant makes registration
refuse and its requests unresolved; uploads and the document routes enqueue
ingestion jobs that one worker runs; password logins and single sign-on share
the table of users. All of it goes through rows; what is kept in memory is the
tenant registry, the rate limiter's windows and a hint to the ingestion worker
that saves it a poll.

`PROJECT.json` lists every part with its status, and every hazard at its line
with the properties that cover it.

## The modules

A component `C` has `C.tla` (state, actions, properties and, before the
definitions they change, the mutated forms used to show that each property can
fail), `MCC.tla` with its `.cfg` files (the symmetry and the data for TLC), and
`CProofs.tla` where something is proved of it. Two proof modules serve components
that go together: `ConversationProofs` is about `ConversationGeneration`,
`ConversationLifecycle` and `AnswerGeneration`, `DocumentProofs` about
`IngestionPipeline` and `KnowledgeSearch`; the theorems about `OneTimeCredential` stand in
`ConnectorRegistrationProofs`. Modules that compose others EXTEND them and share
their instance:

| Module | Uses |
|---|---|
| `ConversationLifecycle` | the messages of `ConversationGeneration`, and the conversations' rows |
| `KnowledgeSearch` | the stores and the worker of `IngestionPipeline` |
| `TenantLifecycle` | the administrators of `PlatformAdministrators`, who make its requests (`MCPlatform`) |
| `AnswerGeneration` | the filter of `ReasoningFilter` |
| `TenantAccounts`, `PlatformAdministrators`, `SingleSignOn` | `UnitOfWork`: `Flushed(row, copy, new)` is the row after an UPDATE of the columns that differ from the copy |
| `ConnectorRegistration`, `TenantAccounts` | `OneTimeCredential`, the abstract specification their tokens implement |

### OperationalTools

`row` is the table, `consumer[r]` the chat handler that filed `r`, `session[s]`
one request of the connector API, `retired` the retired connectors. `CreateBegin`
and `CreateCommit` are `create` before and after its commit; `PollRead`,
`PollAgain`, `PollExpire` and `Finish` are the consumer loops, which look at a
row they read at the last poll; `ClaimBegin`, `ClaimNothing`, `ClaimRow` and
`ExpireOld` are `claim`, whose sweep writes rows read before the candidate was
locked; `SubmitBegin`, `SubmitAccept`, `SubmitRejectTooLate` and `SubmitReject`
are `submit`. `Cancel` closes the chat stream, `Crash` ends the API process with
all its handlers, `Retire` retires a connector. `answered[r]` is history: the
claim whose result was accepted.

### ConnectorRegistration

`token` and `connectors` are the two tables, `session` the handlers and the
maintenance loop. `RegisterBegin`, `RegisterRefuse`, `RegisterApprove`,
`RegisterCommit` and `RegisterRollback` are `register`: approved means the token
row is locked. `RevokeRead` and `RevokeWrite`, `SweepRead` and `SweepWrite` are
the writers that read without a lock and wait for it when they write.

### ConnectorStatus

`row` is one connector's row; `session[s].loaded` is the copy an operation
works on. `Update` writes the columns an operation changed and keeps the others
as stored, which is what SQLAlchemy's UPDATE does. `recorded` counts the
authentication failures on the audit stream.

### ConversationGeneration and ConversationLifecycle

`row` is the message table, `request[m]` the request that inserts and generates
message `m`: its step, the rows it is about to fail, and whether its copy of the
message expired. `Begin`, `Refuse`, `Check`, `Insert`, `Conflict` are
`begin_message`; `Complete`, `TerminateRead`, `TerminateWrite` settle the
message; `Tell` sends the terminal event; `List` is the owner's list with its
`fail_stale`; `Die` is the end of the process or of the stream.

`ConversationLifecycle` adds `conversation`, the rows the messages belong to, and
`look[m]`, what the request of `m` has read of them. A question reads its context
(`ReadContext`) or starts a conversation (`Start`), opens its transaction
(`Continue`), looks the conversation up again (`Find`, `Missing`), and commits
its messages with the conversation's `is_archived` (`InsertFound`) or with a new
conversation (`CreatePair`). `Create`, `Archive`, `Restore` and `Delete` are the
owner's, each an UPDATE of the one column it is about.

### IngestionPipeline

One document. `document` is its row (deleted or not, current version),
`version[v]` the row of the version with content `v` and whether it has parsed
sections and chunks, `points` the versions that have points in the vector store,
`job` the active jobs by stage and version, `worker` the one worker: its step,
its job and the statuses it read, `session[h]` an API request.

`UploadBegin`, `UploadAccept` and `UploadCommit` are `accept`: its reads, after the
reception of the file its look for an active job, and its commit; the document's
row lock is held all along (`Locked`). `DeleteBegin` and `DeleteDocument` are both
deletions, under the same lock. `RetryBegin`, `ReindexBegin`, `EnqueueLook` and
`EnqueueDocumentJob` are the tenant's routes, which take no lock. What a look found is
the field `insert` of the session; an insert that the partial unique index of active
jobs refuses (`Refused`) and any other failure end a request in `Rollback`.
`Start` recovers the jobs of a dead worker, `Claim` and `Load` are the claim and
the reads of `run_once`; then each stage is one action per commit or call of the
vector store: `ParseResume`, `ParseStart`, `ParseDone`, `ChunkStart`,
`ChunkDone`, `EmbedExclude`, `EmbedStart`, `EmbedDone`, `IndexClear`,
`IndexUpsert`, `IndexCommit`, `RebuildClear`, `RebuildCommit`, `DeleteMark`,
`DeletePoints`, `DeleteCommit`, `Close`. `Failure` lets the exceptions of each
step happen, before or after a call took effect: `Fail` is `_fail` as far as it reads
its rows again, `FailCommit` its commit. `Crash` is the death of the process at any
step. `Written` is the UPDATE: a status equal to the worker's copy is not written, so
a status the API wrote meanwhile stays. `stranded` notes the versions left RECEIVED
without a job (see Observations).

### KnowledgeSearch

`search` is one search over the pipeline: its step, the hits not yet checked,
the copies of the document and the version it has read. `Ask`, `Retrieve`,
`ReadDocument`, `ReadVersion`, `ReadChunk`, `Answer` and `End` are
`KnowledgeService.search`, and `Pipeline` is any step of `IngestionPipeline` in
between. The session keeps the document and the version it has loaded, so hits
of one version are checked on the same copies and are one hit here. `during` is
history: which versions were current and not deleted, and which indexed, at some
moment of the search; `wiped` notes that a job has removed points that were to
stay, in the two ways of `Wiping` (see Observations).

### OneTimeCredential

A credential is unissued, valid, withdrawn or spent; `Administer` issues and
withdraws, `Spend` gives a valid one to one beneficiary. Nothing leaves spent or
withdrawn. `ConnectorRegistration!TokensAreOneTime` maps the token table to it
(spent on the connectors that carry the token); `TenantAccounts!ResetTokensAreOneTime`
maps the reset tokens (spent on the requests that set a password). A reset reads
its clock before it waits for the token's lock, so a token counts as withdrawn
only once no reset that found it in time is still under way.

### TenantAccounts

`user` is the table of users by email, `link` the reset tokens and the
invitations, `req[r]` one request with its copies. `LoginRead` and then
`LoginAccept` or `LoginReject` are a login, whose count is a read-modify-write;
`ResetRequest` and `ResetIssue`, `ResetPresent`, `ResetLock` and `ResetCommit` the
reset link, with the only row lock here; `ActivateRead` and `ActivateCommit`,
`BootstrapRead` and `BootstrapCommit`, `RegenerateRead`, `RecipientRead` and
`BootstrapReissue` the invitations; `CreateRead`, `CreateCommit`, `InviteRead`,
`InviteCommit`, `ChangeRead`, `ChangeCommit`, `RoleRead`, `ActiveRead`, `Count`,
`RoleCommit` and `ActiveCommit` the administration of users. `RollBack` ends any
of them without a trace, `Expire` is time, and `SignOn` is what single sign-on does
to the table. `spent` and `wrong` are history; `overlapped` is below.

### PlatformAdministrators and TenantLifecycle

`account` and `invite` are the two tables of the platform's administrators.
Requests are as in `TenantAccounts` but nothing is locked; `RecoverRead` and
`RecoverCommit` are the commands of the recovery, with an operator typing a
password in between. `tenant` is the table of tenants, `bySlug` and `byHost` the two
dictionaries of the registry, keyed by the lower-case slug and host (`Add`,
`RemoveBySlug`), `process` the API process, `call[r]` a lifecycle request: each change
commits (`CreateTenantCommit`, `ChangeCommit`), reads back (`Refresh`) and publishes
(`Publish`); a deletion commits (`DeleteCommit`) and withdraws (`Withdraw`). `Stop` is
the end of the process with its registry and its requests; `Start` reads the active
tenants, `LoadTenant` adds them one by one, and `Serve` opens the API. Only an active
administrator begins a request; the commands need no API. `names` is history: the
slugs and hosts that have been in the table since the process started.

### SingleSignOn

`config` is the configuration of the tenant, `session` the login states, `user`
the accounts with email and external subject, `req[r]` a request. `Get` is every
read of the configuration, with the lazy re-encryption (`Upgrade`) on the way;
`SaveRead` and `SaveCommit`, `TestCommit` the two other writers. A callback is
`Validate`, `Consume`, `Resolve`, `Authenticate`, then `provision`: `BySubjectRead`,
`LegacyRead` with `Migrate` and `Reread`, `EmailRead`, and one of `SignInKnown`,
`SignInMigrated`, `SignInNew`. An identity is what a provider says of a person:
`oid`, `sub` or both, and an email that persons may share.

### ReasoningFilter and AnswerGeneration

`ReasoningFilter` has the two ways reasoning is taken out of a text: `Suppress`,
on the whole of it, and `Feed`, chunk by chunk, over symbols that let a tag be cut
in two. A filter is its buffer and whether it stands inside a block; `Consume` is
the loop of `feed` while it finds tags, `HeldBack` and `Retained` are what the buffer
keeps after it. `Shown` says what either way should show. Recursion is written as
recursive functions of texts and lists, so that it can be proved about.

`AnswerGeneration` is one question: `results` and `prompt` (which results are cited, under both
budgets), `filter`, `text` and `finish` of the streamed answer, the rounds
(`attempt`) of the posted one, and `events` and `told`, what the caller has
received. `posts`, `received` and `heard` are history. `heard` is what the provider has said
of the text's end: nothing (`open`), that it is whole, that it was cut short (`length`),
that it was cut short and then something else (`hidden`), or it stopped sending
without a word (`silent`).

### Overlap as a condition

`overlapped` and `raced` record which kinds of requests have overlapped, and
`disturbed` which slugs requests overlapped on. The code makes many of its
promises without a lock ("is single-use", "the last active administrator cannot be
demoted"), so it keeps them for requests that follow each other and breaks them
for those that overlap. A property with such a variable states the promise
unless *that pair of requests* overlapped; everything else may overlap, fail and
be rolled back meanwhile. Such a property says that the sequential rule survives
everything around it, and nothing of the overlap itself, which is an observation
below. `stranded`, `wiped` and `names` likewise keep apart what the code is known to
break: versions whose rebuild ended under an upload, points removed that were to stay,
and tenants whose slugs or hosts differ in case only (`NoNamesakes`). Properties
without such a variable hold whatever overlaps.

## What the runs check

| Run | Shows |
|---|---|
| `operational_tools` | The last claim answers, nobody hears "expired" too early, consumed payloads are erased: one request, two connectors, two overlapping connector sessions, three attempts, one crash. |
| `operational_tools_live` | Every waiting handler stops waiting, and every open row settles while some connector polls. |
| `connector_registration` | Tokens implement `OneTimeCredential` (one connector each, none once revoked), and every expiry is recorded; two handlers against the maintenance loop. |
| `connector_status` | A stale copy of the row never invents failures; the loop repairs a status that hides a retirement, and silence is noticed. Two handlers and the maintenance loop, any two of whose operations overlap on stale rows. |
| `conversation_generation` | One streaming answer, events that agree with the rows, streaming that ends; conversations and messages stay together, and contexts are settled. |
| `ingestion_pipeline` | Points have chunks and are of one version at every step, every job ends and the current version leaves the transit statuses unless it was stranded; two contents, two overlapping requests whose looks and commits are apart, two deaths of the worker, failures everywhere. |
| `ingestion_restart` | *Finding.* ADR 0009 says restarted workers resume their jobs; a job interrupted while INDEXING is refused for good by the status table. |
| `tenant_accounts` | Reset tokens implement `OneTimeCredential` whatever overlaps; invitations are spent once, a new link replaces the old, an administrator remains, unless the requests concerned overlapped; nobody is locked out without the failures. |
| `platform` | An administrator of the platform remains, links and recoveries keep their promises, slug and host of a tenant resolve as the table has it once the requests about it have ended, for tenants whose names are not another's in other letters; only suspended tenants go; across a restart of the process. |
| `single_sign_on` | A person has one account and nobody else's, a state completes one login, endpoints and secret are those of the configuration saved, unless the requests concerned overlapped. |
| `answer_generation` | Chunks do not matter to the filter, what is told as complete is validated, cited, in order and not cut short as far as the provider's last word says, prompts respect the evidence's budget, posts are bounded. |
| `knowledge_search` | A result was current, not deleted and indexed while its search ran; what the document pages call searchable is found. |

The runs leave out what is proved beside a deeper property: the type invariants
of the modules with proofs, `SettledIsFinal`, `SingleUse`, `OneActivePerInstance`,
`NoUseAfterRevocation`, `RetirementIsFinal`, `DeletionIsFinal`, `IndexedHasChunks`,
`AttemptsBounded` and a few others. TLC found them to hold on the same instances
before they were proved.

### Bounds

Clocks stop at `MaxTime`, which each run sets past every deadline it needs: a
request can be filed late enough to be claimed twice and still expire
(`RequestTTL = 2`, `ClaimTTL = 1`, `MaxTime = 3`); a token can expire while a
registration is under way; a connector can fall silent, be noticed, and come
back; a message can go stale while the next one begins. `MaxCrashes`,
`MaxFailures` and `MaxRestarts` bound what the environment does. The races are
between two actors over one row, or a third one that reads in between, so two
handlers and the background loop reach each of them; rows of different requests,
tokens, connectors or conversations are coupled only where the run has two of
them.

* `conversation_generation` has one conversation, because it checks liveness; its
  safety was also checked with two under symmetry (1.2 million states) and agreed.
* `connector_status`: two handlers with two operations under way at once
  (`MaxOpen`), so that a failure meets a failure, a heartbeat a retirement, and any of
  them a sweep, each on the row it read before. Heartbeats report an unhealthy source
  here (`Reports`), so that a row has no report or a bad one; the proofs have both.
* `ingestion_pipeline`: two requests are enough for an upload to be deleted,
  reindexed or replaced by the other content at any step of the worker, and
  `MaxAttempts = 2` for a job to be retried, exhausted, and exhausted by deaths. The run
  also starts from a document whose rebuild is pending (`MCRebuild`), with its one
  version failed or indexed: an upload that joins the rebuild is then within reach. The safety
  properties, with parts of the inductive invariant, agreed with four requests
  and no death (1.1 million states) and with three and one death.
* `knowledge_search`: three requests, so that a version can be superseded and
  reindexed or deleted around one search, with `MaxAttempts = 1`. The second case of
  `Wiping` needs a retry and a fourth request: one content with five requests, two
  attempts and one death (13.6 million states, with the parts of the inductive
  invariant) agreed. Beyond that `SearchableIsFound` is proved.
* `tenant_accounts`: three requests, two that overlap and a third that sees what
  they left, over four links, the bootstrap invitation among them; lockout after two
  failures instead of five.
* `platform`: four requests shared by both kinds, one restart; three slugs, of which
  two differ in case only, two hosts and two creations, so that tenants share
  entries by slug, and one slug or host is created anew. Two administrators, of which one
  deactivates, demotes or recovers the other.
* `single_sign_on`: three requests; two persons, one of whom has both claims or
  one of them, and who share an email.
* `answer_generation`: texts of six symbols hold a block, or a cut tag, with text on
  both sides; chunks of up to two cut a tag of two symbols everywhere, and with
  `Retain = 1` an unfinished block is cut as short as its end allows. Instructions and
  a full evidence budget fit the prompt here (3 + 5 < 9), so only the evidence's budget
  binds in the run, and the prompt's is left to the proof of `PromptsAreSound`. The proofs have
  no bound on texts, chunks, results or `Retain`.

`CHECK_DEADLOCK FALSE` is said everywhere because the clock stops and every
request has an end: a state where all work is done is not an error. Symmetry is
used only in runs without liveness properties.

### Fairness

* OperationalTools: time passes, and a handler that has started runs on
  (`WF` of each consumer and session). Only `OpenRowsSettle` also assumes that
  connectors keep polling (`ConnectorsPoll`); that is the connector's protocol
  (`docs/api/connectors.md`), and without a poll nothing settles an abandoned row.
* ConnectorRegistration: handlers run on, the maintenance loop wakes for ever.
  `SF` of a sweep's write because it waits for row locks that registrations take
  again and again.
* ConnectorStatus: handlers return; the maintenance loop starts again and again
  and, since it logs what fails and retries, sooner or later commits (`SF`). Its start
  has `SF` too, only because the bound `MaxOpen` may hold it back now and then.
* ConversationLifecycle (`LifeFairness`): time passes, `begin_message` runs on,
  and the owner comes back to the list. Nothing is assumed of a generation.
* IngestionPipeline (`Fairness`): `WF` of the worker as a whole: it is started again when its
  process has died and its loop runs on (`ingestion_runtime.py` 106-117). Which
  job it claims is not constrained, and every call of a provider may fail every
  time. Retry times are abstracted: a job that failed may be claimed at any time.

The other modules have safety properties only: every request of theirs may end
without an answer, and none waits for another but for a database lock.

### Assumptions about the environment

* One API process holds the tenant registry, as the deployment starts it
  (`cli/lib/app.sh` starts one uvicorn process without workers). With several, each would keep the registry of
  its own start-up and changes.
* A provider that has given the `oid` of a person to bind an account to goes on
  giving it (`SingleSignOn!Vouched`), and it gives the `sub` of a person always or
  never (`ProviderAssumption`; OpenID Connect requires it always). Otherwise one
  person could come back with the other claim alone and get a second account.
* A provider that cuts a text short says so on the last data line it sends, and does not
  stop sending without a word. `ToldIsGrounded` has the other two ways as exceptions by name
  (`hidden`, `silent`), since the code takes such a text for a whole one.
* The numbers of links follow the order of their insertion (`TenantAccounts!Fresh`):
  they stand for `created_at`, by which the latest bootstrap invitation is chosen.
* The document router is kept for migration and is "intentionally not
  registered by the normal SaaS application" (`api/routes/tenant/documents.py:59`);
  the pipeline is modelled as it runs where it is.

## Observations

Where the code keeps less than a reader might expect. Only the first is a run of
its own; the others are why a property has the condition it has, or says no
more than it does.

* **A worker that dies while INDEXING** (`ingestion_worker.py:345`): the recovered
  job asks for INDEXING to EMBEDDING, which the status table refuses, and fails for
  good. Run `ingestion_restart`.
* **The connector limit** (`connector_service.py:358`) is a count and then an insert;
  two registrations with two tokens count the same connectors.
* **A revocation that read its token unused** (`connector_service.py:219`) marks it
  revoked after a registration has used it. It admits and undoes nothing.
* **Lost failures** (`connector_service.py:452`): overlapping failed authentications
  are counted once, so the count can stay below the documented threshold. It is never above.
  The same holds of the logins of users and of platform administrators.
* **Capability rows** (`connector_service.py:625`): two heartbeats that replace them at
  once end in a unique violation, which fails one heartbeat with a 500.
* **A knowledge search that was given up** (`operational_tool_service.py:226`) has
  erased its arguments; a result that arrives later stays, although ADR 0010 clears it.
* **A second deletion** joins a deletion job that has already decided to skip the points
  (`ingestion_worker.py:451`); they stay, and no search shows them.
* **A re-upload** decides on the version's status before the file is received
  (`document_ingestion_service.py:239`), which may have changed by its commit.
* **A reindex of a superseded version** removes the points of the whole document
  (`ingestion_worker.py:413`), those of the current version too; `SearchableIsFound`
  says nothing after one (`wiped`).
* **An embedding of what is already indexed** may take its points away for good
  (`ingestion_worker.py:310`). A retry that read the version as failed enqueues a
  second embedding after the first has indexed it; the document is deleted, and that
  job reads it as deleted; an upload of the same content restores the document and
  enqueues nothing, since the version is still INDEXED; then the job removes the points.
  The version stays shown as indexed and no search finds it. The attempt to prove
  `SearchableIsFound` met this case, which takes four requests and two attempts;
  `wiped` notes it.
* **Setup links** "can only be used once" (`frontend/app/platform/tenants/new/page.tsx:69`),
  but two overlapping activations may both use one
  (`tenant_account_activation_service.py:38`), and the password of the later one stays.
* **Two requests for a link** at once expire only the links each has read: both
  new links are live (`tenant_password_reset_service.py:82`, `tenant_admin_invite_service.py:52`).
* **A reset reads its clock before the token's lock**: a link withdrawn while it
  waits still sets the password once.
* **Last administrators**: two administrators demoted, or deactivating each other, at
  once leave none, in a tenant and on the platform.
* **Recovery** "activates and unlocks" the account
  (`docs/operations/platform-admin-recovery.md:50`); a login that fails between the read
  and the write of the command writes its own lock over it.
* **The registry** keeps what was published last, which after two overlapping changes need
  not be what was committed last, and keeps a tenant whose refresh failed as it was, until the next change or start.
* **Two OIDC callbacks** of different persons who present one email may both find the
  unbound account and sign in to it (`oidc_user_service.py:137`); two with one state may both
  pass the check before either consumes it.
* **A connection test or a reader of a secret in the clear** may write over a configuration that
  was saved since it read (`tenant_sso_service.py:213`, `:59`).

* **A text cut short** is told as complete when the provider sends a line after the one
  with the finish reason `length`, because each line's reason replaces the last
  (`services/llm_provider.py:389`), or when the stream ends without any reason
  (`:408`). "A response that ends because of the provider length limit is rejected as
  truncated rather than returned to a tenant."
  (`docs/architecture/ai-answer-service.md:1371`)
* **Tenants whose names differ in case** share an entry of the registry
  (`core/tenant_registry.py:14`): the table tells their slugs and hosts apart, and the API
  sets no pattern for a slug (`schemas/tenant.py:12`), as the form does
  (`frontend/app/platform/tenants/new/page.tsx:21`). Publishing one of them takes the
  place of the other, and deleting it removes the other's, with nothing overlapping. "Routing
  resolves a tenant slug into the corresponding tenant UUID."
  (`docs/architecture/0002-tenant-model.md:51`)
* **A poll may write 'expired' over an answer** committed after the deadline, between the
  poller's read and its write (`operational_tool_service.py:207`); the caller hears
  "expired", which by then is true.
* **A version may stay RECEIVED with no job.** An upload joins a rebuild that
  is active at its look (`document_ingestion_service.py:249`) and has ended for good by its
  commit (`:269`); or the rebuild fails, `_fail` reads the version as FAILED
  (`ingestion_worker.py:525`), the upload commits RECEIVED, and FAILED, being no
  change of what was read, is not written (`:542`). "The transaction owner commits this row atomically
  with document state." (`document_repository.py:234`) holds of the job inserted, not of one
  joined. A later retry is refused, since the version has not failed; a reindex or
  another upload helps. `ProcessingEnds` has such versions (`stranded`) as its exception.
* **A connector's deletion that joins an older deletion job**
  (`document_ingestion_service.py:371`): that job finds the document restored by an upload
  and closes; if it does so before the new deletion commits, the document is deleted
  with no job. Its points stay, and no search shows them.

## What is proved

For every value of the constants that satisfies the module's named assumption
(positive durations, `None` outside the sets it stands beside), with no bound on
requests, handlers, attempts or time. Each component's proof has one inductive
invariant, shown to be preserved by every action, and takes the properties from it.

* **OperationalToolsProofs**: `TypeCorrect`, `LastClaimAnswers`,
  `ExpiryIsHonest`, `ReportsAreReal`, `PayloadStaysErased`, `ArgumentsSurvive`,
  `SettledRequestsAreFinal`. `RowInv` ties a row's token and attempts to its
  status; `ConsumerInv` says what the row may have become since the consumer
  looked; `SessionInv` says that what a sweep loaded is visible and overdue at
  the time the sweep read the clock, which is why writing it late is harmless.
* **ConnectorRegistrationProofs**: `TypeCorrect`, `TokensAreSingleUse`,
  `AppliancesAreUnique`, `RevocationWins`. `SingleUse` alone is not inductive: a
  second approved registration of the token could be about to commit. `LockInv`
  adds that an approved registration is alone with its token and that the token
  is still unused and unrevoked, because every writer waits for the lock.
  `RegistrationTokensAreOneTime` is the refinement: each step of the token table maps to a
  step of `OneTimeCredential` or to a stutter, under the same invariant.
  The module also proves `OneBeneficiary` and `NoSecondLife`, for whatever
  implements the abstract specification.
* **ConnectorStatusProofs**: `TypeCorrect`, `FailuresAreReal`,
  `RetirementSticks`. `LoadedCounts` bounds the counts in the copies that
  operations under way hold; retirement survives because no operation ever
  changes that column back, so no UPDATE names it.
* **ConversationProofs**, of the generation: `TypeCorrect`, `OneAnswerStreams`,
  `ReportsMatchRows`, `SettledStaysSettled`. `LockInv` (rows a transaction is
  about to fail are still STREAMING and nobody else's to fail) and `StepInv`
  (what a message's row says at each step of its request).
  Of the lifecycle: `LifecycleIsGeneration` shows that the
  composition implements `ConversationGeneration`, so that the theorems above hold
  in it. `LifeInv` then says of each request how far it is and what it has read
  (`Placed`), that a message and its conversation belong together (`Kept`), that an
  id picked for a conversation is nobody else's until its commit (`Fresh`), that what
  was found is still active or marked (`Listed`) and that the context is completed
  (`Settled`). From it: `LifeTypeCorrect`, `QuestionStartsTogether`, `StreamsAreListed`,
  `ConversationsStayWhole`, `ContextSettled`, `DeletedStaysDeleted`.
* **DocumentProofs**, of the pipeline: `TypeCorrect`, `IndexedVersionsHaveChunks`,
  `PointsHaveChunks`, `PointsOfOneVersion`, `AttemptsAreBounded`. No transaction
  spans the database and the vector store, so what keeps them together is what
  the worker may rely on between its steps, although the API writes to the same
  rows: `CopiesFresh` (a status differs from the worker's copy only by having
  become RECEIVED, so a status it skips writing is never INDEXED by accident),
  `ChunksKept` (only the worker removes chunks, so those it embeds stay),
  `IndexEmptied` (the index stays empty from the removal to the upsert, and
  chunks are erased only while it is). `JobsBounded` strengthens the bound on
  attempts: a job that may be claimed has one left, unless a death paid for it.
  `Requests` says that one request at a time holds the document's lock, and what its
  session is about; between `_fail`'s reading and its commit `CopiesFresh` holds as
  in any other step, although the rows may have changed (`FailCommitStep`).
  Lemmas by kind of step (`StoresReceive`, `StoresReleased`, ...) carry what
  the actions have in common; `StrandedStep` keeps the type of `stranded`, which is history.
  Of the search: `SearchOverPipeline` (a search changes nothing of the
  pipeline, so all that is proved of it stays true), `SearchTypeCorrect`, and
  `ResultsServed`, which rests on `CopiesWereTrue` (each copy a search holds was true
  of its row since the search began) and `ServedIsNoted` (whatever is served now is in
  the history), not on what the vector store returned.
  `SearchableVersionsAreFound` needs to know where the points of an indexed version
  are while jobs come and go. `IndexHolds` is the core: unless `wiped`, the current
  version, if it is INDEXED and no job of its own is queued, has its points. The rest
  says why no job disturbs that: a worker about to embed another version leaves the
  current one with a job that will index it again (`IndexerAlone`), a deletion under
  way has taken the status INDEXED from every version (`NothingIndexed`), the
  upsert comes before the commit (`UpsertDone`), only an embedding embeds
  (`EmbedJobs`), and after an exclusion another job of the version follows
  (`ExclusionFollowed`). An upload that inserts no job, because its look has found a
  rebuild, shows the version again only while that rebuild is active or the version
  not INDEXED (`JoinedRebuilt`). `SteadyIsKept` carries a version
  that was steady through the hits of the search to its results.
* **TenantAccountsProofs**: `TypeCorrect`, `InvitationsSetOnePassword`, `OneLiveLink`,
  `AnAdministratorRemains`, `LocksAreEarned`, and the refinement
  `ResetTokensSetOnePassword` (each reset token implements `OneTimeCredential`). Most
  of these promises hold unless two requests of one kind overlapped, and `Apart` is
  what that leaves: of the kinds not recorded in `overlapped` at most one request is
  under way, and row locks keep two resets of a link apart. `LinksInv` then says which
  links that request presents or replaces (`SeenAll`: every live one, so that its
  commit leaves only the new one), `UsersInv` who remains an administrator when it
  commits and that a login about to be rejected is among the wrong ones counted.
* **TenantLifecycleProofs**: `TypeCorrect`, `APlatformAdministratorRemains`,
  `LinksAndRecoveriesHold`, `RegistryFollowsTable`, `DeletedTenantsWereInactive`. The
  invariant has the same form for the administrators. `RegistryInv` is about a slug
  on which no calls overlapped: its one call has the row as stored, registry and
  table agree until that call commits and again once it has published, and without
  a call they agree; while the process starts, those still to be loaded are absent. It
  speaks of tenants without a namesake, for whom `NamesInv` adds that nobody else's
  definition is, or will be, under their keys (whatever a call carries or the
  registry holds is among `names`), and that slug and host name the same (`Paired`). A step of the tenants leaves the administrators
  alone except for ending their requests (`Abandon`), so each half is proved apart.
* **SingleSignOnProofs**: `TypeCorrect`, `AStateIsUsedOnce`,
  `TheSavedConfigurationIsStored`, `APersonHasOneAccount`. Nothing is locked here,
  so the invariant says what each copy still agrees on with its row while no conflict
  of its kind is recorded: the state a callback has consumed (`StateInv`), the
  configuration read to be changed (`ConfigInv`), the account looked for under each
  claim in turn, found or known to be absent (`AccountsInv`).
* **ConversationProofs**, of the answers: `AnswerTypeCorrect`, `AnswerChunksDoNotMatter`,
  `WhatIsToldIsSound`, `PromptsAreSound`, `PostsStayBounded`. The invariant is `AnswerIInv`.
  `FilterInv` is its core: for *any* text still to come, what was shown so far, and then
  what the filter will show of its buffer and that text (`Rest`), is what the whole text
  shows. A chunk is then only a part of the text to come (`FeedIsExact`), and the end is
  the case where nothing comes. What the buffer throws away is never needed: in front
  of the last `<` no tag can be completed, and of a block one symbol is enough
  (`KeptIsExact`; a tag is two symbols here, and the 32 of the code hold its longest).
  `PostsInv` gives each phase what it may still spend, `AnswerInv` says that an answer is
  a validated text of which a beginning was told, and how `heard` goes with the reason the
  code remembers (it is `length` only while that is the last one read), `EventsInv` what was said in each
  phase. `ChooseIs` goes along the loop of `build` and keeps both budgets, the order and
  the absence of duplicates.

  These are statements about recursions over texts and lists, which the library's
  induction theorems cannot be used for, since they take an operator as a parameter.
  The module has its own that take sets and functions: `Induction` (a set of what is good
  contains everything, if it contains what is good for all that is smaller; by a least
  counterexample) and `Recursion` (a recursion whose argument gets smaller defines a
  function on all of its domain, which TLA+ does not promise of a recursive
  definition; by the least relation closed under it). `ShownIs`, `WithoutBlocksIs`,
  `ConsumeIs` and `TokensIs` are its uses.

What the proofs assume of the constants, beside the types: `Users` and `Accounts` are
finite (tables are; the count of administrators is a cardinality), `None` is
no account, link or identity, `Retain` is not 0 (`RetainAssumption`), searches give
lists of results and replies are texts (`AnswerAssumption`), and `ProviderAssumption`
(see above), which `AccountsInv` rests on, and with it `APersonHasOneAccount`.

Only model-checked:

* All liveness (`WaitingEnds`, `OpenRowsSettle`, `ExpiryGetsRecorded`, `RetirementShows`,
  `SilenceIsNoticed`, `StreamingEnds`, `JobsSettle`, `ProcessingEnds`), which is beyond
  the proof system, and the run `ingestion_restart`.

## What is not modelled, and why

* Secrets, hashes, signatures and message texts (the models keep whether they
  match), and the redaction of secrets; tenant isolation (every query filters by tenant;
  one tenant is modelled); audit events, mails and the rows of the development mailbox.
* Of the accounts: changes of names and emails; the cookies and expiry of sessions;
  the expiry of a login state, which only refuses.
* Of ingestion: replays of an idempotency key (they change nothing), the contents of
  the object store, the job types kept for jobs of a former version, heartbeats, and the
  order of the queue: `claim_job` orders by `created_at`, which is the start of the
  enqueuing transaction, and skips jobs whose retry time has not come; the model claims
  any waiting job, which over-approximates it. Safety proved of it therefore holds of
  the ordered queue; what would need the order is not claimed.
* Of search: scores, the limit of hits, filters by source and connector (`top_k` applies
  before the rows are checked, so fewer results than asked may come back); of answers: wording,
  the health probes, the content of a chunk.
* Rate limiting: a window of thirty lines in memory. The modules let any number of
  attempts happen.
* The assistant's routing of questions, parsing and chunking: pattern matching over natural
  language and document text, without state; the pipeline keeps that each step may fail.
* Request plumbing, the shell CLI and operators' scripts, migrations, the user interface.

## Plan

What is left, in this order:

1. A queue in order of `created_at` with retry times, shown to implement the pipeline's
   free choice, and whether the second case of `Wiping` can happen under that order.
2. The windowing of the chunker and the rate limiter, as functions checked against
   reference definitions.

New proofs join existing proof modules where the components are composed
(`KnowledgeSearch` with the pipeline, the lifecycle with the generation) to keep their number small.
