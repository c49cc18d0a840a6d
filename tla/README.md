# LA Muni RAG: verification project

LA Muni RAG ingests municipal documents for a tenant, answers questions with
cited evidence and governs the procedures ("workflows") derived from them.
Nearly all of its concurrency is in PostgreSQL transactions at READ COMMITTED,
started by stateless API processes and by ingestion workers. The modules here
model those transactions, the places where they interleave, and what the
processes around them do when they crash, are late, or repeat themselves.

Files are named by their path in the repository. `PROJECT.json` lists
components, runs, mutants, hazards and theorems, and maps each definition to
the lines it was translated from.

## 1. Inventory

### Parts with state of their own

| component | state | operations | talks to |
|---|---|---|---|
| artifact acceptance (`src/ingestion/artifactAcceptance.ts`, migrations 007, 011) | `rag.artifact_objects` (status, inspection generation, accepted scan, window), `rag.artifact_scans` | begin or restart an inspection; inspect; complete it (accept and supersede the others, or reject); look up the accepted binding | ingestion jobs lock the accepted row `FOR SHARE` |
| ingestion jobs and worker (`src/ingestion/ingestionJobService.ts`, `ingestionWorker.ts`, `src/embeddings/tenantPgVectorRepository.ts`, migration 005) | `rag.ingestion_jobs` (status, attempts, lease, token, bound artifact), `rag.embedding_vectors`, `document_versions.extraction_status`; in the worker: the lease and the heartbeat in flight | enqueue, lease next, heartbeat, complete, fail; the worker's phases and checkpoints | acceptance, documents, retrieval (reads vectors) |
| workflow lifecycle (`src/workflowLifecycle`, `src/api/v1/workflowLifecycleHandler.ts`, migrations 009, 010) | `rag.procedures`, `rag.procedure_versions`, `rag.workflow_reviews`, `rag.workflow_approvals`, `integration.workflow_lifecycle_idempotency` | draft, submit, review, approve, supersede, archive, look up | procedure cases and the catalog read approved versions |
| procedure cases (`src/procedureCases`, migration 013) | case with revision and status, steps, documents, blockers, events, sealed first response | create, apply one of eight actions, get | workflow lifecycle |
| integration API (`src/api/v1`): procedure query, evidence gaps, claim packs, catalog, search evidence, ingestion | request windows with the event of their refusal, audit events; idempotency rows with a TTL; gaps, sources and documents with their unique identities | a chain of checks before each operation; claim, complete, release, invalidate; create or answer as the first time; list page by page | all of the above, retrieval, the embedding provider |
| human sessions (`src/humanSession`, migration 017) | login transactions, code claims, sessions with generation and replacement, audit trail; in the adapter: cached discovery document and key set | begin a login, callback, bootstrap, rotate, log out; exchange a code | identity provider |
| public gateway (`src/api/public/v1`, migration 016) | windows of the gateway and of each client, the event of a refused window | query, procedure, domain pack, without credentials | retrieval |
| sources (`src/sources`) | inventory file, library and quarantine directories, scans, published pages and sections | import, inspect and ingest a library artifact; acquire a pack's pages | scanner, corpus index |
| corpus ingestion (`src/cli/controlledCorpusIngestion.ts`, `backfillCorpus.ts`, `src/ingestion/extractors`) | operational and evidence manifests, receipt, inventory; the count of PDF processes | run a configuration, backfill its manifest, extract a PDF in a child | acceptance, ingestion jobs |
| staging (`src/staging`) | databases and a role in a dedicated cluster, the receipt | create, migrate, verify, reset, destroy | PostgreSQL |

Identity, tenancy and RBAC decide before a transaction begins (the roles of
each permission are in `RequestGate`) or filter each of its statements: a module
takes a principal with its role as part of the request and models one tenant.

### Parts without state

Retrieval ranks with floating point and text; what a procedure query is composed
of afterwards is `ProcedureEvidence`. Templates and domain packs are validated
configuration. Procedure feedback is one `INSERT` behind an in-memory window. The
embeddings indexer without tenants is for local use. Server, shell, contracts, cloud
plans and evaluation scripts are I/O and generation.

### What is hard here, and what makes each part correct

* **Acceptance.** The verdict arrives in a second transaction, long after the
  inspection began, perhaps after another inspection restarted the object; two
  objects of one version are accepted at once; the supersession statement works
  on a snapshot and waits for row locks; the window may run out in between; the
  process may die. Correct: one accepted object per version; acceptance rests
  on a clean scan of the current generation; evidence and decision commit
  together; an acceptance only gives way to another one or to a new inspection.
* **Ingestion.** A lease expires while its worker is still busy; another worker
  takes the job; heartbeats overlap with checkpoints; the acceptance changes
  while the document is extracted; publication fails half-way, or meets the
  publication of another version on a chunk; attempts run out; enqueue calls
  collide on key, on work, or on both. Correct: only the holder of the lease ends
  it; what is published is current and one whole generation; a settled job stays
  settled; every job is settled; answers are true.
* **Workflow lifecycle.** Approvals and supersessions of several versions
  interleave and may deadlock; duplicates arrive during, after and long after
  the first execution; timestamps are taken before the transaction; lookups read
  in three statements. Correct: one approved version per procedure; published
  means reviewed and approved by others; succession is acyclic; stored answers
  are true; requests end.
* **Procedure cases.** One key is claimed in three statements, each with a view of
  its own; two transactions claim it before and after its row expires; updates
  expect the same revision; a case is read statement by statement while it
  changes, and its workflow is retired. Correct: an event for each revision; no
  request is carried out twice or answered in two ways; open blockers keep a
  case from becoming active unnoticed; every request ends.
* **Integration API.** Concurrent requests take the last place of a window, or
  straddle two; a refusal must name the event that records it, and recording may
  fail. A claim expires while its request runs, its answer is lost, a bundle's claim
  is committed before its work. Two requests report one gap. Four artifacts are
  derived separately from one workflow; a bundle must pass its own replay's check;
  a catalog is paged while entries are committed with older dates; a search fails
  while others wait on its client. Correct: windows admit their limit and refusals
  have their events; a key has one answer and an identity one entity; artifacts
  agree; a walk shows everything once.
* **Sessions.** Callback, rotation and logout of one login overlap, repeat and fail
  between statements that no transaction joins; clocks differ; the provider
  rotates its keys under two caches, and the body of its answer may come at any time. Correct: a login has one session at a time and
  none after its logout; an identity is one the provider signed, with a key not older than
  the cache and the request that filled it explain.
* **Public gateway.** Two windows are counted together; calls and events fail.
  Correct: neither limit is exceeded, a refused window has its one event.
* **Files and commands.** Processes end between a move and the write that records
  it; files are changed meanwhile; runs overlap; an acceptance lapses; a worker
  takes another job first; a child is stopped after it has answered, or anything throws
  in it. Correct: what
  the records say is there, what was acquired is not lost, only clean bytes are
  indexed, a receipt is evidence.

## 2. Modules

```
AcceptedArtifact ------ implemented by -----> ArtifactAcceptance <-- ArtifactAcceptance_proofs
   ^ EXTENDS (as environment)
IngestionContract ----- implemented by -----> IngestionJobs <-------- IngestionJobs_proofs
PublishedWorkflow ----- implemented by -----> WorkflowLifecycle <---- WorkflowLifecycle_proofs
CaseLedger ------------ implemented by -----> ProcedureCases <------- ProcedureCases_proofs
                                RequestGate, KeyedAnswers <---------- IntegrationApi_proofs
                          HumanSessions, IdentityProvider <---------- Identity_proofs
                              PublicGateway, CatalogPages,
                        SearchEvidence, ProcedureEvidence <---------- Answers_proofs
                 TenantVectors, StagingRun, OperatorTools <---------- CorpusTools_proofs

MCComponents: RequestGate | KeyedAnswers | HumanSessions | IdentityProvider | PublicGateway
            | CatalogPages | SearchEvidence | ProcedureEvidence | TenantVectors
            | OperatorTools | StagingRun
OperatorTools: DocumentLibrary, HtmlAcquisition, CorpusRuns, PdfExtraction side by side
MCSearchEvidence, MCTransactionSearches: one violated property each
```

Every PostgreSQL repository has an in-memory double in the same file, which does an
operation in one step. The detailed modules translate the PostgreSQL statements; what a
part promises (`CaseLedger`, `PublishedWorkflow`) and what an operation does whichever
repository carries it out (an entry that is added to the catalog, the count of a
window's row) is mapped to the double.

Each `MC*` module extends a specification and gives its constants small values;
each `.cfg` is one run. `MCComponents` holds the parts that share no state with one
another: a behaviour is of one part, chosen at the start, and the others have next to no
state in it, so that the properties of the other parts hold of it for want of data. Definitions whose comment
begins with "Deviation" or "A mutant" are not part of a specification: each is the
definition that follows it with a plausible mistake, kept next to it to show that a
property notices.

### ArtifactAcceptance

State: `object` (the row per object, `absent` before it is registered), `scans`,
`inspector` (the local state of each call of `inspect`) and `now`
(`statement_timestamp()`, also the inspecting process's clock). `beginInspection`
is one action. `completeInspection` is cut into the row lock
(`LockObject`/`RejectStale`), the snapshot of the supersession statement
(`SnapshotAccepted`), the locks that statement waits for (`LockTargets`, which
re-evaluates its condition as PostgreSQL does) and the commit
(`CommitAccepted`, `CommitRejected`, or `AbortCompletion` when trigger or unique
index raise). Whatever the structure check, the digest and the scanner find is
a verdict, `clean` or `refused`. `Crash` may hit everywhere.

`AcceptedArtifact` is what the rest of the system sees: per version a current
acceptance that is replaced by a fresh one, withdrawn or lapses; no scan is
accepted twice. `IngestionJobs` uses it as its environment.

### IngestionJobs

State: `job`, `earlier` (the order of `available_at`), `vectors` (whose
generation a version shows), `extraction`, `active`, `client` (enqueue calls),
`worker`, and the acceptance. Each service call is one transaction and one
action, except where another can come in between: `enqueue` (insert, then look
up the conflicting row) and `complete` (lock lease, version and acceptance, then
publish and commit, while the lease may run out). A worker's heartbeat may be in
flight across a phase; a checkpoint sends its own or joins it
(`CheckpointJoinsBeat`). Lease and delay count ticks left, so time needs no bound.
A lease token is random in the code; here it is the number of the attempt,
which is different for every lease of a job.
`leaseNext` fails and rolls back when the next job's document is not active, the
exhausted rows it had failed included; this job stays first. `IngestionContract`
is the queue seen by clients and retrieval: work is pending, published or failed.

The exhaustion statement settles 100 rows per call; the model has fewer.

### WorkflowLifecycle

State: `version`, `latest` (the review `ORDER BY created_at DESC, id DESC`
finds), `newest` (the review committed last, a history variable), `approval`,
`stored` (idempotency rows), `client`, `reader`, `now`. A mutation arrives
(`createdAt` is taken here), claims its key, waiting for another transaction
that has it, locks the procedure or the version and, for a supersession, the
replacement, and then checks, writes, stores its answer and commits in one
action. That is one action because nobody changes a locked row
(`LockedRowsStay` checks this). Failures roll back, the claim included, so
`releaseIdempotency` has nothing left to delete. PostgreSQL breaks a cycle of lock
waits (`DeadlockAborted`). Requests under `FreshKey` use a key of their own, whose row
nobody looks up again and which is not kept. Roles are decided before the
transaction: `Requests` holds what principals have the role for, with overlaps
(in the governance run one principal drafts and reviews, another reviews and
approves). Reviews are kept as the two rows that matter.

`PublishedWorkflow` is what cases and the catalog rely on: a procedure publishes
at most one version, which is replaced in one step or retired, and a version
that was replaced or retired never returns.

### ProcedureCases

State: `case` (the row with its steps, documents, blockers and events),
`approved` (the versions whose workflow is approved; they are retired by the
lifecycle), `stored` (the committed idempotency rows), `client`, `reader`,
`answers` (what has been answered, a history variable) and `now`. A create first
takes the advisory lock of its request (`TakeFence`) and finds the case the same
request made under any other key (`AnswerFromCase`). The claim is three
statements, because each sees what is committed when it begins: `SELECT ... FOR
UPDATE` (`AwaitRow`, `AnswerFromRow`, `FindNoAnswer`), `DELETE` (`DeleteRow`,
`AwaitDelete`), and `INSERT` (`InsertRow`, `InsertFails`). A statement that waited
for a row that was deleted and inserted anew finds no row: `EndOf` moves the
waiting clients on accordingly. After the claim, the case is locked, compared
with the expected revision, changed, recorded and answered in one action, one
per kind of change, since nobody sees anything between that lock and the commit;
anything the code throws is `Refuse`, and `Crash` may hit everywhere. A request
under `FreshKey` uses a key nobody else uses. A `GET` reads the case and its events
in two of the repository's statements (`ReadOrder`). Dates, notes, actors' names,
the audit log and the rate window have no effect on any of this and are left out.

`CaseLedger` is what a tenant's cases promise: each is the list of the requests
carried out for it, opened once, none twice, nothing after a closure.

### The integration API: RequestGate, KeyedAnswers, CatalogPages

`RequestGate` is the way of a request from its headers to its operation. State:
`call` (request, phase, status, the event its answer cites), the windows, the audit
`events`, the clock. `ChecksOf` gives every route its handler's own order of
checks; `wrong` says which of them a request fails. A handler awaits three
transactions (the window's, the body's, the audit's), and calls interleave there; the
counting statement locks its row, so counting is one action (`Counts`, `Kept`,
`Blocked`). Half of the handlers record the refusal of a full window in the counting
transaction, one event for the window; the workflow and case handlers record one
per refused call. Recording may fail: the answer is then 500.

`KeyedAnswers` is the idempotency of the query, claim pack, gap, catalog and bundle
operations: the three statements of a claim, each waiting for rows another
transaction deleted or inserted, and `409` where the row found has no answer yet or is
of another request. Four operations do everything in
one transaction. The bundle commits its claim, works outside any transaction and
stores its answer in a second one, which may find its claim expired and a
successor in its place. Gaps and catalog entries also have identities that are unique
in their tables (`entities`). A stored answer that no longer passes its schema
(`spoiled`) is deleted. Crashes and failures may hit each step. `OneAnswerPerKey` is
weaker where the lookup takes no lock (operations outside `LocksRow`), see section 4.

`CatalogPages` is one walk through a collection while others add entries and change
them. A page is what comes behind the cursor in the order (date, id); the date in a
cursor is a JavaScript `Date`, milliseconds. Sources and documents are dated in
milliseconds by the application, jobs and procedures in microseconds by the
database (`DatedByApplication`). Any date may be that of a new entry, since it is taken before the commit.

### Evidence: SearchEvidence, ProcedureEvidence, TransactionSearches

`SearchEvidence` follows a search from its mode (keyword, phrase, semantic, hybrid with
fusion) over classification by authority and time and the request's filters to the
bundle: sources, citations, claims and contradictions, and then
`ValidStoredBundle`, the check a replay makes. A section is its place in the corpus, best
first, so that what a search found is a set of places and needs no order of its own. Two limits are not in the
model: claim texts are cut at 3000 characters while the validator wants a claim's text
equal to its citation's excerpt of up to 4000, so a bundle with a longer excerpt would
fail its replay; chunks are smaller than that.

`ProcedureEvidence` takes the passages a retrieval returned and the steps of a template,
composes the workflow and maps it to the workflow artifact, the assessment, the
bundle and the claim pack, each by its own code. What a step matches are places in the
retrieval, the first `MatchLimit` of them (`FirstFew`). Composer and mapper classify a
passage independently: one by the domain pack, one by the stored record. The mapper
compares the first section of a version, the bundle of a search the last.

`TransactionSearches` is the chain of promises by which the searches of a procedure
query share the client of their transaction (`api/v1/compiler.ts`,
`withTenantTransaction` in `security/tenant.ts`), with the command queue of the client and the
transaction at the server.

### People and the public: HumanSessions, IdentityProvider, PublicGateway

`HumanSessions`: every repository call is a statement of its own and an action, since no
transaction surrounds a handler; a request (`http`) may carry any token that was ever
sent to the browser (`sent`). Callback, bootstrap, rotation and logout are each cut
into their calls, audit included, which may fail. A handler's clock may differ from
the database's by `Skew`. Sessions expire, codes expire, and the subject, principal or
membership may be deactivated (`member`). `MaxToken` bounds the sessions.

`IdentityProvider` is the adapter: exchanges share the cached discovery document and the
cached keys, fetch the keys again once when a token's key is not among them, and verify. The
provider replaces its keys (`MaxRotations`). A request is two waits: for the headers
(`HeadersAwaited`), which the timer of `#request` ends after `Slow`, and for the body
(`BodyAwaited`), which `readBoundedJson` awaits without a timer, since `#request` cleared it when the
headers came. An answer is what the provider has when its headers come; it may be read
at any later moment, fail, or never come. Tokens come from the provider's keys or a
stranger, with claims in order or not. A key may be used as long after its removal as the cache
lives and the request that brought it took: the fields `took` of the cache and of an
identity are history, and the property grants just that. It names no limit for a key's age
because the code has none, see section 4.

`PublicGateway`: a call passes its origin and method checks, then the two windows in one
transaction that begins by locking the gateway's row, then body, search and event. A
call the client's window refuses still counts in the gateway's. Counters stop at
`Ceiling`; old windows are deleted after `KeptWindows`. `Troubled` names the calls whose
transactions may fail.

### Data and tools: TenantVectors, OperatorTools with its four parts, StagingRun

`TenantVectors` takes the publication that `IngestionJobs` treats as one step apart
into the lookup of the existing rows, the upserts row by row under their locks, the check
of what was upserted and the removal of what is stale. Publications of one version
exclude each other by the lock on its row; those of two meet on a chunk. A
statement may fail, and a cycle of waits makes one fail.

`DocumentLibrary`: `files` by path, the inventory's `record`, the corpus `manifest`, the
index's `vectors`, the `command` that runs. Operators are serialised, as the
operations document demands, so one command runs at a time; between any two of its steps the
process may end (`MaxCrashes`), a move back may fail, and somebody else may change a file
(`MaxTampers`). The inventory is validated before it is used and before it is
written. A failed import removes what it left under the staged name. The clock does not
tick during an inspection.

`HtmlAcquisition`: runs take the sources of their plan one after the other: fetch (a chain
of redirections, all to one allowed host with public addresses), scan, publish the page, publish
its sections, and at the end replace the inventory. Files are named by the page's hash and
never replaced, so that the same bytes with another final URL are a
`source_storage_conflict`. Where runs overlap, the later inventory wins as a whole.

`CorpusRuns`: a run takes source after source through acceptance, enqueueing and one
iteration of a worker, which leases the first job of the tenant, perhaps another
client's; then it writes four files one after the other. A run may stop anywhere, an
acceptance may expire, a backfill may overlap and rewrite records (`backfilled`). A run
may record another job's failure as the evidence that its own source is blocked
(`controlledCorpusIngestion.ts:288`); the property asks that this job failed.
Failures of file identity are part of `CorpusStops` and `WorkFails`. An inspection by
others is modelled where it overtakes the run. The files agree as long as
`lastReplaced`, a history variable, names the inventory; between two of them the
property is about the run's own jobs, see section 5.

`PdfExtraction`: two calls share the limit of one child; the child writes, exits, is
stopped for its time, output or stderr, and the parent decides when its streams close. What
pdfjs finds in a document is external. `WorkerAnswer` is what the worker answers while nothing
throws, `WorkerAnswers` adds its catch-all: any error, also in a document that opens and also
after a result, and a policy it cannot parse, are `malformed`. The property says of
`malformed` only that a worker that ended by itself has answered it, see section 4; the other
failures that are laid to the document are true of it.

`StagingRun`: the phases of a run with its databases, role and receipt; any command may
fail, the process may end, and a second run may find what the first left or meet it.

## 3. Runs

| run | instance | shows |
|---|---|---|
| `acceptance` | 2 inspectors, 2 objects of one version, 2 generations, clock 0..2, window 1 | one acceptance per version, its evidence, finality and succession, termination of inspections and the refinement of `AcceptedArtifact` |
| `leases` | 2 workers, one of them of a narrower profile, 1 job with 2 attempts, 2 scans, leases of 2 ticks, document retired and reinstated, fairness | fencing of leases, publication under the current acceptance, a settled job stays settled, and the job is settled |
| `queue` | 3 enqueue calls with colliding keys and work, 3 rows, 2 workers, one of them of a narrower profile | one job per work and key, truthful answers, whose vectors are shown, refinement of `IngestionContract` |
| `governance` | 2 transactions, 2 versions of one procedure, 3 principals with overlapping roles, a three-statement reader | one approved version, evidence, succession, numbering, a lookup never shows a published version without its evidence, refinement of `PublishedWorkflow` |
| `lifecycle_requests` | 2 transactions, 2 versions, absent at first or under way (`Underway`: one approved, one recommended), drafted, archived, and superseded in both orders, one key, TTL 1, clock 0..1, fairness | a key executes once per TTL and its stored answer is true; deadlocks and key waits end |
| `cases` | 1 transaction at a time, 1 reader, every action at the revisions where it matters, refused ones included | events and revisions, blockers, consistent reads, refinement of `CaseLedger` |
| `case_keys` | 2 transactions, one key for the same and for different requests, TTL 1, clock 0..1, fairness | one execution at a time under a key, one answer per request, true stored answers, every request ends |
| `components` | each part of `MCComponents` by itself, see below | `GateHolds`, `KeysHold`, `OneSessionPerLogin`, `ProviderKeysHold`, `PublicWindowsHold`, `WalkShowsAll`, `BundleReplays`, `ArtifactsAgree`, `GenerationsHold`, `FilesHold`, `ReceiptsHold` |
| `stale_review` | 2 transactions, 1 version, clock 0..1 | **violated**, see findings |
| `case_key_reuse` | 2 transactions, one key, clock stopped | **violated**, see findings |
| `version_conflict` | up to 3 sections of 3 versions | **violated**, see findings |
| `stray_searches` | 2 queries of 4 searches, 1 client | **violated**, see findings |

**Bounds.** Row locks, unique indexes and snapshots relate two transactions, so
two concurrent actors produce every pairwise race, and a third client is there
where a property needs a sequence of three (`queue`). Two
generations, two attempts and two versions are the least with a "before" and an
"after"; a clock
with one tick more than the acceptance window has states before, at and after its
end; a key's row expires at its TTL (`expires_at > now` is what counts), so that a
TTL of one tick and a clock 0..1 reach both sides. `cases` has one transaction at
a time because work on a case is one action under its lock, with nothing to
interleave but the reader; what two transactions do to one key is `case_keys`. In
`governance` a lookup overlaps with one transaction at a time and comes last
(`LookupOverlap`, a bound in the guards). `Underway` is reached by requests as those of
`governance`; beginning there lets a keyed succession succeed without the reviews before it.
`MaxGeneration` stands for 2147483647 and is reached;
`MaxAttempts` stands for 10. The theorems of section 5 do not depend on bounds.
`Room` in `WorkflowLifecycle` keeps clients from asking for more drafts than there
are identifiers. Runs of safety properties use symmetry of rows and calls, the
runs with liveness do not; in `components`, actors that differ in nothing but their
name come in order (`InOrder`), and of two logins the first that is called back is 1.

The bounds of `components`: three calls and three windows in the gate, where one call has
any single fault on any route, another is without fault on a route of each way to treat a
window (`OfEachDesign`), two are unauthenticated on one route, and a third call joins two
where refusals share an event (`Contended`); three calls that send at most two different
requests (`TwoRequests`), with two contents under one key, a catalog entry under two, and
two gaps with an identity in common under two keys, which is a claim, its duplicate and a
successor after expiry (`KeyTTL` 1, `Clock` 1), where the first call has the first key and
content (`FirstAsked`) and packs stand for queries, whose transactions are the same but for
the refusal without claims; three browser requests over two logins and three tokens, so
that a rotation may meet another and a logout; two exchanges and one rotation of keys, one
algorithm changing with it, over four moments with a timer, a key cache and a discovery cache of one,
so that a body may be awaited three times as long as headers, and a limit of a lifetime and a
timer on a key's age would be exceeded (after the first moment, time passes while
no more than one exchange is under way, `Exchanging`); four visits
of two clients over three windows, one of which may fail; three entries, four microseconds
in two milliseconds; corpora of up to three sections and retrievals of up to three
passages, two that agree or not and one more; four publications, which is each of two versions
published, and published again; two contents, the first of which the scanner learns to
know after an hour, one crash and one interference; two overlapping runs wherever commands
overlap. Which documents and pages there are is listed with `MCComponents`.

**Deadlock** is checked in the runs of `ProcedureCases`. Elsewhere it is not:
when generations, identifiers or the clock are used up, or every call is
answered, the system may stop.

**Fairness.** Inspections, enqueue calls, a worker's run and its polling are code
that goes on by itself: weak fairness. Nothing obliges a client to call, a process
to crash, or an acceptance to be given. `lifecycle_requests` also needs strong fairness
of lock grants: a lock may be free and taken again by others for ever, and
PostgreSQL grants row and key locks in the order of its wait queues. The
repeated supersession requests of that run, which could otherwise overtake a
waiter for ever, are what the assumption is for. `case_keys` assumes the same of
each statement of the claim, and weak fairness of the work. In `leases` a heartbeat or
crash is never forced, time passes (`WF(Tick)`), and the property assumes that
the version is eventually accepted and its document active for good: a retired
document at the head of the queue does block the jobs behind it. The parts of
`components` have no liveness property: their calls end when their process or
its database answers, and the one promise beyond that, of timeouts, is the first of the two
disagreements without a run in section 4.

## 4. Findings

* `stale_review`: the latest review is the one with the highest `created_at`, which
  is taken before the transaction. A `changes_requested` review that began first
  and commits after a recommendation is not the latest; the version goes back
  to draft, is submitted again, and is approved on the recommendation that
  precedes the requested changes. `specs/058` asks for the latest review to
  recommend approval. The property ignores reviews with equal timestamps, whose
  order the random identifier decides.
* `case_key_reuse`: the `DELETE` of the claim names its key only. A request that
  looked before another one committed under the same key deletes that fresh row and
  is executed too, instead of conflicting; `docs/architecture/data-ownership.md`
  says that conflicting reuse fails. Both changes are recorded in the case, so its
  own invariants hold.
* `version_conflict`: `evidenceBundle.ts` keeps one section per version, document and place,
  the last, and compares those. A section that differs from another version's is
  overlooked when a later one of its own version does not, and becomes a supported claim;
  `docs/api/search-evidence-v1.md` says that no version wins silently.
* `stray_searches`: when one search of a procedure query fails, the request is rolled back
  and its client released, but the chain of promises goes on with the searches behind it, on a
  client without a transaction or with that of the next request; a comment in
  `search.ts` says that searches use the client that holds their transaction's tenant
  setting. Without that setting they find nothing, but an error of theirs aborts the
  other request's transaction.

Two further disagreements are part of the models, and their properties claim no more than the
code keeps; they have no run of their own.

* *Timeouts of the identity provider.* `specs/083-provider-neutral-oidc-adapter-v1/spec.md:17`
  says "Network requests have bounded timeouts." `#request` (`oidcAdapter.ts:316-326`) clears its
  timer when the headers have come, and `readBoundedJson` (`:167-204`) bounds the body in bytes
  only. An exchange may wait for a body without limit (`BodyAwaited`), and a key set that
  comes late is cached for a full lifetime from its arrival (`:393-397`), so that an identity may
  rest on a key that was withdrawn longer ago than a cache lifetime and a timeout. With
  `Slow` in the place of `took`, TLC violates `ProviderKeysHold` in 13 states: keys are asked for,
  replaced, and read three moments later.
* *Malformed documents.* `docs/raw-pdf-extraction.md:69` explains `pdf_malformed`, which is not
  retried, as "PDF.js rejected the structure" and asks for other bytes. The worker answers it for every
  error that is not a `PasswordException` (`pdf-extraction-worker.mjs:74-85`, `:195-198`) and for a
  policy it cannot parse (`:176-179`): a failed import of pdfjs, an allocation, a page or
  the destruction of a document that opened. `WorkerAnswers` has it for any document.

Remarks without a run. The lookup of a query, a pack or a gap takes no row lock, and the
repair of a corrupt answer deletes whatever completed row has its key and request by then
(`persistence.ts:96`, `claimPackPersistence.ts:98`, `evidenceGapPersistence.ts:85`). Two calls that
saw the same corrupt answer can therefore delete it and then the good answer that took
its place, and a further call works the request out again: with five calls of one request
TLC reaches two different answers kept under one key in 29 steps. The evaluation
(`docs/testing/eval-harness.md:329`) and `docs/api/claim-packs-v1.md:60` say that a
trusted answer is replayed as it is. `OneAnswerPerKey` excuses just that (`MayGo`): in these
operations, and after an answer of the key was spoiled. The attempt to prove the
stronger form found it; the five calls are more than the `components` run sends. A catalog whose entries the database dates may pass over
those of the very millisecond in which a page ended, because its cursor is in
milliseconds (`docs/api/catalog-v1.md:83` speaks of a keyset cursor); `WalkShowsAll` allows
exactly that. An enqueue call answered `duplicate_work` stores nothing for its own key, so
a later call with that key and another request is not a conflict. Workflow and case
claims are part of the transaction that
executes the request, so a duplicate in flight waits and then replays. A `409`
`request_in_progress` is not reachable with these repositories.

## 5. Proofs

Every theorem holds for any number of objects, versions, jobs, cases, keys, callers,
workers and for all bounds. Besides the definitions of the model it rests only
on the `ASSUME`s of the modules, which say what the constants are and what the
code guarantees of its inputs: `AcceptanceConstants` and `NoScanAssumption`, `LifecycleConstants`
and `NoReviewIsNoRow`, `IngestionConstants`, `CaseConstants`, `SessionConstants`,
and `PreparedRecords` (the records of a publication are
distinct and of one version, which `tenantPgVectorRepository.ts:383` and `:412` check
before the first statement), `GatewayConstants` (the gateway's key is no client's, the
limits lie below the ceiling of the counter), `GateConstants` (finitely many calls; a window
admits at least one, as `claimPackIndex.ts:35`, `evidenceGapIndex.ts:45` and
`catalogIndex.ts:39` require), `KeyedConstants` (a gap request with the same content has
an identity in common with the first: what `SELECT_GAP_SQL` in
`evidenceGapPersistence.ts:111` looks for is part of the content), `ProviderConstants` (a
provider has a key, and a stranger's is none of them), `CatalogConstants` (ids and dates are
numbers, and the millisecond of a date is one), `SearchConstants` (the register knows each
version of the corpus), `ProcedureConstants` (a passage matches steps of the template),
`StagingConstants` and `CorpusConstants` (databases and sources are numbered in the order
they are taken), `HtmlConstants` (a plan names sources), `PdfConstants` (limits are positive, as
`loadPdfExtractionPolicy` requires, and a normalised text is no longer than what it was made of)
and `LibraryConstants` (the managed names are no contents). Each theorem about a property
that a run checks names that very definition.

### Artifact acceptance

| theorem | property | says |
|---|---|---|
| `Typing` | `TypeOK` | rows and local states keep their shape |
| `Locking` | `CompletionUndisturbed` | a completing transaction is alone with the rows it changes |
| `OneAcceptance` | `OneAcceptedPerVersion` | no two objects of a version are accepted together |
| `Evidence` | `AcceptedOnCurrentCleanScan`, `DecidedIffScanned`, `OneScanPerGeneration` | an acceptance rests on the only scan of its generation, a clean one |
| `FinalDecision` | `DecisionIsFinal` | a verdict is not overwritten within its generation |
| `Succession` | `SupersededOnlyByAccepted` | an acceptance is superseded in the step that accepts another object |
| `Contracts` | `ImplementsContract` | each step withdraws, accepts by a scan that justified nothing before, ends a window, or shows nothing |

1. *Types.* `TypeOK` is not inductive alone: the row a completion writes has a
   verdict and an object only because the inspection went through its earlier
   steps. `Begun` says so, and `TypeOK /\ Begun` is inductive.
2. *Locks.* `CompletionUndisturbed` says what a completion may rely on between its
   row lock and its end. With `TargetsAreRivals` (what it supersedes are other
   objects of its version, and known only from the snapshot on) it is inductive
   (`LockInv`). The actions of one inspector are reduced to lemma `StepOfOne`: a
   step that changes no row somebody else holds, and acquires none, disturbs
   nobody.
3. *Evidence.* The safety invariants need each other, and one fact more:
   `ScansNotAhead`, no scan belongs to an inspection that has not begun, so that
   the generation a restart opens has no scan yet. With the locks, lemma
   `CompletionFinds` says that a commit meets its object still scanning and without
   a scan, and accepted rivals; `ScanAdded` that the scan it inserts is the only one
   of its generation. Hence `EvidenceInv` is inductive relative to `LockInv`
   (`EvidenceStep`), and the action properties follow action by action from both.
4. *Refinement.* `OneAcceptance` makes the contract's view of a version a function, and
   each action is a step of `AcceptedArtifact` or leaves that view alone.

### Workflow lifecycle

| theorem | property | says |
|---|---|---|
| `Typing`, `Types` | `TypeOK` | shapes, and drafts numbered without gaps |
| `Locking` | | one holder of a version, one execution of a key, and it found the key's answer expired |
| `LockedRows` | `LockedRowsStay` | what a transaction locked nobody else changes |
| `EvidenceHolds` | | published versions were recommended and approved by others, one approved per procedure, successions end |
| `VersionsFitTogether` | `VersionsFit` | the same as the run states it |
| `ReadsShow` | `ReadsShowEvidence` | a lookup in three statements shows no published version without its evidence |
| `ReplaysAreTrue` | `ReplaysHold` | an answer is replayed to its own request, within its time, and not overwritten before |
| `Publishes` | `ImplementsPublication` | a procedure publishes, replaces in one step or retires; nothing comes back |

The layers are `ShapeInv` (types, what has been asked, rows without gaps, versions in hand exist);
`LockInv` (`OneHolderPerVersion`, `OneExecutionPerKey`, `ClaimsAreFresh`); and
`EvidenceInv`. The last is where the argument is: reviews are append-only and name three
principals, the approval that supersedes holds both rows, so that no second approved
version appears and `SuccessionEnds` follows because each supersession names a version that had no
successor. The lookups carry an invariant of their own (`ReadersSee`): review and approval of
a version that was seen published do not change any more. Stored
answers use the locks: an execution is alone with its key, so what it stores
overwrites an expired answer only.

### Ingestion jobs

| theorem | property | says |
|---|---|---|
| `Shape`, `Types` | `TypeOK` | rows, attempts, heartbeats and callers hold together |
| `Leases` | `LeasesHold` | one worker holds the lease of a job, whatever leases expire under busy workers |
| `History` | `LeaseHistory` | settled stays settled; attempts grow only with a new lease and end by its holder |
| `PublishedAccepted` | `PublishedUnderCurrentAcceptance` | vectors are published under the acceptance the job was leased with, while current |
| `Vectors` | `VectorsOfProcessedJob` | a version shows the vectors of a processed job of its own |
| `Queue` | `QueueConsistent` | work and keys are queued once, conflicts find their row, answers stay true |
| `Contracts` | `ImplementsContract` | a version's work is pending, published or failed; its vectors change by a publication only |

Slim lemmas say what a step does to one row, one worker and one caller; the steps are then
instances of them. `ShapeInv` has, besides types: `Rows` (what state goes with which
columns), `Holders` (a worker has the scan its attempt was leased with), `PublishersStand` (a
publishing transaction's lease is the job's and its scan the current acceptance),
`OneWorkerPerAttempt` (a token belongs to the attempt of one worker) and
`BeatsInPhases` (a heartbeat in flight belongs to the phase that sent it). Without
`OneWorkerPerAttempt` the lease property is not inductive: a worker that slept through the
expiry of its lease could come back with the token of a later one. The
acceptance is the contract's, so these theorems use of acceptance only what `Contracts`
above proves of it.

### Procedure cases

| theorem | property | says |
|---|---|---|
| `Shape`, `Types` | `TypeOK` | a case is the list of the requests carried out for it |
| `Trails` | `TrailAccounts` | every revision has its event, open blockers are not passed over, a closure is the end |
| `Reads` | `ReadsHoldTogether` | a GET of two statements is never behind the case it began with |
| `Keys` | `KeysAgree` | one execution per key, one answer per request, stored answers true |
| `Ledgers` | `ImplementsLedger` | opened once, nothing carried out twice, nothing after a closure |

`CaseInv` relates pieces of state that no statement sees together: the cases, the answers
stored under keys, and what readers have read. `Histories`: the trail of a case is the
list of the requests carried out for it, and each of them expected the revision before
it; so a request's place is fixed and it cannot occur twice, which is the ledger's
promise. `OneCasePerCreation` and `AnswersRecorded` tie requests and answers to
cases, `BlockersReviewed` what a blocker permits, `ReadersBehind` a GET to a past of its
case. Work is first reduced to one change of one row (`CreatesAs`, `UpdatesTo`).

### Sessions

| theorem | property | says |
|---|---|---|
| `Types` | | requests, logins and sessions keep their columns |
| `Sessions` | `OneSessionPerLogin` | a login has one session that was not replaced, and none left after a recorded logout |

The inductive `SessionInv` adds to the property what it depends on. `Chain`: a session
belongs to a login that was consumed, and the one that replaced it to the same login,
one generation on. `OneLast`: a login has one session at most that was not replaced.
`Starts`: a callback that consumed its login is the only one that will insert its first session,
and there is none yet; this is what makes repeated callbacks harmless. `LoggedOut`: when a
logout is about to be recorded or was, all sessions of the login are revoked, and the handlers
revive or succeed none of them.

### Vectors

| theorem | property | says |
|---|---|---|
| `Types` | | rows, uncommitted writes and row locks keep their columns |
| `Generations` | `GenerationsHold` | what is committed of a version is exactly the generation that committed last |

A publication deletes the version's rows and inserts new ones in batches, on chunks where rows of
other versions may lie. `VectorInv`: uncommitted writes lie in rows the publication
has locked and hide no other version's (`Writes`), the batches before the current
one are all written (`Progress`), no two publications of a version overlap (`OneEach`), and
what is committed is one generation (`Committed`). Atomicity of the commit then is a
fact about sets of rows, for any number of batches of any size.

### Public gateway

| theorem | property | says |
|---|---|---|
| `Types` | | calls, rows and events keep their columns; a window has one row of a key |
| `Windows` | `PublicWindowsHold` | no window admits more than its limit, one event of its refusals, no search without admission |

`GatewayInv` says what the rows count: a row has counted at least the calls its window
admitted, and its note names the one event (`Counts`, `Limited`). The converse of a row
matters too: where there is no row, nobody was admitted, unless the window is so old
that its row may have been deleted. That is why `Visits` says that no waiting call
belongs to such a window; it is the fact on which the deletion of old rows depends. A
call that passes the gate is reduced to the rows it is counted in (`RowsOf`), of
different keys, of which one at most refuses (`CountedRow`, `RowsAre`).

### Integration API

| theorem | property | says |
|---|---|---|
| `GateTypes` | | calls, windows and events keep their columns |
| `GateInvariant` | | `GateInv` is inductive, from the start on |
| `Gate` | `GateHolds` | counted before the body is read, admitted up to the limit and refused only beyond it, every answer with a recorded event |
| `KeyedTyped` | | transactions, key rows and answers keep their columns |
| `KeyedInvariant` | | `KeyedInv` is inductive, from the start on |
| `Keys` | `KeysHold` | one answer under a key while it is kept, worked out for that request and committed; one gap, source or document of an identity |

*Gate.* That the window comes before the body is first a fact about the lists of checks of the
routes (`GateFirst`, `Guarded`), proved of each list from how it is put together. `GateInv` then
relates three tables nobody reads in one statement. `Calls`: a call has passed the gate
exactly when its phase says so, and what it cites is an event of its own or the window's.
`Counts`: while a window's row is in use, as many calls were admitted as it has counted, up to the
limit, and whoever was refused was refused by a full window; so the limit is exact in
both directions, also after old rows were deleted. `Recorded` and the two clauses on refusals say which
events there are. Counting calls needs cardinalities (`FiniteCounts`, `CallMoved`).

*Keys.* `KeyedInv` is about uncommitted work. `Claims`: whoever inserted the row of a
scope is alone with it, and what was committed there is deleted by himself.
`Holds`: nobody else deletes what a transaction deletes or has locked, and what is
deleted had expired or may go (`Over`). `AnswersKept`: an answer that was given is still stored
unless that is so, and two answers of a scope do not overlap (`Apart`). `Aggregates`: neither
the committed entities nor those about to be committed share an identity, so that the unique
index holds at each commit. The steps that commit nothing are instances of `TurnKeeps`,
the others of `WriteKeeps`.

### Identity provider

| theorem | property | says |
|---|---|---|
| `ProviderTypes` | | keys, caches and exchanges keep their columns |
| `ProviderKeys` | `ProviderKeysHold` | an identity rests on a key that was published no longer ago than the cache lives and the request for it took; a cache that lacks a key refuses no sound token |

`ProviderInv` adds up the ages along the way of a key. `CacheHonest`: a cached key is still
published, or was at most a lifetime and the request that brought it before the cache expires.
`ExchangesTimed`: the keys whose body is awaited were published when they were asked for, or
later. `ExchangesSteady`: the key of a token that is being verified is published as long as
nothing was rotated meanwhile, and once the headers of the keys have come it is among
them. Without the clause on keys that are under way the cache is not honest when they arrive:
the answer may be older than a rotation. No timer is part of the argument: that
requests end in time is nowhere assumed.

### Catalog, search and procedure

| theorem | property | says |
|---|---|---|
| `CatalogTypes` | | collections, entries and walks keep their columns |
| `Walks` | `WalkShowsAll` | nothing twice, nothing left out but entries of a cut millisecond |
| `SearchTypes` | | results and claims are sections of the corpus |
| `Bundles` | `BundleReplays` | a bundle passes the check of its replay |
| `ProcedureTypes` | | matches are passages, answers are artifacts |
| `Artifacts` | `ArtifactsAgree` | the four artifacts agree |

*Catalog.* `WalkAhead`: nothing that was shown lies behind the cursor. `WalkOwes`: what was there
from the start and has not been shown does, or shares the millisecond in which a page
was cut. Both speak of the order (date, id) at the cursor's precision; that a page is cut into
what it shows and what lies behind its last entry, for any limit, is a lemma about finite
sets in that order, and the arithmetic of `Milli` another.

*Search and procedure* compute data in few steps, so that their invariants (`SearchInv`,
`ProcedureInv`) only say that each answer is what its mapper makes; the
argument is in lemmas on the mappers. That conflicting sections are of distinct versions
and lie in one place (`KeptSections`) makes each one of the claims to review; that passages
in conflict can be cited, and a step that matches one has no claim, accounts for each step once.
Before this was proved, search results and matches were sequences; as sets of places they say the
same without a recursive definition.

### Documents and commands

| theorem | property | says |
|---|---|---|
| `LibraryTypes`, `HtmlTypes`, `PdfTypes`, `CorpusTypes`, `StagingTypes` | | files, tables and commands keep their columns |
| `Documents` | part of `FilesHold` | recorded bytes are not lost, only clean ones are indexed, ingested means indexed |
| `Snapshots` | part of `FilesHold` | a record names a clean page under its hash with its own sections |
| `Pdfs` | part of `FilesHold` | workers are counted, a document is extracted whole or not at all, and is called encrypted, without text or beyond a limit only if it is; every failure laid to it, `malformed` too, was answered by a worker that ended by itself |
| `CorpusFilesAgree` | part of `FilesHold` | what the files say is so, and they agree |
| `FilesKept` | `FilesHold` | the four tools side by side, `ToolsSpec` |
| `StagingReceipts` | `ReceiptsHold` | a passed receipt leaves nothing and claims what was done |

*Library.* `LibraryInv` says what each command has established at each of its steps
(`Operates`), what of the record is true whoever changes files (`RecordTrue`), and where the
recorded bytes are while nobody else does (`LibraryKept`). The latter must mention both
names during a move, whose link comes before its unlink, and that no quarantined
bytes exist before something was recorded. A clean verdict is kept with the hour of its scan,
since what the scanner knows grows while the document waits.

*Pages.* Published files are only added to, so that everything a run or the inventory names stays
(`Snapshot`); a run that overlaps finds the page under its hash but goes on only if the
sections there are its own. *PDFs.* `Called` says in which phases a child and a directory
exist, `Truthful` that an outcome about the document is one of the worker's answers for it
(`WorkerAnswers`, its catch-all included), given by a child that exited, whatever arrived before it
was forced to stop. The answer while nothing throws is about sums over pages (`Amount`): that a
sum over one more page is larger by that page, and that there is a first page
at which a limit is passed, is proved from least elements of sets of numbers
(`AmountAdds`), because the library's induction theorem takes an operator as a parameter.

*Corpus.* `RunHolds` says what a run has noted for the sources before its place, in which of
its files it is, and that what the inventory already calls ingested by the run's own job is
what it will note again. `Files` and `Commands` say what is true between two runs. The attempt to
prove it corrected the property: the files were said to agree on every source. They
need not, when a source was ingested by another client's job for the same version, a later run
ingests it again by its own, and ends after it has replaced the evidence manifest and before
the inventory; with `OtherVersion` 1 and no source without text, TLC reaches that. `CorpusHolds`
now asks for agreement on the run's own jobs, and on all when `lastReplaced` is the inventory.

The tools share no file and no table; `OperatorTools` conjoins their specifications, and
`FilesKept` follows from the four theorems.

*Staging.* `JourneyProgress` gives, for a run alone, what it has created and verified in each phase
(`Journeys` of the databases before the current one); `Receipted`, that a passed
receipt has left nothing; `OneAtATime`, that the first holds until two runs have met.

### What is not proved

* Liveness (`InspectionEnds`, `RequestsEnd`, `JobsSettle` and the others under fairness)
  and the enabledness of actions are beyond the prover.
* `MCComponents!TypeOK` says of each part what a theorem says of its module (`GateTypes`,
  `KeyedTyped`, `Types`, `ProviderTypes` and so on); that the parts do not disturb
  each other is the shape of that module, and it is only checked.
* `CompletionUndisturbed`, `DecidedIffScanned` and `OneScanPerGeneration` are proved and
  no longer part of a run.

## 6. Not modelled

* Parts without state, listed in section 1, and what is wording, layout or digest in the
  others. The evaluation programs, the frontend and the server's dispatch.
* In ingestion: what a failing second job of a version does to
  `document_versions.extraction_status` while the vectors of the first stay
  (`ingestionJobService.ts:910`): no document says what the column should be then. That a second
  profile replaces a version's vectors (`tenantPgVectorRepository.ts:170`) is in
  `VectorsOfProcessedJob` as it is: the last publication's vectors are shown.
* In cases and the lifecycle: the repair of corrupt stored answers, which deletes the row in a
  second transaction (`procedureCaseHandler.ts:430`): `KeyedAnswers` has the same repair for
  its operations. The unlocked read of the workflow version at the creation of a case
  (`procedureCases/repository.ts:783`) may see a version that is superseded before
  the commit; a case may outlive its version anyway.
* In sessions: the buckets that count failed logins, and cookies.
* In the sources: the two `.tmp` names that commands share, and packs, whose
  validation has no state. The end of a parent process that leaves PDF children behind.
* The plan of lexical queries, filters of listings, validation of the staging plan.

## 7. Plan

1. **Composition.** Acceptance with ingestion through `AcceptedArtifact` (the one
   already implements what the other assumes), `ProcedureCases` with the
   lifecycle through `PublishedWorkflow`, and `RequestGate` before `KeyedAnswers`.
2. **Repair** of stored answers in `WorkflowLifecycle` and `ProcedureCases`.
