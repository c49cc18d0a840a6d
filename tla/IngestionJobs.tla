--------------------------- MODULE IngestionJobs ----------------------------
(***************************************************************************)
(* Durable ingestion jobs, their leases and the workers that run them      *)
(* (src/src/ingestion/ingestionJobService.ts, ingestionWorker.ts and       *)
(* embeddings/tenantPgVectorRepository.ts), for one tenant.                *)
(*                                                                         *)
(* Every service call is one READ COMMITTED transaction and one action,    *)
(* except where another transaction can come in between and change what    *)
(* the call does: enqueue (insert, then look the conflict up) and complete *)
(* (lock lease, version and acceptance, then publish and commit).  Time is *)
(* counted in ticks left, so that leases and retry delays stay finite.     *)
(* Artifact acceptance is the environment specified by AcceptedArtifact.   *)
(***************************************************************************)
EXTENDS Naturals, FiniteSets, AcceptedArtifact

CONSTANTS Job,          \* rows that can be inserted
          Client,       \* enqueue calls; each is one request
          Worker,       \* TenantIngestionWorker instances
          Config,       \* pipeline configurations
          Key,          \* idempotency keys, each of one principal
          Requests,     \* the requests clients make
          Profile,      \* the configurations each worker is built for
          Retirable,    \* versions whose document an operator may (de)activate
          MaxAttempts,  \* bound on a request's max_attempts (10 in the code)
          LeaseTicks,   \* lease_expires_at - statement_timestamp() when granted
          RetryDelay,   \* ticks before the retry that follows each attempt
          NoJob, NoRequest

ASSUME IngestionConstants ==
  /\ MaxAttempts \in Nat \ {0}
  /\ LeaseTicks \in Nat \ {0}
  /\ RetryDelay \in [1 .. MaxAttempts -> Nat]
  /\ Requests \subseteq [key: Key, version: Version, config: Config, max: 1 .. MaxAttempts]
  /\ Profile \in [Worker -> SUBSET Config]
  /\ Retirable \subseteq Version
  /\ NoJob \notin Job
  /\ NoRequest \notin Requests

VARIABLES job,         \* rag.ingestion_jobs
          earlier,     \* for each job, those with an earlier available_at
          vectors,     \* the job whose generation rag.embedding_vectors holds, per version
          extraction,  \* document_versions.extraction_status
          active,      \* the versions whose document has status 'active'
          client,      \* what each enqueue call has reached and answered
          worker       \* the local state of each worker's runOnce

queueVars == <<job, earlier, vectors, extraction>>
vars == <<queueVars, active, client, worker, acceptanceVars>>

Row == [status: {"absent", "queued", "processing", "processed", "failed"},
        request: Requests \cup {NoRequest},
        attempts: 0 .. MaxAttempts,     \* attempt_count
        wait: Nat,                      \* ticks until available_at
        lease: 0 .. LeaseTicks,         \* ticks until lease_expires_at
        token: 0 .. MaxAttempts,        \* lease_token_sha256, 0 is NULL
        scan: ScanId \cup {NoScan}]     \* artifact_object_id, artifact_scan_id

AbsentRow == [status |-> "absent", request |-> NoRequest, attempts |-> 0, wait |-> 0,
              lease |-> 0, token |-> 0, scan |-> NoScan]

Answer == {"none", "new", "replay", "conflict", "duplicate_work", "error"}

ClientState == [pc: {"new", "resolving", "done"},
                request: Requests \cup {NoRequest},
                answer: Answer,
                job: Job \cup {NoJob}]

\* The phases of runOnce that end with a heartbeat checkpoint.
WorkPhase == {"resolving", "extracting", "embedding"}

WorkerState == [pc: {"idle", "completing", "publishing", "failing"} \cup WorkPhase,
                job: Job \cup {NoJob},
                token: 0 .. MaxAttempts,
                scan: ScanId \cup {NoScan},
                beat: {"none", "flying", "failed"},   \* inFlight and failure of LeaseHeartbeat
                retryable: BOOLEAN]                   \* of the failure to be reported

Idle == [pc |-> "idle", job |-> NoJob, token |-> 0, scan |-> NoScan,
         beat |-> "none", retryable |-> FALSE]

TypeOK ==
  /\ job \in [Job -> Row]
  /\ earlier \in [Job -> SUBSET Job]
  /\ vectors \in [Version -> Job \cup {NoJob}]
  /\ extraction \in [Version -> {"pending", "queued", "processed", "failed"}]
  /\ active \in SUBSET Version
  /\ client \in [Client -> ClientState]
  /\ worker \in [Worker -> WorkerState]
  /\ AcceptanceTypeOK

Init ==
  /\ job = [j \in Job |-> AbsentRow]
  /\ earlier = [j \in Job |-> {}]
  /\ vectors = [v \in Version |-> NoJob]
  /\ extraction = [v \in Version |-> "pending"]
  /\ active = Version
  /\ client = [c \in Client |-> [pc |-> "new", request |-> NoRequest,
                                 answer |-> "none", job |-> NoJob]]
  /\ worker = [w \in Worker |-> Idle]
  /\ AcceptanceInit
-----------------------------------------------------------------------------
JobVersion(j) == job[j].request.version

\* The fields work_sha256 is made of.
WorkOf(r) == <<r.version, r.config>>

Stored(j) == job[j].status # "absent"
Settled(j) == job[j].status \in {"processed", "failed"}

\* The statuses of the partial unique index on work_sha256.
LiveWork(j) == job[j].status \in {"queued", "processing", "processed"}

\* The rows the two unique indexes hold against a request.
KeyRows(r) == {j \in Job : Stored(j) /\ job[j].request.key = r.key}
WorkRows(r) == {j \in Job : LiveWork(j) /\ WorkOf(job[j].request) = WorkOf(r)}

\* Row locks held across actions: complete holds its job and its version (and
\* the accepted object), enqueue shares the version.
Publishing(w) == worker[w].pc = "publishing"
JobLocked(j) == \E w \in Worker : Publishing(w) /\ worker[w].job = j
VersionPublishing(v) == \E w \in Worker : Publishing(w) /\ JobVersion(worker[w].job) = v

\* Deviation: enqueue reads the version without FOR SHARE.
VersionLockedByPublisher(v) == VersionPublishing(v)

VersionLocked(v) ==
  \/ VersionPublishing(v)
  \/ \E c \in Client : client[c].pc = "resolving" /\ client[c].request.version = v

\* LOCK_LEASE_SQL, HEARTBEAT_SQL: the worker's token is the job's, and current.
HasLease(w) ==
  LET row == job[worker[w].job]
  IN  row.status = "processing" /\ row.token = worker[w].token /\ row.lease > 0

\* The order of available_at once j becomes available d ticks from now.
Enter(j, d) ==
  [k \in Job |->
     IF k = j THEN {i \in Job \ {j} : Stored(i) /\ job[i].wait <= d}
     ELSE IF Stored(k) /\ job[k].wait > d THEN earlier[k] \cup {j}
     ELSE earlier[k] \ {j}]

DropLease(row, status) == [row EXCEPT !.status = status, !.token = 0, !.lease = 0]
-----------------------------------------------------------------------------
(***************************************************************************)
(* enqueue                                                                 *)
(***************************************************************************)
Answered(c, r, answer, j) ==
  client' = [client EXCEPT ![c] = [pc |-> "done", request |-> r, answer |-> answer, job |-> j]]

\* Deviation: no unique index on the work.
EnqueueSameWork(c, r, j) ==
  /\ client[c].pc = "new"
  /\ r.version \in active
  /\ ~VersionPublishing(r.version)
  /\ KeyRows(r) = {}
  /\ ~Stored(j)
  /\ job' = [job EXCEPT ![j] = [AbsentRow EXCEPT !.status = "queued", !.request = r]]
  /\ earlier' = Enter(j, 0)
  /\ Answered(c, r, "new", j)
  /\ UNCHANGED <<vectors, extraction, active, worker, acceptanceVars>>

\* INSERT_JOB_SQL inserts: neither unique index is in the way.
EnqueueNew(c, r, j) ==
  /\ client[c].pc = "new"
  /\ r.version \in active
  /\ ~VersionPublishing(r.version)
  /\ KeyRows(r) = {} /\ WorkRows(r) = {}
  /\ ~Stored(j)
  /\ job' = [job EXCEPT ![j] = [AbsentRow EXCEPT !.status = "queued", !.request = r]]
  /\ earlier' = Enter(j, 0)
  /\ Answered(c, r, "new", j)
  /\ UNCHANGED <<vectors, extraction, active, worker, acceptanceVars>>

\* ON CONFLICT DO NOTHING leaves the conflict to be looked up by statements
\* of their own.
EnqueueConflicts(c, r) ==
  /\ client[c].pc = "new"
  /\ r.version \in active
  /\ ~VersionPublishing(r.version)
  /\ KeyRows(r) \cup WorkRows(r) # {}
  /\ client' = [client EXCEPT ![c].pc = "resolving", ![c].request = r]
  /\ UNCHANGED <<queueVars, active, worker, acceptanceVars>>

\* Deviation: the request digest of the key's row is not compared.
ReplayAnyRequest(c, j) ==
  /\ client[c].pc = "resolving"
  /\ j \in KeyRows(client[c].request)
  /\ Answered(c, client[c].request, "replay", j)
  /\ UNCHANGED <<queueVars, active, worker, acceptanceVars>>

\* The row of the idempotency key answers first ...
ResolveByKey(c, j) ==
  LET r == client[c].request
  IN  /\ client[c].pc = "resolving"
      /\ j \in KeyRows(r)
      /\ Answered(c, r, IF job[j].request = r THEN "replay" ELSE "conflict",
                  IF job[j].request = r THEN j ELSE NoJob)
      /\ UNCHANGED <<queueVars, active, worker, acceptanceVars>>

\* ... and the row of the same work otherwise.
ResolveByWork(c, j) ==
  LET r == client[c].request
  IN  /\ client[c].pc = "resolving"
      /\ KeyRows(r) = {}
      /\ j \in WorkRows(r)
      /\ Answered(c, r, "duplicate_work", j)
      /\ UNCHANGED <<queueVars, active, worker, acceptanceVars>>

\* enqueue throws and rolls back: the document is not active, the conflicting
\* row is gone (ingestion_claim_disappeared), or the database gives up, for
\* example on a deadlock between the version lock and a unique index.
EnqueueFails(c) ==
  /\ client[c].pc \in {"new", "resolving"}
  /\ Answered(c, NoRequest, "error", NoJob)
  /\ UNCHANGED <<queueVars, active, worker, acceptanceVars>>

Resolve(c) == \E j \in Job : ResolveByKey(c, j) \/ ResolveByWork(c, j)

Enqueue(c) ==
  \/ \E r \in Requests, j \in Job : EnqueueNew(c, r, j)
  \/ \E r \in Requests : EnqueueConflicts(c, r)
  \/ Resolve(c)
  \/ EnqueueFails(c)
-----------------------------------------------------------------------------
(***************************************************************************)
(* leaseNext                                                               *)
(***************************************************************************)
\* Deviation: lease_expires_at is not looked at.
AnyProcessing(j) == job[j].status = "processing"

Expired(j) == job[j].status = "processing" /\ job[j].lease = 0

\* EXHAUST_EXPIRED_SQL (fewer than its limit of 100 rows).
Exhausted == {j \in Job : /\ Expired(j)
                          /\ job[j].attempts >= job[j].request.max
                          /\ ~JobLocked(j)}

\* Deviation: attempt_count is not compared with max_attempts.
LeasableWhenSpent(j) ==
  /\ (job[j].status = "queued" /\ job[j].wait = 0) \/ Expired(j)
  /\ Valid(JobVersion(j))
  /\ ~JobLocked(j)

\* LEASE_NEXT_SQL, before ORDER BY.  The document's status is not looked at.
Leasable(j) ==
  /\ (job[j].status = "queued" /\ job[j].wait = 0) \/ Expired(j)
  /\ job[j].attempts < job[j].request.max
  /\ Valid(JobVersion(j))
  /\ ~JobLocked(j)

\* The first by available_at, but for rows another leaseNext may hold while
\* it waits for their version (SKIP LOCKED).
Candidate(j) ==
  /\ Leasable(j)
  /\ \A k \in earlier[j] : Leasable(k) => VersionLocked(JobVersion(k))

FailExhausted == [j \in Job |-> IF j \in Exhausted THEN DropLease(job[j], "failed") ELSE job[j]]

ExtractionExhausted ==
  [v \in Version |-> IF \E j \in Exhausted : JobVersion(j) = v THEN "failed" ELSE extraction[v]]

ExhaustedUnlocked == \A j \in Exhausted : ~VersionLocked(JobVersion(j))

\* Deviation: taking over an expired lease leaves the old token in place.
StaleToken(j) == IF job[j].token = 0 THEN job[j].attempts + 1 ELSE job[j].token

\* The random token generated for the lease; the attempt number stands for it.
FreshToken(j) == job[j].attempts + 1

\* leaseNext grants a lease.  The transaction also settles the jobs whose
\* last lease expired, and all of it rolls back if the leased job's document
\* is not active.
LeaseJob(w, j) ==
  /\ worker[w].pc = "idle"
  /\ Candidate(j)
  /\ ExhaustedUnlocked /\ ~VersionLocked(JobVersion(j))
  /\ JobVersion(j) \in active
  /\ job' = [FailExhausted EXCEPT ![j].status = "processing",
                                  ![j].attempts = job[j].attempts + 1,
                                  ![j].token = FreshToken(j),
                                  ![j].lease = LeaseTicks,
                                  ![j].scan = current[JobVersion(j)]]
  /\ worker' = [worker EXCEPT ![w] = [Idle EXCEPT !.pc = "resolving", !.job = j,
                                                  !.token = FreshToken(j),
                                                  !.scan = current[JobVersion(j)]]]
  /\ extraction' = ExtractionExhausted
  /\ UNCHANGED <<earlier, vectors, active, client, acceptanceVars>>

\* leaseNext finds nothing to lease and commits the exhausted jobs.
LeaseNone(w) ==
  /\ worker[w].pc = "idle"
  /\ Exhausted # {} /\ ExhaustedUnlocked
  /\ \A j \in Job : Leasable(j) => VersionLocked(JobVersion(j))
  /\ job' = FailExhausted
  /\ extraction' = ExtractionExhausted
  /\ UNCHANGED <<earlier, vectors, active, client, worker, acceptanceVars>>

-----------------------------------------------------------------------------
(***************************************************************************)
(* The worker's runOnce after the lease, and its heartbeat timer           *)
(***************************************************************************)
Working(w) == worker[w].pc \in WorkPhase

NextPhase == [resolving |-> "extracting", extracting |-> "embedding",
              embedding |-> "completing"]

RefreshLease(w) == job' = [job EXCEPT ![worker[w].job].lease = LeaseTicks]

\* The timer's heartbeat reaches the database; its answer is on the way back.
Beat(w) ==
  /\ Working(w) /\ worker[w].beat = "none"
  /\ ~JobLocked(worker[w].job)
  /\ HasLease(w)
  /\ RefreshLease(w)
  /\ worker' = [worker EXCEPT ![w].beat = "flying"]
  /\ UNCHANGED <<earlier, vectors, extraction, active, client, acceptanceVars>>

BeatAnswered(w) ==
  /\ worker[w].beat = "flying"
  /\ worker' = [worker EXCEPT ![w].beat = "none"]
  /\ UNCHANGED <<queueVars, active, client, acceptanceVars>>

\* The heartbeat is rejected, or fails in any other way.
BeatFails(w) ==
  /\ Working(w) /\ worker[w].beat = "none"
  /\ worker' = [worker EXCEPT ![w].beat = "failed"]
  /\ UNCHANGED <<queueVars, active, client, acceptanceVars>>

\* What the phase has to find before it reaches its checkpoint.  resolving:
\* the profile fits, and the resolver still finds the leased acceptance.
PhaseDone(w) ==
  worker[w].pc = "resolving" =>
    /\ job[worker[w].job].request.config \in Profile[w]
    /\ Valid(JobVersion(worker[w].job))
    /\ current[JobVersion(worker[w].job)] = worker[w].scan

EnterPhase(w) ==
  worker' = [worker EXCEPT ![w].pc = NextPhase[worker[w].pc], ![w].beat = "none"]

\* checkpoint sends a heartbeat of its own ...
Checkpoint(w) ==
  /\ Working(w) /\ PhaseDone(w) /\ worker[w].beat = "none"
  /\ ~JobLocked(worker[w].job)
  /\ HasLease(w)
  /\ RefreshLease(w)
  /\ EnterPhase(w)
  /\ UNCHANGED <<earlier, vectors, extraction, active, client, acceptanceVars>>

\* ... unless one is in flight, and then waits for that one only.
CheckpointJoinsBeat(w) ==
  /\ Working(w) /\ PhaseDone(w) /\ worker[w].beat = "flying"
  /\ EnterPhase(w)
  /\ UNCHANGED <<queueVars, active, client, acceptanceVars>>

\* The checkpoint finds the heartbeat failed: lease_lost, and fail is not
\* called.
CheckpointFails(w) ==
  /\ Working(w) /\ PhaseDone(w)
  /\ worker[w].beat = "failed" \/ (worker[w].beat = "none" /\ ~HasLease(w))
  /\ worker' = [worker EXCEPT ![w] = Idle]
  /\ UNCHANGED <<queueVars, active, client, acceptanceVars>>

ToFailing(w, retryable) ==
  worker' = [worker EXCEPT ![w].pc = "failing", ![w].retryable = retryable, ![w].beat = "none"]

\* Resolver, extractor or embedding provider fails, or a phase finds what it
\* needs missing; the error says whether to retry.
WorkFails(w, retryable) ==
  /\ Working(w)
  /\ ToFailing(w, retryable)
  /\ UNCHANGED <<queueVars, active, client, acceptanceVars>>

\* Deviation: the acceptance is not locked and compared at publication.
AcceptanceUnchecked(w) == TRUE

\* lock_valid_artifact_acceptance_v1 still finds the leased acceptance.
AcceptanceStands(w) ==
  /\ Valid(JobVersion(worker[w].job))
  /\ current[JobVersion(worker[w].job)] = worker[w].scan

\* Deviation: complete does not check that the lease is the caller's.
BeginUnfenced(w) ==
  /\ worker[w].pc = "completing"
  /\ ~JobLocked(worker[w].job)
  /\ ~VersionLocked(JobVersion(worker[w].job))
  /\ JobVersion(worker[w].job) \in active
  /\ AcceptanceStands(w)
  /\ worker' = [worker EXCEPT ![w].pc = "publishing"]
  /\ UNCHANGED <<queueVars, active, client, acceptanceVars>>

\* complete takes its locks: lease, version, acceptance.
BeginComplete(w) ==
  /\ worker[w].pc = "completing"
  /\ ~JobLocked(worker[w].job)
  /\ HasLease(w)
  /\ ~VersionLocked(JobVersion(worker[w].job))
  /\ JobVersion(worker[w].job) \in active
  /\ AcceptanceStands(w)
  /\ worker' = [worker EXCEPT ![w].pc = "publishing"]
  /\ UNCHANGED <<queueVars, active, client, acceptanceVars>>

\* ingestion_lease_rejected.
CompleteWithoutLease(w) ==
  /\ worker[w].pc = "completing"
  /\ ~HasLease(w)
  /\ worker' = [worker EXCEPT ![w] = Idle]
  /\ UNCHANGED <<queueVars, active, client, acceptanceVars>>

\* No active document is a final failure, a changed acceptance is not.
CompleteRefused(w) ==
  /\ worker[w].pc = "completing"
  /\ ~JobLocked(worker[w].job)
  /\ HasLease(w)
  /\ ~VersionLocked(JobVersion(worker[w].job))
  /\ \/ JobVersion(worker[w].job) \notin active /\ ToFailing(w, FALSE)
     \/ JobVersion(worker[w].job) \in active /\ ~AcceptanceStands(w) /\ ToFailing(w, TRUE)
  /\ UNCHANGED <<queueVars, active, client, acceptanceVars>>

LeaseHolds(w) == job[worker[w].job].lease > 0

\* Vectors, job and version are written and committed together.
Publish(w) ==
  LET j == worker[w].job
  IN  /\ Publishing(w)
      /\ LeaseHolds(w)
      /\ job' = [job EXCEPT ![j] = DropLease(job[j], "processed")]
      /\ vectors' = [vectors EXCEPT ![JobVersion(j)] = j]
      /\ extraction' = [extraction EXCEPT ![JobVersion(j)] = "processed"]
      /\ worker' = [worker EXCEPT ![w] = Idle]
      /\ UNCHANGED <<earlier, active, client, acceptanceVars>>

\* Deviation: the vectors are written outside the transaction.
PublishLateKeepsVectors(w) ==
  /\ Publishing(w)
  /\ ~LeaseHolds(w)
  /\ vectors' = [vectors EXCEPT ![JobVersion(worker[w].job)] = worker[w].job]
  /\ worker' = [worker EXCEPT ![w] = Idle]
  /\ UNCHANGED <<job, earlier, extraction, active, client, acceptanceVars>>

\* The lease ran out while the vectors were written: all of it rolls back.
PublishLate(w) ==
  /\ Publishing(w)
  /\ ~LeaseHolds(w)
  /\ worker' = [worker EXCEPT ![w] = Idle]
  /\ UNCHANGED <<queueVars, active, client, acceptanceVars>>

\* Deviation: vectors written before the error stay.
PublishFailsKeepsVectors(w) ==
  /\ worker[w].pc \in {"completing", "publishing"}
  /\ vectors' = [vectors EXCEPT ![JobVersion(worker[w].job)] = worker[w].job]
  /\ ToFailing(w, TRUE)
  /\ UNCHANGED <<job, earlier, extraction, active, client, acceptanceVars>>

\* The database or the vector repository raises; everything rolls back.
PublishFails(w) ==
  /\ worker[w].pc \in {"completing", "publishing"}
  /\ ToFailing(w, TRUE)
  /\ UNCHANGED <<queueVars, active, client, acceptanceVars>>

\* Deviation: the last attempt is retried as well.
RetryAlways(w) == worker[w].retryable

MayRetry(w) ==
  worker[w].retryable /\ job[worker[w].job].attempts < job[worker[w].job].request.max

\* fail: schedule another attempt ...
FailRetry(w) ==
  LET j == worker[w].job
      delay == RetryDelay[job[j].attempts]
  IN  /\ worker[w].pc = "failing"
      /\ HasLease(w) /\ ~JobLocked(j) /\ ~VersionLocked(JobVersion(j))
      /\ MayRetry(w)
      /\ job' = [job EXCEPT ![j] = [DropLease(job[j], "queued") EXCEPT !.wait = delay]]
      /\ earlier' = Enter(j, delay)
      /\ extraction' = [extraction EXCEPT ![JobVersion(j)] = "queued"]
      /\ worker' = [worker EXCEPT ![w] = Idle]
      /\ UNCHANGED <<vectors, active, client, acceptanceVars>>

\* ... or give the job up.
FailForGood(w) ==
  LET j == worker[w].job
  IN  /\ worker[w].pc = "failing"
      /\ HasLease(w) /\ ~JobLocked(j) /\ ~VersionLocked(JobVersion(j))
      /\ ~MayRetry(w)
      /\ job' = [job EXCEPT ![j] = DropLease(job[j], "failed")]
      /\ extraction' = [extraction EXCEPT ![JobVersion(j)] = "failed"]
      /\ worker' = [worker EXCEPT ![w] = Idle]
      /\ UNCHANGED <<earlier, vectors, active, client, acceptanceVars>>

\* lease_lost: somebody else has the job by now, or nobody.
FailWithoutLease(w) ==
  /\ worker[w].pc = "failing"
  /\ ~HasLease(w)
  /\ worker' = [worker EXCEPT ![w] = Idle]
  /\ UNCHANGED <<queueVars, active, client, acceptanceVars>>

\* The process dies, or fail itself does; an open transaction rolls back.
Crash(w) ==
  /\ worker[w].pc # "idle"
  /\ worker' = [worker EXCEPT ![w] = Idle]
  /\ UNCHANGED <<queueVars, active, client, acceptanceVars>>

Lease(w) == LeaseNone(w) \/ \E j \in Job : LeaseJob(w, j)

Heartbeat(w) == Beat(w) \/ BeatAnswered(w) \/ BeatFails(w)

Run(w) ==
  \/ Checkpoint(w) \/ CheckpointJoinsBeat(w) \/ CheckpointFails(w)
  \/ \E retryable \in BOOLEAN : WorkFails(w, retryable)
  \/ BeginComplete(w) \/ CompleteWithoutLease(w) \/ CompleteRefused(w)
  \/ Publish(w) \/ PublishLate(w) \/ PublishFails(w)
  \/ FailRetry(w) \/ FailForGood(w) \/ FailWithoutLease(w)
-----------------------------------------------------------------------------
(***************************************************************************)
(* Time, and what goes on around the queue                                 *)
(***************************************************************************)
Less(n) == IF n > 0 THEN n - 1 ELSE 0

Tick ==
  /\ \E j \in Job : job[j].wait > 0 \/ job[j].lease > 0
  /\ job' = [j \in Job |-> [job[j] EXCEPT !.wait = Less(job[j].wait),
                                          !.lease = Less(job[j].lease)]]
  /\ UNCHANGED <<earlier, vectors, extraction, active, client, worker, acceptanceVars>>

\* Acceptance moves on by itself, but complete keeps the accepted object
\* locked FOR SHARE.
AcceptanceMoves ==
  /\ \/ \E v \in Version, s \in ScanId : ~VersionPublishing(v) /\ Accept(v, s)
     \/ \E v \in Version : ~VersionPublishing(v) /\ Withdraw(v)
     \/ \E vs \in SUBSET Version : Lapse(vs)
  /\ UNCHANGED <<queueVars, active, client, worker>>

\* An operator retires or reinstates a document.
SetActive(v) ==
  /\ v \in Retirable
  /\ active' = IF v \in active THEN active \ {v} ELSE active \cup {v}
  /\ UNCHANGED <<queueVars, client, worker, acceptanceVars>>

Next ==
  \/ \E c \in Client : Enqueue(c)
  \/ \E w \in Worker : Lease(w)
  \/ \E w \in Worker : Heartbeat(w)
  \/ \E w \in Worker : Run(w)
  \/ \E w \in Worker : Crash(w)
  \/ Tick
  \/ AcceptanceMoves
  \/ \E v \in Version : SetActive(v)

Spec == Init /\ [][Next]_vars

\* A call in progress goes on, the worker polls for work, and time passes.
\* Nothing obliges a client to call, a worker to crash, or an inspector to
\* accept anything.
Fairness ==
  /\ \A c \in Client : WF_vars(Resolve(c))
  /\ \A w \in Worker : WF_vars(Lease(w)) /\ WF_vars(Run(w))
  /\ WF_vars(Tick)

FairSpec == Spec /\ Fairness
-----------------------------------------------------------------------------
(***************************************************************************)
(* Properties                                                              *)
(***************************************************************************)

\* No two workers hold a lease that the service would honour for one job,
\* although an earlier holder may still be running (the fencing token of
\* LOCK_LEASE_SQL and HEARTBEAT_SQL).
OneLeaseHolder ==
  \A u, w \in Worker :
    /\ worker[u].pc # "idle" /\ worker[w].pc # "idle"
    /\ worker[u].job = worker[w].job
    /\ HasLease(u) /\ HasLease(w)
    => u = w

\* While a generation is being written nobody takes the job away, not even
\* when the lease runs out meanwhile: the row lock of LOCK_LEASE_SQL lasts
\* until complete commits or rolls back.
PublisherKeepsJob ==
  \A w \in Worker : Publishing(w) =>
    LET row == job[worker[w].job]
    IN  row.status = "processing" /\ row.token = worker[w].token /\ row.scan = worker[w].scan

\* A lease is one worker's at a time, and the publisher's until it is done
\* (leaseNext, heartbeat, complete).
LeasesHold == OneLeaseHolder /\ PublisherKeepsJob

\* Work that is pending or done is in the queue once, and so is a key,
\* whatever the order of enqueues, failures and retries (the two unique
\* indexes of migration 005; D-056-05).
WorkQueuedOnce ==
  \A j, k \in Job : j # k /\ Stored(j) /\ Stored(k) =>
    /\ job[j].request.key # job[k].request.key
    /\ LiveWork(j) /\ LiveWork(k) => WorkOf(job[j].request) # WorkOf(job[k].request)

\* An enqueue that ran into a conflict still finds the conflicting row when
\* it looks it up: FOR SHARE on the version keeps the job from failing in
\* between (ingestion_claim_disappeared never happens by itself).
ClaimNeverDisappears ==
  \A c \in Client : client[c].pc = "resolving" =>
    KeyRows(client[c].request) \cup WorkRows(client[c].request) # {}

\* The answers of enqueue stay true of the rows they name: "new" and "replay"
\* name a job of exactly this request, "duplicate_work" one of the same work,
\* and no two calls are told that they created the same job.
AnswersNameTheirJob ==
  \A c \in Client :
    LET r == client[c].request
        j == client[c].job
    IN  /\ client[c].answer \in {"new", "replay"} => job[j].request = r
        /\ client[c].answer = "duplicate_work" => WorkOf(job[j].request) = WorkOf(r)
        /\ client[c].answer = "new" =>
             \A d \in Client : client[d].answer = "new" /\ client[d].job = j => d = c

\* Whatever enqueues collide, the queue holds each work and key once, and what
\* clients were told of it is and stays true (enqueue).
QueueConsistent == WorkQueuedOnce /\ ClaimNeverDisappears /\ AnswersNameTheirJob

\* A version that retrieval treats as processed has the vectors of a job that
\* succeeded, and no other job's vectors are ever visible (replaceDocumentVersion
\* and COMPLETE_JOB_SQL in one transaction; D-056-07).
VectorsOfProcessedJob ==
  \A v \in Version :
    /\ extraction[v] = "processed" => vectors[v] # NoJob
    /\ vectors[v] # NoJob =>
         job[vectors[v]].status = "processed" /\ JobVersion(vectors[v]) = v

\* A generation replaces another only under the acceptance its job was leased
\* with, by the scan that is the current one at that moment: an acceptance
\* withdrawn or replaced while the worker was busy never reaches retrieval
\* (lock_valid_artifact_acceptance_v1).
PublishedUnderCurrentAcceptance ==
  [][\A v \in Version : vectors'[v] # vectors[v] =>
       /\ current[v] # NoScan
       /\ job'[vectors'[v]].scan = current[v]]_vars

\* A settled job is never touched again, and the attempts of a job only grow
\* and never exceed what its request allows (EXHAUST_EXPIRED_SQL,
\* LEASE_NEXT_SQL, fail).
SettledForGood ==
  [][\A j \in Job :
       /\ Settled(j) => job'[j] = [job[j] EXCEPT !.wait = job'[j].wait]
       /\ job'[j].attempts >= job[j].attempts
       /\ Stored(j) => job'[j].attempts <= job[j].request.max]_vars

\* As long as a lease has not run out, only its holder settles or requeues the
\* job, and nobody else leases it.
OnlyHolderEndsLease ==
  [][\A j \in Job :
       job[j].status = "processing" /\ job[j].lease > 0
         /\ (job'[j].status # "processing" \/ job'[j].token # job[j].token) =>
           \E w \in Worker : /\ worker[w].job = j /\ worker[w].token = job[j].token
                             /\ worker[w].pc \in {"publishing", "failing"}
                             /\ worker'[w].pc = "idle"]_vars

\* A job goes from lease to lease to its one outcome, each ended by the holder
\* or by time alone (leaseNext, complete, fail).
LeaseHistory == SettledForGood /\ OnlyHolderEndsLease

\* Every job of the queue is settled in the end, through crashes, lost leases
\* and failed attempts, provided every version is eventually accepted for good
\* and its document active (attempt_count is charged at the lease).
EveryVersionServed == \A v \in Version : Valid(v) /\ v \in active

JobsSettle ==
  <>[]EveryVersionServed => \A j \in Job : Stored(j) ~> Settled(j)

ContractState(j) ==
  IF job[j].status \in {"queued", "processing"} THEN "pending" ELSE job[j].status

Contract == INSTANCE IngestionContract WITH
  Work <- Version \X Config,
  WorkVersion <- [x \in Version \X Config |-> x[1]],
  NoWork <- NoRequest,
  state <- [j \in Job |-> ContractState(j)],
  work <- [j \in Job |-> IF Stored(j) THEN WorkOf(job[j].request) ELSE NoRequest],
  published <- vectors

\* Attempts, leases and crashes are invisible to clients and to retrieval.
ImplementsContract == Contract!ContractSpec
=============================================================================
