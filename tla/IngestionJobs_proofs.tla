------------------------ MODULE IngestionJobs_proofs ------------------------
(***************************************************************************)
(* Proofs about IngestionJobs, for every number of jobs, clients, workers, *)
(* versions and scans and every value of the bounds.                       *)
(***************************************************************************)
EXTENDS IngestionJobs, TLAPS

\* What a row of the queue holds in each status: the token of a lease is the
\* number of its attempt, and only a job that may be attempted is queued.
Rows ==
  \A j \in Job :
    IF Stored(j)
    THEN /\ job[j].request \in Requests
         /\ job[j].attempts <= job[j].request.max
         /\ job[j].status = "queued" => job[j].attempts < job[j].request.max
         /\ IF job[j].status = "processing"
            THEN job[j].attempts > 0 /\ job[j].token = job[j].attempts /\ job[j].scan \in ScanId
            ELSE job[j].token = 0 /\ job[j].lease = 0
    ELSE job[j] = AbsentRow

\* A worker that is not idle works on an attempt that was made, with the scan of
\* its own lease.
Holders ==
  \A w \in Worker : worker[w].pc # "idle" =>
    /\ worker[w].job \in Job /\ Stored(worker[w].job)
    /\ worker[w].token > 0 /\ worker[w].token <= job[worker[w].job].attempts
    /\ job[worker[w].job].token = worker[w].token => job[worker[w].job].scan = worker[w].scan

\* Every attempt is one worker's.
OneWorkerPerAttempt ==
  \A u, w \in Worker :
    worker[u].pc # "idle" /\ worker[w].pc # "idle"
      /\ worker[u].job = worker[w].job /\ worker[u].token = worker[w].token => u = w

\* A heartbeat is under way, or has failed, only in a phase that ends with one.
BeatsInPhases == \A w \in Worker : worker[w].beat # "none" => Working(w)

\* A publisher's lease is the job's, and its scan the current acceptance.
PublishersStand ==
  \A w \in Worker : Publishing(w) =>
    /\ job[worker[w].job].status = "processing"
    /\ job[worker[w].job].token = worker[w].token
    /\ current[JobVersion(worker[w].job)] = worker[w].scan

\* A client that resolves a conflict has a request; one that was told of a job
\* was told of one that is stored.
Callers ==
  \A c \in Client :
    /\ client[c].pc = "resolving" => client[c].request \in Requests
    /\ client[c].pc # "done" => client[c].answer = "none"
    /\ client[c].answer \in {"new", "replay", "duplicate_work"} =>
         client[c].job \in Job /\ Stored(client[c].job)

ShapeInv == TypeOK /\ Rows /\ Holders /\ OneWorkerPerAttempt /\ BeatsInPhases
              /\ PublishersStand /\ Callers
-----------------------------------------------------------------------------
(***************************************************************************)
(* What a step does to one row                                             *)
(***************************************************************************)
\* Time passes for the row, or the holder renews its lease.
RowKept(j) ==
  /\ job'[j].status = job[j].status /\ job'[j].request = job[j].request
  /\ job'[j].attempts = job[j].attempts /\ job'[j].token = job[j].token
  /\ job'[j].scan = job[j].scan
  /\ job[j].status # "processing" /\ job[j].lease = 0 => job'[j].lease = 0
  /\ ~Stored(j) => job'[j] = job[j]

\* A request enters the queue.
RowEnters(j) ==
  /\ ~Stored(j)
  /\ job'[j].status = "queued" /\ job'[j].request \in Requests
  /\ job'[j].attempts = 0 /\ job'[j].token = 0 /\ job'[j].lease = 0
  /\ \E c \in Client, r \in Requests : EnqueueNew(c, r, j) /\ job'[j].request = r

\* A worker leases the job for its next attempt.
RowLeased(j) ==
  /\ Stored(j) /\ Leasable(j)
  /\ job'[j].status = "processing" /\ job'[j].request = job[j].request
  /\ job'[j].attempts = job[j].attempts + 1 /\ job'[j].token = job[j].attempts + 1
  /\ job'[j].scan = current[JobVersion(j)] /\ job'[j].scan \in ScanId
  /\ \E w \in Worker : LeaseJob(w, j)

\* The attempt is over: it succeeded, failed for good or is to be repeated.
RowEnds(j) ==
  /\ job[j].status = "processing"
  /\ job'[j].request = job[j].request /\ job'[j].attempts = job[j].attempts
  /\ job'[j].token = 0 /\ job'[j].lease = 0
  /\ \/ /\ job'[j].status = "processed"
        /\ \E w \in Worker : Publish(w) /\ worker[w].job = j
     \/ /\ job'[j].status = "failed" /\ ~VersionLocked(JobVersion(j)) /\ ~JobLocked(j)
        /\ \/ j \in Exhausted /\ \E w \in Worker : Lease(w)
           \/ \E w \in Worker : FailForGood(w) /\ worker[w].job = j
     \/ /\ job'[j].status = "queued" /\ job[j].attempts < job[j].request.max /\ ~JobLocked(j)
        /\ \E w \in Worker : FailRetry(w) /\ worker[w].job = j

RowMoves(j) == RowKept(j) \/ RowEnters(j) \/ RowLeased(j) \/ RowEnds(j)

\* What the types say of one row, one request, one worker and one client.
LEMMA RowTyped ==
  ASSUME TypeOK, NEW j \in Job
  PROVE  /\ job[j] \in Row
         /\ job[j].attempts \in Nat /\ job[j].token \in Nat /\ job[j].lease \in Nat
         /\ job[j].wait \in Nat /\ job[j].lease <= LeaseTicks /\ job[j].attempts <= MaxAttempts
         /\ job[j].status \in {"absent", "queued", "processing", "processed", "failed"}
         /\ job[j].request \in Requests \cup {NoRequest}
  BY IngestionConstants DEF TypeOK, Row

\* A request has a key, work to do and a bounded number of attempts.
LEMMA RequestTyped ==
  ASSUME NEW r \in Requests
  PROVE  /\ r.key \in Key /\ r.version \in Version /\ r.config \in Config
         /\ r.max \in Nat /\ r.max > 0 /\ r.max <= MaxAttempts
  BY IngestionConstants

\* The same of a worker: its phase, its lease and its heartbeat.
LEMMA WorkerTyped ==
  ASSUME TypeOK, NEW w \in Worker
  PROVE  /\ worker[w] \in WorkerState
         /\ worker[w].pc \in {"idle", "completing", "publishing", "failing",
                              "resolving", "extracting", "embedding"}
         /\ worker[w].job \in Job \cup {NoJob}
         /\ worker[w].token \in Nat
         /\ worker[w].scan \in ScanId \cup {NoScan}
         /\ worker[w].beat \in {"none", "flying", "failed"}
         /\ worker[w].retryable \in BOOLEAN
  BY DEF TypeOK, WorkerState, WorkPhase

\* The constants, by themselves.
LEMMA ConstantsTyped ==
  /\ MaxAttempts \in Nat /\ LeaseTicks \in Nat /\ NoJob \notin Job /\ NoRequest \notin Requests
  /\ NoScan \notin ScanId
  BY IngestionConstants, NoScanAssumption

\* Shapes of a changed row.
LEMMA RowChanges ==
  ASSUME NEW x \in Row,
         NEW status \in {"absent", "queued", "processing", "processed", "failed"}
  PROVE  /\ DropLease(x, status) \in Row
         /\ DropLease(x, status).status = status
         /\ DropLease(x, status).request = x.request
         /\ DropLease(x, status).attempts = x.attempts
         /\ DropLease(x, status).token = 0 /\ DropLease(x, status).lease = 0
         /\ DropLease(x, status).scan = x.scan
         /\ DropLease(x, status).wait = x.wait
<1>1. DropLease(x, status) =
        [status |-> status, request |-> x.request, attempts |-> x.attempts, wait |-> x.wait,
         lease |-> 0, token |-> 0, scan |-> x.scan]
  <2>1. DropLease(x, status) = [x EXCEPT !.status = status, !.token = 0, !.lease = 0]
    BY DEF DropLease
  <2> QED
    BY <2>1 DEF Row
<1> QED
  BY <1>1, ConstantsTyped DEF Row

\* Expired jobs without attempts left fail together.
LEMMA ExhaustedRow ==
  ASSUME TypeOK, Rows, ExhaustedUnlocked, NEW w \in Worker, Lease(w), NEW j \in Job, j \in Exhausted,
         job'[j] = DropLease(job[j], "failed")
  PROVE  job'[j] \in Row /\ RowEnds(j)
<1>1. job[j].status = "processing" /\ ~JobLocked(j) /\ ~VersionLocked(JobVersion(j))
  BY DEF Exhausted, Expired, ExhaustedUnlocked
<1>2. job[j] \in Row
  BY RowTyped
<1> QED
  BY <1>1, <1>2, RowChanges DEF RowEnds

\* A worker is alone with the row it may still write.
LEMMA HolderRow ==
  ASSUME ShapeInv, NEW w \in Worker, worker[w].pc # "idle"
  PROVE  /\ worker[w].job \in Job /\ Stored(worker[w].job)
         /\ job[worker[w].job] \in Row /\ job[worker[w].job].request \in Requests
         /\ JobVersion(worker[w].job) \in Version
         /\ HasLease(w) => /\ job[worker[w].job].status = "processing"
                           /\ job[worker[w].job].attempts \in 1 .. MaxAttempts
                           /\ job[worker[w].job].scan = worker[w].scan
<1>1. worker[w].job \in Job /\ Stored(worker[w].job)
  BY DEF ShapeInv, Holders
<1>2. /\ job[worker[w].job] \in Row /\ job[worker[w].job].request \in Requests
      /\ job[worker[w].job].status = "processing" => job[worker[w].job].attempts > 0
  BY <1>1 DEF ShapeInv, Rows, TypeOK
<1>3. JobVersion(worker[w].job) \in Version
  BY <1>2, RequestTyped DEF JobVersion
<1>4. HasLease(w) => /\ job[worker[w].job].status = "processing"
                     /\ job[worker[w].job].scan = worker[w].scan
  BY DEF ShapeInv, Holders, HasLease
<1>5. job[worker[w].job].attempts \in 0 .. MaxAttempts
  BY <1>2 DEF Row
<1> QED
  BY <1>1, <1>2, <1>3, <1>4, <1>5, ConstantsTyped

\* Every step moves every row in one of the four ways.
LEMMA RowStep ==
  ASSUME ShapeInv, [Next]_vars, NEW j \in Job
  PROVE  job'[j] \in Row /\ RowMoves(j)
<1>1. /\ job \in [Job -> Row] /\ job[j] \in Row
      /\ ~Stored(j) => job[j] = AbsentRow
      /\ Stored(j) => job[j].request \in Requests /\ job[j].attempts <= job[j].request.max
  BY DEF ShapeInv, TypeOK, Rows
<1>2. ASSUME job'[j] = job[j] PROVE job'[j] \in Row /\ RowMoves(j)
  BY <1>1, <1>2 DEF RowMoves, RowKept
<1>3. CASE UNCHANGED job
  BY <1>2, <1>3
<1>4. ASSUME NEW c \in Client, NEW r \in Requests, NEW k \in Job, EnqueueNew(c, r, k)
      PROVE  job'[j] \in Row /\ RowMoves(j)
  <2>1. CASE j = k
    <3>1. job'[j] = [AbsentRow EXCEPT !.status = "queued", !.request = r]
      BY <1>1, <1>4, <2>1 DEF EnqueueNew
    <3>2. job'[j] = [status |-> "queued", request |-> r, attempts |-> 0, wait |-> 0,
                     lease |-> 0, token |-> 0, scan |-> NoScan]
      BY <3>1 DEF AbsentRow
    <3>3. job'[j] \in Row
      BY <3>2, ConstantsTyped DEF Row
    <3>4. ~Stored(j)
      BY <1>4, <2>1 DEF EnqueueNew
    <3>5. RowEnters(j)
      BY <1>4, <2>1, <3>2, <3>4 DEF RowEnters
    <3> QED
      BY <3>3, <3>5 DEF RowMoves
  <2>2. CASE j # k
    <3>1. job'[j] = job[j]
      BY <1>1, <1>4, <2>2 DEF EnqueueNew
    <3> QED
      BY <1>2, <3>1
  <2> QED
    BY <2>1, <2>2
<1>5. ASSUME NEW w \in Worker, NEW k \in Job, LeaseJob(w, k)
      PROVE  job'[j] \in Row /\ RowMoves(j)
  <2>1. ExhaustedUnlocked /\ Leasable(k) /\ JobVersion(k) \in active
    BY <1>5 DEF LeaseJob, Candidate
  <2>2. k \notin Exhausted
    <3>1. job[k].attempts \in Nat /\ job[k].attempts < job[k].request.max
      BY <2>1, RowTyped DEF Leasable, ShapeInv
    <3>2. job[k].request \in Requests
      BY <2>1 DEF Leasable, Expired, ShapeInv, Rows, Stored
    <3> QED
      BY <3>1, <3>2, RequestTyped DEF Exhausted
  <2>3. CASE j = k
    <3>1. job'[j] = [job[j] EXCEPT !.status = "processing", !.attempts = job[j].attempts + 1,
                                   !.token = job[j].attempts + 1, !.lease = LeaseTicks,
                                   !.scan = current[JobVersion(j)]]
      BY <1>1, <1>5, <2>2, <2>3 DEF LeaseJob, FailExhausted, FreshToken
    <3>2. job'[j] = [status |-> "processing", request |-> job[j].request,
                     attempts |-> job[j].attempts + 1, wait |-> job[j].wait,
                     lease |-> LeaseTicks, token |-> job[j].attempts + 1,
                     scan |-> current[JobVersion(j)]]
      BY <1>1, <3>1 DEF Row
    <3>3. Stored(j) /\ job[j].request \in Requests /\ job[j].attempts < job[j].request.max
      BY <1>1, <2>1, <2>3 DEF Leasable, Expired, Stored
    <3>4. JobVersion(j) \in Version /\ job[j].request.max \in Nat
          /\ job[j].request.max <= MaxAttempts
      BY <3>3, RequestTyped DEF JobVersion
    <3>5. job[j].attempts \in 0 .. MaxAttempts /\ job[j].attempts + 1 \in 0 .. MaxAttempts
      BY <1>1, <3>3, <3>4, ConstantsTyped DEF Row
    <3>6. current[JobVersion(j)] \in ScanId
      BY <2>1, <2>3, <3>4 DEF Leasable, Valid, ShapeInv, TypeOK, AcceptanceTypeOK
    <3>7. job'[j] \in Row
      BY <1>1, <3>2, <3>5, <3>6, ConstantsTyped DEF Row
    <3>8. RowLeased(j)
      BY <1>5, <2>1, <2>3, <3>2, <3>3, <3>6 DEF RowLeased
    <3> QED
      BY <3>7, <3>8 DEF RowMoves
  <2>4. CASE j # k /\ j \in Exhausted
    <3>1. job'[j] = DropLease(job[j], "failed")
      BY <1>5, <2>4 DEF LeaseJob, FailExhausted
    <3> QED
      BY <1>5, <2>1, <2>4, <3>1, ExhaustedRow DEF RowMoves, ShapeInv, Lease
  <2>5. CASE j # k /\ j \notin Exhausted
    <3>1. job'[j] = job[j]
      BY <1>5, <2>5 DEF LeaseJob, FailExhausted
    <3> QED
      BY <1>2, <3>1
  <2> QED
    BY <2>3, <2>4, <2>5
<1>6. ASSUME NEW w \in Worker, LeaseNone(w) PROVE job'[j] \in Row /\ RowMoves(j)
  <2>1. CASE j \in Exhausted
    <3>1. job'[j] = DropLease(job[j], "failed") /\ ExhaustedUnlocked
      BY <1>6, <2>1 DEF LeaseNone, FailExhausted
    <3> QED
      BY <1>6, <2>1, <3>1, ExhaustedRow DEF RowMoves, ShapeInv, Lease
  <2>2. CASE j \notin Exhausted
    <3>1. job'[j] = job[j]
      BY <1>6, <2>2 DEF LeaseNone, FailExhausted
    <3> QED
      BY <1>2, <3>1
  <2> QED
    BY <2>1, <2>2
<1>7. ASSUME NEW w \in Worker, HasLease(w), RefreshLease(w), Working(w)
      PROVE  job'[j] \in Row /\ RowMoves(j)
  <2>1. CASE j = worker[w].job
    <3>1. job'[j] = [job[j] EXCEPT !.lease = LeaseTicks]
      BY <1>1, <1>7, <2>1 DEF RefreshLease
    <3>2. job[j].status = "processing"
      BY <1>7, <2>1 DEF HasLease
    <3>3. job'[j] = [status |-> "processing", request |-> job[j].request,
                     attempts |-> job[j].attempts, wait |-> job[j].wait,
                     lease |-> LeaseTicks, token |-> job[j].token, scan |-> job[j].scan]
      BY <1>1, <3>1, <3>2 DEF Row
    <3>4. job'[j] \in Row
      BY <1>1, <3>3, ConstantsTyped DEF Row
    <3> QED
      BY <3>2, <3>3, <3>4 DEF RowMoves, RowKept, Stored
  <2>2. CASE j # worker[w].job
    <3>1. job'[j] = job[j]
      BY <1>1, <1>7, <2>2 DEF RefreshLease
    <3> QED
      BY <1>2, <3>1
  <2> QED
    BY <2>1, <2>2
<1>8. ASSUME NEW w \in Worker, Publish(w) PROVE job'[j] \in Row /\ RowMoves(j)
  <2>1. CASE j = worker[w].job
    <3>1. job'[j] = DropLease(job[j], "processed")
      BY <1>1, <1>8, <2>1 DEF Publish
    <3>2. job[j].status = "processing"
      BY <1>8, <2>1 DEF Publish, ShapeInv, PublishersStand
    <3> QED
      BY <1>1, <1>8, <2>1, <3>1, <3>2, RowChanges DEF RowMoves, RowEnds
  <2>2. CASE j # worker[w].job
    <3>1. job'[j] = job[j]
      BY <1>1, <1>8, <2>2 DEF Publish
    <3> QED
      BY <1>2, <3>1
  <2> QED
    BY <2>1, <2>2
<1>9. ASSUME NEW w \in Worker, FailForGood(w) PROVE job'[j] \in Row /\ RowMoves(j)
  <2>1. CASE j = worker[w].job
    <3>1. job'[j] = DropLease(job[j], "failed")
      BY <1>1, <1>9, <2>1 DEF FailForGood
    <3>2. job[j].status = "processing" /\ ~VersionLocked(JobVersion(j)) /\ ~JobLocked(j)
      BY <1>9, <2>1 DEF FailForGood, HasLease
    <3> QED
      BY <1>1, <1>9, <2>1, <3>1, <3>2, RowChanges DEF RowMoves, RowEnds
  <2>2. CASE j # worker[w].job
    <3>1. job'[j] = job[j]
      BY <1>1, <1>9, <2>2 DEF FailForGood
    <3> QED
      BY <1>2, <3>1
  <2> QED
    BY <2>1, <2>2
<1>10. ASSUME NEW w \in Worker, FailRetry(w) PROVE job'[j] \in Row /\ RowMoves(j)
  <2>1. CASE j = worker[w].job
    <3> DEFINE x == DropLease(job[j], "queued")
    <3>1. job'[j] = [x EXCEPT !.wait = RetryDelay[job[j].attempts]]
      BY <1>1, <1>10, <2>1 DEF FailRetry
    <3>2. job[j].status = "processing" /\ job[j].attempts < job[j].request.max /\ ~JobLocked(j)
      BY <1>10, <2>1 DEF FailRetry, HasLease, MayRetry
    <3>3. RetryDelay[job[j].attempts] \in Nat
      <4>1. worker[w].pc # "idle" /\ HasLease(w)
        BY <1>10 DEF FailRetry
      <4> QED
        BY <2>1, <4>1, HolderRow, IngestionConstants
    <3>4. x \in Row /\ x.status = "queued" /\ x.request = job[j].request
          /\ x.attempts = job[j].attempts /\ x.token = 0 /\ x.lease = 0 /\ x.scan = job[j].scan
      BY <1>1, RowChanges
    <3> HIDE DEF x
    <3>5. job'[j] = [status |-> "queued", request |-> job[j].request,
                     attempts |-> job[j].attempts, wait |-> RetryDelay[job[j].attempts],
                     lease |-> 0, token |-> 0, scan |-> job[j].scan]
      BY <3>1, <3>4 DEF Row
    <3>6. job'[j] \in Row
      BY <1>1, <3>3, <3>5, ConstantsTyped DEF Row
    <3>7. RowEnds(j)
      BY <1>10, <2>1, <3>2, <3>5 DEF RowEnds
    <3> QED
      BY <3>6, <3>7 DEF RowMoves
  <2>2. CASE j # worker[w].job
    <3>1. job'[j] = job[j]
      BY <1>1, <1>10, <2>2 DEF FailRetry
    <3> QED
      BY <1>2, <3>1
  <2> QED
    BY <2>1, <2>2
<1>11. CASE Tick
  <2>1. job'[j] = [job[j] EXCEPT !.wait = Less(job[j].wait), !.lease = Less(job[j].lease)]
    BY <1>11 DEF Tick
  <2>2. /\ job[j].wait \in Nat /\ job[j].lease \in Nat /\ job[j].lease <= LeaseTicks
        /\ Less(job[j].wait) \in Nat /\ Less(job[j].lease) \in 0 .. LeaseTicks
        /\ job[j].lease = 0 => Less(job[j].lease) = 0
    BY RowTyped, ConstantsTyped DEF Less, ShapeInv
  <2>3. job'[j] = [status |-> job[j].status, request |-> job[j].request,
                   attempts |-> job[j].attempts, wait |-> Less(job[j].wait),
                   lease |-> Less(job[j].lease), token |-> job[j].token, scan |-> job[j].scan]
    BY <1>1, <2>1 DEF Row
  <2>4. job'[j] \in Row
    BY <1>1, <2>2, <2>3 DEF Row
  <2>5. ~Stored(j) => job'[j] = job[j]
    BY <1>1, <2>3 DEF AbsentRow, Less
  <2> QED
    BY <2>2, <2>3, <2>4, <2>5 DEF RowMoves, RowKept
<1> QED
  BY <1>3, <1>4, <1>5, <1>6, <1>7, <1>8, <1>9, <1>10, <1>11
  DEF Next, vars, queueVars, Enqueue, Resolve, Lease, Heartbeat, Run, EnqueueConflicts,
      ResolveByKey, ResolveByWork, EnqueueFails, Beat, BeatAnswered, BeatFails, Checkpoint,
      CheckpointJoinsBeat, CheckpointFails, WorkFails, BeginComplete, CompleteWithoutLease,
      CompleteRefused, PublishLate, PublishFails, FailWithoutLease, Crash, AcceptanceMoves,
      SetActive
-----------------------------------------------------------------------------
(***************************************************************************)
(* What a step does to one worker and to one client                        *)
(***************************************************************************)
\* The worker goes on with its attempt.
WorkerKept(w) ==
  /\ worker[w].pc # "idle" /\ worker'[w].pc # "idle"
  /\ worker'[w].job = worker[w].job /\ worker'[w].token = worker[w].token
  /\ worker'[w].scan = worker[w].scan
  /\ worker'[w].pc = "publishing" => BeginComplete(w)
  /\ worker'[w].beat # "none" => worker'[w].pc \in WorkPhase

\* It begins the attempt it has leased.
WorkerLeases(w) ==
  \E j \in Job :
    /\ LeaseJob(w, j)
    /\ worker'[w].pc = "resolving" /\ worker'[w].job = j /\ worker'[w].beat = "none"
    /\ worker'[w].token = job[j].attempts + 1 /\ worker'[w].scan = current[JobVersion(j)]

WorkerMoves(w) ==
  worker'[w] = worker[w] \/ worker'[w] = Idle \/ WorkerKept(w) \/ WorkerLeases(w)

\* A worker without a lease has the declared shape.
LEMMA IdleTyped == Idle \in WorkerState /\ Idle.pc = "idle"
  BY ConstantsTyped DEF Idle, WorkerState, WorkPhase

\* A worker's step that keeps its attempt.
LEMMA WorkerGoesOn ==
  ASSUME TypeOK, NEW w \in Worker, NEW u \in Worker, worker[w].pc # "idle",
         NEW pc \in WorkPhase \cup {"completing", "publishing", "failing"},
         NEW retryable \in BOOLEAN,
         worker'[w] = [pc |-> pc, job |-> worker[w].job, token |-> worker[w].token,
                       scan |-> worker[w].scan, beat |-> "none", retryable |-> retryable],
         \A v \in Worker \ {w} : worker'[v] = worker[v],
         pc = "publishing" => BeginComplete(w)
  PROVE  worker'[u] \in WorkerState /\ WorkerMoves(u)
<1>1. worker[u] \in WorkerState
  BY DEF TypeOK
<1>2. CASE u = w
  <2>1. worker'[u] \in WorkerState
    BY <1>1, <1>2 DEF WorkerState
  <2>2. pc # "idle"
    BY DEF WorkPhase
  <2>3. WorkerKept(u)
    BY <1>2, <2>2 DEF WorkerKept
  <2> QED
    BY <2>1, <2>3 DEF WorkerMoves
<1>3. CASE u # w
  BY <1>1, <1>3 DEF WorkerMoves
<1> QED
  BY <1>2, <1>3

\* A worker's step that ends its attempt.
LEMMA WorkerStops ==
  ASSUME TypeOK, NEW w \in Worker, NEW u \in Worker, worker' = [worker EXCEPT ![w] = Idle]
  PROVE  worker'[u] \in WorkerState /\ WorkerMoves(u)
  BY IdleTyped DEF TypeOK, WorkerMoves

\* Every step moves every worker in one of the four ways.
LEMMA WorkerStep ==
  ASSUME ShapeInv, [Next]_vars, NEW u \in Worker
  PROVE  worker'[u] \in WorkerState /\ WorkerMoves(u)
<1>1. TypeOK /\ worker \in [Worker -> WorkerState]
  BY DEF ShapeInv, TypeOK
<1>2. CASE UNCHANGED worker
  BY <1>1, <1>2 DEF WorkerMoves
<1>3. ASSUME NEW w \in Worker, NEW j \in Job, LeaseJob(w, j)
      PROVE  worker'[u] \in WorkerState /\ WorkerMoves(u)
  <2>1. CASE u = w
    <3>1. worker'[u] = [Idle EXCEPT !.pc = "resolving", !.job = j,
                                    !.token = job[j].attempts + 1,
                                    !.scan = current[JobVersion(j)]]
      BY <1>1, <1>3, <2>1 DEF LeaseJob, FreshToken
    <3>2. worker'[u] = [pc |-> "resolving", job |-> j, token |-> job[j].attempts + 1,
                        scan |-> current[JobVersion(j)], beat |-> "none", retryable |-> FALSE]
      BY <3>1 DEF Idle
    <3>3. job'[j] \in Row /\ RowMoves(j)
      BY RowStep
    <3>4. Leasable(j)
      BY <1>3 DEF LeaseJob, Candidate
    <3>5. job[j].request \in Requests /\ job[j].attempts < job[j].request.max
      BY <3>4 DEF Leasable, Expired, ShapeInv, Rows, Stored
    <3>6. current[JobVersion(j)] \in ScanId
      BY <3>4, <3>5, RequestTyped DEF Leasable, Valid, JobVersion, ShapeInv, TypeOK, AcceptanceTypeOK
    <3>7. job[j].attempts + 1 \in 0 .. MaxAttempts
      BY <1>1, <3>5, RowTyped, RequestTyped, ConstantsTyped
    <3>8. worker'[u] \in WorkerState
      BY <3>2, <3>6, <3>7 DEF WorkerState, WorkPhase
    <3> QED
      BY <1>3, <2>1, <3>2, <3>8 DEF WorkerMoves, WorkerLeases
  <2>2. CASE u # w
    BY <1>1, <1>3, <2>2 DEF LeaseJob, WorkerMoves
  <2> QED
    BY <2>1, <2>2
<1>4. ASSUME NEW w \in Worker, worker' = [worker EXCEPT ![w] = Idle]
      PROVE  worker'[u] \in WorkerState /\ WorkerMoves(u)
  BY <1>1, <1>4, WorkerStops
<1>5. ASSUME NEW w \in Worker, Beat(w) \/ BeatFails(w) \/ BeatAnswered(w)
      PROVE  worker'[u] \in WorkerState /\ WorkerMoves(u)
  <2>1. PICK beat \in {"none", "flying", "failed"} : worker' = [worker EXCEPT ![w].beat = beat]
    BY <1>5 DEF Beat, BeatFails, BeatAnswered
  <2>2. CASE u = w
    <3>1. worker'[u] = [worker[u] EXCEPT !.beat = beat] /\ worker[u] \in WorkerState
      BY <1>1, <2>1, <2>2
    <3>2. worker'[u] = [pc |-> worker[u].pc, job |-> worker[u].job, token |-> worker[u].token,
                        scan |-> worker[u].scan, beat |-> beat, retryable |-> worker[u].retryable]
      BY <3>1 DEF WorkerState
    <3>3. worker'[u] \in WorkerState
      BY <3>1, <3>2 DEF WorkerState
    <3>4. worker[u].pc \in WorkPhase
      BY <1>5, <2>2 DEF Beat, BeatFails, BeatAnswered, Working, ShapeInv, BeatsInPhases
    <3> QED
      BY <3>2, <3>3, <3>4 DEF WorkerMoves, WorkerKept, WorkPhase
  <2>3. CASE u # w
    BY <1>1, <2>1, <2>3 DEF WorkerMoves
  <2> QED
    BY <2>2, <2>3
<1>6. ASSUME NEW w \in Worker, Checkpoint(w) \/ CheckpointJoinsBeat(w)
      PROVE  worker'[u] \in WorkerState /\ WorkerMoves(u)
  <2>1. Working(w) /\ worker' = [worker EXCEPT ![w].pc = NextPhase[worker[w].pc], ![w].beat = "none"]
    BY <1>6 DEF Checkpoint, CheckpointJoinsBeat, EnterPhase
  <2>2. PICK pc \in {"extracting", "embedding", "completing"} : pc = NextPhase[worker[w].pc]
    BY <2>1 DEF NextPhase, Working, WorkPhase
  <2>3. worker[w] \in WorkerState /\ worker[w].pc # "idle"
    BY <1>1, <2>1 DEF Working, WorkPhase
  <2>4. /\ worker'[w] = [worker[w] EXCEPT !.pc = pc, !.beat = "none"]
        /\ \A v \in Worker \ {w} : worker'[v] = worker[v]
    BY <1>1, <2>1, <2>2
  <2>5. worker'[w] = [pc |-> pc, job |-> worker[w].job, token |-> worker[w].token,
                      scan |-> worker[w].scan, beat |-> "none", retryable |-> worker[w].retryable]
    BY <2>3, <2>4 DEF WorkerState
  <2>6. worker[w].retryable \in BOOLEAN
    BY <1>1, WorkerTyped
  <2> QED
    BY <1>1, <2>3, <2>4, <2>5, <2>6, WorkerGoesOn DEF WorkPhase
<1>7. ASSUME NEW w \in Worker, NEW retryable \in BOOLEAN, ToFailing(w, retryable),
             worker[w].pc # "idle"
      PROVE  worker'[u] \in WorkerState /\ WorkerMoves(u)
  <2>1. /\ worker'[w] = [worker[w] EXCEPT !.pc = "failing", !.retryable = retryable, !.beat = "none"]
        /\ \A v \in Worker \ {w} : worker'[v] = worker[v]
        /\ worker[w] \in WorkerState
    BY <1>1, <1>7 DEF ToFailing
  <2>2. worker'[w] = [pc |-> "failing", job |-> worker[w].job, token |-> worker[w].token,
                      scan |-> worker[w].scan, beat |-> "none", retryable |-> retryable]
    BY <2>1 DEF WorkerState
  <2> QED
    BY <1>1, <1>7, <2>1, <2>2, WorkerGoesOn
<1>8. ASSUME NEW w \in Worker, BeginComplete(w)
      PROVE  worker'[u] \in WorkerState /\ WorkerMoves(u)
  <2>1. /\ worker'[w] = [worker[w] EXCEPT !.pc = "publishing"]
        /\ \A v \in Worker \ {w} : worker'[v] = worker[v]
        /\ worker[w] \in WorkerState /\ worker[w].pc = "completing"
    BY <1>1, <1>8 DEF BeginComplete
  <2>2. worker[w].beat = "none"
    BY <2>1 DEF ShapeInv, BeatsInPhases, Working, WorkPhase
  <2>3. worker'[w] = [pc |-> "publishing", job |-> worker[w].job, token |-> worker[w].token,
                      scan |-> worker[w].scan, beat |-> "none", retryable |-> worker[w].retryable]
    BY <2>1, <2>2 DEF WorkerState
  <2>4. worker[w].retryable \in BOOLEAN
    BY <1>1, WorkerTyped
  <2> QED
    BY <1>1, <1>8, <2>1, <2>3, <2>4, WorkerGoesOn
<1>9. ASSUME NEW w \in Worker, Run(w) PROVE worker'[u] \in WorkerState /\ WorkerMoves(u)
  <2>1. CASE CompleteRefused(w) \/ PublishFails(w) \/ \E retryable \in BOOLEAN : WorkFails(w, retryable)
    BY <1>7, <2>1 DEF CompleteRefused, PublishFails, WorkFails, Working, WorkPhase
  <2>2. CASE worker' = [worker EXCEPT ![w] = Idle]
    BY <1>4, <2>2
  <2> QED
    BY <1>6, <1>8, <1>9, <2>1, <2>2
    DEF Run, CheckpointFails, CompleteWithoutLease, Publish, PublishLate, FailRetry, FailForGood,
        FailWithoutLease
<1> QED
  BY <1>2, <1>3, <1>4, <1>5, <1>9
  DEF Next, vars, queueVars, Enqueue, Resolve, Lease, LeaseNone, Heartbeat, EnqueueNew,
      EnqueueConflicts, ResolveByKey, ResolveByWork, EnqueueFails, Answered, Crash, Tick,
      AcceptanceMoves, SetActive

\* The call creates a job ...
ClientCreates(c) ==
  \E r \in Requests, j \in Job :
    /\ EnqueueNew(c, r, j) /\ client[c].pc = "new"
    /\ client'[c] = [pc |-> "done", request |-> r, answer |-> "new", job |-> j]

\* ... runs into a conflict ...
ClientConflicts(c) ==
  \E r \in Requests :
    /\ KeyRows(r) \cup WorkRows(r) # {} /\ UNCHANGED job /\ client[c].pc = "new"
    /\ client'[c].pc = "resolving" /\ client'[c].request = r /\ client'[c].answer = client[c].answer

\* ... is told of the job it conflicts with ...
ClientToldOfJob(c) ==
  \E j \in Job :
    /\ Stored(j) /\ UNCHANGED job /\ client[c].pc = "resolving"
    /\ \/ /\ job[j].request = client[c].request
          /\ client'[c] = [pc |-> "done", request |-> client[c].request,
                           answer |-> "replay", job |-> j]
       \/ /\ WorkOf(job[j].request) = WorkOf(client[c].request)
          /\ client'[c] = [pc |-> "done", request |-> client[c].request,
                           answer |-> "duplicate_work", job |-> j]

\* ... or of none.
ClientRefused(c) == client'[c].pc = "done" /\ client'[c].answer \in {"conflict", "error"}

ClientMoves(c) ==
  client'[c] = client[c] \/ ClientCreates(c) \/ ClientConflicts(c) \/ ClientToldOfJob(c)
    \/ ClientRefused(c)

\* Every step moves every client in one of the five ways.
LEMMA ClientStep ==
  ASSUME ShapeInv, [Next]_vars, NEW c \in Client
  PROVE  client'[c] \in ClientState /\ ClientMoves(c)
<1>1. client \in [Client -> ClientState] /\ client[c] \in ClientState
  BY DEF ShapeInv, TypeOK
<1>2. ASSUME client'[c] = client[c] PROVE client'[c] \in ClientState /\ ClientMoves(c)
  BY <1>1, <1>2 DEF ClientMoves
<1>3. ASSUME NEW d \in Client, NEW x, client' = [client EXCEPT ![d] = x], d # c
      PROVE  client'[c] \in ClientState /\ ClientMoves(c)
  BY <1>1, <1>2, <1>3
<1>4. ASSUME NEW r \in Requests, NEW j \in Job, EnqueueNew(c, r, j)
      PROVE  client'[c] \in ClientState /\ ClientMoves(c)
  <2>1. client'[c] = [pc |-> "done", request |-> r, answer |-> "new", job |-> j]
        /\ client[c].pc = "new"
    BY <1>1, <1>4 DEF EnqueueNew, Answered
  <2>2. client'[c] \in ClientState
    BY <2>1 DEF ClientState, Answer
  <2> QED
    BY <1>4, <2>1, <2>2 DEF ClientMoves, ClientCreates
<1>5. ASSUME NEW r \in Requests, EnqueueConflicts(c, r)
      PROVE  client'[c] \in ClientState /\ ClientMoves(c)
  <2>1. client'[c] = [client[c] EXCEPT !.pc = "resolving", !.request = r]
        /\ client[c].pc = "new" /\ KeyRows(r) \cup WorkRows(r) # {} /\ UNCHANGED job
    BY <1>1, <1>5 DEF EnqueueConflicts, queueVars
  <2>2. client'[c] = [pc |-> "resolving", request |-> r, answer |-> client[c].answer,
                      job |-> client[c].job]
    BY <1>1, <2>1 DEF ClientState
  <2>3. client'[c] \in ClientState
    BY <1>1, <2>2 DEF ClientState
  <2> QED
    BY <2>1, <2>2, <2>3 DEF ClientMoves, ClientConflicts
<1>6. ASSUME NEW j \in Job, ResolveByKey(c, j)
      PROVE  client'[c] \in ClientState /\ ClientMoves(c)
  <2>1. /\ client[c].pc = "resolving" /\ Stored(j) /\ UNCHANGED job
        /\ client[c].request \in Requests
    BY <1>6 DEF ResolveByKey, KeyRows, queueVars, ShapeInv, Callers
  <2>2. CASE job[j].request = client[c].request
    <3>1. client'[c] = [pc |-> "done", request |-> client[c].request,
                        answer |-> "replay", job |-> j]
      BY <1>1, <1>6, <2>2 DEF ResolveByKey, Answered
    <3> QED
      BY <2>1, <2>2, <3>1 DEF ClientState, Answer, ClientMoves, ClientToldOfJob
  <2>3. CASE job[j].request # client[c].request
    <3>1. client'[c] = [pc |-> "done", request |-> client[c].request,
                        answer |-> "conflict", job |-> NoJob]
      BY <1>1, <1>6, <2>3 DEF ResolveByKey, Answered
    <3> QED
      BY <2>1, <3>1 DEF ClientState, Answer, ClientMoves, ClientRefused
  <2> QED
    BY <2>2, <2>3
<1>7. ASSUME NEW j \in Job, ResolveByWork(c, j)
      PROVE  client'[c] \in ClientState /\ ClientMoves(c)
  <2>1. /\ client[c].pc = "resolving" /\ UNCHANGED job
        /\ LiveWork(j) /\ WorkOf(job[j].request) = WorkOf(client[c].request)
        /\ client[c].request \in Requests
    BY <1>7 DEF ResolveByWork, WorkRows, queueVars, ShapeInv, Callers
  <2>2. Stored(j)
    BY <2>1 DEF LiveWork, Stored
  <2>3. client'[c] = [pc |-> "done", request |-> client[c].request,
                      answer |-> "duplicate_work", job |-> j]
    BY <1>1, <1>7 DEF ResolveByWork, Answered
  <2>4. client'[c] \in ClientState
    BY <2>1, <2>3 DEF ClientState, Answer
  <2> QED
    BY <2>1, <2>2, <2>3, <2>4 DEF ClientMoves, ClientToldOfJob
<1>8. ASSUME EnqueueFails(c) PROVE client'[c] \in ClientState /\ ClientMoves(c)
  <2>1. client'[c] = [pc |-> "done", request |-> NoRequest, answer |-> "error", job |-> NoJob]
    BY <1>1, <1>8 DEF EnqueueFails, Answered
  <2> QED
    BY <2>1 DEF ClientState, Answer, ClientMoves, ClientRefused
<1>9. ASSUME NEW d \in Client, Enqueue(d) PROVE client'[c] \in ClientState /\ ClientMoves(c)
  <2>1. CASE d = c
    BY <1>4, <1>5, <1>6, <1>7, <1>8, <1>9, <2>1 DEF Enqueue, Resolve
  <2>2. CASE d # c
    <3>1. client'[c] = client[c]
      BY <1>1, <1>9, <2>2 DEF Enqueue, Resolve, EnqueueNew, EnqueueConflicts, ResolveByKey,
                              ResolveByWork, EnqueueFails, Answered
    <3> QED
      BY <1>2, <3>1
  <2> QED
    BY <2>1, <2>2
<1>10. CASE UNCHANGED client
  BY <1>2, <1>10
<1> QED
  BY <1>9, <1>10
  DEF Next, vars, queueVars, Lease, LeaseJob, LeaseNone, Heartbeat, Beat, BeatAnswered, BeatFails,
      Run, Checkpoint, CheckpointJoinsBeat, CheckpointFails, WorkFails, BeginComplete,
      CompleteWithoutLease, CompleteRefused, Publish, PublishLate, PublishFails, FailRetry,
      FailForGood, FailWithoutLease, Crash, Tick, AcceptanceMoves, SetActive
-----------------------------------------------------------------------------
(***************************************************************************)
(* Types                                                                   *)
(***************************************************************************)
\* What a step does to the acceptances: a version whose publication is in
\* progress keeps its acceptance.
LEMMA AcceptanceStep ==
  ASSUME ShapeInv, [Next]_vars
  PROVE  /\ AcceptanceTypeOK'
         /\ UNCHANGED current \/ UNCHANGED <<queueVars, worker>>
         /\ \A v \in Version : VersionPublishing(v) => current'[v] = current[v]
<1>1. AcceptanceTypeOK
  BY DEF ShapeInv, TypeOK
<1>2. CASE UNCHANGED acceptanceVars
  BY <1>1, <1>2 DEF acceptanceVars, AcceptanceTypeOK
<1>3. CASE AcceptanceMoves
  BY <1>1, <1>3 DEF AcceptanceMoves, Accept, Withdraw, Lapse, AcceptanceTypeOK, Valid
<1> QED
  BY <1>2, <1>3
  DEF Next, vars, queueVars, Enqueue, Resolve, EnqueueNew, EnqueueConflicts, ResolveByKey,
      ResolveByWork, EnqueueFails, Lease, LeaseJob, LeaseNone, Heartbeat, Beat, BeatAnswered,
      BeatFails, Run, Checkpoint, CheckpointJoinsBeat, CheckpointFails, WorkFails, BeginComplete,
      CompleteWithoutLease, CompleteRefused, Publish, PublishLate, PublishFails, FailRetry,
      FailForGood, FailWithoutLease, Crash, Tick, SetActive

\* Every step keeps the declared shapes: a row moves as RowMoves says, a worker
\* as its phase says.
LEMMA TypeStep ==
  ASSUME ShapeInv, [Next]_vars
  PROVE  TypeOK'
<1>1. /\ job \in [Job -> Row] /\ worker \in [Worker -> WorkerState]
      /\ client \in [Client -> ClientState] /\ earlier \in [Job -> SUBSET Job]
      /\ vectors \in [Version -> Job \cup {NoJob}]
      /\ extraction \in [Version -> {"pending", "queued", "processed", "failed"}]
      /\ active \in SUBSET Version
  BY DEF ShapeInv, TypeOK
<1>2. job' \in [Job -> Row]
  <2>1. job' = [j \in Job |-> job'[j]]
    BY <1>1, ZenonT(60)
    DEF Next, vars, queueVars, Enqueue, Resolve, EnqueueNew, EnqueueConflicts, ResolveByKey,
        ResolveByWork, EnqueueFails, Lease, LeaseJob, LeaseNone, Heartbeat, Beat, BeatAnswered,
        BeatFails, Run, Checkpoint, CheckpointJoinsBeat, CheckpointFails, WorkFails, BeginComplete,
        CompleteWithoutLease, CompleteRefused, Publish, PublishLate, PublishFails, FailRetry,
        FailForGood, FailWithoutLease, Crash, Tick, AcceptanceMoves, SetActive, RefreshLease,
        FailExhausted
  <2> QED
    BY <2>1, RowStep
<1>3. worker' \in [Worker -> WorkerState]
  <2>1. worker' = [w \in Worker |-> worker'[w]]
    BY <1>1, ZenonT(60)
    DEF Next, vars, queueVars, Enqueue, Resolve, EnqueueNew, EnqueueConflicts, ResolveByKey,
        ResolveByWork, EnqueueFails, Lease, LeaseJob, LeaseNone, Heartbeat, Beat, BeatAnswered,
        BeatFails, Run, Checkpoint, CheckpointJoinsBeat, CheckpointFails, WorkFails, BeginComplete,
        CompleteWithoutLease, CompleteRefused, Publish, PublishLate, PublishFails, FailRetry,
        FailForGood, FailWithoutLease, Crash, Tick, AcceptanceMoves, SetActive, EnterPhase,
        ToFailing, Answered
  <2> QED
    BY <2>1, WorkerStep
<1>4. client' \in [Client -> ClientState]
  <2>1. client' = [c \in Client |-> client'[c]]
    BY <1>1
    DEF Next, vars, queueVars, Enqueue, Resolve, EnqueueNew, EnqueueConflicts, ResolveByKey,
        ResolveByWork, EnqueueFails, Lease, LeaseJob, LeaseNone, Heartbeat, Beat, BeatAnswered,
        BeatFails, Run, Checkpoint, CheckpointJoinsBeat, CheckpointFails, WorkFails, BeginComplete,
        CompleteWithoutLease, CompleteRefused, Publish, PublishLate, PublishFails, FailRetry,
        FailForGood, FailWithoutLease, Crash, Tick, AcceptanceMoves, SetActive, Answered
  <2> QED
    BY <2>1, ClientStep
<1>5. earlier' \in [Job -> SUBSET Job]
  <2>1. ASSUME NEW j \in Job, NEW d PROVE Enter(j, d) \in [Job -> SUBSET Job]
    BY <1>1, <2>1 DEF Enter
  <2>2. earlier' = earlier \/ \E j \in Job : \E d : earlier' = Enter(j, d)
    <3>1. ASSUME NEW w \in Worker, FailRetry(w) PROVE \E j \in Job : \E d : earlier' = Enter(j, d)
      <4>1. worker[w].job \in Job
        BY <3>1, HolderRow DEF FailRetry
      <4> QED
        BY <3>1, <4>1 DEF FailRetry
    <3> QED
      BY <3>1
      DEF Next, vars, queueVars, Enqueue, Resolve, EnqueueNew, EnqueueConflicts, ResolveByKey,
        ResolveByWork, EnqueueFails, Lease, LeaseJob, LeaseNone, Heartbeat, Beat, BeatAnswered,
        BeatFails, Run, Checkpoint, CheckpointJoinsBeat, CheckpointFails, WorkFails, BeginComplete,
        CompleteWithoutLease, CompleteRefused, Publish, PublishLate, PublishFails,
        FailForGood, FailWithoutLease, Crash, Tick, AcceptanceMoves, SetActive
  <2> QED
    BY <1>1, <2>1, <2>2
<1>6. /\ vectors' \in [Version -> Job \cup {NoJob}]
      /\ extraction' \in [Version -> {"pending", "queued", "processed", "failed"}]
  <2>1. UNCHANGED vectors \/ \E w \in Worker : Publish(w)
    BY DEF Next, vars, queueVars, Enqueue, Resolve, EnqueueNew, EnqueueConflicts, ResolveByKey,
        ResolveByWork, EnqueueFails, Lease, LeaseJob, LeaseNone, Heartbeat, Beat, BeatAnswered,
        BeatFails, Run, Checkpoint, CheckpointJoinsBeat, CheckpointFails, WorkFails, BeginComplete,
        CompleteWithoutLease, CompleteRefused, PublishLate, PublishFails, FailRetry,
        FailForGood, FailWithoutLease, Crash, Tick, AcceptanceMoves, SetActive
  <2>2. ASSUME NEW w \in Worker, Publish(w) PROVE vectors' \in [Version -> Job \cup {NoJob}]
    <3>1. worker[w].job \in Job
      BY <2>2, HolderRow DEF Publish, Publishing
    <3> QED
      BY <1>1, <2>2, <3>1 DEF Publish
  <2>3. UNCHANGED extraction \/ extraction' = ExtractionExhausted
          \/ \E v, s : s \in {"processed", "queued", "failed"} /\ extraction' = [extraction EXCEPT ![v] = s]
    BY DEF Next, vars, queueVars, Enqueue, Resolve, EnqueueNew, EnqueueConflicts, ResolveByKey,
        ResolveByWork, EnqueueFails, Lease, LeaseJob, LeaseNone, Heartbeat, Beat, BeatAnswered,
        BeatFails, Run, Checkpoint, CheckpointJoinsBeat, CheckpointFails, WorkFails, BeginComplete,
        CompleteWithoutLease, CompleteRefused, Publish, PublishLate, PublishFails, FailRetry,
        FailForGood, FailWithoutLease, Crash, Tick, AcceptanceMoves, SetActive
  <2>4. ExtractionExhausted \in [Version -> {"pending", "queued", "processed", "failed"}]
    BY <1>1 DEF ExtractionExhausted
  <2> QED
    BY <1>1, <2>1, <2>2, <2>3, <2>4
<1>7. active' \in SUBSET Version
  BY <1>1
  DEF Next, vars, queueVars, Enqueue, Resolve, EnqueueNew, EnqueueConflicts, ResolveByKey,
        ResolveByWork, EnqueueFails, Lease, LeaseJob, LeaseNone, Heartbeat, Beat, BeatAnswered,
        BeatFails, Run, Checkpoint, CheckpointJoinsBeat, CheckpointFails, WorkFails, BeginComplete,
        CompleteWithoutLease, CompleteRefused, Publish, PublishLate, PublishFails, FailRetry,
        FailForGood, FailWithoutLease, Crash, Tick, AcceptanceMoves, SetActive
<1> QED
  BY <1>2, <1>3, <1>4, <1>5, <1>6, <1>7, AcceptanceStep DEF TypeOK
-----------------------------------------------------------------------------
(***************************************************************************)
(* The inductive invariant                                                 *)
(***************************************************************************)
\* A lease is written to its row.
LEMMA LeaseIsWritten ==
  ASSUME ShapeInv, [Next]_vars, NEW w \in Worker, NEW j \in Job, LeaseJob(w, j)
  PROVE  RowLeased(j)
<1>1. j \notin Exhausted /\ Stored(j)
  <2>1. Leasable(j)
    BY DEF LeaseJob, Candidate
  <2>2. Stored(j) /\ job[j].request \in Requests
    BY <2>1 DEF Leasable, Expired, ShapeInv, Rows, Stored
  <2>3. job[j].attempts \in Nat /\ job[j].request.max \in Nat
    BY <2>2, RowTyped, RequestTyped DEF ShapeInv
  <2> QED
    BY <2>1, <2>2, <2>3 DEF Leasable, Exhausted
<1>2. job \in [Job -> Row] /\ job[j] \in Row /\ job[j].attempts \in Nat
  BY RowTyped DEF ShapeInv, TypeOK
<1>3. job'[j].attempts = job[j].attempts + 1
  BY <1>1, <1>2 DEF LeaseJob, FailExhausted, Row
<1>4. RowMoves(j)
  BY RowStep
<1> QED
  BY <1>1, <1>2, <1>3, <1>4 DEF RowMoves, RowKept, RowEnters, RowEnds

\* Every step keeps what a row of the queue holds in its status.
LEMMA RowsStep ==
  ASSUME ShapeInv, [Next]_vars
  PROVE  Rows'
<1> SUFFICES ASSUME NEW j \in Job
             PROVE  IF Stored(j)'
                    THEN /\ job'[j].request \in Requests
                         /\ job'[j].attempts <= job'[j].request.max
                         /\ job'[j].status = "queued" => job'[j].attempts < job'[j].request.max
                         /\ IF job'[j].status = "processing"
                            THEN job'[j].attempts > 0 /\ job'[j].token = job'[j].attempts
                                   /\ job'[j].scan \in ScanId
                            ELSE job'[j].token = 0 /\ job'[j].lease = 0
                    ELSE job'[j] = AbsentRow
  BY DEF Rows
<1>1. RowMoves(j)
  BY RowStep
<1>2. job[j].attempts \in Nat
  BY RowTyped DEF ShapeInv
<1>3. IF Stored(j)
      THEN /\ job[j].request \in Requests
           /\ job[j].attempts <= job[j].request.max
           /\ job[j].status = "queued" => job[j].attempts < job[j].request.max
           /\ IF job[j].status = "processing"
              THEN job[j].attempts > 0 /\ job[j].token = job[j].attempts /\ job[j].scan \in ScanId
              ELSE job[j].token = 0 /\ job[j].lease = 0
      ELSE job[j] = AbsentRow
  BY DEF ShapeInv, Rows
<1>4. CASE RowKept(j)
  BY <1>3, <1>4 DEF RowKept, Stored
<1>5. CASE RowEnters(j)
  BY <1>5, RequestTyped DEF RowEnters, Stored
<1>6. CASE RowLeased(j)
  <2>1. job[j].request.max \in Nat /\ job[j].attempts < job[j].request.max
    BY <1>3, <1>6, RequestTyped DEF RowLeased, Leasable
  <2> QED
    BY <1>2, <1>3, <1>6, <2>1 DEF RowLeased, Stored
<1>7. CASE RowEnds(j)
  BY <1>3, <1>7 DEF RowEnds, Stored
<1> QED
  BY <1>1, <1>4, <1>5, <1>6, <1>7 DEF RowMoves

\* A row that is stored stays, with its request, and its attempts only grow.
LEMMA StoredStays ==
  ASSUME ShapeInv, [Next]_vars, NEW j \in Job, Stored(j)
  PROVE  /\ Stored(j)' /\ job'[j].request = job[j].request
         /\ job'[j].attempts >= job[j].attempts
<1>1. RowMoves(j) /\ job[j].attempts \in Nat
  BY RowStep, RowTyped DEF ShapeInv
<1> QED
  BY <1>1 DEF RowMoves, RowKept, RowEnters, RowLeased, RowEnds, Stored

\* Every step keeps a worker's lease that of an attempt that was made.
LEMMA HoldersStep ==
  ASSUME ShapeInv, [Next]_vars
  PROVE  Holders'
<1> SUFFICES ASSUME NEW w \in Worker, worker'[w].pc # "idle"
             PROVE  /\ worker'[w].job \in Job /\ Stored(worker[w].job)'
                    /\ worker'[w].token > 0 /\ worker'[w].token <= job'[worker'[w].job].attempts
                    /\ job'[worker'[w].job].token = worker'[w].token =>
                         job'[worker'[w].job].scan = worker'[w].scan
  BY DEF Holders
<1>1. WorkerMoves(w) /\ Idle.pc = "idle"
  BY WorkerStep, IdleTyped
<1>2. CASE worker'[w] = worker[w] \/ WorkerKept(w)
  <2>1. PICK j \in Job : j = worker[w].job
    BY <1>2 DEF WorkerKept, ShapeInv, Holders
  <2>2. /\ worker'[w].job = j /\ worker'[w].token = worker[w].token
        /\ worker'[w].scan = worker[w].scan /\ Stored(j)
        /\ worker[w].token > 0 /\ worker[w].token <= job[j].attempts
        /\ job[j].token = worker[w].token => job[j].scan = worker[w].scan
    BY <1>2, <2>1 DEF WorkerKept, ShapeInv, Holders
  <2>3. Stored(j)' /\ job'[j].attempts >= job[j].attempts /\ job[j].attempts \in Nat
        /\ worker[w].token \in Nat /\ job'[j].attempts \in Nat
    <3>1. job'[j] \in Row
      BY RowStep
    <3> QED
      BY <2>2, <3>1, StoredStays, RowTyped, WorkerTyped DEF ShapeInv, Row
  <2>4. job'[j].token = worker[w].token => job'[j].scan = worker[w].scan
    <3>1. RowMoves(j)
      BY RowStep
    <3> QED
      BY <2>2, <2>3, <3>1 DEF RowMoves, RowKept, RowEnters, RowLeased, RowEnds
  <2> QED
    BY <2>2, <2>3, <2>4
<1>3. CASE WorkerLeases(w)
  <2>1. PICK j \in Job :
          /\ LeaseJob(w, j)
          /\ worker'[w].pc = "resolving" /\ worker'[w].job = j
          /\ worker'[w].token = job[j].attempts + 1 /\ worker'[w].scan = current[JobVersion(j)]
    BY <1>3 DEF WorkerLeases
  <2>2. RowLeased(j) /\ job[j].attempts \in Nat
    BY <2>1, LeaseIsWritten, RowTyped DEF ShapeInv
  <2> QED
    BY <2>1, <2>2 DEF RowLeased, Stored
<1> QED
  BY <1>1, <1>2, <1>3 DEF WorkerMoves

\* Every step keeps an attempt with one worker: a new lease has a new token.
LEMMA AttemptsStep ==
  ASSUME ShapeInv, [Next]_vars
  PROVE  OneWorkerPerAttempt'
<1> SUFFICES ASSUME NEW u \in Worker, NEW w \in Worker,
                    worker'[u].pc # "idle", worker'[w].pc # "idle",
                    worker'[u].job = worker'[w].job, worker'[u].token = worker'[w].token
             PROVE  u = w
  BY DEF OneWorkerPerAttempt
<1>1. WorkerMoves(u) /\ WorkerMoves(w) /\ Idle.pc = "idle"
  BY WorkerStep, IdleTyped
<1>2. ASSUME NEW x \in Worker, NEW y \in Worker, WorkerLeases(x), x # y
      PROVE  worker'[y] = worker[y]
  <2>1. worker \in [Worker -> WorkerState]
    BY DEF ShapeInv, TypeOK
  <2> QED
    BY <1>2, <2>1 DEF WorkerLeases, LeaseJob
<1>3. ASSUME NEW x \in Worker, NEW y \in Worker, WorkerLeases(x), x # y,
             worker'[y].pc # "idle", worker'[y].job = worker'[x].job
      PROVE  worker'[y].token # worker'[x].token
  <2>1. worker'[y] = worker[y]
    BY <1>2, <1>3
  <2>2. PICK j \in Job : worker'[x].job = j /\ worker'[x].token = job[j].attempts + 1
    BY <1>3 DEF WorkerLeases
  <2>3. worker[y].token <= job[j].attempts /\ worker[y].token \in Nat /\ job[j].attempts \in Nat
    BY <1>3, <2>1, <2>2, WorkerTyped, RowTyped DEF ShapeInv, Holders
  <2> QED
    BY <2>1, <2>2, <2>3
<1>4. CASE WorkerLeases(u) \/ WorkerLeases(w)
  BY <1>3, <1>4
<1>5. CASE ~WorkerLeases(u) /\ ~WorkerLeases(w)
  <2>1. /\ worker[u].pc # "idle" /\ worker[w].pc # "idle"
        /\ worker[u].job = worker[w].job /\ worker[u].token = worker[w].token
    BY <1>1, <1>5 DEF WorkerMoves, WorkerKept
  <2> QED
    BY <2>1 DEF ShapeInv, OneWorkerPerAttempt
<1> QED
  BY <1>4, <1>5

\* Every step keeps heartbeats within the phases that wait for them.
LEMMA BeatsStep ==
  ASSUME ShapeInv, [Next]_vars
  PROVE  BeatsInPhases'
<1> SUFFICES ASSUME NEW w \in Worker, worker'[w].beat # "none" PROVE worker'[w].pc \in WorkPhase
  BY DEF BeatsInPhases, Working
<1>1. WorkerMoves(w)
  BY WorkerStep
<1> QED
  BY <1>1 DEF WorkerMoves, WorkerKept, WorkerLeases, Idle, ShapeInv, BeatsInPhases, Working

\* Every step keeps what a publishing transaction locked: its lease, its version
\* and the acceptance (complete).
LEMMA PublishersStep ==
  ASSUME ShapeInv, [Next]_vars
  PROVE  PublishersStand'
<1> SUFFICES ASSUME NEW w \in Worker, worker'[w].pc = "publishing"
             PROVE  /\ job'[worker'[w].job].status = "processing"
                    /\ job'[worker'[w].job].token = worker'[w].token
                    /\ current'[JobVersion(worker[w].job)'] = worker'[w].scan
  BY DEF PublishersStand, Publishing
<1>1. WorkerMoves(w) /\ Idle.pc = "idle"
  BY WorkerStep, IdleTyped
<1>2. CASE worker'[w] = worker[w]
  <2>1. Publishing(w) /\ worker[w].pc # "idle"
    BY <1>2 DEF Publishing
  <2>2. PICK j \in Job : j = worker[w].job
    BY <2>1, HolderRow
  <2>3. /\ job[j].status = "processing" /\ job[j].token = worker[w].token
        /\ current[JobVersion(j)] = worker[w].scan /\ JobLocked(j) /\ JobVersion(j) \in Version
        /\ VersionPublishing(JobVersion(j)) /\ Stored(j)
    BY <2>1, <2>2, HolderRow DEF ShapeInv, PublishersStand, JobLocked, VersionPublishing
  <2>4. RowMoves(j)
    BY RowStep
  <2>5. ~\E u \in Worker : Publish(u) /\ worker[u].job = j
    <3> SUFFICES ASSUME NEW u \in Worker, Publish(u), worker[u].job = j PROVE FALSE
      OBVIOUS
    <3>1. Publishing(u) /\ worker[u].pc # "idle"
      BY DEF Publish, Publishing
    <3>2. worker[u].token = job[j].token
      BY <3>1 DEF ShapeInv, PublishersStand
    <3>3. u = w
      BY <2>1, <2>2, <2>3, <3>1, <3>2 DEF ShapeInv, OneWorkerPerAttempt
    <3>4. worker'[u] = Idle
      BY DEF Publish, ShapeInv, TypeOK
    <3> QED
      BY <1>1, <3>3, <3>4
  <2>6. RowKept(j)
    BY <2>3, <2>4, <2>5 DEF RowMoves, RowEnters, RowLeased, RowEnds, Leasable, Exhausted
  <2>7. job'[j].request = job[j].request
    BY <2>6 DEF RowKept
  <2>8. current'[JobVersion(j)] = current[JobVersion(j)]
    BY <2>3, AcceptanceStep
  <2> QED
    BY <1>2, <2>2, <2>3, <2>6, <2>7, <2>8 DEF RowKept, JobVersion
<1>3. CASE WorkerKept(w)
  <2>1. BeginComplete(w)
    BY <1>3 DEF WorkerKept
  <2>2. /\ UNCHANGED <<job, current>>
        /\ job[worker[w].job].status = "processing"
        /\ job[worker[w].job].token = worker[w].token
        /\ current[JobVersion(worker[w].job)] = worker[w].scan
    BY <2>1 DEF BeginComplete, queueVars, acceptanceVars, HasLease, AcceptanceStands
  <2> QED
    BY <1>3, <2>2 DEF WorkerKept, JobVersion
<1> QED
  BY <1>1, <1>2, <1>3 DEF WorkerMoves, WorkerLeases

\* Every step keeps what callers of enqueue were told true.
LEMMA CallersStep ==
  ASSUME ShapeInv, [Next]_vars
  PROVE  Callers'
<1> SUFFICES ASSUME NEW c \in Client
             PROVE  /\ client'[c].pc = "resolving" => client'[c].request \in Requests
                    /\ client'[c].pc # "done" => client'[c].answer = "none"
                    /\ client'[c].answer \in {"new", "replay", "duplicate_work"} =>
                         client'[c].job \in Job /\ Stored(client[c].job)'
  BY DEF Callers
<1>1. ClientMoves(c)
  BY ClientStep
<1>2. /\ client[c].pc = "resolving" => client[c].request \in Requests
      /\ client[c].pc # "done" => client[c].answer = "none"
      /\ client[c].answer \in {"new", "replay", "duplicate_work"} =>
           client[c].job \in Job /\ Stored(client[c].job)
  BY DEF ShapeInv, Callers
<1>3. CASE client'[c] = client[c]
  <2>1. ASSUME NEW j \in Job, j = client[c].job, Stored(j) PROVE Stored(client[c].job)'
    <3>1. Stored(j)'
      BY <2>1, StoredStays
    <3> QED
      BY <1>3, <2>1, <3>1
  <2> QED
    BY <1>2, <1>3, <2>1
<1>4. CASE ClientCreates(c)
  <2>1. PICK r \in Requests, j \in Job :
          /\ EnqueueNew(c, r, j)
          /\ client'[c] = [pc |-> "done", request |-> r, answer |-> "new", job |-> j]
    BY <1>4 DEF ClientCreates
  <2>2. Stored(j)'
    BY <2>1 DEF EnqueueNew, Stored, AbsentRow, ShapeInv, TypeOK
  <2>3. client'[c].job = j
    BY <2>1
  <2>4. Stored(client[c].job)'
    BY <2>2, <2>3
  <2> QED
    BY <2>1, <2>4
<1>5. CASE ClientConflicts(c)
  BY <1>2, <1>5 DEF ClientConflicts
<1>6. CASE ClientToldOfJob(c)
  <2>1. PICK j \in Job :
          /\ Stored(j) /\ client'[c].pc = "done" /\ client'[c].job = j
    BY <1>6 DEF ClientToldOfJob
  <2>2. Stored(j)'
    BY <2>1, StoredStays
  <2>3. Stored(client[c].job)'
    BY <2>1, <2>2
  <2> QED
    BY <2>1, <2>3
<1>7. CASE ClientRefused(c)
  BY <1>7 DEF ClientRefused
<1> QED
  BY <1>1, <1>3, <1>4, <1>5, <1>6, <1>7 DEF ClientMoves

\* The rows of the queue, the attempts of the workers and the calls of the
\* clients keep their shape.
THEOREM Shape == Spec => []ShapeInv
<1>1. Init => ShapeInv
  <2> SUFFICES ASSUME Init PROVE ShapeInv
    OBVIOUS
  <2>1. TypeOK
    <3>1. AbsentRow \in Row
      BY ConstantsTyped DEF AbsentRow, Row
    <3>2. [pc |-> "new", request |-> NoRequest, answer |-> "none", job |-> NoJob] \in ClientState
      BY DEF ClientState, Answer
    <3>3. AcceptanceTypeOK
      BY DEF Init, AcceptanceInit, AcceptanceTypeOK
    <3> QED
      BY <3>1, <3>2, <3>3, IdleTyped DEF Init, TypeOK
  <2>2. Rows
    BY DEF Init, Rows, Stored, AbsentRow
  <2>3. Holders /\ OneWorkerPerAttempt /\ BeatsInPhases /\ PublishersStand
    BY DEF Init, Holders, OneWorkerPerAttempt, BeatsInPhases, PublishersStand, Publishing, Idle
  <2>4. Callers
    BY DEF Init, Callers
  <2> QED
    BY <2>1, <2>2, <2>3, <2>4 DEF ShapeInv
<1>2. ShapeInv /\ [Next]_vars => ShapeInv'
  BY TypeStep, RowsStep, HoldersStep, AttemptsStep, BeatsStep, PublishersStep, CallersStep
  DEF ShapeInv
<1> QED
  BY <1>1, <1>2, PTL DEF Spec

\* Every row, worker, call and acceptance has its type (migration 005).
THEOREM Types == Spec => []TypeOK
  BY Shape, PTL DEF ShapeInv

\* A lease is one worker's at a time, and the publisher's until it is done
\* (leaseNext, heartbeat, complete).
THEOREM Leases == Spec => []LeasesHold
<1>1. ShapeInv => LeasesHold
  <2> SUFFICES ASSUME ShapeInv PROVE LeasesHold
    OBVIOUS
  <2>1. OneLeaseHolder
    BY DEF OneLeaseHolder, HasLease, ShapeInv, OneWorkerPerAttempt
  <2>2. PublisherKeepsJob
    BY DEF PublisherKeepsJob, ShapeInv, PublishersStand, Holders, Publishing
  <2> QED
    BY <2>1, <2>2 DEF LeasesHold
<1> QED
  BY <1>1, Shape, PTL
-----------------------------------------------------------------------------
(***************************************************************************)
(* What a step may never do                                                *)
(***************************************************************************)
\* A job goes from lease to lease to its one outcome, each ended by the holder
\* or by time alone (leaseNext, complete, fail).
THEOREM History == Spec => LeaseHistory
<1>1. ASSUME ShapeInv, [Next]_vars, NEW j \in Job
      PROVE  /\ Settled(j) => job'[j] = [job[j] EXCEPT !.wait = job'[j].wait]
             /\ job'[j].attempts >= job[j].attempts
             /\ Stored(j) => job'[j].attempts <= job[j].request.max
  <2>1. /\ RowMoves(j) /\ job[j] \in Row /\ job'[j] \in Row /\ job[j].attempts \in Nat
        /\ Stored(j) => job[j].request \in Requests /\ job[j].attempts <= job[j].request.max
        /\ Settled(j) => job[j].lease = 0
        /\ ~Stored(j) => job[j].attempts = 0
    BY <1>1, RowStep, RowTyped DEF ShapeInv, Rows, Settled, Stored, AbsentRow
  <2>2. ASSUME Settled(j) PROVE job'[j] = [job[j] EXCEPT !.wait = job'[j].wait]
    <3>1. RowKept(j)
      BY <2>1, <2>2 DEF RowMoves, RowEnters, RowLeased, RowEnds, Leasable, Expired, Settled, Stored
    <3>2. /\ job'[j].status = job[j].status /\ job'[j].request = job[j].request
          /\ job'[j].attempts = job[j].attempts /\ job'[j].token = job[j].token
          /\ job'[j].scan = job[j].scan /\ job'[j].lease = job[j].lease
      BY <2>1, <2>2, <3>1 DEF RowKept, Settled
    <3> QED
      BY <2>1, <3>2 DEF Row
  <2>3. job'[j].attempts >= job[j].attempts
    BY <2>1 DEF RowMoves, RowKept, RowEnters, RowLeased, RowEnds
  <2>4. ASSUME Stored(j) PROVE job'[j].attempts <= job[j].request.max
    <3>1. job[j].request.max \in Nat
      BY <2>1, <2>4, RequestTyped
    <3> QED
      BY <2>1, <2>4, <3>1 DEF RowMoves, RowKept, RowEnters, RowLeased, RowEnds, Leasable
  <2> QED
    BY <2>2, <2>3, <2>4
<1>2. ASSUME ShapeInv, [Next]_vars, NEW j \in Job,
             job[j].status = "processing", job[j].lease > 0,
             job'[j].status # "processing" \/ job'[j].token # job[j].token
      PROVE  \E w \in Worker : /\ worker[w].job = j /\ worker[w].token = job[j].token
                               /\ worker[w].pc \in {"publishing", "failing"}
                               /\ worker'[w].pc = "idle"
  <2>1. RowMoves(j) /\ job[j].lease # 0
    BY <1>2, RowStep, RowTyped DEF ShapeInv
  <2>2. RowEnds(j)
    BY <1>2, <2>1 DEF RowMoves, RowKept, RowEnters, RowLeased, Leasable, Expired, Stored
  <2>3. PICK w \in Worker : /\ worker[w].job = j
                            /\ Publish(w) \/ FailForGood(w) \/ FailRetry(w)
    BY <2>1, <2>2 DEF RowEnds, Exhausted, Expired
  <2>4. worker'[w] = Idle
    BY <1>2, <2>3 DEF Publish, FailForGood, FailRetry, ShapeInv, TypeOK
  <2>5. worker[w].token = job[j].token /\ worker[w].pc \in {"publishing", "failing"}
    BY <1>2, <2>3 DEF Publish, Publishing, FailForGood, FailRetry, HasLease, ShapeInv, PublishersStand
  <2> QED
    BY <2>3, <2>4, <2>5, IdleTyped
<1>3. Spec => SettledForGood
  <2>1. ShapeInv /\ [Next]_vars =>
          [\A j \in Job :
             /\ Settled(j) => job'[j] = [job[j] EXCEPT !.wait = job'[j].wait]
             /\ job'[j].attempts >= job[j].attempts
             /\ Stored(j) => job'[j].attempts <= job[j].request.max]_vars
    BY <1>1
  <2> QED
    BY <2>1, Shape, PTL DEF Spec, SettledForGood
<1>4. Spec => OnlyHolderEndsLease
  <2>1. ShapeInv /\ [Next]_vars =>
          [\A j \in Job :
             job[j].status = "processing" /\ job[j].lease > 0
               /\ (job'[j].status # "processing" \/ job'[j].token # job[j].token) =>
                 \E w \in Worker : /\ worker[w].job = j /\ worker[w].token = job[j].token
                                   /\ worker[w].pc \in {"publishing", "failing"}
                                   /\ worker'[w].pc = "idle"]_vars
    BY <1>2
  <2> QED
    BY <2>1, Shape, PTL DEF Spec, OnlyHolderEndsLease
<1> QED
  BY <1>3, <1>4 DEF LeaseHistory

\* Vectors are written by the publication of a job of their version only.
LEMMA VectorsStep ==
  ASSUME ShapeInv, [Next]_vars
  PROVE  \/ UNCHANGED vectors
         \/ \E w \in Worker, j \in Job :
              /\ Publish(w) /\ worker[w].job = j /\ JobVersion(j) \in Version
              /\ vectors' = [vectors EXCEPT ![JobVersion(j)] = j]
              /\ job'[j].status = "processed" /\ job'[j].request = job[j].request
              /\ job'[j].scan = current[JobVersion(j)] /\ job'[j].scan \in ScanId
<1>1. UNCHANGED vectors \/ \E w \in Worker : Publish(w)
  BY DEF Next, vars, queueVars, Enqueue, Resolve, EnqueueNew, EnqueueConflicts, ResolveByKey,
      ResolveByWork, EnqueueFails, Lease, LeaseJob, LeaseNone, Heartbeat, Beat, BeatAnswered,
      BeatFails, Run, Checkpoint, CheckpointJoinsBeat, CheckpointFails, WorkFails, BeginComplete,
      CompleteWithoutLease, CompleteRefused, PublishLate, PublishFails, FailRetry,
      FailForGood, FailWithoutLease, Crash, Tick, AcceptanceMoves, SetActive
<1>2. ASSUME NEW w \in Worker, Publish(w)
      PROVE  \E j \in Job :
              /\ Publish(w) /\ worker[w].job = j /\ JobVersion(j) \in Version
              /\ vectors' = [vectors EXCEPT ![JobVersion(j)] = j]
              /\ job'[j].status = "processed" /\ job'[j].request = job[j].request
              /\ job'[j].scan = current[JobVersion(j)] /\ job'[j].scan \in ScanId
  <2>1. Publishing(w) /\ worker[w].pc # "idle"
    BY <1>2 DEF Publish, Publishing
  <2>2. PICK j \in Job : j = worker[w].job /\ JobVersion(j) \in Version /\ job[j] \in Row
    BY <2>1, HolderRow
  <2>3. /\ job[j].status = "processing" /\ job[j].scan = worker[w].scan
        /\ current[JobVersion(j)] = worker[w].scan /\ job[j].scan \in ScanId
    BY <2>1, <2>2 DEF ShapeInv, PublishersStand, Holders, Rows, Stored
  <2>4. /\ job'[j] = DropLease(job[j], "processed")
        /\ vectors' = [vectors EXCEPT ![JobVersion(j)] = j]
    BY <1>2, <2>2 DEF Publish, ShapeInv, TypeOK
  <2>5. job'[j].status = "processed" /\ job'[j].request = job[j].request
        /\ job'[j].scan = job[j].scan
    BY <2>2, <2>4, RowChanges
  <2> QED
    BY <1>2, <2>2, <2>3, <2>4, <2>5
<1> QED
  BY <1>1, <1>2

\* A generation replaces another only under the acceptance its job was leased
\* with, the current one at that moment (lock_valid_artifact_acceptance_v1).
THEOREM PublishedAccepted == Spec => PublishedUnderCurrentAcceptance
<1>1. ShapeInv /\ [Next]_vars =>
        [\A v \in Version : vectors'[v] # vectors[v] =>
           /\ current[v] # NoScan
           /\ job'[vectors'[v]].scan = current[v]]_vars
  <2> SUFFICES ASSUME ShapeInv, [Next]_vars, NEW v \in Version, vectors'[v] # vectors[v]
               PROVE  current[v] # NoScan /\ job'[vectors'[v]].scan = current[v]
    OBVIOUS
  <2>1. PICK j \in Job : /\ vectors' = [vectors EXCEPT ![JobVersion(j)] = j]
                         /\ job'[j].scan = current[JobVersion(j)] /\ job'[j].scan \in ScanId
    BY VectorsStep
  <2>2. v = JobVersion(j) /\ vectors'[v] = j
    BY <2>1 DEF ShapeInv, TypeOK
  <2> QED
    BY <2>1, <2>2, ConstantsTyped
<1> QED
  BY <1>1, Shape, PTL DEF Spec, PublishedUnderCurrentAcceptance

\* A version that retrieval treats as processed has the vectors of a job that
\* succeeded (replaceDocumentVersion and COMPLETE_JOB_SQL in one transaction).
THEOREM Vectors == Spec => []VectorsOfProcessedJob
<1>1. Init => VectorsOfProcessedJob
  BY DEF Init, VectorsOfProcessedJob
<1>2. ASSUME ShapeInv, [Next]_vars, VectorsOfProcessedJob PROVE VectorsOfProcessedJob'
  <2>1. /\ vectors \in [Version -> Job \cup {NoJob}]
        /\ extraction \in [Version -> {"pending", "queued", "processed", "failed"}]
    BY <1>2 DEF ShapeInv, TypeOK
  <2>2. ASSUME NEW j \in Job, job[j].status = "processed"
        PROVE  job'[j].status = "processed" /\ job'[j].request = job[j].request
    <3>1. RowMoves(j)
      BY <1>2, RowStep
    <3> QED
      BY <2>2, <3>1 DEF RowMoves, RowKept, RowEnters, RowLeased, RowEnds, Leasable, Expired, Stored
  <2>3. ASSUME NEW v \in Version, vectors'[v] # NoJob
        PROVE  job'[vectors'[v]].status = "processed" /\ job'[vectors'[v]].request.version = v
    <3>1. CASE vectors'[v] = vectors[v]
      BY <1>2, <2>1, <2>2, <2>3, <3>1 DEF VectorsOfProcessedJob, JobVersion
    <3>2. CASE vectors'[v] # vectors[v]
      <4>1. PICK j \in Job : /\ vectors' = [vectors EXCEPT ![JobVersion(j)] = j]
                             /\ job'[j].status = "processed" /\ job'[j].request = job[j].request
        BY <1>2, <3>2, VectorsStep
      <4>2. v = JobVersion(j) /\ vectors'[v] = j
        BY <2>1, <3>2, <4>1
      <4> QED
        BY <4>1, <4>2 DEF JobVersion
    <3> QED
      BY <3>1, <3>2
  <2>4. ASSUME NEW v \in Version, extraction'[v] = "processed" PROVE vectors'[v] # NoJob
    <3>1. CASE \E w \in Worker : Publish(w)
      <4>1. PICK w \in Worker : Publish(w)
        BY <3>1
      <4>2. worker[w].job \in Job
        BY <1>2, <4>1, HolderRow DEF Publish, Publishing
      <4> QED
        BY <1>2, <2>1, <2>4, <4>1, <4>2, ConstantsTyped DEF Publish, VectorsOfProcessedJob
    <3>2. CASE ~\E w \in Worker : Publish(w)
      <4>1. UNCHANGED vectors
        BY <1>2, <3>2, VectorsStep
      <4>2. UNCHANGED extraction \/ extraction' = ExtractionExhausted
              \/ \E u, s : s \in {"queued", "failed"} /\ extraction' = [extraction EXCEPT ![u] = s]
        BY <1>2, <3>2
        DEF Next, vars, queueVars, Enqueue, Resolve, EnqueueNew, EnqueueConflicts, ResolveByKey,
            ResolveByWork, EnqueueFails, Lease, LeaseJob, LeaseNone, Heartbeat, Beat, BeatAnswered,
            BeatFails, Run, Checkpoint, CheckpointJoinsBeat, CheckpointFails, WorkFails,
            BeginComplete, CompleteWithoutLease, CompleteRefused, PublishLate, PublishFails,
            FailRetry, FailForGood, FailWithoutLease, Crash, Tick, AcceptanceMoves, SetActive
      <4>3. extraction[v] = "processed"
        BY <2>1, <2>4, <4>2 DEF ExtractionExhausted
      <4> QED
        BY <1>2, <4>1, <4>3 DEF VectorsOfProcessedJob
    <3> QED
      BY <3>1, <3>2
  <2> QED
    BY <2>3, <2>4 DEF VectorsOfProcessedJob, JobVersion
<1> QED
  BY <1>1, <1>2, Shape, PTL DEF Spec
-----------------------------------------------------------------------------
(***************************************************************************)
(* The queue and its clients                                               *)
(***************************************************************************)
\* A request enters the queue alone, and meets neither its key nor its work.
LEMMA EntersAlone ==
  ASSUME ShapeInv, NEW c \in Client, NEW r \in Requests, NEW j \in Job, EnqueueNew(c, r, j)
  PROVE  /\ job'[j].status = "queued" /\ job'[j].request = r
         /\ ~Stored(j) /\ client[c].pc = "new"
         /\ \A d \in Client \ {c} : client'[d] = client[d]
         /\ \A k \in Job \ {j} : /\ job'[k] = job[k]
                                 /\ Stored(k) => job[k].request.key # r.key
                                 /\ LiveWork(k) => WorkOf(job[k].request) # WorkOf(r)
  BY DEF EnqueueNew, Answered, KeyRows, WorkRows, ShapeInv, TypeOK, AbsentRow

\* Work that is no longer pending or done stays so.
LEMMA LiveWorkWas ==
  ASSUME ShapeInv, [Next]_vars, NEW j \in Job, Stored(j), LiveWork(j)'
  PROVE  LiveWork(j)
<1>1. RowMoves(j)
  BY RowStep
<1> QED
  BY <1>1 DEF RowMoves, RowKept, RowEnters, RowLeased, RowEnds, Leasable, Expired, LiveWork, Stored

\* Work that has entered was not stored before, and nothing else enters with it.
LEMMA NewlyStored ==
  ASSUME ShapeInv, [Next]_vars, NEW j \in Job, ~Stored(j), Stored(j)'
  PROVE  \E c \in Client, r \in Requests : EnqueueNew(c, r, j) /\ job'[j].request = r
<1>1. RowMoves(j)
  BY RowStep
<1> QED
  BY <1>1 DEF RowMoves, RowKept, RowEnters, RowLeased, RowEnds, Stored

\* No step queues work that is queued or done already (enqueue).
LEMMA QueuedOnceStep ==
  ASSUME ShapeInv, WorkQueuedOnce, [Next]_vars
  PROVE  WorkQueuedOnce'
<1> SUFFICES ASSUME NEW j \in Job, NEW k \in Job, j # k, Stored(j)', Stored(k)'
             PROVE  /\ job'[j].request.key # job'[k].request.key
                    /\ LiveWork(j)' /\ LiveWork(k)' =>
                         WorkOf(job'[j].request) # WorkOf(job'[k].request)
  BY DEF WorkQueuedOnce, WorkOf
<1>1. CASE Stored(j) /\ Stored(k)
  <2>1. job'[j].request = job[j].request /\ job'[k].request = job[k].request
    BY <1>1, StoredStays
  <2>2. (LiveWork(j)' => LiveWork(j)) /\ (LiveWork(k)' => LiveWork(k))
    BY <1>1, LiveWorkWas
  <2> QED
    BY <1>1, <2>1, <2>2 DEF WorkQueuedOnce
<1>2. ASSUME NEW x \in Job, NEW y \in Job, x # y, ~Stored(x), Stored(x)', Stored(y)'
      PROVE  /\ job'[x].request.key # job'[y].request.key
             /\ LiveWork(y)' => WorkOf(job'[x].request) # WorkOf(job'[y].request)
  <2>1. PICK c \in Client, r \in Requests : EnqueueNew(c, r, x) /\ job'[x].request = r
    BY <1>2, NewlyStored
  <2>2. /\ job'[y] = job[y] /\ (Stored(y) => job[y].request.key # r.key)
        /\ LiveWork(y) => WorkOf(job[y].request) # WorkOf(r)
    BY <1>2, <2>1, EntersAlone
  <2>3. Stored(y) /\ (LiveWork(y)' => LiveWork(y))
    BY <1>2, <2>2 DEF Stored, LiveWork
  <2> QED
    BY <2>1, <2>2, <2>3
<1> QED
  BY <1>1, <1>2

\* No step takes away the row that a conflicting enqueue call found.
LEMMA ClaimStep ==
  ASSUME ShapeInv, ClaimNeverDisappears, [Next]_vars
  PROVE  ClaimNeverDisappears'
<1> SUFFICES ASSUME NEW c \in Client, client'[c].pc = "resolving"
             PROVE  \E j \in Job : /\ Stored(j)'
                                   /\ \/ job'[j].request.key = client'[c].request.key
                                      \/ /\ LiveWork(j)'
                                         /\ WorkOf(job'[j].request) = WorkOf(client'[c].request)
  BY DEF ClaimNeverDisappears, KeyRows, WorkRows, WorkOf
<1>1. ClientMoves(c)
  BY ClientStep
<1>2. CASE client'[c] = client[c]
  <2>1. PICK j \in Job : \/ Stored(j) /\ job[j].request.key = client[c].request.key
                         \/ LiveWork(j) /\ WorkOf(job[j].request) = WorkOf(client[c].request)
    BY <1>2 DEF ClaimNeverDisappears, KeyRows, WorkRows
  <2>2. Stored(j)
    BY <2>1 DEF LiveWork, Stored
  <2>3. Stored(j)' /\ job'[j].request = job[j].request
    BY <2>2, StoredStays
  <2>4. ASSUME LiveWork(j), WorkOf(job[j].request) = WorkOf(client[c].request) PROVE LiveWork(j)'
    <3>1. JobVersion(j) = client[c].request.version
      BY <2>4 DEF WorkOf, JobVersion
    <3>2. VersionLocked(JobVersion(j))
      BY <1>2, <3>1 DEF VersionLocked
    <3>3. RowMoves(j)
      BY RowStep
    <3> QED
      BY <2>2, <2>4, <3>2, <3>3
      DEF RowMoves, RowKept, RowEnters, RowLeased, RowEnds, LiveWork
  <2> QED
    BY <1>2, <2>1, <2>3, <2>4
<1>3. CASE ClientConflicts(c)
  <2>1. PICK r \in Requests : /\ KeyRows(r) \cup WorkRows(r) # {} /\ UNCHANGED job
                              /\ client'[c].request = r
    BY <1>3 DEF ClientConflicts
  <2>2. PICK j \in Job : \/ Stored(j) /\ job[j].request.key = r.key
                         \/ LiveWork(j) /\ WorkOf(job[j].request) = WorkOf(r)
    BY <2>1 DEF KeyRows, WorkRows
  <2>3. Stored(j)' /\ job'[j] = job[j] /\ (LiveWork(j) => LiveWork(j)')
    BY <2>1, <2>2 DEF LiveWork, Stored
  <2> QED
    BY <2>1, <2>2, <2>3
<1>4. ~ClientCreates(c) /\ ~ClientToldOfJob(c) /\ ~ClientRefused(c)
  <2>1. ClientCreates(c) => client'[c].pc = "done"
    BY DEF ClientCreates
  <2>2. ClientToldOfJob(c) => client'[c].pc = "done"
    BY DEF ClientToldOfJob
  <2>3. ClientRefused(c) => client'[c].pc = "done"
    BY DEF ClientRefused
  <2> QED
    BY <2>1, <2>2, <2>3
<1> QED
  BY <1>1, <1>2, <1>3, <1>4 DEF ClientMoves

\* Every step keeps the answers of enqueue about the caller's own job.
LEMMA AnswersStep ==
  ASSUME ShapeInv, AnswersNameTheirJob, [Next]_vars
  PROVE  AnswersNameTheirJob'
<1>1. ASSUME NEW c \in Client, client'[c].answer \in {"new", "replay", "duplicate_work"}
      PROVE  /\ client'[c].job \in Job
             /\ client'[c].answer \in {"new", "replay"} =>
                  job'[client'[c].job].request = client'[c].request
             /\ client'[c].answer = "duplicate_work" =>
                  WorkOf(job'[client'[c].job].request) = WorkOf(client'[c].request)
  <2>1. ClientMoves(c)
    BY ClientStep
  <2>2. CASE client'[c] = client[c]
    <3>1. PICK j \in Job : j = client[c].job /\ Stored(j)
      BY <1>1, <2>2 DEF ShapeInv, Callers
    <3>2. job'[j].request = job[j].request
      BY <3>1, StoredStays
    <3> QED
      BY <2>2, <3>1, <3>2 DEF AnswersNameTheirJob
  <2>3. CASE ClientCreates(c)
    <3>1. PICK r \in Requests, j \in Job :
            /\ EnqueueNew(c, r, j)
            /\ client'[c] = [pc |-> "done", request |-> r, answer |-> "new", job |-> j]
      BY <2>3 DEF ClientCreates
    <3>2. job'[j].request = r
      BY <3>1, EntersAlone
    <3> QED
      BY <3>1, <3>2
  <2>4. CASE ClientConflicts(c)
    BY <1>1, <2>4 DEF ClientConflicts, ShapeInv, Callers
  <2>5. CASE ClientToldOfJob(c)
    BY <2>5 DEF ClientToldOfJob
  <2>6. CASE ClientRefused(c)
    BY <1>1, <2>6 DEF ClientRefused
  <2> QED
    BY <2>1, <2>2, <2>3, <2>4, <2>5, <2>6 DEF ClientMoves
<1>2. ASSUME NEW c \in Client, client'[c].answer = "new",
             NEW d \in Client, client'[d].answer = "new", client'[d].job = client'[c].job
      PROVE  d = c
  <2>1. ASSUME NEW x \in Client, NEW y \in Client, ClientCreates(x), x # y, client'[y].answer = "new"
        PROVE  client'[y].job # client'[x].job
    <3>1. PICK r \in Requests, j \in Job : EnqueueNew(x, r, j) /\ client'[x].job = j
      BY <2>1 DEF ClientCreates
    <3>2. ~Stored(j) /\ client'[y] = client[y]
      BY <2>1, <3>1, EntersAlone
    <3> QED
      BY <2>1, <3>1, <3>2 DEF ShapeInv, Callers
  <2>2. ASSUME NEW x \in Client, client'[x].answer = "new", ~ClientCreates(x)
        PROVE  client'[x] = client[x]
    <3>1. ClientMoves(x)
      BY ClientStep
    <3>2. ClientToldOfJob(x) => client'[x].answer \in {"replay", "duplicate_work"}
      BY DEF ClientToldOfJob
    <3>3. ClientConflicts(x) => client'[x].answer = "none"
      BY DEF ClientConflicts, ShapeInv, Callers
    <3>4. ClientRefused(x) => client'[x].answer # "new"
      BY DEF ClientRefused
    <3> QED
      BY <2>2, <3>1, <3>2, <3>3, <3>4 DEF ClientMoves
  <2>3. CASE ClientCreates(c) \/ ClientCreates(d)
    BY <1>2, <2>1, <2>3
  <2>4. CASE ~ClientCreates(c) /\ ~ClientCreates(d)
    <3>1. client'[c] = client[c] /\ client'[d] = client[d]
      BY <1>2, <2>2, <2>4
    <3> QED
      BY <1>2, <3>1 DEF AnswersNameTheirJob
  <2> QED
    BY <2>3, <2>4
<1> QED
  BY <1>1, <1>2 DEF AnswersNameTheirJob, WorkOf

\* Whatever enqueues collide, the queue holds each work and key once, and what
\* clients were told of it is and stays true (enqueue).
THEOREM Queue == Spec => []QueueConsistent
<1>1. Init => QueueConsistent
  BY DEF Init, QueueConsistent, WorkQueuedOnce, ClaimNeverDisappears, AnswersNameTheirJob, Stored,
         AbsentRow
<1>2. ShapeInv /\ QueueConsistent /\ [Next]_vars => QueueConsistent'
  BY QueuedOnceStep, ClaimStep, AnswersStep DEF QueueConsistent
<1> QED
  BY <1>1, <1>2, Shape, PTL DEF Spec
-----------------------------------------------------------------------------
(***************************************************************************)
(* The queue implements IngestionContract                                  *)
(***************************************************************************)
\* The refinement mapping.
ContractStates == [j \in Job |-> ContractState(j)]

ContractWork == [j \in Job |-> IF Stored(j) THEN WorkOf(job[j].request) ELSE NoRequest]

\* Expired jobs without attempts left are given up together, and nothing else
\* is settled with them.
LEMMA GivenUpTogether ==
  ASSUME ShapeInv, [Next]_vars, NEW w \in Worker, Lease(w)
  PROVE  /\ \A j \in Exhausted : job[j].status = "processing" /\ job'[j].status = "failed"
         /\ \A j \in Job \ Exhausted : ContractState(j)' = ContractState(j)
         /\ ContractWork' = ContractWork /\ UNCHANGED vectors
<1>1. ASSUME NEW j \in Job
      PROVE  \/ j \in Exhausted /\ job'[j] = DropLease(job[j], "failed")
             \/ j \notin Exhausted /\ job'[j] = job[j]
             \/ j \notin Exhausted /\ RowLeased(j)
  <2>1. ASSUME NEW k \in Job, LeaseJob(w, k)
        PROVE  /\ RowLeased(k) /\ k \notin Exhausted
               /\ j # k => job'[j] = IF j \in Exhausted THEN DropLease(job[j], "failed") ELSE job[j]
    <3>1. RowLeased(k)
      BY <2>1, LeaseIsWritten
    <3>2. job[k].request \in Requests /\ job[k].attempts < job[k].request.max
      BY <3>1 DEF RowLeased, Leasable, ShapeInv, Rows
    <3>3. k \notin Exhausted
      BY <3>2, RowTyped, RequestTyped DEF Exhausted, ShapeInv
    <3> QED
      BY <2>1, <3>1, <3>3 DEF LeaseJob, FailExhausted
  <2>2. ASSUME LeaseNone(w)
        PROVE  job'[j] = IF j \in Exhausted THEN DropLease(job[j], "failed") ELSE job[j]
    BY <2>2 DEF LeaseNone, FailExhausted
  <2>3. CASE LeaseNone(w)
    BY <2>2, <2>3
  <2>4. CASE \E k \in Job : LeaseJob(w, k)
    BY <2>1, <2>4
  <2> QED
    BY <2>3, <2>4 DEF Lease
<1>2. ASSUME NEW j \in Exhausted PROVE job[j].status = "processing" /\ job'[j].status = "failed"
  <2>1. j \in Job /\ job[j] \in Row /\ job[j].status = "processing"
    BY RowTyped DEF Exhausted, Expired, ShapeInv
  <2> QED
    BY <1>1, <2>1, RowChanges
<1>3. ASSUME NEW j \in Job \ Exhausted PROVE ContractState(j)' = ContractState(j)
  BY <1>1 DEF RowLeased, Leasable, Expired, ContractState
<1>4. ASSUME NEW j \in Job
      PROVE  Stored(j)' = Stored(j) /\ (Stored(j) => job'[j].request = job[j].request)
  <2>1. CASE Stored(j)
    BY <2>1, StoredStays
  <2>2. CASE ~Stored(j)
    BY <1>1, <2>2 DEF Stored, Exhausted, Expired, RowLeased
  <2> QED
    BY <2>1, <2>2
<1>5. ContractWork' = ContractWork
  BY <1>4 DEF ContractWork, WorkOf
<1>6. UNCHANGED vectors
  BY DEF Lease, LeaseJob, LeaseNone
<1> QED
  BY <1>2, <1>3, <1>5, <1>6

\* Each step submits one job, lets one succeed, gives some up or does nothing
\* that clients and retrieval can see.
LEMMA ContractStep ==
  ASSUME ShapeInv, [Next]_vars
  PROVE  \/ UNCHANGED <<ContractStates, ContractWork, vectors>>
         \/ \E j \in Job, x \in Version \X Config :
              /\ ContractStates[j] = "absent"
              /\ \A k \in Job : ContractStates[k] \in {"pending", "processed"} => ContractWork[k] # x
              /\ ContractStates' = [ContractStates EXCEPT ![j] = "pending"]
              /\ ContractWork' = [ContractWork EXCEPT ![j] = x]
              /\ UNCHANGED vectors
         \/ \E j \in Job :
              /\ ContractStates[j] = "pending" /\ ContractWork[j] \in Version \X Config
              /\ ContractStates' = [ContractStates EXCEPT ![j] = "processed"]
              /\ vectors' = [vectors EXCEPT ![ContractWork[j][1]] = j]
              /\ UNCHANGED ContractWork
         \/ \E js \in SUBSET Job :
              /\ js # {} /\ \A j \in js : ContractStates[j] = "pending"
              /\ ContractStates' = [j \in Job |-> IF j \in js THEN "failed" ELSE ContractStates[j]]
              /\ UNCHANGED <<ContractWork, vectors>>
<1>1. /\ DOMAIN ContractStates = Job /\ DOMAIN ContractWork = Job
      /\ ContractStates = [j \in Job |-> ContractStates[j]]
      /\ ContractWork = [j \in Job |-> ContractWork[j]]
      /\ \A j \in Job : /\ ContractStates[j] = ContractState(j)
                        /\ Stored(j) => ContractWork[j] = WorkOf(job[j].request)
      /\ ContractStates' = [j \in Job |-> ContractState(j)']
      /\ ContractWork' = [j \in Job |-> IF Stored(j)' THEN WorkOf(job'[j].request) ELSE NoRequest]
  BY DEF ContractStates, ContractWork, WorkOf
<1>2. ASSUME NEW r \in Requests PROVE WorkOf(r) \in Version \X Config
  BY <1>2, RequestTyped DEF WorkOf
<1>3. ASSUME NEW w \in Worker, worker[w].pc # "idle"
      PROVE  \E j \in Job : /\ j = worker[w].job /\ Stored(j) /\ job[j].request \in Requests
                            /\ job[j] \in Row /\ ContractWork[j] = WorkOf(job[j].request)
                            /\ ContractWork[j] \in Version \X Config
                            /\ ContractWork[j][1] = JobVersion(j)
  <2>1. PICK j \in Job : /\ j = worker[w].job /\ Stored(j) /\ job[j].request \in Requests
                         /\ job[j] \in Row
    BY <1>3, HolderRow
  <2>2. ContractWork[j] = WorkOf(job[j].request)
    BY <1>1, <2>1
  <2>3. ContractWork[j][1] = JobVersion(j)
    BY <2>2 DEF WorkOf, JobVersion
  <2> QED
    BY <1>2, <2>1, <2>2, <2>3
<1>4. ASSUME NEW c \in Client, NEW r \in Requests, NEW j \in Job, EnqueueNew(c, r, j)
      PROVE  \E x \in Version \X Config :
              /\ ContractStates[j] = "absent"
              /\ \A k \in Job : ContractStates[k] \in {"pending", "processed"} => ContractWork[k] # x
              /\ ContractStates' = [ContractStates EXCEPT ![j] = "pending"]
              /\ ContractWork' = [ContractWork EXCEPT ![j] = x]
              /\ UNCHANGED vectors
  <2>1. /\ job'[j].status = "queued" /\ job'[j].request = r /\ ~Stored(j)
        /\ \A k \in Job \ {j} : /\ job'[k] = job[k]
                                /\ LiveWork(k) => WorkOf(job[k].request) # WorkOf(r)
    BY <1>4, EntersAlone
  <2>2. ContractStates[j] = "absent"
    BY <1>1, <2>1 DEF ContractState, Stored
  <2>3. ASSUME NEW k \in Job, ContractStates[k] \in {"pending", "processed"}
        PROVE  ContractWork[k] # WorkOf(r)
    <3>1. LiveWork(k) /\ Stored(k)
      <4>1. job[k].status \in {"absent", "queued", "processing", "processed", "failed"}
        BY RowTyped DEF ShapeInv
      <4>2. ContractState(k) \in {"pending", "processed"}
        BY <1>1, <2>3
      <4> QED
        BY <4>1, <4>2 DEF ContractState, LiveWork, Stored
    <3>2. k # j
      BY <2>1, <3>1
    <3> QED
      BY <1>1, <2>1, <3>1, <3>2
  <2>4. ContractStates' = [ContractStates EXCEPT ![j] = "pending"]
    <3>1. ASSUME NEW k \in Job PROVE ContractState(k)' = IF k = j THEN "pending" ELSE ContractStates[k]
      BY <1>1, <2>1 DEF ContractState
    <3> QED
      BY <1>1, <3>1
  <2>5. ContractWork' = [ContractWork EXCEPT ![j] = WorkOf(r)]
    <3>1. ASSUME NEW k \in Job
          PROVE  (IF Stored(k)' THEN WorkOf(job'[k].request) ELSE NoRequest)
                   = IF k = j THEN WorkOf(r) ELSE ContractWork[k]
      BY <2>1 DEF Stored, ContractWork, WorkOf
    <3> QED
      BY <1>1, <3>1
  <2>6. UNCHANGED vectors
    BY <1>4 DEF EnqueueNew
  <2> QED
    BY <1>2, <2>2, <2>3, <2>4, <2>5, <2>6
<1>5. ASSUME NEW w \in Worker, Lease(w)
      PROVE  /\ \A j \in Exhausted : ContractStates[j] = "pending"
             /\ ContractStates' = [j \in Job |-> IF j \in Exhausted THEN "failed"
                                                 ELSE ContractStates[j]]
             /\ UNCHANGED <<ContractWork, vectors>>
  <2>1. /\ \A j \in Exhausted : job[j].status = "processing" /\ job'[j].status = "failed"
        /\ \A j \in Job \ Exhausted : ContractState(j)' = ContractState(j)
        /\ ContractWork' = ContractWork /\ UNCHANGED vectors
    BY <1>5, GivenUpTogether
  <2>2. Exhausted \subseteq Job
    BY DEF Exhausted
  <2>3. \A j \in Exhausted : ContractState(j) = "pending" /\ ContractState(j)' = "failed"
    BY <2>1 DEF ContractState
  <2> QED
    BY <1>1, <2>1, <2>2, <2>3
<1>6. ASSUME NEW j \in Job, job[j].status = "processing", NEW status \in {"processed", "failed"},
             job' = [job EXCEPT ![j] = DropLease(job[j], status)]
      PROVE  /\ ContractStates[j] = "pending"
             /\ ContractStates' = [ContractStates EXCEPT ![j] = status]
             /\ UNCHANGED ContractWork
  <2>1. job[j] \in Row /\ job \in [Job -> Row]
    BY DEF ShapeInv, TypeOK
  <2>2. job'[j].status = status /\ job'[j].request = job[j].request
    BY <1>6, <2>1, RowChanges
  <2>3. \A k \in Job \ {j} : job'[k] = job[k]
    BY <1>6, <2>1
  <2>4. ContractStates[j] = "pending"
    BY <1>1, <1>6 DEF ContractState
  <2>5. ASSUME NEW k \in Job
        PROVE  /\ ContractState(k)' = IF k = j THEN status ELSE ContractStates[k]
               /\ (IF Stored(k)' THEN WorkOf(job'[k].request) ELSE NoRequest) = ContractWork[k]
    <3>1. CASE k = j
      BY <1>6, <2>2, <3>1 DEF ContractState, ContractWork, Stored
    <3>2. CASE k # j
      BY <1>1, <2>3, <3>2 DEF ContractState, ContractWork, Stored
    <3> QED
      BY <3>1, <3>2
  <2> QED
    BY <1>1, <2>4, <2>5
<1>7. ASSUME NEW w \in Worker, Publish(w)
      PROVE  \E j \in Job :
              /\ ContractStates[j] = "pending" /\ ContractWork[j] \in Version \X Config
              /\ ContractStates' = [ContractStates EXCEPT ![j] = "processed"]
              /\ vectors' = [vectors EXCEPT ![ContractWork[j][1]] = j]
              /\ UNCHANGED ContractWork
  <2>1. Publishing(w) /\ worker[w].pc # "idle"
    BY <1>7 DEF Publish, Publishing
  <2>2. PICK j \in Job : /\ j = worker[w].job
                         /\ ContractWork[j] \in Version \X Config
                         /\ ContractWork[j][1] = JobVersion(j)
    BY <1>3, <2>1
  <2>3. job[j].status = "processing"
    BY <2>1, <2>2 DEF ShapeInv, PublishersStand
  <2>4. /\ job' = [job EXCEPT ![j] = DropLease(job[j], "processed")]
        /\ vectors' = [vectors EXCEPT ![JobVersion(j)] = j]
    BY <1>7, <2>2 DEF Publish
  <2> QED
    BY <1>6, <2>2, <2>3, <2>4
<1>8. ASSUME NEW w \in Worker, FailForGood(w)
      PROVE  \E j \in Job :
              /\ ContractStates[j] = "pending"
              /\ ContractStates' = [ContractStates EXCEPT ![j] = "failed"]
              /\ UNCHANGED <<ContractWork, vectors>>
  <2>1. worker[w].pc # "idle" /\ HasLease(w)
    BY <1>8 DEF FailForGood
  <2>2. PICK j \in Job : j = worker[w].job /\ job[j].status = "processing"
    BY <2>1, HolderRow
  <2>3. job' = [job EXCEPT ![j] = DropLease(job[j], "failed")] /\ UNCHANGED vectors
    BY <1>8, <2>2 DEF FailForGood
  <2> QED
    BY <1>6, <2>2, <2>3
<1>9. ASSUME ~ \E c \in Client, r \in Requests, j \in Job : EnqueueNew(c, r, j),
             ~ \E w \in Worker : Lease(w) \/ Publish(w) \/ FailForGood(w)
      PROVE  UNCHANGED <<ContractStates, ContractWork, vectors>>
  <2>1. ASSUME NEW j \in Job
        PROVE  /\ ContractState(j)' = ContractState(j)
               /\ Stored(j)' = Stored(j) /\ job'[j].request = job[j].request
    <3>1. RowMoves(j)
      BY RowStep
    <3>2. ~RowEnters(j) /\ ~RowLeased(j)
      BY <1>9 DEF RowEnters, RowLeased, Lease
    <3>3. RowEnds(j) => job[j].status = "processing" /\ job'[j].status = "queued"
                        /\ job'[j].request = job[j].request
      BY <1>9 DEF RowEnds
    <3> QED
      BY <3>1, <3>2, <3>3 DEF RowMoves, RowKept, ContractState, Stored
  <2>2. UNCHANGED vectors
    BY <1>9, VectorsStep
  <2>3. ContractStates' = ContractStates
    BY <1>1, <2>1
  <2>4. ContractWork' = ContractWork
    BY <2>1 DEF ContractWork, WorkOf
  <2> QED
    BY <2>2, <2>3, <2>4
<1>10. CASE \E w \in Worker : Lease(w)
  <2>1. CASE Exhausted = {}
    BY <1>1, <1>5, <1>10, <2>1
  <2>2. CASE Exhausted # {}
    <3>1. Exhausted \in SUBSET Job
      BY DEF Exhausted
    <3> QED
      BY <1>5, <1>10, <2>2, <3>1
  <2> QED
    BY <2>1, <2>2
<1>11. CASE \E w \in Worker : FailForGood(w)
  <2>1. PICK j \in Job : /\ ContractStates[j] = "pending"
                         /\ ContractStates' = [ContractStates EXCEPT ![j] = "failed"]
                         /\ UNCHANGED <<ContractWork, vectors>>
    BY <1>8, <1>11
  <2>2. ContractStates' = [k \in Job |-> IF k \in {j} THEN "failed" ELSE ContractStates[k]]
    BY <1>1, <2>1
  <2>3. {j} \in SUBSET Job /\ {j} # {} /\ \A k \in {j} : ContractStates[k] = "pending"
    BY <2>1
  <2> QED
    BY <2>1, <2>2, <2>3
<1> QED
  BY <1>4, <1>7, <1>9, <1>10, <1>11

\* Attempts, leases and crashes are invisible to clients and to retrieval: the
\* queue accepts pending work once, settles it once and publishes only with it
\* (ingestionJobService.ts).
THEOREM Contracts == Spec => ImplementsContract
<1>1. Init => Contract!ContractInit
  BY DEF Init, AbsentRow, Stored, ContractState, Contract!ContractInit
<1>2. ShapeInv /\ [Next]_vars => [Contract!ContractNext]_(Contract!contractVars)
  <2> SUFFICES ASSUME ShapeInv, [Next]_vars
               PROVE  \/ Contract!ContractNext
                      \/ UNCHANGED <<ContractStates, ContractWork, vectors>>
    BY DEF Contract!contractVars, ContractStates, ContractWork
  <2>1. ASSUME NEW j \in Job, NEW x \in Version \X Config,
               ContractStates[j] = "absent",
               \A k \in Job : ContractStates[k] \in {"pending", "processed"} => ContractWork[k] # x,
               ContractStates' = [ContractStates EXCEPT ![j] = "pending"],
               ContractWork' = [ContractWork EXCEPT ![j] = x], UNCHANGED vectors
        PROVE  Contract!Submit(j, x)
    BY <2>1 DEF Contract!Submit, Contract!Live, ContractStates, ContractWork
  <2>2. ASSUME NEW j \in Job, ContractStates[j] = "pending",
               ContractWork[j] \in Version \X Config,
               ContractStates' = [ContractStates EXCEPT ![j] = "processed"],
               vectors' = [vectors EXCEPT ![ContractWork[j][1]] = j], UNCHANGED ContractWork
        PROVE  Contract!Succeed(j)
    <3>1. [x \in Version \X Config |-> x[1]][ContractWork[j]] = ContractWork[j][1]
      BY <2>2
    <3> QED
      BY <2>2, <3>1 DEF Contract!Succeed, Contract!Pending, ContractStates, ContractWork
  <2>3. ASSUME NEW js \in SUBSET Job, js # {}, \A j \in js : ContractStates[j] = "pending",
               ContractStates' = [j \in Job |-> IF j \in js THEN "failed" ELSE ContractStates[j]],
               UNCHANGED <<ContractWork, vectors>>
        PROVE  Contract!GiveUp(js)
    BY <2>3 DEF Contract!GiveUp, Contract!Pending, ContractStates, ContractWork
  <2> QED
    BY <2>1, <2>2, <2>3, ContractStep DEF Contract!ContractNext
<1> QED
  BY <1>1, <1>2, Shape, PTL DEF Spec, ImplementsContract, Contract!ContractSpec
=============================================================================
