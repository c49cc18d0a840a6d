------------------------- MODULE IngestionContract --------------------------
(***************************************************************************)
(* What the ingestion queue promises to its clients and to retrieval,      *)
(* without attempts, leases, workers or crashes: work that is pending or   *)
(* done is never accepted a second time, a job is settled once, and the    *)
(* vectors of a document version change only together with the success of  *)
(* the job they come from.                                                 *)
(***************************************************************************)
CONSTANTS Job, Work, WorkVersion, Version, NoJob, NoWork

VARIABLES state,      \* where each job stands
          work,       \* the work of each submitted job
          published   \* the job whose vectors each version has

contractVars == <<state, work, published>>

Pending(j) == state[j] = "pending"
Live(j) == state[j] \in {"pending", "processed"}

ContractInit ==
  /\ state = [j \in Job |-> "absent"]
  /\ work = [j \in Job |-> NoWork]
  /\ published = [v \in Version |-> NoJob]

Submit(j, x) ==
  /\ state[j] = "absent"
  /\ \A k \in Job : Live(k) => work[k] # x
  /\ state' = [state EXCEPT ![j] = "pending"]
  /\ work' = [work EXCEPT ![j] = x]
  /\ UNCHANGED published

Succeed(j) ==
  /\ Pending(j)
  /\ state' = [state EXCEPT ![j] = "processed"]
  /\ published' = [published EXCEPT ![WorkVersion[work[j]]] = j]
  /\ UNCHANGED work

GiveUp(js) ==
  /\ js # {}
  /\ \A j \in js : Pending(j)
  /\ state' = [j \in Job |-> IF j \in js THEN "failed" ELSE state[j]]
  /\ UNCHANGED <<work, published>>

ContractNext ==
  \/ \E j \in Job, x \in Work : Submit(j, x)
  \/ \E j \in Job : Succeed(j)
  \/ \E js \in SUBSET Job : GiveUp(js)

ContractSpec == ContractInit /\ [][ContractNext]_contractVars
=============================================================================
