-------------------------- MODULE AcceptedArtifact --------------------------
(***************************************************************************)
(* What artifact acceptance promises to the rest of the system: every      *)
(* document version has at most one current acceptance, an acceptance is   *)
(* identified by the clean scan that justifies it, it can be replaced,     *)
(* withdrawn or outlived, and a scan justifies one acceptance only: once   *)
(* an acceptance is gone it never comes back.                              *)
(*                                                                         *)
(* ArtifactAcceptance implements this specification; IngestionJobs uses    *)
(* it as the environment of the job queue.                                 *)
(***************************************************************************)
CONSTANTS Version,     \* document versions of one tenant
          ScanId,      \* identities of the inspections an acceptance may rest on
          NoScan       \* "no acceptance"

ASSUME NoScanAssumption == NoScan \notin ScanId

VARIABLES current,     \* the scan of the accepted object of each version, or NoScan
          lapsed,      \* the versions whose acceptance window is over
          spent        \* the scans that have justified an acceptance so far

acceptanceVars == <<current, lapsed, spent>>

AcceptanceTypeOK ==
  /\ current \in [Version -> ScanId \cup {NoScan}]
  /\ lapsed \in SUBSET Version
  /\ spent \in SUBSET ScanId

AcceptanceInit ==
  /\ current = [v \in Version |-> NoScan]
  /\ lapsed = {}
  /\ spent = {}

\* A version has an acceptance that the database would still return.
Valid(v) == current[v] # NoScan /\ v \notin lapsed

\* A clean inspection becomes the acceptance of v, and supersedes the one
\* v had.
Accept(v, s) ==
  /\ s \in ScanId \ spent
  /\ current' = [current EXCEPT ![v] = s]
  /\ lapsed' = lapsed \ {v}
  /\ spent' = spent \cup {s}

\* The accepted object is being inspected again.
Withdraw(v) ==
  /\ current[v] # NoScan
  /\ current' = [current EXCEPT ![v] = NoScan]
  /\ lapsed' = lapsed \ {v}
  /\ UNCHANGED spent

\* Time passes the end of some acceptance windows.
Lapse(vs) ==
  /\ vs # {}
  /\ \A v \in vs : Valid(v)
  /\ lapsed' = lapsed \cup vs
  /\ UNCHANGED <<current, spent>>

AcceptanceNext ==
  \/ \E v \in Version, s \in ScanId : Accept(v, s)
  \/ \E v \in Version : Withdraw(v)
  \/ \E vs \in SUBSET Version : Lapse(vs)

AcceptanceSpec == AcceptanceInit /\ [][AcceptanceNext]_acceptanceVars
=============================================================================
