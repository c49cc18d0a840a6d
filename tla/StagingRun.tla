------------------------------- MODULE StagingRun -------------------------------
(***************************************************************************)
(* The ephemeral staging runner                                            *)
(* (src/src/staging/ephemeralStagingRunner.ts, with the executor of        *)
(* ephemeralStagingPostgresExecutor.ts and the CLI): databases and roles   *)
(* of fixed names are created in a dedicated cluster, migrated, exercised  *)
(* by the smokes of the API journeys, and dropped whatever happened; a     *)
(* receipt says how it went.  Every command to the cluster may fail, the   *)
(* process may end, and a second run may start before the first has ended. *)
(***************************************************************************)
EXTENDS Naturals, Sequences, FiniteSets

CONSTANTS StagingRuns,
          Database,     \* 1 .. n, in the order of STAGING_DATABASE_SCENARIOS
          WithReset,    \* the scenarios that are recreated and exercised again
          CleansExisting, \* runs with STAGING_CLEAN_EXISTING
          NoRun

ASSUME StagingConstants ==
  /\ IsFiniteSet(Database) /\ Database # {} /\ Database = 1..Cardinality(Database)
  /\ WithReset \subseteq Database /\ NoRun \notin StagingRuns

VARIABLES databases,  \* who created each, and whether it is migrated
          role,       \* who created the runtime role
          staging,    \* of each run
          overlapped, \* history: two runs were under way at once
          trespassed  \* history: a run that may not clean dropped what was not its own
stagingVars == <<databases, role, staging, overlapped, trespassed>>

NoDatabase == [by |-> NoRun, migrated |-> FALSE]
Phases == <<"before", "preflight", "create", "migrate", "verify", "reset", "migrate_again", "verify_again",
            "drop", "drop_role", "check", "ended", "crashed">>
IdleRun == [phase |-> "before", at |-> 1, owned |-> FALSE, failed |-> FALSE, verified |-> {},
            destroyed |-> {}, receipt |-> "none"]

StagingTypeOK ==
  /\ databases \in [Database -> [by : StagingRuns \cup {NoRun}, migrated : BOOLEAN]]
  /\ role \in StagingRuns \cup {NoRun}
  /\ \A r \in StagingRuns : /\ \E i \in 1..Len(Phases) : staging[r].phase = Phases[i]
                            /\ staging[r].receipt \in {"none", "passed", "failed", "invalid"}

StagingInit ==
  /\ databases = [d \in Database |-> NoDatabase]
  /\ role = NoRun
  /\ staging = [r \in StagingRuns |-> IdleRun]
  /\ overlapped = FALSE /\ trespassed = FALSE

-------------------------------------------------------------------------------
(* environmentExists.                                                      *)
Exists == role # NoRun \/ \E d \in Database : databases[d] # NoDatabase
UnderWay(r) == staging[r].phase \notin {"before", "ended", "crashed"}
In(r, phase) == staging[r].phase = phase
RunOf(r, run) == staging' = [staging EXCEPT ![r] = run]

(* The next database of the phase, or the phase after it.                  *)
Onward(r, next) ==
  IF staging[r].at < Cardinality(Database) THEN [staging[r] EXCEPT !.at = @ + 1]
  ELSE [staging[r] EXCEPT !.phase = next, !.at = 1]
RestKept == UNCHANGED <<overlapped, trespassed>>

(* A run without the flag drops an object another run created.             *)
Drops(r, by) == trespassed' = (trespassed \/ (r \notin CleansExisting /\ by \notin {r, NoRun}))

(* The CLI; executor.preflight().                                          *)
StartRun(r) ==
  /\ In(r, "before")
  /\ RunOf(r, [staging[r] EXCEPT !.phase = "preflight"])
  /\ overlapped' = (overlapped \/ \E other \in StagingRuns : UnderWay(other))
  /\ UNCHANGED <<databases, role, trespassed>>

(* A mutant: what is there is cleaned without the flag.                    *)
OwnsAnything(r) == TRUE

(* An environment that is there is refused, or owned and cleaned.          *)
MayOwn(r) == ~Exists \/ r \in CleansExisting
Owns(r) ==
  /\ In(r, "preflight") /\ MayOwn(r)
  /\ databases' = [d \in Database |-> NoDatabase] /\ role' = NoRun
  /\ RunOf(r, [staging[r] EXCEPT !.phase = "create", !.owned = TRUE])
  /\ trespassed' = (trespassed \/ (r \notin CleansExisting /\ Exists)) /\ UNCHANGED overlapped
Refuses(r) ==
  /\ In(r, "preflight") /\ ~MayOwn(r)
  /\ RunOf(r, [IdleRun EXCEPT !.phase = "ended", !.receipt = "failed"])
  /\ UNCHANGED <<databases, role>> /\ RestKept

(* executor.createDatabase(); CREATE DATABASE of a name in use fails.      *)
Creates(r) ==
  LET d == staging[r].at
  IN /\ In(r, "create") /\ databases[d] = NoDatabase
     /\ databases' = [databases EXCEPT ![d].by = r]
     /\ RunOf(r, Onward(r, "migrate"))
     /\ UNCHANGED role /\ RestKept

(* executor.applySql() of the scenario's files, which create the role.     *)
Migrates(r) ==
  LET d == staging[r].at
  IN /\ staging[r].phase \in {"migrate", "migrate_again"} /\ databases[d] # NoDatabase
     /\ databases' = [databases EXCEPT ![d].migrated = TRUE]
     /\ role' = IF role = NoRun THEN r ELSE role
     /\ RunOf(r, IF In(r, "migrate") THEN Onward(r, "verify") ELSE [staging[r] EXCEPT !.phase = "verify_again"])
     /\ RestKept

(* executor.runSmoke() of the scenario, and what follows it.               *)
Verified(r, what) == [staging[r] EXCEPT !.verified = @ \cup {<<staging[r].at, what, databases[staging[r].at].by>>}]
AfterScenario(r, run) ==
  IF run.at < Cardinality(Database) THEN [run EXCEPT !.phase = "verify", !.at = @ + 1]
  ELSE [run EXCEPT !.phase = "drop", !.at = 1]
Verifies(r) ==
  LET d == staging[r].at
      once == Verified(r, "smoke")
  IN /\ staging[r].phase \in {"verify", "verify_again"} /\ databases[d].migrated
     /\ RunOf(r, IF In(r, "verify") /\ d \in WithReset THEN [once EXCEPT !.phase = "reset"]
                 ELSE AfterScenario(r, IF In(r, "verify") THEN once ELSE Verified(r, "reset")))
     /\ UNCHANGED <<databases, role>> /\ RestKept

(* executor.recreateDatabase().                                            *)
Recreates(r) ==
  LET d == staging[r].at
  IN /\ In(r, "reset")
     /\ databases' = [databases EXCEPT ![d] = [by |-> r, migrated |-> FALSE]]
     /\ RunOf(r, [staging[r] EXCEPT !.phase = "migrate_again"])
     /\ Drops(r, databases[d].by)
     /\ UNCHANGED <<role, overlapped>>

(* Any of these fails: the rest is skipped and what is owned is destroyed. *)
Working == {"preflight", "create", "migrate", "verify", "reset", "migrate_again", "verify_again"}
FailedRun == [IdleRun EXCEPT !.phase = "drop", !.owned = TRUE, !.failed = TRUE]
Stops(r) ==
  /\ staging[r].phase \in Working
  /\ RunOf(r, IF staging[r].owned THEN FailedRun ELSE [IdleRun EXCEPT !.phase = "ended", !.receipt = "failed"])
  /\ UNCHANGED <<databases, role>> /\ RestKept

(* Or it fails half way: in the midst of cleaning, between the drop and    *)
(* the creation of one database, or after the first files of SQL.          *)
StopsHalfway(r) ==
  /\ \/ /\ In(r, "preflight") /\ Exists /\ r \in CleansExisting
        /\ \E gone \in SUBSET Database :
             databases' = [d \in Database |-> IF d \in gone THEN NoDatabase ELSE databases[d]]
        /\ role' \in {role, NoRun} /\ UNCHANGED trespassed
     \/ /\ In(r, "reset")
        /\ databases' = [databases EXCEPT ![staging[r].at] = NoDatabase]
        /\ Drops(r, databases[staging[r].at].by) /\ UNCHANGED role
     \/ /\ staging[r].phase \in {"migrate", "migrate_again"} /\ role = NoRun /\ role' = r
        /\ UNCHANGED <<databases, trespassed>>
  /\ RunOf(r, FailedRun) /\ UNCHANGED overlapped

-------------------------------------------------------------------------------
(* The finally block: the databases in reverse, then the role.  Each says  *)
(* whether it dropped one; a failure, with or without effect, is swallowed.*)
TheRole == 0
Counts(r, what, present) == [staging[r] EXCEPT !.destroyed = IF present THEN @ \cup {what} ELSE @]
DropsDatabase(r) ==
  LET d == Cardinality(Database) + 1 - staging[r].at
      gone == databases' = [databases EXCEPT ![d] = NoDatabase] /\ Drops(r, databases[d].by)
      counted == Counts(r, d, databases[d] # NoDatabase).destroyed
  IN /\ In(r, "drop")
     /\ \/ gone /\ RunOf(r, [Onward(r, "drop_role") EXCEPT !.destroyed = counted])
        \/ (gone \/ UNCHANGED <<databases, trespassed>>) /\ RunOf(r, Onward(r, "drop_role"))
     /\ UNCHANGED <<role, overlapped>>
DropsRole(r) ==
  LET gone == role' = NoRun /\ Drops(r, role)
      counted == Counts(r, TheRole, role # NoRun).destroyed
  IN /\ In(r, "drop_role")
     /\ \/ gone /\ RunOf(r, [staging[r] EXCEPT !.phase = "check", !.destroyed = counted])
        \/ (gone \/ UNCHANGED <<role, trespassed>>) /\ RunOf(r, [staging[r] EXCEPT !.phase = "check"])
     /\ UNCHANGED <<databases, overlapped>>

(* environmentExists() once more, and the receipt.  The CLI writes a       *)
(* passed one only if the run destroyed as much as it must have created    *)
(* (validateEphemeralStagingReceipt).                                      *)
Complete == ~Exists
Receipt(r, complete) ==
  IF staging[r].failed \/ ~complete THEN "failed"
  ELSE IF staging[r].destroyed = Database \cup {TheRole} THEN "passed" ELSE "invalid"
ChecksEnd(r) ==
  /\ In(r, "check")
  /\ \E complete \in {Complete, FALSE} :
       RunOf(r, [IdleRun EXCEPT !.phase = "ended", !.receipt = Receipt(r, complete),
                                 !.verified = staging[r].verified])
  /\ UNCHANGED <<databases, role>> /\ RestKept

RunCrashes(r) ==
  /\ UnderWay(r)
  /\ RunOf(r, [IdleRun EXCEPT !.phase = "crashed"])
  /\ UNCHANGED <<databases, role>> /\ RestKept

StagingNext ==
  \E r \in StagingRuns :
    \/ StartRun(r) \/ Owns(r) \/ Refuses(r) \/ Creates(r) \/ Migrates(r) \/ Verifies(r) \/ Recreates(r)
    \/ Stops(r) \/ StopsHalfway(r) \/ DropsDatabase(r) \/ DropsRole(r) \/ ChecksEnd(r) \/ RunCrashes(r)

StagingSpec == StagingInit /\ [][StagingNext]_stagingVars

-------------------------------------------------------------------------------
(* Nothing that a run with a passed receipt created is left, ever.  Unless *)
(* two runs were under way at once, every journey such a run claims ran    *)
(* against a database it had created and migrated itself, the reset ones   *)
(* twice, and a run that was not told to clean never drops what another    *)
(* one, perhaps one that crashed, left behind.                             *)
Everything(r) == {<<d, "smoke", r>> : d \in Database} \cup {<<d, "reset", r>> : d \in WithReset}
ReceiptsHold ==
  /\ \A r \in StagingRuns : staging[r].receipt = "passed" =>
       /\ role # r /\ \A d \in Database : databases[d].by # r
       /\ ~overlapped => staging[r].verified = Everything(r)
  /\ ~overlapped => ~trespassed
===============================================================================
