--------------------------- MODULE TransactionSearches ------------------------
(***************************************************************************)
(* The searches a procedure query makes on the client of its transaction   *)
(* (src/src/api/v1/compiler.ts).  The retriever asks for all of them at    *)
(* once with Promise.all; a chain of promises gives them to the client one *)
(* after the other, and goes on when one of them fails.  The failure ends  *)
(* the request, whose transaction is rolled back and whose client returns  *)
(* to the pool.                                                            *)
(*                                                                         *)
(* A client sends its commands in the order of the calls, each when the    *)
(* one before it is answered.  What the answer sets off (the next command  *)
(* of the chain, then the end of the request) is called before the next    *)
(* answer is read: answer and calls are one action.                        *)
(***************************************************************************)
EXTENDS Naturals, Sequences

CONSTANTS Query,      \* procedure queries, on a pool of one client
          Searches,   \* searches of a query
          NoQuery

VARIABLES phase,       \* of each query
          holder,      \* the query the pool lent the client to
          commands,    \* what the client was called with and has not been answered
          transaction, \* at the server: the query that began it, whether it is aborted
          ran          \* history: each search, and the query in whose transaction it ran
searchesVars == <<phase, holder, commands, transaction, ran>>

Closed == [of |-> NoQuery, aborted |-> FALSE]
Command(q, kind, n) == [of |-> q, kind |-> kind, n |-> n]
Control(q, kind) == Command(q, kind, 0)

SearchesTypeOK ==
  /\ phase \in [Query -> {"waiting", "beginning", "searching", "failed", "ended"}]
  /\ holder \in Query \cup {NoQuery}
  /\ \A i \in 1..Len(commands) : commands[i].kind \in {"begin", "scope", "search", "commit", "rollback"}
  /\ transaction \in [of : Query \cup {NoQuery}, aborted : BOOLEAN]
  /\ ran \subseteq [of : Query, n : 1..Searches, within : Query \cup {NoQuery}]

SearchesInit ==
  /\ phase = [q \in Query |-> "waiting"]
  /\ holder = NoQuery /\ commands = <<>> /\ transaction = Closed /\ ran = {}

(* pool.connect(), then BEGIN. *)
Connect(q) ==
  /\ phase[q] = "waiting" /\ holder = NoQuery
  /\ phase' = [phase EXCEPT ![q] = "beginning"]
  /\ holder' = q
  /\ commands' = Append(commands, Control(q, "begin"))
  /\ UNCHANGED <<transaction, ran>>

Answer(kind) == commands # <<>> /\ Head(commands).kind = kind
Calls(list) == commands' = Tail(commands) \o list

Begin ==
  LET q == Head(commands).of
  IN /\ Answer("begin")
     /\ transaction' = [of |-> q, aborted |-> FALSE]
     /\ Calls(<<Control(q, "scope")>>)
     /\ UNCHANGED <<phase, holder, ran>>

(* set_config('app.tenant_id', ...), then the fan-out. *)
SetScope ==
  LET q == Head(commands).of
  IN /\ Answer("scope")
     /\ IF transaction.aborted
        THEN phase' = [phase EXCEPT ![q] = "failed"] /\ Calls(<<Control(q, "rollback")>>)
        ELSE phase' = [phase EXCEPT ![q] = "searching"] /\ Calls(<<Command(q, "search", 1)>>)
     /\ UNCHANGED <<holder, transaction, ran>>

(* onTransactionClient: the chain continues after a failure too.  The      *)
(* first failure rejects Promise.all.                                      *)
Chained(q, n) == IF n < Searches THEN <<Command(q, "search", n + 1)>> ELSE <<>>
Search ==
  LET q == Head(commands).of
      n == Head(commands).n
  IN /\ Answer("search")
     /\ ran' = ran \cup {[of |-> q, n |-> n, within |-> transaction.of]}
     /\ \E fails \in {TRUE} \cup {transaction.aborted} :
          /\ transaction' = [transaction EXCEPT !.aborted = transaction.of # NoQuery /\ (@ \/ fails)]
          /\ IF phase[q] = "searching" /\ fails
             THEN /\ phase' = [phase EXCEPT ![q] = "failed"]
                  /\ Calls(Chained(q, n) \o <<Control(q, "rollback")>>)
             ELSE /\ UNCHANGED phase
                  /\ Calls(Chained(q, n) \o
                       IF phase[q] = "searching" /\ n = Searches THEN <<Control(q, "commit")>> ELSE <<>>)
     /\ UNCHANGED holder

(* COMMIT or ROLLBACK, then release. *)
Finish ==
  LET q == Head(commands).of
  IN /\ Answer("commit") \/ Answer("rollback")
     /\ transaction' = Closed
     /\ phase' = [phase EXCEPT ![q] = "ended"]
     /\ holder' = NoQuery
     /\ Calls(<<>>)
     /\ UNCHANGED ran

SearchesNext == (\E q \in Query : Connect(q)) \/ Begin \/ SetScope \/ Search \/ Finish

-------------------------------------------------------------------------------
(* src/src/search.ts on these searches: they run on the client that holds  *)
(* the transaction-local tenant setting of their own query.                *)
SearchesInOwnTransaction == \A s \in ran : s.within = s.of
===============================================================================
