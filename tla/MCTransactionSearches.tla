------------------------ MODULE MCTransactionSearches -------------------------
(* Two queries of four searches share the one client of the pool. *)
EXTENDS TransactionSearches
CONSTANTS q1, q2
===============================================================================
