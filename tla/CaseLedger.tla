------------------------------ MODULE CaseLedger -----------------------------
(***************************************************************************)
(* What the procedure cases of a tenant promise, whatever is repeated,     *)
(* lost or done at the same time: each case is the list of the requests    *)
(* that were carried out for it.  The request that opened it is the first  *)
(* one, none is carried out twice, and a closing one is the last.          *)
(***************************************************************************)
EXTENDS Sequences, Naturals

CONSTANTS Case, Opening, Changing, Closing   \* Closing: requests that end a case

VARIABLE ledger

Carried(r) == \E x \in Case : \E i \in DOMAIN ledger[x] : ledger[x][i] = r

LedgerInit == ledger = [x \in Case |-> <<>>]

Open(x, r) ==
  /\ ledger[x] = <<>>
  /\ ~Carried(r)
  /\ ledger' = [ledger EXCEPT ![x] = <<r>>]

Change(x, r) ==
  /\ ledger[x] # <<>>
  /\ ledger[x][Len(ledger[x])] \notin Closing
  /\ ~Carried(r)
  /\ ledger' = [ledger EXCEPT ![x] = Append(@, r)]

LedgerNext ==
  \E x \in Case :
    \/ \E r \in Opening : Open(x, r)
    \/ \E r \in Changing : Change(x, r)

LedgerSpec == LedgerInit /\ [][LedgerNext]_ledger
=============================================================================
