------------------------------ MODULE Account ------------------------------
(***************************************************************************)
(* What the billing code promises of one organisation's credits, with no   *)
(* buckets, messages or sessions: credits enter and leave only with a      *)
(* ledger entry of the same amount, nobody spends more than there is, and  *)
(* the only credits that vanish without an entry are subscription credits  *)
(* replaced at a renewal or wiped at a cancellation.                       *)
(***************************************************************************)
EXTENDS Integers

VARIABLES
  funds,      \* credits the organisation can spend
  credited,   \* total of the ledger's CREDIT entries
  debited,    \* total of the ledger's DEBIT entries
  dropped     \* credits that were taken away with no entry

accountVars == <<funds, credited, debited, dropped>>

AccountInit == funds = 0 /\ credited = 0 /\ debited = 0 /\ dropped = 0

Credit ==
  /\ funds' >= funds
  /\ credited' - credited = funds' - funds
  /\ UNCHANGED <<debited, dropped>>

Debit ==
  /\ funds' \in 0 .. funds
  /\ debited' - debited = funds - funds'
  /\ UNCHANGED <<credited, dropped>>

\* A renewal books the month's credits and drops what was left of the last.
Renewal ==
  \E lost \in 0 .. funds :
    /\ dropped' = dropped + lost
    /\ funds' >= funds - lost
    /\ credited' - credited = funds' - (funds - lost)
    /\ UNCHANGED debited

Forfeit ==
  /\ funds' \in 0 .. funds
  /\ dropped' - dropped = funds - funds'
  /\ UNCHANGED <<credited, debited>>

AccountNext == Credit \/ Debit \/ Renewal \/ Forfeit

AccountSpec == AccountInit /\ [][AccountNext]_accountVars

=============================================================================
