------------------------------- MODULE Ledger -------------------------------
(***************************************************************************)
(* What the balance of grot-backend promises, with no processes, locks or  *)
(* transactions in it: money moves only together with the ledger row that  *)
(* explains the move, one row at a time, and a row is never taken back.    *)
(*                                                                         *)
(* `posted' abstracts the table balance_transactions: for each user and    *)
(* each BalanceStatusEnums value the sum of the amounts of the rows.  The  *)
(* rows store absolute amounts (applyChange writes delta.abs()); the sign  *)
(* of a movement is recovered from its status.                             *)
(***************************************************************************)
EXTENDS Integers

CONSTANTS Users,     \* rows of the table users
          Amounts    \* the amounts a request may move

Statuses == {"BALANCE_PURCHASE", "BALANCE_REFUND", "BALANCE_TOPUP"}

VARIABLES balance,   \* users.balance
          posted     \* sums over balance_transactions, by user and status

\* The sign that a status gives to the stored absolute amount.
Signed(status, amount) ==
  IF status = "BALANCE_PURCHASE" THEN -amount ELSE amount

Init ==
  /\ balance = [u \in Users |-> 0]
  /\ posted = [u \in Users |-> [s \in Statuses |-> 0]]

\* One committed balance change: the balance and its row together.
Post(user, status, amount) ==
  /\ balance' = [balance EXCEPT ![user] = @ + Signed(status, amount)]
  /\ posted' = [posted EXCEPT ![user][status] = @ + amount]

Next == \E user \in Users, status \in Statuses, amount \in Amounts :
          Post(user, status, amount)

Spec == Init /\ [][Next]_<<balance, posted>>

=============================================================================
