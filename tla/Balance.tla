------------------------------ MODULE Balance ------------------------------
(***************************************************************************)
(* BalanceService (src/src/balance/balance.service.ts) over PostgreSQL at  *)
(* its default isolation level, READ COMMITTED.                            *)
(*                                                                         *)
(* Every request runs applyChange inside one interactive transaction:      *)
(* read the balance, compare, UPDATE ... SET balance = balance + delta,    *)
(* INSERT the ledger row, COMMIT.  The read takes no lock and sees the     *)
(* last committed balance; the UPDATE takes the row lock of the user and   *)
(* keeps it to the end of the transaction.                                 *)
(*                                                                         *)
(* A "purchase" (createCheck, BatchService.create) and a "refund"          *)
(* (failCheck) pass their own transaction `tx', so the balance event is    *)
(* emitted BEFORE the caller commits; the administrator's operations open  *)
(* the transaction in runInTransaction, so their event is emitted AFTER    *)
(* the commit.  A caller's transaction may still roll back after the       *)
(* event: a later statement of it fails, or it times out.                  *)
(***************************************************************************)
EXTENDS Integers

CONSTANTS Users,      \* rows of the table users
          Requests,   \* the requests in flight; each runs one balance change
          Amounts,    \* the amounts a request may move
          None        \* no request

ASSUME AmountsAreNaturals == Amounts \subseteq Nat
ASSUME NoneIsNoRequest == None \notin Requests

\* The schema's fourth status, BALANCE_FAILED, is never written.
Statuses == {"BALANCE_PURCHASE", "BALANCE_REFUND", "BALANCE_TOPUP"}

Kinds == {"purchase", "refund", "adminDebit", "adminCredit"}

VARIABLES
  balance,   \* users.balance, as committed
  posted,    \* sums over the committed balance_transactions, by user and status
  holder,    \* the request whose transaction holds the row lock of the user
  shown,     \* the balance in the last balance.updated event of the user
  pc,        \* where each request is
  req,       \* the request's arguments
  seen,      \* the balance that applyChange read
  written    \* the balance that its UPDATE returned

vars == <<balance, posted, holder, shown, pc, req, seen, written>>

Args == [user : Users, kind : Kinds, amount : Amounts]

Places == {"idle", "read", "update", "publish", "commit", "notify",
           "committed", "rejected", "rolledback"}

TypeOK ==
  /\ balance \in [Users -> Int]
  /\ posted \in [Users -> [Statuses -> Nat]]
  /\ holder \in [Users -> Requests \cup {None}]
  /\ shown \in [Users -> Int]
  /\ pc \in [Requests -> Places]
  /\ req \in [Requests -> Args]
  /\ seen \in [Requests -> Int]
  /\ written \in [Requests -> Int]

-----------------------------------------------------------------------------

\* The caller passes its own transaction (debit and credit with `tx').
JoinsTransaction(r) == req[r].kind \in {"purchase", "refund"}

IsDebit(r) == req[r].kind \in {"purchase", "adminDebit"}

\* Mutant: a refund is booked like the purchase it undoes.
LedgerStatusOfOrder(r) ==
  IF req[r].kind = "adminCredit" THEN "BALANCE_TOPUP" ELSE "BALANCE_PURCHASE"

\* The ledger status each caller passes; an administrator's debit is booked as a purchase.
LedgerStatus(r) ==
  CASE req[r].kind = "refund"      -> "BALANCE_REFUND"
    [] req[r].kind = "adminCredit" -> "BALANCE_TOPUP"
    [] OTHER                       -> "BALANCE_PURCHASE"

\* signedAmount of applyChange.
Delta(r) == IF IsDebit(r) THEN -req[r].amount ELSE req[r].amount

\* Mutant: the guard looks at the balance before the change instead of after it.
RefusedWhenNegative(r, current) == IsDebit(r) /\ current < 0

\* Mutant: the row keeps the sign of the change.
SignedRowAmount(r) == Delta(r)

\* The ledger row stores delta.abs().
RowAmount(r) == req[r].amount

\* requireSufficientFunds: only a debit asks for it.
Refused(r, current) == IsDebit(r) /\ current + Delta(r) < 0

\* Mutant: the UPDATE writes the nextBalance computed from the read.
IncrementedFromRead(r) == seen[r] + Delta(r)

\* What UPDATE ... increment computes: from the locked row, not from `seen'.
Incremented(r) == balance[req[r].user] + Delta(r)

-----------------------------------------------------------------------------

Init ==
  /\ balance = [u \in Users |-> 0]
  /\ posted = [u \in Users |-> [s \in Statuses |-> 0]]
  /\ holder = [u \in Users |-> None]
  /\ shown = [u \in Users |-> 0]
  /\ pc = [r \in Requests |-> "idle"]
  /\ req \in [Requests -> Args]
  /\ seen = [r \in Requests |-> 0]
  /\ written = [r \in Requests |-> 0]

\* The transaction begins and findUnique is on its way.
Begin(r) ==
  /\ pc[r] = "idle"
  /\ pc' = [pc EXCEPT ![r] = "read"]
  /\ UNCHANGED <<balance, posted, holder, shown, req, seen, written>>

\* findUnique answers with the committed balance; a debit it does not cover
\* ends with 402 and its transaction rolls back.
ReadBalance(r) ==
  /\ pc[r] = "read"
  /\ seen' = [seen EXCEPT ![r] = balance[req[r].user]]
  /\ pc' = [pc EXCEPT ![r] = IF Refused(r, balance[req[r].user]) THEN "rejected" ELSE "update"]
  /\ UNCHANGED <<balance, posted, holder, shown, req, written>>

\* The UPDATE gets the row lock, and the ledger row is inserted.
UpdateBalance(r) ==
  /\ pc[r] = "update"
  /\ holder[req[r].user] = None
  /\ holder' = [holder EXCEPT ![req[r].user] = r]
  /\ written' = [written EXCEPT ![r] = Incremented(r)]
  /\ pc' = [pc EXCEPT ![r] = IF JoinsTransaction(r) THEN "publish" ELSE "commit"]
  /\ UNCHANGED <<balance, posted, shown, req, seen>>

\* debit and credit publish before they return to the caller that owns `tx'.
PublishInTransaction(r) ==
  /\ pc[r] = "publish"
  /\ shown' = [shown EXCEPT ![req[r].user] = written[r]]
  /\ pc' = [pc EXCEPT ![r] = "commit"]
  /\ UNCHANGED <<balance, posted, holder, req, seen, written>>

\* Mutant: every event is published after the commit, so no event is for a change that
\* rolls back.
CommitThenPublish(r) ==
  /\ pc[r] = "commit"
  /\ balance' = [balance EXCEPT ![req[r].user] = written[r]]
  /\ posted' = [posted EXCEPT ![req[r].user][LedgerStatus(r)] = @ + RowAmount(r)]
  /\ holder' = [holder EXCEPT ![req[r].user] = None]
  /\ pc' = [pc EXCEPT ![r] = "notify"]
  /\ UNCHANGED <<shown, req, seen, written>>

\* The transaction commits: balance and ledger row become visible, the lock is released.
Commit(r) ==
  /\ pc[r] = "commit"
  /\ balance' = [balance EXCEPT ![req[r].user] = written[r]]
  /\ posted' = [posted EXCEPT ![req[r].user][LedgerStatus(r)] = @ + RowAmount(r)]
  /\ holder' = [holder EXCEPT ![req[r].user] = None]
  /\ pc' = [pc EXCEPT ![r] = IF JoinsTransaction(r) THEN "committed" ELSE "notify"]
  /\ UNCHANGED <<shown, req, seen, written>>

\* Without `tx' the event follows the commit of runInTransaction.
PublishAfterCommit(r) ==
  /\ pc[r] = "notify"
  /\ shown' = [shown EXCEPT ![req[r].user] = written[r]]
  /\ pc' = [pc EXCEPT ![r] = "committed"]
  /\ UNCHANGED <<balance, posted, holder, req, seen, written>>

\* Mutant: the transaction is left open by a failing request.
RollBackForgotten(r) ==
  /\ pc[r] \in {"read", "update", "publish", "commit"}
  /\ pc' = [pc EXCEPT ![r] = "rolledback"]
  /\ UNCHANGED <<balance, posted, holder, shown, req, seen, written>>

\* A statement of the transaction fails or the transaction times out.
RollBack(r) ==
  /\ pc[r] \in {"read", "update", "publish", "commit"}
  /\ holder' = [u \in Users |-> IF holder[u] = r THEN None ELSE holder[u]]
  /\ pc' = [pc EXCEPT ![r] = "rolledback"]
  /\ UNCHANGED <<balance, posted, shown, req, seen, written>>

Progress(r) ==
  \/ ReadBalance(r)
  \/ UpdateBalance(r)
  \/ PublishInTransaction(r)
  \/ Commit(r)
  \/ PublishAfterCommit(r)

Answered(r) == pc[r] \in {"committed", "rejected", "rolledback"}

\* Nothing is left to do; written out so that any other standstill is a deadlock.
AllAnswered ==
  /\ \A r \in Requests : Answered(r)
  /\ UNCHANGED vars

Next ==
  \/ \E r \in Requests : Begin(r) \/ Progress(r) \/ RollBack(r)
  \/ AllAnswered

\* Every statement the database was sent is answered; requests arrive when they like
\* and no transaction has to roll back.
Spec == Init /\ [][Next]_vars /\ \A r \in Requests : WF_vars(Progress(r))

-----------------------------------------------------------------------------

\* Conservation: at every moment the balance is what the ledger rows add up to, however
\* the requests interleave and whichever of them roll back (applyChange's increment and
\* the row are written by one transaction).
LedgerExplainsBalance ==
  \A u \in Users :
    balance[u] = posted[u]["BALANCE_TOPUP"] + posted[u]["BALANCE_REFUND"]
                   - posted[u]["BALANCE_PURCHASE"]

\* The check on nextBalance works for a request that is not overtaken: a commit that
\* takes a balance below zero belongs to a debit whose read was out of date by then.
OverdraftNeedsStaleRead ==
  [][\A u \in Users : balance[u] >= 0 /\ balance'[u] < 0 =>
       \E r \in Requests : holder[u] = r /\ IsDebit(r) /\ seen[r] # balance[u]]_vars

\* When a user is served by purchases and refunds only and none rolled back after its
\* event, the last event a client got shows the committed balance as soon as nobody is
\* in flight: the row lock orders the events published inside the transactions.
SettledEventsAgree ==
  \A u \in Users :
    (\A r \in Requests : req[r].user = u =>
        /\ JoinsTransaction(r)
        /\ pc[r] \in {"idle", "committed", "rejected"})
      => shown[u] = balance[u]

\* The guard of applyChange is there to keep a debit from taking the balance below zero.
NeverOverdrawn == \A u \in Users : balance[u] >= 0

\* The single row lock never leaves a request waiting: each one is answered.
EveryRequestAnswered == \A r \in Requests : pc[r] = "read" ~> Answered(r)

-----------------------------------------------------------------------------

\* The promise of Ledger, kept by the transactions: a commit is one Post, anything else
\* leaves balance and ledger alone.
Promise == INSTANCE Ledger

KeepsPromise == Promise!Spec

=============================================================================
