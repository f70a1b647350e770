----------------------------- MODULE Purchases -----------------------------
(***************************************************************************)
(* Prices (src/src/check/check-price/check-price.service.ts) and the two   *)
(* ways to buy: CheckService.createCheck asks for the price inside its     *)
(* transaction but over the pool, BatchService.create before it begins.    *)
(* What becomes of a check that was bought is the subject of               *)
(* CheckLifecycle and Batch.                                               *)
(***************************************************************************)
EXTENDS Backend

CallbackPlaces == {"balance", "debit", "commit"}

-----------------------------------------------------------------------------
(* setPersonal, deletePersonal.                                            *)

\* ensureUserExists, and the base price, which nothing changes.
EnsureUser(r) ==
  /\ Query(r, "ensure")
  /\ \/ call[r].target \notin exists /\ Reply(r, 404)
     \/ call[r].target \in exists /\ Goto(r, "upsert")
  /\ UNCHANGED <<userVars, moneyVars, reportVars, poolVars, sessionVars, loginVars, priceVars,
                 windowVars, fixedVars>>

\* The upsert; without the user the foreign key refuses it.
SetPersonal(r) ==
  LET u == call[r].target IN
  /\ Query(r, "upsert")
  /\ \/ /\ u \in exists
        /\ personal' = [personal EXCEPT ![u] = call[r].price]
        /\ NotePrice(u, call[r].price)
        /\ Reply(r, 200)
     \/ u \notin exists /\ Reply(r, 500) /\ UNCHANGED <<personal, inForce>>
  /\ UNCHANGED <<userVars, balance, spent, paid, reportVars, poolVars, sessionVars, loginVars,
                 priceVars, gone, fixedVars>>

DeletePersonal(r) ==
  LET u == call[r].target IN
  /\ Query(r, "unset")
  /\ personal' = [personal EXCEPT ![u] = None]
  /\ NotePrice(u, BasePrice)
  /\ Reply(r, 200)
  /\ UNCHANGED <<userVars, balance, spent, paid, reportVars, poolVars, sessionVars, loginVars,
                 priceVars, gone, fixedVars>>

-----------------------------------------------------------------------------
(* createCheck, BatchService.create.                                       *)

\* Mutant: a price of 0 counts as no price.
PriceUnlessZero(u) ==
  IF personal[u] \in {None, 0} THEN BasePrice ELSE personal[u]

\* Mutant: without a personal price there is none.
PersonalOnly(u) == personal[u]

\* override?.price ?? basePrice.price
PersonalOrBase(u) == PriceOf(u)

\* getForUser: two queries over the pool, of which the one for the base price always
\* gets the same answer.  For createCheck this is inside the transaction's callback,
\* which goes on when the transaction was closed meanwhile.
ReadPrice(r) ==
  /\ Query(r, "price")
  /\ price' = [price EXCEPT ![r] = PersonalOrBase(copy[r])]
  /\ Goto(r, IF call[r].op = "buy" THEN "balance" ELSE "begin")
  /\ UNCHANGED <<userVars, moneyVars, reportVars, poolVars, sessionVars, loginVars,
                 windowVars, fixedVars>>

\* $transaction gets a connection,
Begin(r) ==
  /\ pc[r] = "begin"
  /\ TakeConnection(r)
  /\ tx' = [tx EXCEPT ![r] = "open"]
  /\ Goto(r, IF call[r].op = "buy" THEN "price" ELSE "balance")
  /\ UNCHANGED <<userVars, moneyVars, reportVars, holder, sessionVars, loginVars, priceVars,
                 windowVars, fixedVars>>

\* or none within maxWait.
BeginTimesOut(r) ==
  /\ pc[r] = "begin" /\ ~Free
  /\ Reply(r, 500)
  /\ UNCHANGED <<userVars, moneyVars, reportVars, poolVars, sessionVars, loginVars, priceVars,
                 windowVars, fixedVars>>

Cost(r) == price[r] * call[r].rows

\* applyChange: no such user, not enough money, or on to the UPDATE.  An error rolls back.
ReadBalance(r) ==
  LET known == copy[r] \in exists
      enough == balance[copy[r]] - Cost(r) >= 0
  IN
  /\ pc[r] = "balance" /\ tx[r] = "open"
  /\ \/ ~known /\ Reply(r, 400) /\ Release(r)
     \/ known /\ ~enough /\ Reply(r, 402) /\ Release(r)
     \/ known /\ enough /\ Goto(r, "debit") /\ UNCHANGED poolVars
  /\ UNCHANGED <<userVars, moneyVars, reportVars, sessionVars, loginVars, priceVars,
                 windowVars, fixedVars>>

\* Mutant: updateMany, which does not mind that there is no row.
DebitMany(r) ==
  /\ pc[r] = "debit" /\ tx[r] = "open" /\ holder[copy[r]] = None
  /\ holder' = [holder EXCEPT ![copy[r]] = r]
  /\ Goto(r, "commit")
  /\ UNCHANGED <<userVars, moneyVars, reportVars, busy, tx, sessionVars, loginVars, priceVars,
                 windowVars, fixedVars>>

\* The UPDATE gets the row lock, or finds no row any more.
Debit(r) ==
  /\ pc[r] = "debit" /\ tx[r] = "open" /\ holder[copy[r]] = None
  /\ \/ /\ copy[r] \in exists
        /\ holder' = [holder EXCEPT ![copy[r]] = r]
        /\ Goto(r, "commit")
        /\ UNCHANGED <<busy, tx>>
     \/ copy[r] \notin exists /\ Reply(r, 500) /\ Release(r)
  /\ UNCHANGED <<userVars, moneyVars, reportVars, sessionVars, loginVars, priceVars,
                 windowVars, fixedVars>>

\* Mutant: the row is inserted over the pool, whatever becomes of the transaction.
CommitOutside(r) ==
  /\ pc[r] = "commit"
  /\ balance' = IF tx[r] = "open" THEN [balance EXCEPT ![copy[r]] = @ - Cost(r)] ELSE balance
  /\ spent' = [spent EXCEPT ![copy[r]] = @ + Cost(r)]
  /\ paid' = paid \cup {r}
  /\ Release(r)
  /\ IF call[r].op = "buy" THEN Reply(r, 200) ELSE Goto(r, "queue")
  /\ UNCHANGED <<userVars, personal, reportVars, sessionVars, loginVars, priceVars, windowVars,
                 fixedVars>>

\* The rows are inserted and the transaction commits; the row lock kept the balance of
\* the UPDATE.
Commit(r) ==
  /\ pc[r] = "commit" /\ tx[r] = "open"
  /\ balance' = [balance EXCEPT ![copy[r]] = @ - Cost(r)]
  /\ spent' = [spent EXCEPT ![copy[r]] = @ + Cost(r)]
  /\ paid' = paid \cup {r}
  /\ Release(r)
  /\ IF call[r].op = "buy" THEN Reply(r, 200) ELSE Goto(r, "queue")
  /\ UNCHANGED <<userVars, personal, reportVars, sessionVars, loginVars, priceVars, windowVars,
                 fixedVars>>

\* Mutant: an expired transaction is taken for a finished one.
TransactionClosedUnnoticed(r) ==
  /\ pc[r] \in CallbackPlaces /\ tx[r] = "closed"
  /\ Reply(r, 200)
  /\ UNCHANGED <<userVars, moneyVars, reportVars, poolVars, sessionVars, loginVars, priceVars,
                 windowVars, fixedVars>>

\* The next statement of an expired transaction throws.
TransactionClosed(r) ==
  /\ pc[r] \in CallbackPlaces /\ tx[r] = "closed"
  /\ Reply(r, 500)
  /\ UNCHANGED <<userVars, moneyVars, reportVars, poolVars, sessionVars, loginVars, priceVars,
                 windowVars, fixedVars>>

\* A batch is updated to QUEUED after the commit; if its owner was deleted it is gone.
QueueBatch(r) ==
  /\ Query(r, "queue")
  /\ Reply(r, IF copy[r] \in exists THEN 200 ELSE 500)
  /\ UNCHANGED <<userVars, moneyVars, reportVars, poolVars, sessionVars, loginVars, priceVars,
                 windowVars, fixedVars>>

\* Mutant: the transaction has no timeout.
ExpireNever(r) == FALSE /\ UNCHANGED vars

\* The transaction's timeout: it is rolled back while its callback goes on.  A ROLLBACK
\* behind an UPDATE that waits for a row lock has to wait with it.
Expire(r) ==
  /\ tx[r] = "open"
  /\ pc[r] = "debit" => holder[copy[r]] = None
  /\ busy' = busy \ {r}
  /\ tx' = [tx EXCEPT ![r] = "closed"]
  /\ holder' = [u \in Ids |-> IF holder[u] = r THEN None ELSE holder[u]]
  /\ UNCHANGED <<userVars, moneyVars, reportVars, sessionVars, loginVars, priceVars, windowVars,
                 fixedVars, pc, status>>

PurchaseStep(r) ==
  \/ EnsureUser(r) \/ SetPersonal(r) \/ DeletePersonal(r)
  \/ ReadPrice(r) \/ Begin(r) \/ ReadBalance(r) \/ Debit(r) \/ Commit(r)
  \/ TransactionClosed(r) \/ QueueBatch(r)

Timeout(r) == BeginTimesOut(r) \/ Expire(r)

=============================================================================
