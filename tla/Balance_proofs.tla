--------------------------- MODULE Balance_proofs ---------------------------
(***************************************************************************)
(* Theorems about Balance, for any users, requests and natural amounts.    *)
(*                                                                         *)
(* The argument: between its UPDATE and its end a transaction holds the    *)
(* row lock of the user, so nobody else commits to the balance and what    *)
(* the UPDATE returned is still the committed balance plus the change      *)
(* (LockInv).  A debit that passed the guard read enough (GuardInv).       *)
(***************************************************************************)
EXTENDS Balance, TLAPS

Writing(r) == pc[r] \in {"publish", "commit"}

LockInv ==
  /\ \A r \in Requests : Writing(r) =>
       /\ holder[req[r].user] = r
       /\ written[r] = balance[req[r].user] + Delta(r)
  /\ \A u \in Users : \A r \in Requests :
       holder[u] = r => Writing(r) /\ req[r].user = u

GuardInv ==
  \A r \in Requests : pc[r] = "update" \/ Writing(r) => ~Refused(r, seen[r])

\* What the last event shows of a user whose requests publish under the lock.
Served(u) ==
  \A r \in Requests : req[r].user = u =>
     JoinsTransaction(r) /\ pc[r] # "rolledback"

ShownInv ==
  \A u \in Users : Served(u) =>
    \/ shown[u] = balance[u] /\ \A r \in Requests : holder[u] = r => pc[r] = "publish"
    \/ \E r \in Requests : holder[u] = r /\ pc[r] = "commit" /\ shown[u] = written[r]

\* Only a request that owns its transaction publishes after the commit.
NotifyInv == \A r \in Requests : pc[r] = "notify" => ~JoinsTransaction(r)

IInv == TypeOK /\ LockInv

\* What a request's arguments, and the operators on them, range over.
LEMMA Arguments ==
  ASSUME TypeOK, NEW r \in Requests
  PROVE  /\ req[r].user \in Users
         /\ req[r].amount \in Nat
         /\ RowAmount(r) = req[r].amount
         /\ Delta(r) \in Int
         /\ LedgerStatus(r) \in Statuses
<1>1. req[r] \in Args
  BY DEF TypeOK
<1>2. /\ req[r].user \in Users
      /\ req[r].amount \in Nat
  BY <1>1, AmountsAreNaturals DEF Args
<1>3. Delta(r) \in Int
  BY <1>2 DEF Delta
<1>4. LedgerStatus(r) \in Statuses
  BY DEF LedgerStatus, Statuses
<1> QED
  BY <1>2, <1>3, <1>4 DEF RowAmount

\* What the balance and the ledger rows become, and how they stay in their types.
LEMMA TypeStep == TypeOK /\ [Next]_vars => TypeOK'
<1> SUFFICES ASSUME TypeOK, [Next]_vars PROVE TypeOK'
  OBVIOUS
<1> USE DEF TypeOK, Places
<1>1. ASSUME NEW r \in Requests, Begin(r) PROVE TypeOK'
  BY <1>1 DEF Begin
<1>2. ASSUME NEW r \in Requests, ReadBalance(r) PROVE TypeOK'
  BY <1>2, Arguments DEF ReadBalance
<1>3. ASSUME NEW r \in Requests, UpdateBalance(r) PROVE TypeOK'
  <2>1. Incremented(r) \in Int
    BY Arguments DEF Incremented
  <2> QED
    BY <1>3, <2>1, Arguments DEF UpdateBalance
<1>4. ASSUME NEW r \in Requests, PublishInTransaction(r) PROVE TypeOK'
  BY <1>4, Arguments DEF PublishInTransaction
<1>5. ASSUME NEW r \in Requests, Commit(r) PROVE TypeOK'
  <2>1. posted' \in [Users -> [Statuses -> Nat]]
    BY <1>5, Arguments DEF Commit
  <2> QED
    BY <1>5, <2>1, Arguments DEF Commit
<1>6. ASSUME NEW r \in Requests, PublishAfterCommit(r) PROVE TypeOK'
  BY <1>6, Arguments DEF PublishAfterCommit
<1>7. ASSUME NEW r \in Requests, RollBack(r) PROVE TypeOK'
  BY <1>7 DEF RollBack
<1>8. CASE UNCHANGED vars
  BY <1>8 DEF vars
<1> QED
  BY <1>1, <1>2, <1>3, <1>4, <1>5, <1>6, <1>7, <1>8 DEF Next, Progress, AllAnswered

\* Every variable keeps its type.
THEOREM TypeCorrect == Spec => []TypeOK
<1>1. Init => TypeOK
  BY DEF Init, TypeOK, Statuses, Places, Args
<1> QED
  BY <1>1, TypeStep, PTL DEF Spec

-----------------------------------------------------------------------------
(* The row lock.                                                           *)

\* Only the transaction that holds the row lock is between its UPDATE and its end.
LEMMA LockStep == IInv /\ [Next]_vars => LockInv'
<1> SUFFICES ASSUME TypeOK, LockInv, [Next]_vars PROVE LockInv'
  BY DEF IInv
<1>t. TypeOK'
  BY TypeStep
<1> USE NoneIsNoRequest DEF LockInv, Writing
<1>1. ASSUME NEW r \in Requests, Begin(r) PROVE LockInv'
  BY <1>1 DEF Begin, TypeOK, Delta, IsDebit
<1>2. ASSUME NEW r \in Requests, ReadBalance(r) PROVE LockInv'
  BY <1>2 DEF ReadBalance, TypeOK, Delta, IsDebit
<1>3. ASSUME NEW r \in Requests, UpdateBalance(r) PROVE LockInv'
  <2>1. Delta(r)' = Delta(r)
    BY <1>3 DEF UpdateBalance, Delta, IsDebit
  <2>2. \A q \in Requests : Delta(q)' = Delta(q)
    BY <1>3 DEF UpdateBalance, Delta, IsDebit
  <2> QED
    BY <1>3, <2>1, <2>2, Arguments DEF UpdateBalance, Incremented, TypeOK
<1>4. ASSUME NEW r \in Requests, PublishInTransaction(r) PROVE LockInv'
  BY <1>4 DEF PublishInTransaction, TypeOK, Delta, IsDebit
<1>5. ASSUME NEW r \in Requests, Commit(r) PROVE LockInv'
  <2>1. \A q \in Requests : Delta(q)' = Delta(q)
    BY <1>5 DEF Commit, Delta, IsDebit
  <2>2. \A q \in Requests \ {r} : Writing(q) => req[q].user # req[r].user
    BY <1>5 DEF Commit
  <2> QED
    BY <1>5, <2>1, <2>2, Arguments DEF Commit, TypeOK
<1>6. ASSUME NEW r \in Requests, PublishAfterCommit(r) PROVE LockInv'
  BY <1>6 DEF PublishAfterCommit, TypeOK, Delta, IsDebit
<1>7. ASSUME NEW r \in Requests, RollBack(r) PROVE LockInv'
  <2>1. \A q \in Requests : Delta(q)' = Delta(q)
    BY <1>7 DEF RollBack, Delta, IsDebit
  <2> QED
    BY <1>7, <2>1, Arguments DEF RollBack, TypeOK
<1>8. CASE UNCHANGED vars
  BY <1>8 DEF vars, Delta, IsDebit
<1> QED
  BY <1>1, <1>2, <1>3, <1>4, <1>5, <1>6, <1>7, <1>8 DEF Next, Progress, AllAnswered

\* Between UPDATE and commit a request holds the lock and the row is what it wrote.
LEMMA LockHeld == Spec => []IInv
<1>1. Init => IInv
  <2>1. Init => LockInv
    BY NoneIsNoRequest DEF Init, LockInv, Writing
  <2>2. Init => TypeOK
    BY DEF Init, TypeOK, Statuses, Places, Args
  <2> QED
    BY <2>1, <2>2 DEF IInv
<1>2. IInv /\ [Next]_vars => IInv'
  BY LockStep, TypeStep DEF IInv
<1> QED
  BY <1>1, <1>2, PTL DEF Spec

\* What a step may do to the money: nothing, or the commit of one request.
LEMMA MoneyStep ==
  ASSUME IInv, [Next]_vars
  PROVE  \/ UNCHANGED <<balance, posted>>
         \/ \E r \in Requests :
              /\ Commit(r)
              /\ balance' = [balance EXCEPT ![req[r].user] = @ + Delta(r)]
              /\ posted' = [posted EXCEPT
                   ![req[r].user][LedgerStatus(r)] = @ + req[r].amount]
<1>1. ASSUME NEW r \in Requests, Commit(r)
      PROVE  /\ balance' = [balance EXCEPT ![req[r].user] = @ + Delta(r)]
             /\ posted' = [posted EXCEPT
                  ![req[r].user][LedgerStatus(r)] = @ + req[r].amount]
  <2>1. written[r] = balance[req[r].user] + Delta(r)
    BY <1>1 DEF Commit, IInv, LockInv, Writing
  <2> QED
    BY <1>1, <2>1 DEF Commit, RowAmount
<1>2. ASSUME NEW r \in Requests,
             Begin(r) \/ ReadBalance(r) \/ UpdateBalance(r) \/ PublishInTransaction(r)
               \/ PublishAfterCommit(r) \/ RollBack(r)
      PROVE  UNCHANGED <<balance, posted>>
  BY <1>2 DEF Begin, ReadBalance, UpdateBalance, PublishInTransaction, PublishAfterCommit,
              RollBack
<1> QED
  BY <1>1, <1>2 DEF Next, Progress, AllAnswered, vars

-----------------------------------------------------------------------------
(* Conservation, and Ledger.                                               *)

\* A committed change moves the balance by the sign its status stands for.
LEMMA SignOfStatus ==
  ASSUME TypeOK, NEW r \in Requests
  PROVE  Delta(r) = Promise!Signed(LedgerStatus(r), req[r].amount)
<1>1. req[r].kind \in Kinds
  BY DEF TypeOK, Args
<1> QED
  BY <1>1 DEF Delta, IsDebit, LedgerStatus, Promise!Signed, Kinds

\* The balance is what the committed ledger rows add up to.
THEOREM Conservation == Spec => []LedgerExplainsBalance
<1>1. Init => LedgerExplainsBalance
  <2> SUFFICES ASSUME Init, NEW u \in Users
               PROVE  balance[u] = posted[u]["BALANCE_TOPUP"] + posted[u]["BALANCE_REFUND"]
                                     - posted[u]["BALANCE_PURCHASE"]
    BY DEF LedgerExplainsBalance
  <2>1. balance[u] = 0 /\ posted[u] = [s \in Statuses |-> 0]
    BY DEF Init
  <2>2. /\ posted[u]["BALANCE_TOPUP"] = 0
        /\ posted[u]["BALANCE_REFUND"] = 0
        /\ posted[u]["BALANCE_PURCHASE"] = 0
    BY <2>1 DEF Statuses
  <2> QED
    BY <2>1, <2>2
<1>2. IInv /\ LedgerExplainsBalance /\ [Next]_vars => LedgerExplainsBalance'
  <2> SUFFICES ASSUME IInv, LedgerExplainsBalance, [Next]_vars
               PROVE  LedgerExplainsBalance'
    OBVIOUS
  <2>1. CASE UNCHANGED <<balance, posted>>
    BY <2>1 DEF LedgerExplainsBalance
  <2>2. ASSUME NEW r \in Requests,
               balance' = [balance EXCEPT ![req[r].user] = @ + Delta(r)],
               posted' = [posted EXCEPT
                 ![req[r].user][LedgerStatus(r)] = @ + req[r].amount]
        PROVE  LedgerExplainsBalance'
    <3>0. TypeOK
      BY DEF IInv
    <3>1. Delta(r) = IF LedgerStatus(r) = "BALANCE_PURCHASE" THEN -req[r].amount
                                                             ELSE req[r].amount
      BY <3>0, SignOfStatus DEF Promise!Signed
    <3>2. /\ balance \in [Users -> Int] /\ posted \in [Users -> [Statuses -> Nat]]
          /\ req[r].user \in Users /\ req[r].amount \in Nat
          /\ LedgerStatus(r) \in Statuses
      BY <3>0, Arguments DEF TypeOK
    <3> HIDE DEF IInv
    <3> QED
      BY <2>2, <3>1, <3>2 DEF LedgerExplainsBalance, Statuses
  <2> QED
    BY <2>1, <2>2, MoneyStep
<1> QED
  BY <1>1, <1>2, LockHeld, PTL DEF Spec

\* The transactions keep the promise of Ledger: each commit is one Post.
THEOREM Refinement == Spec => KeepsPromise
<1>1. Init => Promise!Init
  BY DEF Init, Promise!Init, Statuses, Promise!Statuses
<1>2. IInv /\ [Next]_vars => [Promise!Next]_<<balance, posted>>
  <2> SUFFICES ASSUME IInv, [Next]_vars PROVE [Promise!Next]_<<balance, posted>>
    OBVIOUS
  <2>1. ASSUME NEW r \in Requests,
               balance' = [balance EXCEPT ![req[r].user] = @ + Delta(r)],
               posted' = [posted EXCEPT
                 ![req[r].user][LedgerStatus(r)] = @ + req[r].amount]
        PROVE  Promise!Next
    <3>0. TypeOK
      BY DEF IInv
    <3>1. /\ req[r].user \in Users /\ req[r].amount \in Amounts
          /\ LedgerStatus(r) \in Promise!Statuses
      BY <3>0, Arguments DEF TypeOK, Args, Statuses, Promise!Statuses
    <3>2. Promise!Post(req[r].user, LedgerStatus(r), req[r].amount)
      BY <2>1, <3>0, SignOfStatus DEF Promise!Post
    <3> QED
      BY <3>1, <3>2 DEF Promise!Next
  <2> QED
    BY <2>1, MoneyStep
<1> QED
  BY <1>1, <1>2, LockHeld, PTL DEF Spec, KeepsPromise, Promise!Spec

-----------------------------------------------------------------------------
(* The guard against overdrafts.                                           *)

\* A request about to update has read a balance that covers its amount.
LEMMA GuardHolds == Spec => []GuardInv
<1>1. Init => GuardInv
  BY DEF Init, GuardInv, Writing
<1>2. TypeOK /\ GuardInv /\ [Next]_vars => GuardInv'
  <2> SUFFICES ASSUME TypeOK, GuardInv, [Next]_vars PROVE GuardInv'
    OBVIOUS
  <2> USE DEF GuardInv, Writing, Refused, Delta, IsDebit
  <2>1. ASSUME NEW r \in Requests, Begin(r) PROVE GuardInv'
    BY <2>1 DEF Begin, TypeOK
  <2>2. ASSUME NEW r \in Requests, ReadBalance(r) PROVE GuardInv'
    BY <2>2 DEF ReadBalance, TypeOK
  <2>3. ASSUME NEW r \in Requests, UpdateBalance(r) PROVE GuardInv'
    BY <2>3 DEF UpdateBalance, TypeOK
  <2>4. ASSUME NEW r \in Requests, PublishInTransaction(r) PROVE GuardInv'
    BY <2>4 DEF PublishInTransaction, TypeOK
  <2>5. ASSUME NEW r \in Requests, Commit(r) PROVE GuardInv'
    BY <2>5 DEF Commit, TypeOK
  <2>6. ASSUME NEW r \in Requests, PublishAfterCommit(r) PROVE GuardInv'
    BY <2>6 DEF PublishAfterCommit, TypeOK
  <2>7. ASSUME NEW r \in Requests, RollBack(r) PROVE GuardInv'
    BY <2>7 DEF RollBack, TypeOK
  <2>8. CASE UNCHANGED vars
    BY <2>8 DEF vars
  <2> QED
    BY <2>1, <2>2, <2>3, <2>4, <2>5, <2>6, <2>7, <2>8 DEF Next, Progress, AllAnswered
<1> QED
  BY <1>1, <1>2, TypeCorrect, PTL DEF Spec

\* Only a debit that read an out-of-date balance takes a balance below zero.
THEOREM OverdraftIsARace == Spec => OverdraftNeedsStaleRead
<1> DEFINE A == \A u \in Users : balance[u] >= 0 /\ balance'[u] < 0 =>
                  \E r \in Requests : holder[u] = r /\ IsDebit(r) /\ seen[r] # balance[u]
<1>1. IInv /\ GuardInv /\ [Next]_vars => [A]_vars
  <2> SUFFICES ASSUME IInv, GuardInv, [Next]_vars,
                      NEW u \in Users, balance[u] >= 0, balance'[u] < 0
               PROVE  \E r \in Requests : holder[u] = r /\ IsDebit(r) /\ seen[r] # balance[u]
    OBVIOUS
  <2>0. /\ TypeOK
        /\ balance \in [Users -> Int] /\ balance[u] \in Int
    BY DEF IInv, TypeOK
  <2>1. PICK r \in Requests :
          Commit(r) /\ balance' = [balance EXCEPT ![req[r].user] = @ + Delta(r)]
    <3>1. ~ UNCHANGED <<balance, posted>>
      BY <2>0
    <3> QED
      BY <3>1, MoneyStep
  <2>2. req[r].user = u /\ balance[u] + Delta(r) < 0
    <3>1. Delta(r) \in Int /\ req[r].user \in Users
      BY <2>0, Arguments
    <3>2. CASE req[r].user # u
      <4>1. balance'[u] = balance[u]
        BY <2>0, <2>1, <3>1, <3>2
      <4> QED
        BY <2>0, <4>1
    <3> QED
      BY <2>0, <2>1, <3>1, <3>2
  <2>3. IsDebit(r)
    BY <2>0, <2>2, Arguments DEF Delta
  <2>4. Writing(r)
    BY <2>1 DEF Commit, Writing
  <2>5. seen[r] # balance[u]
    BY <2>2, <2>3, <2>4 DEF GuardInv, Refused
  <2>6. holder[u] = r
    BY <2>2, <2>4 DEF IInv, LockInv
  <2> QED
    BY <2>3, <2>5, <2>6
<1> QED
  BY <1>1, LockHeld, GuardHolds, PTL DEF Spec, OverdraftNeedsStaleRead

-----------------------------------------------------------------------------
(* The events.                                                             *)

\* While every request of a user publishes under the row lock, the last event shows the
\* committed balance, or what the holder of the lock is about to commit.
LEMMA ShownStep == IInv /\ NotifyInv /\ ShownInv /\ [Next]_vars => ShownInv'
<1> SUFFICES ASSUME IInv, NotifyInv, ShownInv, [Next]_vars PROVE ShownInv'
  OBVIOUS
<1> DEFINE Agree(u) == shown[u] = balance[u] /\ \A r \in Requests : holder[u] = r => pc[r] = "publish"
           Ahead(u) == \E r \in Requests :
                         holder[u] = r /\ pc[r] = "commit" /\ shown[u] = written[r]
<1>0. TypeOK /\ LockInv
  BY DEF IInv
<1>a. \A u \in Users : Served(u) => Agree(u) \/ Ahead(u)
  BY DEF ShownInv
<1>s. SUFFICES ASSUME NEW u \in Users, Served(u)' PROVE Agree(u)' \/ Ahead(u)'
  BY DEF ShownInv
<1> HIDE DEF Agree, Ahead
<1>1. ASSUME NEW r \in Requests, Begin(r) \/ ReadBalance(r) PROVE Agree(u)' \/ Ahead(u)'
  <2>1. Served(u)
    BY <1>0, <1>1, <1>s DEF Served, JoinsTransaction, Begin, ReadBalance, TypeOK
  <2>2. ASSUME Agree(u) PROVE Agree(u)'
    BY <1>0, <1>1, <2>2 DEF Begin, ReadBalance, Agree, TypeOK
  <2>3. ASSUME Ahead(u) PROVE Ahead(u)'
    BY <1>0, <1>1, <2>3 DEF Begin, ReadBalance, Ahead, TypeOK
  <2> QED
    BY <1>a, <2>1, <2>2, <2>3
<1>2. ASSUME NEW r \in Requests, UpdateBalance(r) PROVE Agree(u)' \/ Ahead(u)'
  <2>1. Served(u)
    BY <1>0, <1>2, <1>s DEF Served, JoinsTransaction, UpdateBalance, TypeOK
  <2>2. req[r].user = u => JoinsTransaction(r)
    BY <2>1 DEF Served
  <2>3. ASSUME Agree(u) PROVE Agree(u)'
    BY <1>0, <1>2, <2>2, <2>3 DEF UpdateBalance, Agree, TypeOK
  <2>4. ASSUME Ahead(u) PROVE Ahead(u)'
    BY <1>0, <1>2, <2>4, NoneIsNoRequest DEF UpdateBalance, Ahead, TypeOK
  <2> QED
    BY <1>a, <2>1, <2>3, <2>4
<1>3. ASSUME NEW r \in Requests, PublishInTransaction(r) PROVE Agree(u)' \/ Ahead(u)'
  <2>1. Served(u)
    BY <1>0, <1>3, <1>s DEF Served, JoinsTransaction, PublishInTransaction, TypeOK
  <2>2. holder[req[r].user] = r
    BY <1>0, <1>3 DEF PublishInTransaction, LockInv, Writing
  <2>3. CASE req[r].user = u
    <3>1. Ahead(u)'
      BY <1>0, <1>3, <2>2, <2>3 DEF PublishInTransaction, Ahead, TypeOK
    <3> QED
      BY <3>1
  <2>4. CASE req[r].user # u
    <3>0. holder[u] # r
      BY <1>0, <1>3, <2>4 DEF LockInv
    <3>1. ASSUME Agree(u) PROVE Agree(u)'
      BY <1>0, <1>3, <2>4, <3>0, <3>1, Arguments DEF PublishInTransaction, Agree, TypeOK
    <3>2. ASSUME Ahead(u) PROVE Ahead(u)'
      BY <1>0, <1>3, <2>4, <3>0, <3>2, Arguments DEF PublishInTransaction, Ahead, TypeOK
    <3> QED
      BY <1>a, <2>1, <3>1, <3>2
  <2> QED
    BY <2>3, <2>4
<1>4. ASSUME NEW r \in Requests, Commit(r) PROVE Agree(u)' \/ Ahead(u)'
  <2>1. Served(u)
    BY <1>0, <1>4, <1>s DEF Served, JoinsTransaction, Commit, TypeOK
  <2>2. holder[req[r].user] = r
    BY <1>0, <1>4 DEF Commit, LockInv, Writing
  <2>3. CASE req[r].user = u
    <3>1. shown[u] = written[r]
      BY <1>a, <1>4, <2>1, <2>2, <2>3 DEF Agree, Ahead, Commit
    <3>2. Agree(u)'
      BY <1>0, <1>4, <2>3, <3>1, NoneIsNoRequest DEF Commit, Agree, TypeOK
    <3> QED
      BY <3>2
  <2>4. CASE req[r].user # u
    <3>0. holder[u] # r
      BY <1>0, <1>4, <2>4 DEF LockInv
    <3>1. ASSUME Agree(u) PROVE Agree(u)'
      BY <1>0, <1>4, <2>4, <3>0, <3>1, Arguments DEF Commit, Agree, TypeOK
    <3>2. ASSUME Ahead(u) PROVE Ahead(u)'
      BY <1>0, <1>4, <2>4, <3>0, <3>2, Arguments DEF Commit, Ahead, TypeOK
    <3> QED
      BY <1>a, <2>1, <3>1, <3>2
  <2> QED
    BY <2>3, <2>4
<1>5. ASSUME NEW r \in Requests, PublishAfterCommit(r) PROVE Agree(u)' \/ Ahead(u)'
  <2>1. Served(u)
    BY <1>0, <1>5, <1>s DEF Served, JoinsTransaction, PublishAfterCommit, TypeOK
  <2>2. req[r].user # u
    BY <1>5, <2>1 DEF PublishAfterCommit, NotifyInv, Served
  <2>3. ASSUME Agree(u) PROVE Agree(u)'
    BY <1>0, <1>5, <2>2, <2>3, Arguments DEF PublishAfterCommit, Agree, TypeOK
  <2>4. ASSUME Ahead(u) PROVE Ahead(u)'
    BY <1>0, <1>5, <2>2, <2>4, Arguments DEF PublishAfterCommit, Ahead, TypeOK
  <2> QED
    BY <1>a, <2>1, <2>3, <2>4
<1>6. ASSUME NEW r \in Requests, RollBack(r) PROVE Agree(u)' \/ Ahead(u)'
  <2>1. Served(u)
    BY <1>0, <1>6, <1>s DEF Served, JoinsTransaction, RollBack, TypeOK
  <2>2. req[r].user # u
    BY <1>0, <1>6, <1>s DEF RollBack, Served, TypeOK
  <2>3. holder[u] # r
    BY <1>0, <2>2 DEF LockInv
  <2>4. ASSUME Agree(u) PROVE Agree(u)'
    BY <1>0, <1>6, <2>3, <2>4, NoneIsNoRequest DEF RollBack, Agree, TypeOK
  <2>5. ASSUME Ahead(u) PROVE Ahead(u)'
    BY <1>0, <1>6, <2>3, <2>5 DEF RollBack, Ahead, TypeOK
  <2> QED
    BY <1>a, <2>1, <2>4, <2>5
<1>7. CASE UNCHANGED vars
  <2>1. Served(u)
    BY <1>7, <1>s DEF vars, Served, JoinsTransaction
  <2> QED
    BY <1>a, <1>7, <2>1 DEF vars, Agree, Ahead
<1> QED
  BY <1>1, <1>2, <1>3, <1>4, <1>5, <1>6, <1>7 DEF Next, Progress, AllAnswered

\* Only a request that owns its transaction publishes after the commit.
LEMMA NotifyHolds == Spec => []NotifyInv
<1>1. Init => NotifyInv
  BY DEF Init, NotifyInv
<1>2. TypeOK /\ NotifyInv /\ [Next]_vars => NotifyInv'
  BY DEF TypeOK, NotifyInv, JoinsTransaction, Next, Progress, AllAnswered, vars, Begin,
     ReadBalance, UpdateBalance, PublishInTransaction, Commit, PublishAfterCommit, RollBack
<1> QED
  BY <1>1, <1>2, TypeCorrect, PTL DEF Spec

\* When all is quiet the last event shows the committed balance.
THEOREM EventsSettle == Spec => []SettledEventsAgree
<1>1. Init => ShownInv
  BY NoneIsNoRequest DEF Init, ShownInv
<1>2. IInv /\ ShownInv => SettledEventsAgree
  BY DEF IInv, LockInv, Writing, ShownInv, Served, SettledEventsAgree
<1> QED
  BY <1>1, <1>2, ShownStep, LockHeld, NotifyHolds, PTL DEF Spec

=============================================================================
