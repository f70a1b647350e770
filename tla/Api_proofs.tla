------------------------------ MODULE Api_proofs ------------------------------
(***************************************************************************)
(* Theorems about Api, for any users, requests, calls, documents, pool and *)
(* number of faults.                                                       *)
(***************************************************************************)
EXTENDS Api, FiniteSetTheorems, TLAPS

\* Which awaits the handler of a call has.
PlacesOf(op) ==
  CASE op = "buy"            -> {"begin", "price", "balance", "debit", "commit"}
    [] op = "buyBatch"       -> {"price", "begin", "balance", "debit", "commit", "queue"}
    [] op = "setPrice"       -> {"ensure", "upsert"}
    [] op = "unsetPrice"     -> {"unset"}
    [] op = "deleteUser"     -> {"target", "delete", "cascade"}
    [] op = "changePassword" -> {"verify", "rehash", "update"}
    [] op = "me"             -> {"me"}
    [] op = "login"          -> {"find", "session"}
    [] op = "register"       -> {"find", "create", "session"}
    [] op = "logout"         -> {"destroy"}
    [] op = "complete"       -> {"settle", "reload", "children", "open", "write"}
    [] OTHER                 -> {"load", "read", "children", "open", "write", "again"}

Outside == {"idle", "guard", "leave", "answered"}

\* A request is where its handler may be, behind the guard only with a session, and a
\* login that found a user or a registration that made one knows him.
InPlace(r) ==
  /\ pc[r] \notin Outside => pc[r] \in PlacesOf(call[r].op)
  /\ pc[r] = "guard" => Guarded(r)
  /\ Guarded(r) /\ pc[r] \notin Outside => copy[r] # None
  /\ pc[r] = "session" => account[r] # None
  /\ pc[r] \in {"write", "again"} => files[call[r].doc] # None

PlaceInv == \A r \in Requests : InPlace(r)

IInv == TypeOK /\ PlaceInv

\* The steps that only decide where to go on or what to answer.
Decision(r) ==
  \/ Unauthorized(r) \/ Authenticate(r) \/ FindTaken(r) \/ Me(r) \/ VerifyPassword(r)
  \/ FindTarget(r) \/ EnsureUser(r) \/ BeginTimesOut(r) \/ TransactionClosed(r)
  \/ QueueBatch(r) \/ Reload(r) \/ Load(r) \/ ReadAgain(r)

Statuses == {0, 200, 400, 401, 402, 403, 404, 409, 500}

USE SetsAreDisjoint, AccountsAreKnown, PricesAreNaturals, DocumentsHaveOwners, PoolIsNotEmpty,
    NoneIsNoFile
USE DEF userVars, moneyVars, reportVars, poolVars, sessionVars, loginVars, priceVars,
        windowVars, fixedVars, vars

-----------------------------------------------------------------------------
(* Types and places.                                                       *)

\* The fields of a call have their types, and those its handler needs are there.
LEMMA CallTypes ==
  ASSUME TypeOK, NEW r \in Requests
  PROVE  /\ call[r].op \in Ops
         /\ call[r].sid \in Browsers \cup {None}
         /\ call[r].target \in Accounts \cup {None}
         /\ call[r].email \in Emails \cup {None}
         /\ call[r].new \in Passwords \cup {None}
         /\ call[r].price \in Prices \cup {None}
         /\ call[r].rows \in Nat
         /\ call[r].doc \in Documents \cup {None}
         /\ call[r].op = "setPrice" => call[r].price # None
         /\ call[r].op \in {"excel", "adminExcel", "complete"} => call[r].doc # None
<1>1. call[r] \in Calls /\ call[r] \in CallType
  BY CallsAreCalls DEF TypeOK
<1> QED
  BY <1>1, CallsAreValid DEF CallType

\* A handler begins at one of its own places, after the guard.
LEMMA EntryIsAPlace ==
  ASSUME NEW op \in Ops
  PROVE  Entry(op) \in PlacesOf(op) /\ Entry(op) \in Places /\ Entry(op) \notin Outside
         /\ Entry(op) \notin {"session", "write", "again"}
BY DEF Ops, AdminOps, OpenOps, UserOps, WorkerOps, Entry, PlacesOf, Places, Outside

\* No handler begins with what keeps a connection waiting.
LEMMA EntryIsNoWait ==
  ASSUME NEW op \in Ops
  PROVE  Entry(op) \notin {"update", "cascade", "balance", "debit", "commit"}
BY DEF Ops, AdminOps, OpenOps, UserOps, WorkerOps, Entry

\* A decision moves its request on, sets its answer and changes no table.
LEMMA DecisionsAreMoves ==
  ASSUME NEW r \in Requests, Decision(r), IInv
  PROVE  /\ UNCHANGED <<userVars, moneyVars, completed, files, draft, disturbed, poolVars,
                        sessionVars, loginVars, priceVars, windowVars, fixedVars>>
         /\ pc' = [pc EXCEPT ![r] = pc'[r]]
         /\ status' = [status EXCEPT ![r] = status'[r]]
         /\ pc'[r] \in Places /\ status'[r] \in Statuses
         /\ pc'[r] \notin {"idle", "guard", "answered", "session", "write", "again"}
         /\ Guarded(r) /\ pc'[r] # "leave" => copy[r] # None
<1>0. /\ pc \in [Requests -> Places] /\ status \in [Requests -> Statuses]
      /\ call[r].op \in Ops
      /\ Guarded(r) /\ pc[r] \notin Outside => copy[r] # None
  BY CallTypes DEF IInv, TypeOK, PlaceInv, InPlace, Statuses
<1> USE <1>0 DEF Statuses, Places, Reply, Goto, Query, Outside
<1>1. CASE Unauthorized(r)
  BY <1>1 DEF Unauthorized
<1>2. CASE Authenticate(r)
  BY <1>2, EntryIsAPlace DEF Authenticate
<1>3. CASE FindTaken(r)
  BY <1>3 DEF FindTaken
<1>4. CASE Me(r)
  BY <1>4 DEF Me
<1>5. CASE VerifyPassword(r)
  BY <1>5 DEF VerifyPassword
<1>6. CASE FindTarget(r)
  BY <1>6 DEF FindTarget
<1>7. CASE EnsureUser(r)
  BY <1>7 DEF EnsureUser
<1>8. CASE BeginTimesOut(r)
  BY <1>8 DEF BeginTimesOut
<1>9. CASE TransactionClosed(r)
  BY <1>9 DEF TransactionClosed, CallbackPlaces
<1>10. CASE QueueBatch(r)
  BY <1>10 DEF QueueBatch
<1>11. CASE Reload(r)
  BY <1>11 DEF Reload
<1>12. CASE Load(r)
  BY <1>12 DEF Load
<1>13. CASE ReadAgain(r)
  BY <1>13 DEF ReadAgain, Serve
<1> QED
  BY <1>1, <1>2, <1>3, <1>4, <1>5, <1>6, <1>7, <1>8, <1>9, <1>10, <1>11, <1>12, <1>13
     DEF Decision

\* A decision may be the answer of a download.
LEMMA DecisionsServe ==
  ASSUME NEW r \in Requests, Decision(r), IInv
  PROVE  got' = got \/ ReadAgain(r)
BY DEF Decision, Unauthorized, Authenticate, FindTaken, Me, VerifyPassword, FindTarget,
       EnsureUser, BeginTimesOut, TransactionClosed, QueueBatch, Reload, Load

\* A decision leads to an await of the same handler, or out of it.
LEMMA DecisionsStayInTheHandler ==
  ASSUME NEW r \in Requests, Decision(r), IInv
  PROVE  pc'[r] # "leave" => pc'[r] \in PlacesOf(call[r].op)
<1>1. call[r].op \in Ops /\ pc \in [Requests -> Places]
  BY CallTypes DEF IInv, TypeOK
<1>2. pc[r] \notin Outside => pc[r] \in PlacesOf(call[r].op)
  BY DEF IInv, PlaceInv, InPlace
<1> USE <1>1, <1>2 DEF Reply, Goto, Query, Outside, PlacesOf, Ops, AdminOps, OpenOps, UserOps,
        WorkerOps
<1>3. CASE Unauthorized(r)
  BY <1>3 DEF Unauthorized
<1>4. CASE Authenticate(r)
  BY <1>4, EntryIsAPlace DEF Authenticate
<1>5. CASE FindTaken(r)
  BY <1>5 DEF FindTaken
<1>6. CASE Me(r)
  BY <1>6 DEF Me
<1>7. CASE VerifyPassword(r)
  BY <1>7 DEF VerifyPassword
<1>8. CASE FindTarget(r)
  BY <1>8 DEF FindTarget
<1>9. CASE EnsureUser(r)
  BY <1>9 DEF EnsureUser
<1>10. CASE BeginTimesOut(r)
  BY <1>10 DEF BeginTimesOut
<1>11. CASE TransactionClosed(r)
  BY <1>11 DEF TransactionClosed, CallbackPlaces
<1>12. CASE QueueBatch(r)
  BY <1>12 DEF QueueBatch
<1>13. CASE Reload(r)
  BY <1>13 DEF Reload
<1>14. CASE Load(r)
  BY <1>14 DEF Load
<1>15. CASE ReadAgain(r)
  BY <1>15 DEF ReadAgain, Serve
<1> QED
  BY <1>3, <1>4, <1>5, <1>6, <1>7, <1>8, <1>9, <1>10, <1>11, <1>12, <1>13, <1>14, <1>15
     DEF Decision

\* The steps that do more.
Effect(r) ==
  \/ Arrive(r) \/ Leave(r) \/ FindLogin(r) \/ SaveSession(r) \/ Register(r) \/ Logout(r)
  \/ SendPassword(r) \/ SetPassword(r) \/ BeginDelete(r) \/ DeleteUser(r) \/ SetPersonal(r)
  \/ DeletePersonal(r) \/ ReadPrice(r) \/ Begin(r) \/ ReadBalance(r) \/ Debit(r) \/ Commit(r)
  \/ Expire(r) \/ CompleteBatch(r) \/ ReadFile(r) \/ ReadChildren(r) \/ OpenFile(r)
  \/ WriteFile(r) \/ StatementThrows(r) \/ WriteThrows(r)

\* Every step is a decision or an effect of a request, a crash or no change.
LEMMA NextCases ==
  ASSUME Next
  PROVE  \/ \E r \in Requests : Decision(r) \/ Effect(r)
         \/ Crash
         \/ UNCHANGED vars
BY DEF Next, Step, Timeout, AccountStep, PurchaseStep, ReportStep, AllAnswered, Decision, Effect

\* A request changes what is its own only.
LEMMA EffectsAreLocal ==
  ASSUME TypeOK, NEW r \in Requests, Effect(r), NEW q \in Requests \ {r}
  PROVE  /\ pc'[q] = pc[q] /\ status'[q] = status[q] /\ sid'[q] = sid[q] /\ copy'[q] = copy[q]
         /\ account'[q] = account[q] /\ price'[q] = price[q] /\ draft'[q] = draft[q]
         /\ got'[q] = got[q] /\ call' = call
<1>1. /\ pc \in [Requests -> Places] /\ status \in [Requests -> Statuses]
      /\ sid \in [Requests -> Sids] /\ copy \in [Requests -> Ids \cup {None}]
      /\ account \in [Requests -> Ids \cup {None}] /\ price \in [Requests -> Prices]
      /\ draft \in [Requests -> Contents] /\ got \in [Requests -> {None} \cup SUBSET Pieces]
  BY DEF TypeOK, Statuses
<1> USE <1>1 DEF Goto, Reply
<1>2. CASE Arrive(r)
  BY <1>2 DEF Arrive
<1>3. CASE Leave(r)
  BY <1>3 DEF Leave
<1>4. CASE FindLogin(r)
  BY <1>4 DEF FindLogin
<1>5. CASE SaveSession(r)
  BY <1>5 DEF SaveSession
<1>6. CASE Register(r)
  BY <1>6 DEF Register
<1>7. CASE Logout(r)
  BY <1>7 DEF Logout
<1>8. CASE SendPassword(r)
  BY <1>8 DEF SendPassword
<1>9. CASE SetPassword(r)
  BY <1>9 DEF SetPassword
<1>10. CASE BeginDelete(r)
  BY <1>10 DEF BeginDelete
<1>11. CASE DeleteUser(r)
  BY <1>11 DEF DeleteUser
<1>12. CASE SetPersonal(r)
  BY <1>12 DEF SetPersonal
<1>13. CASE DeletePersonal(r)
  BY <1>13 DEF DeletePersonal
<1>14. CASE ReadPrice(r)
  BY <1>14 DEF ReadPrice
<1>15. CASE Begin(r)
  BY <1>15 DEF Begin
<1>16. CASE ReadBalance(r)
  BY <1>16 DEF ReadBalance
<1>17. CASE Debit(r)
  BY <1>17 DEF Debit
<1>18. CASE Commit(r)
  BY <1>18 DEF Commit
<1>19. CASE Expire(r)
  BY <1>19 DEF Expire
<1>20. CASE CompleteBatch(r)
  BY <1>20 DEF CompleteBatch
<1>21. CASE ReadFile(r)
  BY <1>21 DEF ReadFile, Serve
<1>22. CASE ReadChildren(r)
  BY <1>22 DEF ReadChildren
<1>23. CASE OpenFile(r)
  BY <1>23 DEF OpenFile
<1>24. CASE WriteFile(r)
  BY <1>24 DEF WriteFile
<1>25. CASE StatementThrows(r)
  BY <1>25 DEF StatementThrows
<1>26. CASE WriteThrows(r)
  BY <1>26 DEF WriteThrows
<1> QED
  BY <1>2, <1>3, <1>4, <1>5, <1>6, <1>7, <1>8, <1>9, <1>10, <1>11, <1>12, <1>13, <1>14, <1>15,
     <1>16, <1>17, <1>18, <1>19, <1>20, <1>21, <1>22, <1>23, <1>24, <1>25, <1>26
     DEF Effect

\* What was asked does not change while it is served.
LEMMA CallsStay ==
  ASSUME Next
  PROVE  call' = call
<1>1. ASSUME NEW r \in Requests, Decision(r) PROVE call' = call
  BY <1>1
     DEF Decision, Unauthorized, Authenticate, FindTaken, Me, VerifyPassword, FindTarget,
         EnsureUser, BeginTimesOut, TransactionClosed, QueueBatch, Reload, Load, ReadAgain
<1>2. ASSUME NEW r \in Requests, Effect(r) PROVE call' = call
  BY <1>2
     DEF Effect, Arrive, Leave, FindLogin, SaveSession, Register, Logout, SendPassword,
         SetPassword, BeginDelete, DeleteUser, SetPersonal, DeletePersonal, ReadPrice, Begin,
         ReadBalance, Debit, Commit, Expire, CompleteBatch, ReadFile, ReadChildren, OpenFile,
         WriteFile, StatementThrows, WriteThrows
<1> QED
  BY <1>1, <1>2, NextCases DEF Crash

\* Where a request is: what PlaceInv says of one place.
LEMMA PlacesKnown ==
  ASSUME IInv, NEW r \in Requests
  PROVE  /\ pc[r] = "session" => account[r] # None
         /\ pc[r] = "price" => copy[r] # None
         /\ pc[r] \in {"debit", "balance", "commit", "begin"} => copy[r] # None
         /\ pc[r] \in {"reload", "children", "open", "write", "load", "read", "again", "settle"} =>
              call[r].doc # None
         /\ pc[r] \in {"write", "again"} => files[call[r].doc] # None
         /\ pc[r] = "upsert" => call[r].price # None
BY CallTypes
   DEF IInv, PlaceInv, InPlace, PlacesOf, Outside, Ops, AdminOps, OpenOps, UserOps, WorkerOps,
       Guarded

\* The cost of a purchase is a natural number.
LEMMA CostIsNatural ==
  ASSUME TypeOK, NEW r \in Requests
  PROVE  Cost(r) \in Nat
<1>1. price[r] \in Nat /\ call[r].rows \in Nat
  BY CallTypes DEF TypeOK
<1> QED
  BY <1>1 DEF Cost

-----------------------------------------------------------------------------
(* TypeOK by the groups of variables that change together.                 *)

UserTypes ==
  /\ exists \in SUBSET Ids
  /\ email \in [Ids -> Emails \cup {None}]
  /\ password \in [Ids -> Passwords \cup {None}]

MoneyTypes ==
  /\ balance \in [Ids -> Int]
  /\ spent \in [Ids -> Nat]
  /\ personal \in [Ids -> Prices \cup {None}]
  /\ paid \in SUBSET Requests

ReportTypes ==
  /\ completed \in SUBSET Documents
  /\ files \in [Documents -> {None} \cup SUBSET Pieces]
  /\ draft \in [Requests -> Contents]
  /\ got \in [Requests -> {None} \cup SUBSET Pieces]
  /\ disturbed \in SUBSET Documents

PoolTypes ==
  /\ busy \in SUBSET Requests
  /\ tx \in [Requests -> {"none", "open", "closed"}]
  /\ holder \in [Ids -> Requests \cup {None}]

SessionTypes ==
  /\ sessions \in [Sids -> Ids \cup {None}]
  /\ sid \in [Requests -> Sids]
  /\ copy \in [Requests -> Ids \cup {None}]
  /\ stale \in [Requests -> BOOLEAN]

PurchaseTypes ==
  /\ account \in [Requests -> Ids \cup {None}]
  /\ price \in [Requests -> Prices]
  /\ inForce \in [Requests -> SUBSET Prices]
  /\ gone \in [Requests -> SUBSET Ids]

RequestTypes ==
  /\ pc \in [Requests -> Places]
  /\ status \in [Requests -> Statuses]

FixedTypes == call \in [Requests -> Calls] /\ faults \in 0..MaxFaults

\* The types are those of the groups of variables.
LEMMA TypeParts ==
  TypeOK <=> /\ UserTypes /\ MoneyTypes /\ ReportTypes /\ PoolTypes
             /\ SessionTypes /\ PurchaseTypes /\ RequestTypes /\ FixedTypes
BY
   DEF TypeOK, UserTypes, MoneyTypes, ReportTypes, PoolTypes, SessionTypes, PurchaseTypes,
       RequestTypes, FixedTypes, Statuses

\* They are in the next state if each group keeps its types.
LEMMA TypePartsNext ==
  ASSUME UserTypes', MoneyTypes', ReportTypes', PoolTypes',
         SessionTypes', PurchaseTypes', RequestTypes', FixedTypes'
  PROVE  TypeOK'
BY
   DEF TypeOK, UserTypes, MoneyTypes, ReportTypes, PoolTypes, SessionTypes, PurchaseTypes,
       RequestTypes, FixedTypes, Statuses

\* A group that does not change keeps its types.
LEMMA UnchangedTypes ==
  ASSUME TypeOK
  PROVE  /\ UNCHANGED userVars => UserTypes'
         /\ UNCHANGED moneyVars => MoneyTypes'
         /\ UNCHANGED reportVars => ReportTypes'
         /\ UNCHANGED poolVars => PoolTypes'
         /\ UNCHANGED sessionVars => SessionTypes'
         /\ UNCHANGED <<loginVars, priceVars, windowVars>> => PurchaseTypes'
         /\ UNCHANGED <<pc, status>> => RequestTypes'
         /\ UNCHANGED fixedVars => FixedTypes'
BY
   DEF TypeOK, UserTypes, MoneyTypes, ReportTypes, PoolTypes, SessionTypes, PurchaseTypes,
       RequestTypes, FixedTypes, Statuses

\* Whatever a writer leaves in a file consists of pieces.
LEMMA PiecesAreWritten ==
  ASSUME IInv, NEW r \in Requests, pc[r] = "write"
  PROVE  /\ call[r].doc \in Documents /\ files[call[r].doc] \in SUBSET Pieces
         /\ \A part \in Contents \cup {"part"} :
              Overwritten(r, call[r].doc, part) \subseteq SUBSET Pieces
<1>1. call[r].doc \in Documents /\ files[call[r].doc] # None
  BY CallTypes, PlacesKnown DEF IInv
<1>2. files[call[r].doc] \in SUBSET Pieces
  BY <1>1 DEF IInv, TypeOK
<1>3. ASSUME NEW part \in Contents \cup {"part"}, NEW left \in SUBSET files[call[r].doc]
      PROVE  left \cup {<<r, part>>} \in SUBSET Pieces
  BY <1>2 DEF Pieces
<1>4. ASSUME NEW part \in Contents \cup {"part"}, NEW file \in Overwritten(r, call[r].doc, part)
      PROVE  file \in SUBSET Pieces
  <2>1. PICK left \in SUBSET files[call[r].doc] : file = left \cup {<<r, part>>}
    BY <1>4 DEF Overwritten
  <2> QED
    BY <1>3, <2>1
<1> QED
  BY <1>1, <1>2, <1>4

\* A crash changes files only that were being written: some of their pieces are left and parts
\* of what was to come may be there.
LEMMA CrashCutsFiles ==
  ASSUME IInv, Crash
  PROVE  /\ files' \in [Documents -> {None} \cup SUBSET Pieces]
         /\ \A d \in Documents :
              IF \E r \in Requests : Writing(r, d)
              THEN /\ d \in disturbed' /\ files'[d] \in SUBSET Pieces
                   /\ \A piece \in files'[d] : piece \in files[d] \/ piece[2] = "part"
              ELSE files'[d] = files[d] /\ (d \in disturbed' <=> d \in disturbed)
         /\ disturbed' \in SUBSET Documents /\ UNCHANGED <<completed, draft, got>>
<1> DEFINE writers == {r \in Requests : pc[r] = "write"}
           cut == {call[r].doc : r \in writers}
<1>1. PICK wrote \in SUBSET writers, kept \in SUBSET (UNION {files[d] : d \in cut}) :
        files' = [d \in Documents |->
          IF d \notin cut THEN files[d]
          ELSE (files[d] \cap kept) \cup {<<r, "part">> : r \in {q \in wrote : call[q].doc = d}}]
  BY DEF Crash
<1>2. \A d \in cut : d \in Documents /\ files[d] \in SUBSET Pieces
  BY PiecesAreWritten
<1>3. \A d \in Documents : d \in cut <=> \E r \in Requests : Writing(r, d)
  BY DEF Writing
<1>4. disturbed' = disturbed \cup cut /\ UNCHANGED <<completed, draft, got>>
  BY DEF Crash
<1>5. ASSUME NEW d \in cut
      PROVE  /\ files'[d] \in SUBSET Pieces
             /\ \A piece \in files'[d] : piece \in files[d] \/ piece[2] = "part"
  <2>1. files'[d] = (files[d] \cap kept)
                      \cup {<<r, "part">> : r \in {q \in wrote : call[q].doc = d}}
    BY <1>1, <1>2
  <2> QED
    BY <1>2, <2>1 DEF Pieces
<1>6. \A d \in Documents \ cut : files'[d] = files[d]
  BY <1>1
<1>7. /\ files \in [Documents -> {None} \cup SUBSET Pieces] /\ disturbed \in SUBSET Documents
  BY DEF IInv, TypeOK
<1>8. files' \in [Documents -> {None} \cup SUBSET Pieces]
  <2>1. files' = [d \in Documents |-> files'[d]]
    BY <1>1
  <2>2. \A d \in Documents : files'[d] \in {None} \cup SUBSET Pieces
    BY <1>5, <1>6, <1>7
  <2> QED
    BY <2>1, <2>2
<1> HIDE DEF cut, writers
<1> QED
  BY <1>2, <1>3, <1>4, <1>5, <1>6, <1>7, <1>8

\* Every step keeps the types.
LEMMA TypesStay ==
  ASSUME IInv, Next
  PROVE  TypeOK'
<1>0. /\ TypeOK /\ UserTypes /\ MoneyTypes /\ ReportTypes /\ PoolTypes
      /\ SessionTypes /\ PurchaseTypes /\ RequestTypes /\ FixedTypes
  BY TypeParts DEF IInv
<1>1. ASSUME NEW r \in Requests, Decision(r) PROVE TypeOK'
  <2>1. RequestTypes'
    BY <1>0, <1>1, DecisionsAreMoves DEF RequestTypes
  <2>2. ReportTypes'
    <3>1. got' \in [Requests -> {None} \cup SUBSET Pieces]
      <4>1. CASE ReadAgain(r)
        BY <1>0, <4>1, CallTypes, PlacesKnown DEF ReadAgain, Serve, ReportTypes
      <4> QED
        BY <1>0, <1>1, <4>1, DecisionsServe DEF IInv, ReportTypes
    <3> QED
      BY <1>0, <1>1, <3>1, DecisionsAreMoves DEF ReportTypes
  <2> QED
    BY <1>0, <1>1, <2>1, <2>2, DecisionsAreMoves, UnchangedTypes, TypePartsNext
<1>2. ASSUME NEW r \in Requests, Effect(r) PROVE TypeOK'
  <2>1. CASE Arrive(r)
    <3>1. SessionTypes'
      BY <2>1, <1>0, CallTypes DEF Arrive, SessionTypes, Known, Ids, Sids
    <3>2. PurchaseTypes'
      BY <2>1, <1>0, CallTypes
         DEF Arrive, PurchaseTypes, Known, PriceOf, SessionTypes, MoneyTypes, Ids, Sids
    <3>3. RequestTypes'
      BY <2>1, <1>0, CallTypes, EntryIsAPlace
         DEF Arrive, RequestTypes, Reply, Goto, Places, Statuses
    <3> QED
      BY <2>1, <1>0, <3>1, <3>2, <3>3, UnchangedTypes, TypePartsNext DEF Arrive
  <2>2. CASE Leave(r)
    <3>1. SessionTypes'
      BY <2>2, <1>0 DEF Leave, SessionTypes, NoteSession
    <3>2. RequestTypes'
      BY <2>2, <1>0 DEF Leave, RequestTypes, Reply, Goto, Places, Statuses
    <3> QED
      BY <2>2, <1>0, <3>1, <3>2, UnchangedTypes, TypePartsNext DEF Leave
  <2>3. CASE FindLogin(r)
    <3>1. PurchaseTypes'
      BY <2>3, <1>0 DEF FindLogin, PurchaseTypes, UserTypes
    <3>2. RequestTypes'
      BY <2>3, <1>0 DEF FindLogin, RequestTypes, Reply, Goto, Places, Statuses
    <3> QED
      BY <2>3, <1>0, <3>1, <3>2, UnchangedTypes, TypePartsNext DEF FindLogin
  <2>4. CASE SaveSession(r)
    <3>1. SessionTypes'
      BY <2>4, <1>0, PlacesKnown DEF SaveSession, SessionTypes, NoteSession, PurchaseTypes
    <3>2. RequestTypes'
      BY <2>4, <1>0 DEF SaveSession, RequestTypes, Reply, Goto, Places, Statuses
    <3> QED
      BY <2>4, <1>0, <3>1, <3>2, UnchangedTypes, TypePartsNext DEF SaveSession
  <2>5. CASE Register(r)
    <3>1. UserTypes'
      BY <2>5, <1>0, CallTypes DEF Register, UserTypes, Ids
    <3>2. PurchaseTypes'
      BY <2>5, <1>0 DEF Register, PurchaseTypes, Ids
    <3>3. RequestTypes'
      BY <2>5, <1>0 DEF Register, RequestTypes, Reply, Goto, Places, Statuses
    <3> QED
      BY <2>5, <1>0, <3>1, <3>2, <3>3, UnchangedTypes, TypePartsNext DEF Register
  <2>6. CASE Logout(r)
    <3>1. SessionTypes'
      BY <2>6, <1>0 DEF Logout, SessionTypes, NoteSession
    <3>2. RequestTypes'
      BY <2>6, <1>0 DEF Logout, RequestTypes, Reply, Goto, Places, Statuses
    <3> QED
      BY <2>6, <1>0, <3>1, <3>2, UnchangedTypes, TypePartsNext DEF Logout
  <2>7. CASE SendPassword(r)
    <3>1. PoolTypes'
      BY <2>7, <1>0 DEF SendPassword, PoolTypes, TakeConnection
    <3>2. RequestTypes'
      BY <2>7, <1>0 DEF SendPassword, RequestTypes, Reply, Goto, Places, Statuses
    <3> QED
      BY <2>7, <1>0, <3>1, <3>2, UnchangedTypes, TypePartsNext DEF SendPassword
  <2>8. CASE SetPassword(r)
    <3>1. UserTypes'
      BY <2>8, <1>0, CallTypes DEF SetPassword, UserTypes
    <3>2. PoolTypes'
      BY <2>8, <1>0 DEF SetPassword, PoolTypes, Release
    <3>3. RequestTypes'
      BY <2>8, <1>0 DEF SetPassword, RequestTypes, Reply, Goto, Places, Statuses
    <3> QED
      BY <2>8, <1>0, <3>1, <3>2, <3>3, UnchangedTypes, TypePartsNext DEF SetPassword
  <2>9. CASE BeginDelete(r)
    <3>1. PoolTypes'
      BY <2>9, <1>0 DEF BeginDelete, PoolTypes, TakeConnection
    <3>2. RequestTypes'
      BY <2>9, <1>0 DEF BeginDelete, RequestTypes, Reply, Goto, Places, Statuses
    <3> QED
      BY <2>9, <1>0, <3>1, <3>2, UnchangedTypes, TypePartsNext DEF BeginDelete
  <2>10. CASE DeleteUser(r)
    <3>1. UserTypes'
      BY <2>10, <1>0 DEF DeleteUser, UserTypes
    <3>2. MoneyTypes'
      BY <2>10, <1>0 DEF DeleteUser, MoneyTypes, Cascade
    <3>3. PoolTypes'
      BY <2>10, <1>0 DEF DeleteUser, PoolTypes, Release
    <3>4. PurchaseTypes'
      BY <2>10, <1>0 DEF DeleteUser, PurchaseTypes, NotePrice, NoteGone, UserTypes
    <3>5. RequestTypes'
      BY <2>10, <1>0 DEF DeleteUser, RequestTypes, Reply, Goto, Places, Statuses
    <3> QED
      BY <2>10, <1>0, <3>1, <3>2, <3>3, <3>4, <3>5, UnchangedTypes, TypePartsNext DEF DeleteUser
  <2>11. CASE SetPersonal(r)
    <3>1. MoneyTypes'
      BY <2>11, <1>0, CallTypes, PlacesKnown DEF SetPersonal, MoneyTypes, Query
    <3>2. PurchaseTypes'
      BY <2>11, <1>0, CallTypes, PlacesKnown DEF SetPersonal, PurchaseTypes, NotePrice, Query
    <3>3. RequestTypes'
      BY <2>11, <1>0 DEF SetPersonal, RequestTypes, Reply, Goto, Places, Statuses
    <3> QED
      BY <2>11, <1>0, <3>1, <3>2, <3>3, UnchangedTypes, TypePartsNext DEF SetPersonal
  <2>12. CASE DeletePersonal(r)
    <3>1. MoneyTypes'
      BY <2>12, <1>0 DEF DeletePersonal, MoneyTypes
    <3>2. PurchaseTypes'
      BY <2>12, <1>0 DEF DeletePersonal, PurchaseTypes, NotePrice
    <3>3. RequestTypes'
      BY <2>12, <1>0 DEF DeletePersonal, RequestTypes, Reply, Goto, Places, Statuses
    <3> QED
      BY <2>12, <1>0, <3>1, <3>2, <3>3, UnchangedTypes, TypePartsNext DEF DeletePersonal
  <2>13. CASE ReadPrice(r)
    <3>1. PurchaseTypes'
      BY <2>13, <1>0, PlacesKnown, CallTypes
         DEF ReadPrice, PurchaseTypes, PersonalOrBase, PriceOf, MoneyTypes, SessionTypes,
             Query
    <3>2. RequestTypes'
      BY <2>13, <1>0 DEF ReadPrice, RequestTypes, Reply, Goto, Places, Statuses
    <3> QED
      BY <2>13, <1>0, <3>1, <3>2, UnchangedTypes, TypePartsNext DEF ReadPrice
  <2>14. CASE Begin(r)
    <3>1. PoolTypes'
      BY <2>14, <1>0 DEF Begin, PoolTypes, TakeConnection
    <3>2. RequestTypes'
      BY <2>14, <1>0 DEF Begin, RequestTypes, Reply, Goto, Places, Statuses
    <3> QED
      BY <2>14, <1>0, <3>1, <3>2, UnchangedTypes, TypePartsNext DEF Begin
  <2>15. CASE ReadBalance(r)
    <3>1. PoolTypes'
      BY <2>15, <1>0 DEF ReadBalance, PoolTypes, Release
    <3>2. RequestTypes'
      BY <2>15, <1>0 DEF ReadBalance, RequestTypes, Reply, Goto, Places, Statuses
    <3> QED
      BY <2>15, <1>0, <3>1, <3>2, UnchangedTypes, TypePartsNext DEF ReadBalance
  <2>16. CASE Debit(r)
    <3>1. PoolTypes'
      BY <2>16, <1>0 DEF Debit, PoolTypes, Release
    <3>2. RequestTypes'
      BY <2>16, <1>0 DEF Debit, RequestTypes, Reply, Goto, Places, Statuses
    <3> QED
      BY <2>16, <1>0, <3>1, <3>2, UnchangedTypes, TypePartsNext DEF Debit
  <2>17. CASE Commit(r)
    <3>1. MoneyTypes'
      BY <2>17, <1>0, CostIsNatural, PlacesKnown DEF Commit, MoneyTypes, SessionTypes
    <3>2. PoolTypes'
      BY <2>17, <1>0 DEF Commit, PoolTypes, Release
    <3>3. RequestTypes'
      BY <2>17, <1>0 DEF Commit, RequestTypes, Reply, Goto, Places, Statuses
    <3> QED
      BY <2>17, <1>0, <3>1, <3>2, <3>3, UnchangedTypes, TypePartsNext DEF Commit
  <2>18. CASE Expire(r)
    <3>1. PoolTypes'
      BY <2>18, <1>0 DEF Expire, PoolTypes
    <3> QED
      BY <2>18, <1>0, <3>1, UnchangedTypes, TypePartsNext DEF Expire
  <2>19. CASE CompleteBatch(r)
    <3>1. ReportTypes'
      BY <2>19, <1>0, CallTypes, PlacesKnown DEF CompleteBatch, ReportTypes, Query
    <3>2. RequestTypes'
      BY <2>19, <1>0 DEF CompleteBatch, RequestTypes, Reply, Goto, Places, Statuses
    <3> QED
      BY <2>19, <1>0, <3>1, <3>2, UnchangedTypes, TypePartsNext DEF CompleteBatch
  <2>20. CASE ReadFile(r)
    <3>1. ReportTypes'
      BY <2>20, <1>0, CallTypes, PlacesKnown DEF ReadFile, Serve, ReportTypes, Contents
    <3>2. RequestTypes'
      BY <2>20, <1>0 DEF ReadFile, Serve, RequestTypes, Reply, Goto, Places, Statuses
    <3> QED
      BY <2>20, <1>0, <3>1, <3>2, UnchangedTypes, TypePartsNext DEF ReadFile
  <2>21. CASE ReadChildren(r)
    <3>1. ReportTypes'
      BY <2>21, <1>0 DEF ReadChildren, ReportTypes, Contents
    <3>2. RequestTypes'
      BY <2>21, <1>0 DEF ReadChildren, RequestTypes, Reply, Goto, Places, Statuses
    <3> QED
      BY <2>21, <1>0, <3>1, <3>2, UnchangedTypes, TypePartsNext DEF ReadChildren
  <2>22. CASE OpenFile(r)
    <3>1. ReportTypes'
      <4>1. call[r].doc \in Documents
        BY <2>22, CallTypes, PlacesKnown DEF OpenFile, IInv
      <4>2. disturbed' \in {disturbed \cup {call[r].doc}, disturbed \ {call[r].doc}}
        BY <2>22 DEF OpenFile
      <4> QED
        BY <2>22, <1>0, <4>1, <4>2 DEF OpenFile, ReportTypes
    <3>2. RequestTypes'
      BY <2>22, <1>0 DEF OpenFile, RequestTypes, Reply, Goto, Places, Statuses
    <3> QED
      BY <2>22, <1>0, <3>1, <3>2, UnchangedTypes, TypePartsNext DEF OpenFile
  <2>23. CASE WriteFile(r)
    <3>1. ReportTypes'
      <4>1. PICK file \in Overwritten(r, call[r].doc, draft[r]) :
              files' = [files EXCEPT ![call[r].doc] = file]
        BY <2>23 DEF WriteFile
      <4>2. file \in SUBSET Pieces
        BY <2>23, <1>0, <4>1, PiecesAreWritten DEF WriteFile, ReportTypes
      <4> QED
        BY <2>23, <1>0, <4>1, <4>2 DEF WriteFile, ReportTypes
    <3>2. RequestTypes'
      BY <2>23, <1>0 DEF WriteFile, RequestTypes, Reply, Goto, Places, Statuses
    <3> QED
      BY <2>23, <1>0, <3>1, <3>2, UnchangedTypes, TypePartsNext DEF WriteFile
  <2>24. CASE StatementThrows(r)
    <3>1. PoolTypes'
      BY <2>24, <1>0 DEF StatementThrows, PoolTypes, Release
    <3>2. RequestTypes'
      BY <2>24, <1>0 DEF StatementThrows, RequestTypes, Reply, Goto, Places, Statuses
    <3>3. FixedTypes'
      BY <2>24, <1>0 DEF StatementThrows, FixedTypes, Fault
    <3> QED
      BY <2>24, <1>0, <3>1, <3>2, <3>3, UnchangedTypes, TypePartsNext DEF StatementThrows
  <2>25. CASE WriteThrows(r)
    <3>1. ReportTypes'
      <4>1. PICK file \in {files[call[r].doc]} \cup Overwritten(r, call[r].doc, "part") :
              files' = [files EXCEPT ![call[r].doc] = file]
        BY <2>25 DEF WriteThrows
      <4>2. file \in SUBSET Pieces /\ call[r].doc \in Documents
        BY <2>25, <4>1, PiecesAreWritten DEF WriteThrows
      <4> QED
        BY <2>25, <1>0, <4>1, <4>2 DEF WriteThrows, ReportTypes
    <3>2. RequestTypes'
      BY <2>25, <1>0 DEF WriteThrows, RequestTypes, Reply, Goto, Places, Statuses
    <3>3. FixedTypes'
      BY <2>25, <1>0 DEF WriteThrows, FixedTypes, Fault
    <3> QED
      BY <2>25, <1>0, <3>1, <3>2, <3>3, UnchangedTypes, TypePartsNext DEF WriteThrows
  <2> QED
    BY <1>2, <2>1, <2>2, <2>3, <2>4, <2>5, <2>6, <2>7, <2>8, <2>9, <2>10, <2>11, <2>12, <2>13,
       <2>14, <2>15, <2>16, <2>17, <2>18, <2>19, <2>20, <2>21, <2>22, <2>23, <2>24, <2>25
       DEF Effect
<1>3. CASE Crash
  <2>1. ReportTypes'
    BY <1>0, <1>3, CrashCutsFiles DEF ReportTypes
  <2>2. PoolTypes'
    BY <1>3, <1>0 DEF Crash, PoolTypes
  <2>3. RequestTypes'
    BY <1>3, <1>0 DEF Crash, RequestTypes, Places
  <2>4. FixedTypes'
    BY <1>3, <1>0 DEF Crash, FixedTypes, Fault
  <2> QED
    BY <1>3, <1>0, <2>1, <2>2, <2>3, <2>4, UnchangedTypes, TypePartsNext DEF Crash
<1>4. CASE UNCHANGED vars
  BY <1>4, <1>0, UnchangedTypes, TypePartsNext
<1> QED
  BY <1>1, <1>2, <1>3, <1>4, NextCases

\* Every step leaves every request where its handler may be.
LEMMA PlacesStay ==
  ASSUME IInv, Next
  PROVE  PlaceInv'
<1>0. /\ TypeOK /\ TypeOK' /\ PlaceInv
      /\ pc \in [Requests -> Places] /\ status \in [Requests -> Statuses]
      /\ copy \in [Requests -> Ids \cup {None}] /\ account \in [Requests -> Ids \cup {None}]
      /\ files \in [Documents -> {None} \cup SUBSET Pieces] /\ exists \subseteq Ids
      /\ \A r \in Requests :
           call[r].op \in Ops /\ (pc[r] \in {"write", "again"} => call[r].doc \in Documents)
  <2>1. TypeOK /\ TypeOK' /\ PlaceInv
    BY TypesStay DEF IInv
  <2>2. \A r \in Requests :
          call[r].op \in Ops /\ (pc[r] \in {"write", "again"} => call[r].doc \in Documents)
    BY CallTypes, PlacesKnown DEF IInv
  <2> QED
    BY <2>1, <2>2 DEF TypeOK, Statuses
<1>1. ASSUME NEW r \in Requests, Decision(r) PROVE PlaceInv'
  BY <1>0, <1>1, DecisionsAreMoves, DecisionsStayInTheHandler
     DEF PlaceInv, InPlace, Guarded, Outside
<1>2. ASSUME NEW r \in Requests, Effect(r) PROVE PlaceInv'
  <2>0. /\ call' = call
        /\ \A q \in Requests : q # r =>
             pc'[q] = pc[q] /\ copy'[q] = copy[q] /\ account'[q] = account[q]
        /\ \A d \in Documents : files[d] # None => files'[d] # None
    <3>1. \A d \in Documents : files[d] # None => files'[d] # None
      <4>1. CASE OpenFile(r)
        BY <4>1, <1>0 DEF OpenFile
      <4>2. CASE WriteFile(r)
        BY <4>2, <1>0, PiecesAreWritten DEF WriteFile, TypeOK
      <4>3. CASE WriteThrows(r)
        BY <4>3, <1>0, PiecesAreWritten DEF WriteThrows
      <4>4. CASE UNCHANGED files
        BY <4>4
      <4> QED
        BY <1>2, <4>1, <4>2, <4>3, <4>4
           DEF Effect, Arrive, Leave, FindLogin, SaveSession, Register, Logout, SendPassword,
               SetPassword, BeginDelete, DeleteUser, SetPersonal, DeletePersonal, ReadPrice,
               Begin, ReadBalance, Debit, Commit, Expire, CompleteBatch, ReadFile,
               ReadChildren, StatementThrows
    <3>2. call' = call
      BY <1>2
         DEF Effect, Arrive, Leave, FindLogin, SaveSession, Register, Logout, SendPassword,
             SetPassword, BeginDelete, DeleteUser, SetPersonal, DeletePersonal, ReadPrice,
             Begin, ReadBalance, Debit, Commit, Expire, CompleteBatch, ReadFile, ReadChildren,
             OpenFile, WriteFile, StatementThrows, WriteThrows
    <3> QED
      BY <1>0, <1>2, <3>1, <3>2, EffectsAreLocal
  <2>A. ASSUME NEW q \in Requests \ {r} PROVE InPlace(q)'
    BY <1>0, <2>0 DEF PlaceInv, InPlace, Guarded
  <2>B. SUFFICES InPlace(r)'
    BY <2>A DEF PlaceInv
  <2>1. CASE Arrive(r)
    <3>1. pc'[r] = IF Guarded(r) THEN "guard" ELSE Entry(call[r].op)
      BY <2>1, <1>0 DEF Arrive, Goto
    <3> QED
      BY <3>1, <1>0, <2>0, EntryIsAPlace DEF InPlace, Outside, Guarded
  <2>2. CASE Leave(r)
    BY <2>2, <1>0
       DEF Leave, PlaceInv, InPlace, PlacesOf, Outside, Guarded, Goto, Reply, Ops, AdminOps,
           OpenOps, UserOps, WorkerOps
  <2>3. CASE FindLogin(r)
    BY <2>3, <1>0
       DEF FindLogin, PlaceInv, InPlace, PlacesOf, Outside, Guarded, Goto, Reply, Ops,
           AdminOps, OpenOps, UserOps, WorkerOps, Query, Ids, Sids
  <2>4. CASE SaveSession(r)
    BY <2>4, <1>0
       DEF SaveSession, PlaceInv, InPlace, PlacesOf, Outside, Guarded, Goto, Reply, Ops,
           AdminOps, OpenOps, UserOps, WorkerOps
  <2>5. CASE Register(r)
    BY <2>5, <1>0
       DEF Register, PlaceInv, InPlace, PlacesOf, Outside, Guarded, Goto, Reply, Ops,
           AdminOps, OpenOps, UserOps, WorkerOps, Query, Ids
  <2>6. CASE Logout(r)
    BY <2>6, <1>0
       DEF Logout, PlaceInv, InPlace, PlacesOf, Outside, Guarded, Goto, Reply, Ops, AdminOps,
           OpenOps, UserOps, WorkerOps
  <2>7. CASE SendPassword(r)
    BY <2>7, <1>0
       DEF SendPassword, PlaceInv, InPlace, PlacesOf, Outside, Guarded, Goto, Reply, Ops,
           AdminOps, OpenOps, UserOps, WorkerOps
  <2>8. CASE SetPassword(r)
    BY <2>8, <1>0
       DEF SetPassword, PlaceInv, InPlace, PlacesOf, Outside, Guarded, Goto, Reply, Ops,
           AdminOps, OpenOps, UserOps, WorkerOps
  <2>9. CASE BeginDelete(r)
    BY <2>9, <1>0
       DEF BeginDelete, PlaceInv, InPlace, PlacesOf, Outside, Guarded, Goto, Reply, Ops,
           AdminOps, OpenOps, UserOps, WorkerOps
  <2>10. CASE DeleteUser(r)
    BY <2>10, <1>0
       DEF DeleteUser, PlaceInv, InPlace, PlacesOf, Outside, Guarded, Goto, Reply, Ops,
           AdminOps, OpenOps, UserOps, WorkerOps
  <2>11. CASE SetPersonal(r)
    BY <2>11, <1>0
       DEF SetPersonal, PlaceInv, InPlace, PlacesOf, Outside, Guarded, Goto, Reply, Ops,
           AdminOps, OpenOps, UserOps, WorkerOps, Query
  <2>12. CASE DeletePersonal(r)
    BY <2>12, <1>0
       DEF DeletePersonal, PlaceInv, InPlace, PlacesOf, Outside, Guarded, Goto, Reply, Ops,
           AdminOps, OpenOps, UserOps, WorkerOps, Query
  <2>13. CASE ReadPrice(r)
    BY <2>13, <1>0
       DEF ReadPrice, PlaceInv, InPlace, PlacesOf, Outside, Guarded, Goto, Reply, Ops,
           AdminOps, OpenOps, UserOps, WorkerOps, Query
  <2>14. CASE Begin(r)
    BY <2>14, <1>0
       DEF Begin, PlaceInv, InPlace, PlacesOf, Outside, Guarded, Goto, Reply, Ops, AdminOps,
           OpenOps, UserOps, WorkerOps
  <2>15. CASE ReadBalance(r)
    BY <2>15, <1>0
       DEF ReadBalance, PlaceInv, InPlace, PlacesOf, Outside, Guarded, Goto, Reply, Ops,
           AdminOps, OpenOps, UserOps, WorkerOps
  <2>16. CASE Debit(r)
    BY <2>16, <1>0
       DEF Debit, PlaceInv, InPlace, PlacesOf, Outside, Guarded, Goto, Reply, Ops, AdminOps,
           OpenOps, UserOps, WorkerOps
  <2>17. CASE Commit(r)
    BY <2>17, <1>0
       DEF Commit, PlaceInv, InPlace, PlacesOf, Outside, Guarded, Goto, Reply, Ops, AdminOps,
           OpenOps, UserOps, WorkerOps
  <2>18. CASE Expire(r)
    BY <2>18, <1>0
       DEF Expire, PlaceInv, InPlace, PlacesOf, Outside, Guarded, Goto, Reply, Ops, AdminOps,
           OpenOps, UserOps, WorkerOps
  <2>19. CASE CompleteBatch(r)
    BY <2>19, <1>0
       DEF CompleteBatch, PlaceInv, InPlace, PlacesOf, Outside, Guarded, Goto, Reply, Ops,
           AdminOps, OpenOps, UserOps, WorkerOps, Query
  <2>20. CASE ReadFile(r)
    BY <2>20, <1>0
       DEF ReadFile, Serve, PlaceInv, InPlace, PlacesOf, Outside, Guarded, Goto, Reply, Ops,
           AdminOps, OpenOps, UserOps, WorkerOps
  <2>21. CASE ReadChildren(r)
    BY <2>21, <1>0
       DEF ReadChildren, PlaceInv, InPlace, PlacesOf, Outside, Guarded, Goto, Reply, Ops,
           AdminOps, OpenOps, UserOps, WorkerOps, Query
  <2>22. CASE OpenFile(r)
    <3>1. call[r].doc \in Documents
      BY <2>22, <1>0, CallTypes, PlacesKnown DEF OpenFile
    <3>2. files'[call[r].doc] # None
      BY <2>22, <1>0, <3>1 DEF OpenFile, Contents
    <3> QED
      BY <2>22, <1>0, <2>0, <3>2
         DEF OpenFile, PlaceInv, InPlace, PlacesOf, Outside, Guarded, Goto, Ops, AdminOps,
             OpenOps, UserOps, WorkerOps
  <2>23. CASE WriteFile(r)
    <3>1. files'[call[r].doc] # None
      BY <2>23, <1>0, <2>0, PlacesKnown DEF WriteFile, IInv
    <3> QED
      BY <2>23, <1>0, <2>0, <3>1
         DEF WriteFile, PlaceInv, InPlace, PlacesOf, Outside, Guarded, Goto, Reply, Ops,
             AdminOps, OpenOps, UserOps, WorkerOps
  <2>24. CASE StatementThrows(r)
    BY <2>24, <1>0
       DEF StatementThrows, PlaceInv, InPlace, PlacesOf, Outside, Guarded, Goto, Reply, Ops,
           AdminOps, OpenOps, UserOps, WorkerOps
  <2>25. CASE WriteThrows(r)
    BY <2>25, <1>0
       DEF WriteThrows, PlaceInv, InPlace, PlacesOf, Outside, Guarded, Goto, Reply, Ops,
           AdminOps, OpenOps, UserOps, WorkerOps
  <2> QED
    BY <1>2, <2>1, <2>2, <2>3, <2>4, <2>5, <2>6, <2>7, <2>8, <2>9, <2>10, <2>11, <2>12, <2>13,
       <2>14, <2>15, <2>16, <2>17, <2>18, <2>19, <2>20, <2>21, <2>22, <2>23, <2>24, <2>25
       DEF Effect
<1>3. CASE Crash
  BY <1>0, <1>3 DEF Crash, PlaceInv, InPlace, Outside, Guarded, Handling
<1>4. CASE UNCHANGED vars
  BY <1>0, <1>4 DEF PlaceInv, InPlace, Guarded
<1> QED
  BY <1>1, <1>2, <1>3, <1>4, NextCases

\* The initial states have the types, and every request is at its start.
LEMMA InitIsTyped ==
  ASSUME Init
  PROVE  IInv
<1>1. UserTypes /\ MoneyTypes
  BY DEF Init, UserTypes, MoneyTypes, Ids
<1>2. ReportTypes /\ PoolTypes
  BY DEF Init, ReportTypes, PoolTypes, Contents
<1>3. SessionTypes
  BY DEF Init, SessionTypes, Ids, Sids
<1>4. PurchaseTypes /\ RequestTypes
  BY DEF Init, PurchaseTypes, RequestTypes, Places, Statuses
<1>5. FixedTypes
  BY CallsAreCalls DEF Init, FixedTypes
<1>6. PlaceInv
  BY DEF Init, PlaceInv, InPlace, Outside
<1> QED
  BY <1>1, <1>2, <1>3, <1>4, <1>5, <1>6, TypeParts DEF IInv

\* Types and places are as IInv says in every state.
LEMMA Typed == Spec => []IInv
<1>1. IInv /\ [Next]_vars => IInv'
  <2>1. CASE Next
    BY <2>1, TypesStay, PlacesStay DEF IInv
  <2>2. CASE UNCHANGED vars
    <3>1. PlaceInv => PlaceInv'
      BY <2>2 DEF PlaceInv, InPlace, Guarded
    <3> QED
      BY <2>2, <3>1, UnchangedTypes, TypePartsNext DEF IInv
  <2> QED
    BY <2>1, <2>2
<1> QED
  BY <1>1, InitIsTyped, PTL DEF Spec

\* The variables keep their types: in particular no purchase is debited at a price that is
\* no price, and no request gets to a place its handler does not have.
THEOREM TypeCorrect == Spec => []TypeOK
BY Typed, PTL DEF IInv

-----------------------------------------------------------------------------
(* Connections, transactions and row locks.                                *)

Holds(r) == tx[r] = "open" \/ pc[r] \in {"update", "cascade"}

\* What r holds: a connection while it has a transaction or a statement that waits, the
\* lock of its user's row, who exists, between its UPDATE and its commit.
HoldsInOrder(r) ==
  /\ r \in busy <=> Holds(r)
  /\ tx[r] = "open" => pc[r] \in {"price"} \cup CallbackPlaces
  /\ tx[r] = "open" /\ pc[r] = "price" => call[r].op = "buy"
  /\ tx[r] = "open" /\ pc[r] = "commit" => holder[copy[r]] = r /\ copy[r] \in exists
  /\ \A u \in Ids : holder[u] = r =>
       pc[r] = "commit" /\ tx[r] = "open" /\ copy[r] = u

PoolInv ==
  /\ Cardinality(busy) <= PoolSize
  /\ \A r \in Requests : HoldsInOrder(r)

\* A request takes and gives back for itself only.
LEMMA PoolIsLocal ==
  ASSUME TypeOK, NEW r \in Requests, Effect(r), NEW q \in Requests \ {r}
  PROVE  /\ tx'[q] = tx[q] /\ (q \in busy' <=> q \in busy)
         /\ \A u \in Ids : holder'[u] = q <=> holder[u] = q
<1>1. /\ tx \in [Requests -> {"none", "open", "closed"}]
      /\ holder \in [Ids -> Requests \cup {None}] /\ None \notin Requests
  BY DEF TypeOK, Ids
<1> USE <1>1
<1>2. CASE SendPassword(r)
  BY <1>2 DEF SendPassword, TakeConnection
<1>3. CASE SetPassword(r)
  BY <1>3 DEF SetPassword, Release
<1>4. CASE BeginDelete(r)
  BY <1>4 DEF BeginDelete, TakeConnection
<1>5. CASE DeleteUser(r)
  BY <1>5 DEF DeleteUser, Release
<1>6. CASE Begin(r)
  BY <1>6 DEF Begin, TakeConnection
<1>7. CASE ReadBalance(r)
  BY <1>7 DEF ReadBalance, Release
<1>8. CASE Debit(r)
  BY <1>8 DEF Debit, Release
<1>9. CASE Commit(r)
  BY <1>9 DEF Commit, Release
<1>10. CASE Expire(r)
  BY <1>10 DEF Expire
<1>11. CASE StatementThrows(r)
  BY <1>11 DEF StatementThrows, Release
<1>12. CASE UNCHANGED poolVars
  BY <1>12
<1> QED
  BY <1>2, <1>3, <1>4, <1>5, <1>6, <1>7, <1>8, <1>9, <1>10, <1>11, <1>12
     DEF Effect, Arrive, Leave, FindLogin, SaveSession, Register, Logout, SetPersonal,
         DeletePersonal, ReadPrice, CompleteBatch, ReadFile, ReadChildren, OpenFile,
         WriteFile, WriteThrows

\* No step takes a connection that the pool does not have.
LEMMA PoolIsBounded ==
  ASSUME TypeOK, PoolInv, Next
  PROVE  Cardinality(busy') <= PoolSize
<1>1. IsFiniteSet(busy) /\ Cardinality(busy) <= PoolSize /\ Cardinality(busy) \in Nat
  BY RequestsAreFinite, FS_Subset, FS_CardinalityType DEF TypeOK, PoolInv
<1>2. ASSUME NEW r \in Requests, TakeConnection(r) PROVE Cardinality(busy') <= PoolSize
  <2>1. Cardinality(busy \cup {r}) \in {Cardinality(busy), Cardinality(busy) + 1}
    BY <1>1, FS_AddElement
  <2> QED
    BY <1>1, <1>2, <2>1 DEF TakeConnection, Free
<1>3. CASE busy' \subseteq busy
  <2>1. Cardinality(busy') <= Cardinality(busy) /\ Cardinality(busy') \in Nat
    BY <1>1, <1>3, FS_Subset, FS_CardinalityType
  <2> QED
    BY <1>1, <2>1
<1>4. busy' \subseteq busy \/ \E r \in Requests : TakeConnection(r)
  <2>1. ASSUME NEW r \in Requests, Decision(r) PROVE busy' \subseteq busy
    BY <2>1
       DEF Decision, Unauthorized, Authenticate, FindTaken, Me, VerifyPassword, FindTarget,
           EnsureUser, BeginTimesOut, TransactionClosed, QueueBatch, Reload, Load, ReadAgain
  <2>2. ASSUME NEW r \in Requests, Effect(r) PROVE busy' \subseteq busy \/ TakeConnection(r)
    <3>1. CASE SetPassword(r) \/ DeleteUser(r) \/ Commit(r) \/ StatementThrows(r)
      BY <3>1 DEF SetPassword, DeleteUser, Commit, StatementThrows, Release
    <3>2. CASE ReadBalance(r) \/ Debit(r) \/ Expire(r)
      BY <3>2 DEF ReadBalance, Debit, Expire, Release
    <3>3. CASE SendPassword(r) \/ BeginDelete(r) \/ Begin(r)
      BY <3>3 DEF SendPassword, BeginDelete, Begin
    <3>4. CASE UNCHANGED poolVars
      BY <3>4
    <3> QED
      BY <2>2, <3>1, <3>2, <3>3, <3>4
         DEF Effect, Arrive, Leave, FindLogin, SaveSession, Register, Logout, SetPersonal,
             DeletePersonal, ReadPrice, CompleteBatch, ReadFile, ReadChildren, OpenFile,
             WriteFile, WriteThrows
  <2>3. CASE Crash
    BY <2>3 DEF Crash
  <2> QED
    BY <2>1, <2>2, <2>3, NextCases
<1> QED
  BY <1>2, <1>3, <1>4

\* After every step a request holds what its place allows and nothing else.
LEMMA HoldsStayInOrder ==
  ASSUME IInv, PoolInv, Next
  PROVE  \A q \in Requests : HoldsInOrder(q)'
<1>0. /\ tx \in [Requests -> {"none", "open", "closed"}] /\ busy \subseteq Requests
      /\ holder \in [Ids -> Requests \cup {None}] /\ None \notin Requests
      /\ pc \in [Requests -> Places] /\ copy \in [Requests -> Ids \cup {None}]
      /\ exists \subseteq Ids /\ None \notin Ids
      /\ \A q \in Requests : HoldsInOrder(q)
  BY DEF IInv, TypeOK, PoolInv, Ids
<1> USE DEF HoldsInOrder, Holds, CallbackPlaces
<1>1. ASSUME NEW r \in Requests, Decision(r) PROVE \A q \in Requests : HoldsInOrder(q)'
  <2>1. /\ tx[r] # "open" /\ pc[r] \notin {"update", "cascade"}
        /\ pc'[r] \notin {"update", "cascade"}
    <3> USE <1>0 DEF Goto, Reply, Query
    <3>1. CASE Unauthorized(r)
      BY <3>1 DEF Unauthorized
    <3>2. CASE Authenticate(r)
      BY <3>2, EntryIsNoWait, CallTypes DEF Authenticate, IInv
    <3>3. CASE FindTaken(r)
      BY <3>3 DEF FindTaken
    <3>4. CASE Me(r)
      BY <3>4 DEF Me
    <3>5. CASE VerifyPassword(r)
      BY <3>5 DEF VerifyPassword
    <3>6. CASE FindTarget(r)
      BY <3>6 DEF FindTarget
    <3>7. CASE EnsureUser(r)
      BY <3>7 DEF EnsureUser
    <3>8. CASE BeginTimesOut(r)
      BY <3>8 DEF BeginTimesOut
    <3>9. CASE TransactionClosed(r)
      BY <3>9 DEF TransactionClosed
    <3>10. CASE QueueBatch(r)
      BY <3>10 DEF QueueBatch
    <3>11. CASE Reload(r)
      BY <3>11 DEF Reload
    <3>12. CASE Load(r)
      BY <3>12 DEF Load
    <3>13. CASE ReadAgain(r)
      BY <3>13 DEF ReadAgain, Serve
    <3> QED
      BY <1>1, <3>1, <3>2, <3>3, <3>4, <3>5, <3>6, <3>7, <3>8, <3>9, <3>10, <3>11, <3>12,
         <3>13
         DEF Decision
  <2>2. /\ UNCHANGED <<tx, busy, holder, copy, exists, call>>
        /\ pc' = [pc EXCEPT ![r] = pc'[r]]
    BY <1>1, DecisionsAreMoves
  <2>3. ASSUME NEW q \in Requests, q # r PROVE HoldsInOrder(q)'
    BY <1>0, <2>2, <2>3
  <2>4. HoldsInOrder(r)'
    BY <1>0, <2>1, <2>2
  <2> QED
    BY <2>3, <2>4
<1>2. ASSUME NEW r \in Requests, Effect(r) PROVE \A q \in Requests : HoldsInOrder(q)'
  <2>1. ASSUME NEW q \in Requests \ {r} PROVE HoldsInOrder(q)'
    <3>1. /\ pc'[q] = pc[q] /\ copy'[q] = copy[q] /\ call'[q] = call[q] /\ tx'[q] = tx[q]
          /\ (q \in busy' <=> q \in busy)
          /\ \A u \in Ids : holder'[u] = q <=> holder[u] = q
      BY <1>2, PoolIsLocal, EffectsAreLocal DEF IInv
    <3>2. \A u \in exists : holder[u] = q => u \in exists'
      <4>1. CASE DeleteUser(r)
        BY <1>0, <4>1 DEF DeleteUser
      <4>2. CASE Register(r)
        BY <4>2 DEF Register
      <4>3. CASE UNCHANGED exists
        BY <4>3
      <4> QED
        BY <1>2, <4>1, <4>2, <4>3
           DEF Effect, Arrive, Leave, FindLogin, SaveSession, Logout, SendPassword, SetPassword,
               BeginDelete, SetPersonal, DeletePersonal, ReadPrice, Begin, ReadBalance, Debit,
               Commit, Expire, CompleteBatch, ReadFile, ReadChildren, OpenFile, WriteFile,
               StatementThrows, WriteThrows
    <3> QED
      BY <1>0, <3>1, <3>2
  <2>2. HoldsInOrder(r)'
    <3>0. call' = call
      BY <1>2
         DEF Effect, Arrive, Leave, FindLogin, SaveSession, Register, Logout, SendPassword,
             SetPassword, BeginDelete, DeleteUser, SetPersonal, DeletePersonal, ReadPrice,
             Begin, ReadBalance, Debit, Commit, Expire, CompleteBatch, ReadFile, ReadChildren,
             OpenFile, WriteFile, StatementThrows, WriteThrows
    <3>1. CASE Arrive(r)
      BY <1>0, <3>0, <3>1, EntryIsNoWait, CallTypes DEF Arrive, Goto, Reply, IInv
    <3>2. CASE Leave(r)
      BY <1>0, <3>0, <3>2 DEF Leave, Goto, Reply
    <3>3. CASE FindLogin(r)
      BY <1>0, <3>0, <3>3 DEF FindLogin, Goto, Reply, Query
    <3>4. CASE SaveSession(r)
      BY <1>0, <3>0, <3>4 DEF SaveSession, Goto, Reply
    <3>5. CASE Register(r)
      BY <1>0, <3>0, <3>5 DEF Register, Goto, Reply, Query
    <3>6. CASE Logout(r)
      BY <1>0, <3>0, <3>6 DEF Logout, Goto, Reply
    <3>7. CASE SendPassword(r)
      BY <1>0, <3>0, <3>7 DEF SendPassword, Goto, Reply, TakeConnection
    <3>8. CASE SetPassword(r)
      BY <1>0, <3>0, <3>8 DEF SetPassword, Goto, Reply, Release
    <3>9. CASE BeginDelete(r)
      BY <1>0, <3>0, <3>9 DEF BeginDelete, Goto, Reply, TakeConnection
    <3>10. CASE DeleteUser(r)
      BY <1>0, <3>0, <3>10 DEF DeleteUser, Goto, Reply, Release
    <3>11. CASE SetPersonal(r)
      BY <1>0, <3>0, <3>11 DEF SetPersonal, Goto, Reply, Query
    <3>12. CASE DeletePersonal(r)
      BY <1>0, <3>0, <3>12 DEF DeletePersonal, Goto, Reply, Query
    <3>13. CASE ReadPrice(r)
      BY <1>0, <3>0, <3>13 DEF ReadPrice, Goto, Reply, Query
    <3>14. CASE Begin(r)
      BY <1>0, <3>0, <3>14 DEF Begin, Goto, Reply, TakeConnection
    <3>15. CASE ReadBalance(r)
      BY <1>0, <3>0, <3>15 DEF ReadBalance, Goto, Reply, Release
    <3>16. CASE Debit(r)
      BY <1>0, <3>0, <3>16 DEF Debit, Goto, Reply, Release
    <3>17. CASE Commit(r)
      BY <1>0, <3>0, <3>17 DEF Commit, Goto, Reply, Release
    <3>18. CASE Expire(r)
      BY <1>0, <3>0, <3>18 DEF Expire, Goto, Reply
    <3>19. CASE CompleteBatch(r)
      BY <1>0, <3>0, <3>19 DEF CompleteBatch, Goto, Reply, Query
    <3>20. CASE ReadFile(r)
      BY <1>0, <3>0, <3>20 DEF ReadFile, Serve, Goto, Reply
    <3>21. CASE ReadChildren(r)
      BY <1>0, <3>0, <3>21 DEF ReadChildren, Goto, Reply, Query
    <3>22. CASE OpenFile(r)
      BY <1>0, <3>0, <3>22 DEF OpenFile, Goto, Reply
    <3>23. CASE WriteFile(r)
      BY <1>0, <3>0, <3>23 DEF WriteFile, Goto, Reply
    <3>24. CASE StatementThrows(r)
      BY <1>0, <3>0, <3>24 DEF StatementThrows, Goto, Reply, Release
    <3>25. CASE WriteThrows(r)
      BY <1>0, <3>0, <3>25 DEF WriteThrows, Goto, Reply
    <3> QED
      BY <1>2, <3>1, <3>2, <3>3, <3>4, <3>5, <3>6, <3>7, <3>8, <3>9, <3>10, <3>11, <3>12,
         <3>13, <3>14, <3>15, <3>16, <3>17, <3>18, <3>19, <3>20, <3>21, <3>22, <3>23, <3>24,
         <3>25
         DEF Effect
  <2> QED
    BY <2>1, <2>2
<1>3. CASE Crash
  BY <1>0, <1>3 DEF Crash, Handling
<1>4. CASE UNCHANGED vars
  BY <1>0, <1>4
<1> QED
  BY <1>1, <1>2, <1>3, <1>4, NextCases

\* Connections and locks are held as PoolInv says in every state.
LEMMA Pooled == Spec => []PoolInv
<1>1. Init => PoolInv
  <2>1. Cardinality({}) = 0
    BY FS_EmptySet
  <2> QED
    BY <2>1 DEF Init, PoolInv, HoldsInOrder, Holds, Ids
<1>2. IInv /\ PoolInv /\ [Next]_vars => PoolInv'
  <2>1. CASE IInv /\ PoolInv /\ Next
    BY <2>1, PoolIsBounded, HoldsStayInOrder DEF IInv, PoolInv
  <2>2. CASE PoolInv /\ UNCHANGED vars
    BY <2>2 DEF PoolInv, HoldsInOrder, Holds
  <2> QED
    BY <2>1, <2>2
<1> QED
  BY <1>1, <1>2, Typed, PTL DEF Spec

\* Connections and locks are never lost, whatever times out, fails or dies: every one of
\* them belongs to a request that is about to use it.
THEOREM NothingLeaks == Spec => []EverythingIsGivenBack
<1>1. IInv /\ PoolInv => EverythingIsGivenBack
  <2> SUFFICES ASSUME IInv, PoolInv PROVE EverythingIsGivenBack
    OBVIOUS
  <2>1. busy \subseteq Requests /\ holder \in [Ids -> Requests \cup {None}]
    BY DEF IInv, TypeOK
  <2> QED
    BY <2>1 DEF PoolInv, HoldsInOrder, Holds, EverythingIsGivenBack
<1> QED
  BY <1>1, Typed, Pooled, PTL

-----------------------------------------------------------------------------
(* Accounts and their money.                                               *)

Registers(r) ==
  /\ pc[r] = "create" /\ pc'[r] = "session" /\ ~EmailTaken(r)
  /\ exists' = exists \cup {r} /\ email' = [email EXCEPT ![r] = call[r].email]
  /\ UNCHANGED <<balance, spent, personal>>

Deletes(u) ==
  /\ u \in exists /\ exists' = exists \ {u} /\ Cascade(u)
  /\ UNCHANGED <<email, balance>>

SetsPrice(u) ==
  /\ \/ u \in exists /\ \E p \in Prices : personal' = [personal EXCEPT ![u] = p]
     \/ personal' = [personal EXCEPT ![u] = None]
  /\ UNCHANGED <<exists, email, balance, spent>>

Buys(r) ==
  /\ copy[r] \in exists
  /\ balance' = [balance EXCEPT ![copy[r]] = @ - Cost(r)]
  /\ spent' = [spent EXCEPT ![copy[r]] = @ + Cost(r)]
  /\ UNCHANGED <<exists, email, personal>>

\* Nothing else happens to the accounts.
LEMMA AccountMoves ==
  ASSUME IInv, PoolInv, Next
  PROVE  \/ UNCHANGED <<exists, email, balance, spent, personal>>
         \/ \E r \in Requests : Registers(r) \/ Buys(r)
         \/ \E u \in Accounts \cup {None} : Deletes(u) \/ SetsPrice(u)
<1>1. ASSUME NEW r \in Requests, Effect(r)
      PROVE  \/ UNCHANGED <<exists, email, balance, spent, personal>>
             \/ Registers(r) \/ Buys(r) \/ Deletes(call[r].target) \/ SetsPrice(call[r].target)
  <2>1. CASE Register(r)
    BY <2>1 DEF IInv, TypeOK, Register, Registers, Query, Goto
  <2>2. CASE DeleteUser(r)
    BY <2>2 DEF DeleteUser, Deletes
  <2>3. CASE SetPersonal(r) \/ DeletePersonal(r)
    <3>1. pc[r] = "upsert" => call[r].price \in Prices
      BY CallTypes, PlacesKnown DEF IInv
    <3> QED
      BY <2>3, <3>1 DEF SetPersonal, DeletePersonal, SetsPrice, Query
  <2>4. CASE Commit(r)
    BY <2>4 DEF Commit, Buys, PoolInv, HoldsInOrder
  <2>5. CASE UNCHANGED <<userVars, balance, spent, personal>>
    BY <2>5
  <2>6. CASE UNCHANGED <<exists, email, balance, spent, personal>>
    BY <2>6
  <2> QED
    BY <1>1, <2>1, <2>2, <2>3, <2>4, <2>6
       DEF Effect, Arrive, Leave, FindLogin, SaveSession, Logout, SendPassword, SetPassword,
           BeginDelete, ReadPrice, Begin, ReadBalance, Debit, Expire, CompleteBatch, ReadFile,
           ReadChildren, OpenFile, WriteFile, StatementThrows, WriteThrows
<1>2. ASSUME NEW r \in Requests PROVE call[r].target \in Accounts \cup {None}
  BY CallTypes DEF IInv
<1>3. CASE \E r \in Requests : Decision(r)
  BY <1>3, DecisionsAreMoves
<1>4. CASE Crash \/ UNCHANGED vars
  BY <1>4 DEF Crash
<1> QED
  BY <1>1, <1>2, <1>3, <1>4, NextCases

\* The last that a request does is to store its session and to end the response.
Ending == {"session", "leave", "answered"}

\* A request makes its account at its end, and nobody pays from it before.
FreshInv ==
  /\ \A r \in Requests \cap exists : pc[r] \in Ending
  /\ \A r \in Requests \ exists : balance[r] = 0

MoneyInv == PaidIsStored /\ NothingIsLeftBehind /\ FreshInv

\* A request that is ending goes nowhere but to its answer.
LEMMA EndsStay ==
  ASSUME IInv, Next, NEW r \in Requests, pc[r] \in Ending
  PROVE  pc'[r] \in Ending
<1> USE DEF Ending
<1>0. pc \in [Requests -> Places]
  BY DEF IInv, TypeOK
<1>1. ASSUME NEW q \in Requests, Decision(q) PROVE pc'[r] \in Ending
  <2>1. pc[q] \notin Ending
    BY <1>1
       DEF Decision, Unauthorized, Authenticate, FindTaken, Me, VerifyPassword, FindTarget,
           EnsureUser, BeginTimesOut, TransactionClosed, QueueBatch, Reload, Load, ReadAgain,
           Query, CallbackPlaces
  <2> QED
    BY <1>0, <1>1, <2>1, DecisionsAreMoves
<1>2. ASSUME NEW q \in Requests, Effect(q) PROVE pc'[r] \in Ending
  <2>1. CASE q # r
    BY <1>2, <2>1, EffectsAreLocal DEF IInv
  <2>2. CASE q = r
    <3>1. CASE Leave(r)
      BY <1>0, <3>1 DEF Leave, Goto
    <3>2. CASE Expire(r)
      BY <3>2 DEF Expire
    <3>3. CASE SaveSession(r)
      BY <1>0, <3>3 DEF SaveSession, Reply
    <3> QED
      BY <1>2, <2>2, <3>1, <3>2, <3>3
         DEF Effect, Query, Arrive, FindLogin, Register, Logout, SendPassword,
             SetPassword, BeginDelete, DeleteUser, SetPersonal, DeletePersonal, ReadPrice,
             Begin, ReadBalance, Debit, Commit, CompleteBatch, ReadFile, ReadChildren,
             OpenFile, WriteFile, StatementThrows, WriteThrows, Statements
  <2> QED
    BY <2>1, <2>2
<1>3. CASE Crash
  BY <1>0, <1>3 DEF Crash
<1>4. CASE UNCHANGED vars
  BY <1>4
<1> QED
  BY <1>1, <1>2, <1>3, <1>4, NextCases

\* Every step keeps the accounts of the money.
LEMMA MoneyStays ==
  ASSUME IInv, PoolInv, MoneyInv, Next
  PROVE  MoneyInv'
<1>0. /\ exists \subseteq Ids /\ balance \in [Ids -> Int] /\ spent \in [Ids -> Nat]
      /\ personal \in [Ids -> Prices \cup {None}] /\ None \notin Ids
  BY DEF IInv, TypeOK, Ids
<1> USE <1>0, EndsStay DEF MoneyInv, PaidIsStored, NothingIsLeftBehind, FreshInv, Ending, Ids
<1>1. CASE UNCHANGED <<exists, email, balance, spent, personal>>
  BY <1>1
<1>2. ASSUME NEW r \in Requests, Registers(r) PROVE MoneyInv'
  BY <1>2 DEF Registers
<1>3. ASSUME NEW r \in Requests, Buys(r) PROVE MoneyInv'
  <2>1. Cost(r) \in Nat
    BY CostIsNatural DEF IInv
  <2>2. PaidIsStored' /\ NothingIsLeftBehind'
    BY <1>3, <2>1 DEF Buys
  <2>3. FreshInv'
    BY <1>3 DEF Buys
  <2> QED
    BY <2>2, <2>3
<1>4. ASSUME NEW u \in Accounts \cup {None}, Deletes(u) PROVE MoneyInv'
  BY <1>4 DEF Deletes, Cascade
<1>5. ASSUME NEW u \in Accounts \cup {None}, SetsPrice(u) PROVE MoneyInv'
  BY <1>5 DEF SetsPrice
<1> QED
  BY <1>1, <1>2, <1>3, <1>4, <1>5, AccountMoves

\* The accounts of the money are right in every state.
LEMMA InvariantsOfMoney == Spec => [](IInv /\ PoolInv /\ MoneyInv)
<1>1. Init => MoneyInv
  BY DEF Init, MoneyInv, PaidIsStored, NothingIsLeftBehind, FreshInv, Ids
<1>2. IInv /\ PoolInv /\ MoneyInv /\ [Next]_vars => MoneyInv'
  <2>1. CASE IInv /\ PoolInv /\ MoneyInv /\ Next
    BY <2>1, MoneyStays
  <2>2. CASE MoneyInv /\ UNCHANGED vars
    BY <2>2 DEF MoneyInv, PaidIsStored, NothingIsLeftBehind, FreshInv
  <2> QED
    BY <2>1, <2>2
<1> QED
  BY <1>1, <1>2, Typed, Pooled, PTL DEF Spec

\* A user who exists has paid exactly for the checks and batches that exist.
THEOREM MoneyIsAccountedFor == Spec => []PaidIsStored
BY InvariantsOfMoney, PTL DEF MoneyInv

\* A user who was deleted leaves no price and no check or batch.
THEOREM DeletionIsComplete == Spec => []NothingIsLeftBehind
BY InvariantsOfMoney, PTL DEF MoneyInv

\* What a purchase may cost is among the costs.
LEMMA CostsAreKnown ==
  ASSUME NEW p \in Prices, NEW c \in Calls
  PROVE  p * c.rows \in Costs
BY DEF Costs

\* Whatever the requests do to each other, accounts and money change as Shop says.
THEOREM Refinement == Spec => KeepsPromise
<1>1. Init => Promise!Init
  BY DEF Init, Promise!Init, Ids
<1>2. ASSUME IInv, PoolInv, MoneyInv, [Next]_vars
      PROVE  [Promise!Next]_<<exists, balance, spent>>
  <2>1. CASE UNCHANGED <<exists, email, balance, spent, personal>>
    BY <2>1
  <2>2. ASSUME NEW r \in Requests, Registers(r) PROVE [Promise!Next]_<<exists, balance, spent>>
    <3>1. CASE r \in exists
      BY <1>2, <2>2, <3>1 DEF Registers, MoneyInv, FreshInv, Ending
    <3>2. CASE r \notin exists
      <4>1. Promise!Join(r)
        BY <1>2, <2>2, <3>2
           DEF Registers, Promise!Join, MoneyInv, FreshInv, NothingIsLeftBehind, Ids
      <4> QED
        BY <4>1 DEF Promise!Next, Ids
    <3> QED
      BY <3>1, <3>2
  <2>3. ASSUME NEW r \in Requests, Buys(r) PROVE [Promise!Next]_<<exists, balance, spent>>
    <3>1. copy[r] \in Ids /\ price[r] \in Prices /\ call[r] \in Calls
      BY <1>2, <2>3 DEF IInv, TypeOK, Buys
    <3>0. price[r] * call[r].rows \in Costs
      BY <3>1, CostsAreKnown
    <3>2. Promise!Buy(copy[r], Cost(r))
      BY <2>3 DEF Buys, Promise!Buy
    <3> QED
      BY <3>0, <3>1, <3>2 DEF Promise!Next, Cost
  <2>4. ASSUME NEW u \in Accounts \cup {None}, Deletes(u)
        PROVE  [Promise!Next]_<<exists, balance, spent>>
    <3>1. Promise!Depart(u) /\ u \in Ids
      BY <1>2, <2>4 DEF Deletes, Cascade, Promise!Depart, IInv, TypeOK
    <3> QED
      BY <3>1 DEF Promise!Next
  <2>5. ASSUME NEW u \in Accounts \cup {None}, SetsPrice(u)
        PROVE  [Promise!Next]_<<exists, balance, spent>>
    BY <2>5 DEF SetsPrice
  <2>6. CASE UNCHANGED vars
    BY <2>6
  <2> QED
    BY <1>2, <2>1, <2>2, <2>3, <2>4, <2>5, <2>6, AccountMoves
<1> QED
  BY <1>1, <1>2, InvariantsOfMoney, PTL DEF Spec, KeepsPromise, Promise!Spec

\* Two users never share an email, however their registrations interleave.
THEOREM EmailsAreUnique == Spec => []OneAccountPerEmail
<1>1. Init => OneAccountPerEmail
  BY DEF Init, OneAccountPerEmail, Ids
<1>2. ASSUME IInv, PoolInv, OneAccountPerEmail, [Next]_vars PROVE OneAccountPerEmail'
  <2>0. exists \subseteq Ids /\ email \in [Ids -> Emails \cup {None}]
    BY <1>2 DEF IInv, TypeOK
  <2>1. CASE UNCHANGED <<exists, email>>
    BY <1>2, <2>1 DEF OneAccountPerEmail
  <2>2. ASSUME NEW r \in Requests, Registers(r) PROVE OneAccountPerEmail'
    BY <1>2, <2>0, <2>2 DEF Registers, EmailTaken, OneAccountPerEmail, Ids
  <2>3. ASSUME NEW u \in Accounts \cup {None}, Deletes(u) PROVE OneAccountPerEmail'
    BY <1>2, <2>3 DEF Deletes, OneAccountPerEmail
  <2> QED
    BY <1>2, <2>1, <2>2, <2>3, AccountMoves DEF Buys, SetsPrice
<1> QED
  BY <1>1, <1>2, Typed, Pooled, PTL DEF Spec

-----------------------------------------------------------------------------
(* Behind the guards.                                                      *)

\* What the guards check.
Admitted(q) ==
  /\ copy[q] \in exists
  /\ call[q].op \in AdminOps => copy[q] \in Admins

\* A user who was there while a request was handled is there or is known to be gone.
LEMMA UsersAreRemembered ==
  ASSUME IInv, Next, NEW q \in Requests, Handling(q), NEW u \in exists \cup gone[q]
  PROVE  u \in exists' \cup gone'[q]
<1>0. gone \in [Requests -> SUBSET Ids]
  BY DEF IInv, TypeOK
<1>1. CASE \E r \in Requests : DeleteUser(r)
  BY <1>0, <1>1 DEF DeleteUser, NoteGone
<1>2. CASE \E r \in Requests : Register(r)
  BY <1>0, <1>2 DEF Register
<1>3. CASE UNCHANGED <<exists, gone>>
  BY <1>3
<1>4. ASSUME NEW r \in Requests, Effect(r)
      PROVE  DeleteUser(r) \/ Register(r) \/ UNCHANGED <<exists, gone>>
  BY <1>4
     DEF Effect, Arrive, Leave, FindLogin, SaveSession, Logout, SendPassword, SetPassword,
         BeginDelete, SetPersonal, DeletePersonal, ReadPrice, Begin, ReadBalance, Debit,
         Commit, Expire, CompleteBatch, ReadFile, ReadChildren, OpenFile, WriteFile,
         StatementThrows, WriteThrows
<1>5. ASSUME NEW r \in Requests, Decision(r) PROVE UNCHANGED <<exists, gone>>
  BY <1>5, DecisionsAreMoves
<1>6. CASE Crash \/ UNCHANGED vars
  BY <1>3, <1>6 DEF Crash
<1> QED
  BY <1>1, <1>2, <1>3, <1>4, <1>5, <1>6, NextCases

\* Behind the guard is only who was admitted, and his copy of the session stays.
LEMMA OneEntersByTheGuard ==
  ASSUME IInv, Next, NEW q \in Requests, Guarded(q), pc'[q] \notin Outside
  PROVE  /\ copy'[q] = copy[q] /\ call'[q] = call[q] /\ Handling(q)
         /\ pc[q] \notin Outside \/ Admitted(q)
<1>0. pc \in [Requests -> Places] /\ call[q].op \notin OpenOps \cup WorkerOps
  BY DEF IInv, TypeOK, Guarded, AdminOps, UserOps, OpenOps, WorkerOps
<1>1. ASSUME NEW r \in Requests, Decision(r)
      PROVE  /\ pc[q] \notin Outside \/ (pc[q] = "guard" /\ Admitted(q))
             /\ copy'[q] = copy[q] /\ call'[q] = call[q]
  <2>1. CASE r # q
    <3>1. pc'[q] = pc[q] /\ UNCHANGED <<copy, call>>
      BY <1>0, <1>1, <2>1, DecisionsAreMoves
    <3> QED
      BY <3>1
  <2>2. CASE r = q
    <3>1. CASE Authenticate(q)
      BY <1>0, <3>1 DEF Authenticate, Admitted, Reply, Outside, Query
    <3>2. CASE Unauthorized(q)
      BY <1>0, <3>2 DEF Unauthorized, Reply, Outside
    <3>3. Authenticate(q) \/ Unauthorized(q) \/ pc[q] \notin Outside
      BY <1>1, <2>2
         DEF Decision, FindTaken, Me, VerifyPassword, FindTarget, EnsureUser, BeginTimesOut,
             TransactionClosed, QueueBatch, Reload, Load, ReadAgain, Query, Outside,
             CallbackPlaces
    <3>4. copy'[q] = copy[q] /\ call'[q] = call[q]
      BY <1>1, <2>2, DecisionsAreMoves
    <3> QED
      BY <3>1, <3>2, <3>3, <3>4
  <2> QED
    BY <2>1, <2>2
<1>2. ASSUME NEW r \in Requests, Effect(r)
      PROVE  pc[q] \notin Outside /\ copy'[q] = copy[q] /\ call'[q] = call[q]
  <2>1. CASE r # q
    BY <1>2, <2>1, EffectsAreLocal DEF IInv
  <2>2. CASE r = q
    <3> USE <1>0 DEF Goto, Reply, Query, Outside
    <3>1. CASE Arrive(q)
      BY <2>2, <3>1 DEF Arrive
    <3>2. CASE SaveSession(q) \/ Logout(q) \/ Leave(q) \/ StatementThrows(q)
      BY <3>2 DEF SaveSession, Logout, Leave, StatementThrows
    <3> QED
      BY <1>2, <2>2, <3>1, <3>2
         DEF Effect, FindLogin, Register, SendPassword, SetPassword, BeginDelete, DeleteUser,
             SetPersonal, DeletePersonal, ReadPrice, Begin, ReadBalance, Debit, Commit,
             Expire, CompleteBatch, ReadFile, ReadChildren, OpenFile, WriteFile, WriteThrows
  <2> QED
    BY <2>1, <2>2
<1>3. CASE Crash
  BY <1>0, <1>3 DEF Crash, Outside, Handling
<1>4. CASE UNCHANGED vars
  BY <1>4 DEF Outside, Handling
<1>5. pc[q] \notin Outside \/ pc[q] = "guard" => Handling(q)
  BY DEF Outside, Handling
<1> QED
  BY <1>1, <1>2, <1>3, <1>4, <1>5, NextCases

\* Behind the guards is nobody but users who exist or were deleted while the request ran,
\* whoever deletes whom meanwhile; a role is that of the row and not of the session.
THEOREM GuardsHold == Spec => []InsideIsKnown
<1>1. Init => InsideIsKnown
  BY DEF Init, InsideIsKnown
<1>2. ASSUME IInv, InsideIsKnown, [Next]_vars PROVE InsideIsKnown'
  <2>1. CASE Next
    <3> SUFFICES ASSUME NEW q \in Requests, Guarded(q)', pc'[q] \notin Outside
                 PROVE  /\ copy'[q] \in exists' \cup gone'[q]
                        /\ call'[q].op \in AdminOps => copy'[q] \in Admins
      BY DEF InsideIsKnown, Outside
    <3>1. call' = call
      BY <2>1, CallsStay
    <3>0. Guarded(q) /\ q \in Requests
      BY <3>1 DEF Guarded
    <3>2. /\ copy[q] \in exists \cup gone[q]
          /\ call[q].op \in AdminOps => copy[q] \in Admins
      BY <1>2, <2>1, <3>0, OneEntersByTheGuard DEF InsideIsKnown, Outside, Admitted
    <3> QED
      BY <1>2, <2>1, <3>0, <3>2, OneEntersByTheGuard, UsersAreRemembered
  <2>2. CASE UNCHANGED vars
    BY <1>2, <2>2 DEF InsideIsKnown, Guarded
  <2> QED
    BY <1>2, <2>1, <2>2
<1> QED
  BY <1>1, <1>2, Typed, PTL DEF Spec

-----------------------------------------------------------------------------
(* Answers and purchases.                                                  *)

\* There is no status before the answer, no purchase before the commit, and after it only
\* the update to QUEUED, if any.
Told(r) ==
  /\ pc[r] \notin {"leave", "answered"} => status[r] = 0
  /\ r \in paid => Buying(r) /\ pc[r] \in {"queue", "leave", "answered"}
  /\ pc[r] = "queue" => r \in paid
  /\ Buying(r) /\ status[r] = 200 => r \in paid
  /\ r \in paid => \/ status[r] \in {0, 200}
                   \/ status[r] = 500 /\ call[r].op = "buyBatch"

\* The places of a purchase are those of the handlers that buy.
LEMMA BuyersPlaces ==
  ASSUME IInv, NEW r \in Requests, pc[r] \notin Outside
  PROVE  /\ Buying(r) => pc[r] \in {"begin", "price", "balance", "debit", "commit", "queue"}
         /\ pc[r] = "queue" => call[r].op = "buyBatch"
         /\ pc[r] \in {"begin", "price", "balance", "debit", "commit", "queue"} => Buying(r)
BY CallTypes
   DEF IInv, PlaceInv, InPlace, PlacesOf, Buying, Ops, AdminOps, OpenOps, UserOps, WorkerOps

\* No handler begins with its end.
LEMMA EntryIsNotTheEnd ==
  ASSUME NEW op \in Ops
  PROVE  Entry(op) \notin {"queue", "leave", "answered"}
BY DEF Ops, AdminOps, OpenOps, UserOps, WorkerOps, Entry

\* A decision leaves what was told about a purchase true.
LEMMA DecisionsTell ==
  ASSUME IInv, NEW q \in Requests, Told(q), Decision(q)
  PROVE  Told(q)'
<1>1. /\ pc \in [Requests -> Places] /\ status \in [Requests -> Statuses]
      /\ call' = call /\ paid' = paid /\ call[q].op \in Ops
  <2>1. UNCHANGED <<call, paid>>
    BY DecisionsAreMoves
  <2> QED
    BY <2>1, CallTypes DEF IInv, TypeOK, Statuses
<1> USE <1>1, BuyersPlaces DEF Told, Buying, Outside, Goto, Reply
<1>2. CASE Unauthorized(q)
  BY <1>2 DEF Unauthorized
<1>3. CASE Authenticate(q)
  BY <1>3, EntryIsNotTheEnd DEF Authenticate, Query
<1>4. CASE FindTaken(q)
  BY <1>4 DEF FindTaken, Query
<1>5. CASE Me(q)
  BY <1>5 DEF Me, Query
<1>6. CASE VerifyPassword(q)
  BY <1>6 DEF VerifyPassword, Query
<1>7. CASE FindTarget(q)
  BY <1>7 DEF FindTarget
<1>8. CASE EnsureUser(q)
  BY <1>8 DEF EnsureUser, Query
<1>9. CASE BeginTimesOut(q)
  BY <1>9 DEF BeginTimesOut
<1>10. CASE TransactionClosed(q)
  BY <1>10 DEF TransactionClosed, CallbackPlaces
<1>11. CASE QueueBatch(q)
  BY <1>11 DEF QueueBatch, Query
<1>12. CASE Reload(q)
  BY <1>12 DEF Reload, Query
<1>13. CASE Load(q)
  BY <1>13 DEF Load, Query
<1>14. CASE ReadAgain(q)
  BY <1>14 DEF ReadAgain, Serve
<1> QED
  BY <1>2, <1>3, <1>4, <1>5, <1>6, <1>7, <1>8, <1>9, <1>10, <1>11, <1>12, <1>13, <1>14
     DEF Decision

\* An effect leaves what was told about its own purchase true.
LEMMA EffectsTell ==
  ASSUME IInv, NEW q \in Requests, Told(q), Effect(q)
  PROVE  Told(q)'
<1>1. /\ pc \in [Requests -> Places] /\ status \in [Requests -> Statuses]
      /\ call' = call /\ call[q].op \in Ops
  <2>1. call' = call
    BY
       DEF Effect, Arrive, Leave, FindLogin, SaveSession, Register, Logout, SendPassword,
           SetPassword, BeginDelete, DeleteUser, SetPersonal, DeletePersonal, ReadPrice,
           Begin, ReadBalance, Debit, Commit, Expire, CompleteBatch, ReadFile, ReadChildren,
           OpenFile, WriteFile, StatementThrows, WriteThrows
  <2> QED
    BY <2>1, CallTypes DEF IInv, TypeOK, Statuses
<1> USE <1>1, BuyersPlaces DEF Told, Buying, Outside, Goto, Reply
<1>2. CASE Arrive(q)
  BY <1>2, EntryIsNotTheEnd DEF Arrive
<1>3. CASE Leave(q)
  BY <1>3 DEF Leave
<1>4. CASE FindLogin(q)
  BY <1>4 DEF FindLogin, Query
<1>5. CASE SaveSession(q)
  BY <1>5 DEF SaveSession
<1>6. CASE Register(q)
  BY <1>6 DEF Register, Query
<1>7. CASE Logout(q)
  BY <1>7 DEF Logout
<1>8. CASE SendPassword(q)
  BY <1>8 DEF SendPassword
<1>9. CASE SetPassword(q)
  BY <1>9 DEF SetPassword
<1>10. CASE BeginDelete(q)
  BY <1>10 DEF BeginDelete
<1>11. CASE DeleteUser(q)
  BY <1>11 DEF DeleteUser
<1>12. CASE SetPersonal(q)
  BY <1>12 DEF SetPersonal, Query
<1>13. CASE DeletePersonal(q)
  BY <1>13 DEF DeletePersonal, Query
<1>14. CASE ReadPrice(q)
  BY <1>14 DEF ReadPrice, Query
<1>15. CASE Begin(q)
  BY <1>15 DEF Begin
<1>16. CASE ReadBalance(q)
  BY <1>16 DEF ReadBalance
<1>17. CASE Debit(q)
  BY <1>17 DEF Debit
<1>18. CASE Commit(q)
  BY <1>18 DEF Commit
<1>19. CASE Expire(q)
  BY <1>19 DEF Expire
<1>20. CASE CompleteBatch(q)
  BY <1>20 DEF CompleteBatch, Query
<1>21. CASE ReadFile(q)
  BY <1>21 DEF ReadFile, Serve
<1>22. CASE ReadChildren(q)
  BY <1>22 DEF ReadChildren, Query
<1>23. CASE OpenFile(q)
  BY <1>23 DEF OpenFile
<1>24. CASE WriteFile(q)
  BY <1>24 DEF WriteFile
<1>25. CASE StatementThrows(q)
  BY <1>25 DEF StatementThrows, Statements
<1>26. CASE WriteThrows(q)
  BY <1>26 DEF WriteThrows
<1> QED
  BY <1>2, <1>3, <1>4, <1>5, <1>6, <1>7, <1>8, <1>9, <1>10, <1>11, <1>12, <1>13, <1>14, <1>15,
     <1>16, <1>17, <1>18, <1>19, <1>20, <1>21, <1>22, <1>23, <1>24, <1>25, <1>26
     DEF Effect

\* An effect pays for no other request.
LEMMA EffectsPayForOne ==
  ASSUME NEW r \in Requests, Effect(r), NEW q \in Requests \ {r}
  PROVE  q \in paid' <=> q \in paid
<1>1. CASE Commit(r)
  BY <1>1 DEF Commit
<1> QED
  BY <1>1
     DEF Effect, Arrive, Leave, FindLogin, SaveSession, Register, Logout, SendPassword,
         SetPassword, BeginDelete, DeleteUser, SetPersonal, DeletePersonal, ReadPrice, Begin,
         ReadBalance, Debit, Expire, CompleteBatch, ReadFile, ReadChildren, OpenFile, WriteFile,
         StatementThrows, WriteThrows

\* The answer tells whether the purchase was made, but for the batch that was not queued.
THEOREM AnswersTell == Spec => []AnswersTellPurchases
<1> DEFINE AllTold == \A q \in Requests : Told(q)
<1>1. Init => AllTold
  BY DEF Init, Told
<1>2. ASSUME IInv, AllTold, [Next]_vars PROVE AllTold'
  <2> SUFFICES ASSUME NEW q \in Requests PROVE Told(q)'
    OBVIOUS
  <2>0. Told(q)
    BY <1>2
  <2>1. ASSUME NEW r \in Requests, Decision(r) PROVE Told(q)'
    <3>1. CASE r = q
      BY <1>2, <2>0, <2>1, <3>1, DecisionsTell
    <3>2. CASE r # q
      <4>1. /\ pc \in [Requests -> Places] /\ status \in [Requests -> Statuses]
        BY <1>2 DEF IInv, TypeOK, Statuses
      <4>2. pc'[q] = pc[q] /\ status'[q] = status[q] /\ UNCHANGED <<call, paid>>
        BY <1>2, <2>1, <3>2, <4>1, DecisionsAreMoves
      <4> QED
        BY <2>0, <4>2 DEF Told, Buying
    <3> QED
      BY <3>1, <3>2
  <2>2. ASSUME NEW r \in Requests, Effect(r) PROVE Told(q)'
    <3>1. CASE r = q
      BY <1>2, <2>0, <2>2, <3>1, EffectsTell
    <3>2. CASE r # q
      <4>1. pc'[q] = pc[q] /\ status'[q] = status[q] /\ call' = call
        BY <1>2, <2>2, <3>2, EffectsAreLocal DEF IInv
      <4>2. q \in paid' <=> q \in paid
        BY <2>2, <3>2, EffectsPayForOne
      <4> QED
        BY <2>0, <4>1, <4>2 DEF Told, Buying
    <3> QED
      BY <3>1, <3>2
  <2>3. CASE Crash
    BY <1>2, <2>0, <2>3 DEF Crash, Told, Buying, Handling, IInv, TypeOK
  <2>4. CASE UNCHANGED vars
    BY <2>0, <2>4 DEF Told, Buying
  <2> QED
    BY <1>2, <2>1, <2>2, <2>3, <2>4, NextCases
<1>3. AllTold => AnswersTellPurchases
  BY DEF Told, AnswersTellPurchases
<1> QED
  BY <1>1, <1>2, <1>3, Typed, PTL DEF Spec

-----------------------------------------------------------------------------
(* Sessions.                                                               *)

\* The request changes the session it loaded: saveSession and logout do, and the end of a
\* response.
Stores(r, u) ==
  /\ sessions' = [sessions EXCEPT ![sid[r]] = u]
  /\ NoteSession(r, sid[r], u)
  /\ sid' = sid /\ copy' = [copy EXCEPT ![r] = u]

\* A request that has a session has what is stored, unless that changed since.
Loaded(r) ==
  /\ pc[r] = "idle" => copy[r] = None
  /\ pc[r] # "answered" /\ copy[r] # None /\ ~stale[r] => sessions[sid[r]] = copy[r]

\* A request that was answered stays so, and none begins twice.
LEMMA AnsweredStays ==
  ASSUME IInv, Next, NEW q \in Requests
  PROVE  /\ pc[q] = "answered" => pc'[q] = "answered"
         /\ pc'[q] = "idle" => pc[q] = "idle"
<1>0. pc \in [Requests -> Places]
  BY DEF IInv, TypeOK
<1>1. ASSUME NEW r \in Requests, Decision(r)
      PROVE  /\ pc[q] = "answered" => pc'[q] = "answered"
             /\ pc'[q] = "idle" => pc[q] = "idle"
  <2>1. pc[r] # "answered"
    BY <1>1
       DEF Decision, Unauthorized, Authenticate, FindTaken, Me, VerifyPassword, FindTarget,
           EnsureUser, BeginTimesOut, TransactionClosed, QueueBatch, Reload, Load, ReadAgain,
           Query, CallbackPlaces
  <2>2. pc' = [pc EXCEPT ![r] = pc'[r]] /\ pc'[r] # "idle"
    BY <1>1, DecisionsAreMoves
  <2> QED
    BY <1>0, <2>1, <2>2
<1>2. ASSUME NEW r \in Requests, Effect(r)
      PROVE  /\ pc[q] = "answered" => pc'[q] = "answered"
             /\ pc'[q] = "idle" => pc[q] = "idle"
  <2>1. CASE r # q
    BY <1>2, <2>1, EffectsAreLocal DEF IInv
  <2>2. CASE r = q
    <3>1. CASE Arrive(q)
      <4>1. pc'[q] \in {"guard", Entry(call[q].op)} /\ pc[q] = "idle"
        BY <1>0, <3>1 DEF Arrive, Goto
      <4> QED
        BY <4>1
    <3>2. CASE Expire(q)
      BY <3>2 DEF Expire
    <3>3. CASE Leave(q) \/ StatementThrows(q)
      BY <1>0, <3>3 DEF Leave, StatementThrows, Statements, Goto, Reply
    <3> QED
      BY <1>0, <1>2, <2>2, <3>1, <3>2, <3>3
         DEF Effect, Query, Goto, Reply, FindLogin, SaveSession, Register, Logout, SendPassword,
             SetPassword, BeginDelete, DeleteUser, SetPersonal, DeletePersonal, ReadPrice,
             Begin, ReadBalance, Debit, Commit, CompleteBatch, ReadFile, ReadChildren,
             Serve, OpenFile, WriteFile, WriteThrows
  <2> QED
    BY <2>1, <2>2
<1>3. CASE Crash
  BY <1>0, <1>3 DEF Crash, Handling
<1> QED
  BY <1>0, <1>1, <1>2, <1>3, NextCases

\* Sessions change only when a request arrives, leaves, saves a user's or logs out.
LEMMA SessionMoves ==
  ASSUME IInv, Next
  PROVE  \/ UNCHANGED <<sessions, stale, sid, copy>>
         \/ \E r \in Requests : Arrive(r)
         \/ \E r \in Requests : \/ Leave(r) /\ Stores(r, copy[r])
                                \/ SaveSession(r) /\ Stores(r, account[r])
                                \/ Logout(r) /\ Stores(r, None)
<1>0. copy \in [Requests -> Ids \cup {None}]
  BY DEF IInv, TypeOK
<1>1. ASSUME NEW r \in Requests, Effect(r)
      PROVE  \/ UNCHANGED <<sessions, stale, sid, copy>> \/ Arrive(r)
             \/ (Leave(r) /\ Stores(r, copy[r]))
             \/ (SaveSession(r) /\ Stores(r, account[r]))
             \/ (Logout(r) /\ Stores(r, None))
  <2>1. CASE Leave(r)
    BY <1>0, <2>1 DEF Leave, Stores
  <2>2. CASE SaveSession(r)
    BY <2>2 DEF SaveSession, Stores
  <2>3. CASE Logout(r)
    BY <2>3 DEF Logout, Stores
  <2> QED
    BY <1>1, <2>1, <2>2, <2>3
       DEF Effect, FindLogin, Register, SendPassword, SetPassword, BeginDelete, DeleteUser,
           SetPersonal, DeletePersonal, ReadPrice, Begin, ReadBalance, Debit, Commit, Expire,
           CompleteBatch, ReadFile, ReadChildren, OpenFile, WriteFile, StatementThrows,
           WriteThrows
<1>2. ASSUME NEW r \in Requests, Decision(r) PROVE UNCHANGED <<sessions, stale, sid, copy>>
  BY <1>2, DecisionsAreMoves
<1> QED
  BY <1>1, <1>2, NextCases DEF Crash

\* Every step keeps what a request may know of the session it loaded.
LEMMA LoadedStays ==
  ASSUME IInv, Next, NEW q \in Requests, Loaded(q)
  PROVE  Loaded(q)'
<1>0. /\ sessions \in [Sids -> Ids \cup {None}] /\ stale \in [Requests -> BOOLEAN]
      /\ sid \in [Requests -> Sids] /\ copy \in [Requests -> Ids \cup {None}]
      /\ pc \in [Requests -> Places]
  BY DEF IInv, TypeOK
<1>1. CASE UNCHANGED <<sessions, stale, sid, copy>>
  BY <1>1, AnsweredStays DEF Loaded
<1>2. ASSUME NEW r \in Requests, Arrive(r) PROVE Loaded(q)'
  <2>1. CASE r = q
    <3>1. pc[q] = "idle" /\ UNCHANGED <<sessions, stale>> /\ pc'[q] # "idle"
      <4>1. pc'[q] \in {"guard", Entry(call[q].op)} /\ pc[q] = "idle"
        BY <1>0, <1>2, <2>1 DEF Arrive, Goto
      <4>2. Entry(call[q].op) # "idle"
        BY CallTypes, EntryIsAPlace DEF IInv, Outside
      <4> QED
        BY <1>2, <2>1, <4>1, <4>2 DEF Arrive
    <3>2. copy'[q] # None => sessions[sid'[q]] = copy'[q]
      <4>1. CASE Known(q) /\ sid' = [sid EXCEPT ![q] = call[q].sid]
                          /\ copy' = [copy EXCEPT ![q] = sessions[call[q].sid]]
        BY <1>0, <4>1
      <4>2. CASE UNCHANGED <<sid, copy>>
        BY <3>1, <4>2 DEF Loaded
      <4> QED
        BY <1>2, <2>1, <4>1, <4>2 DEF Arrive
    <3> QED
      BY <3>1, <3>2 DEF Loaded
  <2>2. CASE r # q
    <3>1. pc'[q] = pc[q] /\ sid'[q] = sid[q] /\ copy'[q] = copy[q] /\ UNCHANGED <<sessions, stale>>
      BY <1>0, <1>2, <2>2 DEF Arrive, Goto
    <3> QED
      BY <3>1 DEF Loaded
  <2> QED
    BY <2>1, <2>2
<1>3. ASSUME NEW r \in Requests, NEW u, Stores(r, u), pc[r] # "idle" PROVE Loaded(q)'
  <2>1. CASE r = q
    BY <1>0, <1>3, <2>1, AnsweredStays DEF Loaded, Stores
  <2>2. CASE r # q
    <3>1. stale'[q] = (stale[q] \/ (Handling(q) /\ sid[q] = sid[r] /\ copy[q] # u))
      BY <1>3, <2>2 DEF Stores, NoteSession
    <3>2. sid'[q] = sid[q] /\ copy'[q] = copy[q]
      BY <1>0, <1>3, <2>2 DEF Stores
    <3>3. sessions'[sid[q]] = IF sid[q] = sid[r] THEN u ELSE sessions[sid[q]]
      BY <1>0, <1>3 DEF Stores
    <3> QED
      BY <1>0, <3>1, <3>2, <3>3, AnsweredStays DEF Loaded, Handling
  <2> QED
    BY <2>1, <2>2
<1>4. ASSUME NEW r \in Requests, Leave(r) \/ SaveSession(r) \/ Logout(r)
      PROVE  pc[r] # "idle"
  BY <1>4 DEF Leave, SaveSession, Logout
<1> QED
  BY <1>1, <1>2, <1>3, <1>4, SessionMoves

\* A request knows of its session what Loaded says, in every state.
LEMMA SessionsAreLoaded == Spec => [](\A q \in Requests : Loaded(q))
<1> DEFINE AllLoaded == \A q \in Requests : Loaded(q)
<1>1. Init => AllLoaded
  BY DEF Init, Loaded
<1>2. ASSUME IInv, AllLoaded, [Next]_vars PROVE AllLoaded'
  <2>1. CASE Next
    BY <1>2, <2>1, LoadedStays
  <2>2. CASE UNCHANGED vars
    BY <1>2, <2>2 DEF Loaded
  <2> QED
    BY <1>2, <2>1, <2>2
<1>3. AllLoaded <=> \A q \in Requests : Loaded(q)
  OBVIOUS
<1> QED
  BY <1>1, <1>2, <1>3, Typed, PTL DEF Spec

\* A session changes hands or comes back by the saveSession of a login or a registration, or by
\* the end of a request that loaded it before it changed; whoever logs in or out meanwhile.
THEOREM SessionsAreFollowed == Spec => SessionsFollowLogins
<1> DEFINE Follows == \A s \in Sids : sessions'[s] \notin {sessions[s], None} =>
                        \E r \in Requests : sid[r] = s /\ (pc[r] = "session" \/ stale[r])
<1>1. ASSUME IInv, \A q \in Requests : Loaded(q), [Next]_vars PROVE Follows \/ UNCHANGED vars
  <2>0. /\ sessions \in [Sids -> Ids \cup {None}] /\ stale \in [Requests -> BOOLEAN]
        /\ sid \in [Requests -> Sids] /\ copy \in [Requests -> Ids \cup {None}]
    BY <1>1 DEF IInv, TypeOK
  <2>1. CASE UNCHANGED <<sessions, stale, sid, copy>>
    BY <2>1
  <2>2. ASSUME NEW r \in Requests, Arrive(r) PROVE Follows
    BY <2>2 DEF Arrive
  <2>3. ASSUME NEW r \in Requests, Leave(r), Stores(r, copy[r]) PROVE Follows
    <3>1. copy[r] \in {None, sessions[sid[r]]} \/ stale[r]
      BY <1>1, <2>0, <2>3 DEF Loaded, Leave
    <3> QED
      BY <2>0, <2>3, <3>1 DEF Stores
  <2>4. ASSUME NEW r \in Requests, NEW u, Stores(r, u), SaveSession(r) PROVE Follows
    BY <2>0, <2>4 DEF Stores, SaveSession
  <2>5. ASSUME NEW r \in Requests, Stores(r, None) PROVE Follows
    BY <2>0, <2>5 DEF Stores
  <2> QED
    BY <1>1, <2>1, <2>2, <2>3, <2>4, <2>5, SessionMoves
<1> QED
  BY <1>1, Typed, SessionsAreLoaded, PTL DEF Spec, SessionsFollowLogins

-----------------------------------------------------------------------------
(* Prices.                                                                 *)

\* The personal price of u becomes x, None for no price.
Reprices(u, x) ==
  /\ personal' = [personal EXCEPT ![u] = x]
  /\ NotePrice(u, IF x = None THEN BasePrice ELSE x)

\* Prices change only by an administrator, and the record of those in force with them.
LEMMA PriceMoves ==
  ASSUME IInv, Next
  PROVE  \/ UNCHANGED <<personal, inForce>>
         \/ \E r \in Requests : Arrive(r)
         \/ \E u \in Accounts \cup {None}, x \in Prices \cup {None} :
              Reprices(u, x) /\ UNCHANGED copy
<1>1. ASSUME NEW r \in Requests, Effect(r)
      PROVE  \/ UNCHANGED <<personal, inForce>> \/ Arrive(r)
             \/ \E x \in Prices \cup {None} : Reprices(call[r].target, x) /\ UNCHANGED copy
  <2>1. CASE DeleteUser(r)
    <3>1. UNCHANGED <<personal, inForce>> \/ (Reprices(call[r].target, None) /\ UNCHANGED copy)
      BY <2>1 DEF DeleteUser, Cascade, Reprices
    <3> QED
      BY <3>1
  <2>2. CASE SetPersonal(r)
    <3>1. call[r].price \in Prices /\ call[r].price # None
      BY <2>2, CallTypes, PlacesKnown DEF IInv, SetPersonal, Query
    <3>2. \/ UNCHANGED <<personal, inForce>>
          \/ Reprices(call[r].target, call[r].price) /\ UNCHANGED copy
      BY <2>2, <3>1 DEF SetPersonal, Reprices
    <3> QED
      BY <3>1, <3>2
  <2>3. CASE DeletePersonal(r)
    <3>1. Reprices(call[r].target, None) /\ UNCHANGED copy
      BY <2>3 DEF DeletePersonal, Reprices
    <3> QED
      BY <3>1
  <2> QED
    BY <1>1, <2>1, <2>2, <2>3
       DEF Effect, Leave, FindLogin, SaveSession, Register, Logout, SendPassword,
         SetPassword,
           BeginDelete, ReadPrice, Begin, ReadBalance, Debit, Commit, Expire, CompleteBatch,
           ReadFile, ReadChildren, OpenFile, WriteFile, StatementThrows, WriteThrows
<1>2. ASSUME NEW r \in Requests, Decision(r) PROVE UNCHANGED <<personal, inForce>>
  BY <1>2, DecisionsAreMoves
<1>3. ASSUME NEW r \in Requests PROVE call[r].target \in Accounts \cup {None}
  BY CallTypes DEF IInv
<1> QED
  BY <1>1, <1>2, <1>3, NextCases DEF Crash

\* The buyer's price of now is one of his prices since the request arrived; so is the price
\* that was read, once it was.
Fair(r) == Handling(r) /\ Buying(r) /\ copy[r] # None => PriceOf(copy[r]) \in inForce[r]

PriceIsRead(r) == pc[r] \in CallbackPlaces \/ (pc[r] = "begin" /\ call[r].op = "buyBatch")

Priced(r) == PriceIsRead(r) => price[r] \in inForce[r]

\* A buyer keeps the session he came with.
LEMMA BuyersStay ==
  ASSUME IInv, Next, NEW q \in Requests, Buying(q), Handling(q)
  PROVE  copy'[q] = copy[q] /\ Buying(q)'
<1>0. call' = call /\ copy \in [Requests -> Ids \cup {None}] /\ pc \in [Requests -> Places]
  BY CallsStay DEF IInv, TypeOK
<1>1. ASSUME NEW r \in Requests, Effect(r) PROVE copy'[q] = copy[q]
  <2>1. CASE r # q
    BY <1>1, <2>1, EffectsAreLocal DEF IInv
  <2>2. CASE r = q
    <3>1. pc[q] \notin {"idle", "session", "create", "destroy"}
      BY BuyersPlaces DEF Handling, Outside
    <3> QED
      BY <1>1, <2>2, <3>1
         DEF Effect, Query, Arrive, Leave, FindLogin, SaveSession, Register, Logout, SendPassword,
             SetPassword, BeginDelete, DeleteUser, SetPersonal, DeletePersonal, ReadPrice,
             Begin, ReadBalance, Debit, Commit, Expire, CompleteBatch, ReadFile, ReadChildren,
             OpenFile, WriteFile, StatementThrows, WriteThrows
  <2> QED
    BY <2>1, <2>2
<1>2. ASSUME NEW r \in Requests, Decision(r) PROVE copy'[q] = copy[q]
  BY <1>2, DecisionsAreMoves
<1> QED
  BY <1>0, <1>1, <1>2, NextCases DEF Crash, Buying

\* Every step keeps Fair, and no price that was in force is forgotten during a purchase.
LEMMA FairStays ==
  ASSUME IInv, Next, NEW q \in Requests, Loaded(q), Fair(q)
  PROVE  /\ Fair(q)'
         /\ Handling(q) /\ Buying(q) => inForce[q] \subseteq inForce'[q]
<1>0. /\ inForce \in [Requests -> SUBSET Prices] /\ personal \in [Ids -> Prices \cup {None}]
      /\ copy \in [Requests -> Ids \cup {None}] /\ sid \in [Requests -> Sids]
      /\ sessions \in [Sids -> Ids \cup {None}] /\ pc \in [Requests -> Places] /\ call' = call
  BY CallsStay DEF IInv, TypeOK
<1>1. CASE ~Handling(q)
  <2>1. CASE Handling(q)' /\ Buying(q)'
    <3>1. Arrive(q) \/ copy'[q] = None
      <4>1. pc[q] = "idle"
        BY <1>1, <2>1, AnsweredStays DEF Handling
      <4>2. ASSUME NEW r \in Requests, Decision(r) PROVE FALSE
        <5>1. pc[r] # "idle" /\ pc' = [pc EXCEPT ![r] = pc'[r]]
          <6>1. pc[r] # "idle"
            BY <4>2
               DEF Decision, Query, CallbackPlaces, Unauthorized, Authenticate, FindTaken, Me,
                   VerifyPassword, FindTarget, EnsureUser, BeginTimesOut, TransactionClosed,
                   QueueBatch, Reload, Load, ReadAgain
          <6> QED
            BY <4>2, <6>1, DecisionsAreMoves
        <5> QED
          BY <1>0, <2>1, <4>1, <5>1 DEF Handling
      <4>3. ASSUME NEW r \in Requests, Effect(r) PROVE Arrive(q)
        <5>1. r = q
          BY <2>1, <4>1, <4>3, EffectsAreLocal DEF IInv, Handling
        <5>2. CASE Expire(q)
          BY <2>1, <4>1, <5>2 DEF Expire, Handling
        <5> QED
          BY <4>1, <4>3, <5>1, <5>2
             DEF Effect, Query, Statements, Leave, FindLogin, SaveSession, Register, Logout,
                 SendPassword, SetPassword, BeginDelete, DeleteUser, SetPersonal,
                 DeletePersonal, ReadPrice, Begin, ReadBalance, Debit, Commit, CompleteBatch,
                 ReadFile, ReadChildren, OpenFile, WriteFile, StatementThrows, WriteThrows
      <4> QED
        BY <1>0, <2>1, <4>1, <4>2, <4>3, NextCases DEF Crash, Handling
    <3>2. CASE Arrive(q)
      <4>1. UNCHANGED personal
        BY <3>2 DEF Arrive
      <4>2. CASE Known(q)
        <5>1. sessions[call[q].sid] # None /\ call[q].sid \in Sids
          BY <4>2, CallTypes DEF IInv, Known, Sids
        <5>2. copy'[q] = sessions[call[q].sid] /\ inForce'[q] = {PriceOf(sessions[call[q].sid])}
          BY <1>0, <2>1, <3>2, <4>2 DEF Arrive, Buying
        <5> QED
          BY <1>1, <4>1, <5>2 DEF Fair, PriceOf
      <4>3. CASE ~Known(q)
        BY <1>1, <3>2, <4>3 DEF Arrive, Fair, Loaded
      <4> QED
        BY <4>2, <4>3
    <3> QED
      BY <1>1, <3>1, <3>2 DEF Fair
  <2> QED
    BY <1>1, <2>1 DEF Fair
<1>2. CASE Handling(q) /\ ~Buying(q)
  BY <1>0, <1>2 DEF Fair, Buying
<1>3. CASE Handling(q) /\ Buying(q)
  <2>0. copy'[q] = copy[q]
    BY <1>3, BuyersStay
  <2>1. CASE UNCHANGED <<personal, inForce>>
    BY <1>3, <2>0, <2>1 DEF Fair, PriceOf
  <2>2. ASSUME NEW r \in Requests, Arrive(r)
        PROVE  UNCHANGED personal /\ inForce'[q] = inForce[q]
    <3>1. r # q
      BY <1>3, <2>2 DEF Arrive, Handling
    <3> QED
      BY <1>0, <2>2, <3>1 DEF Arrive
  <2>3. ASSUME NEW u \in Accounts \cup {None}, NEW x \in Prices \cup {None}, Reprices(u, x)
        PROVE  /\ copy[q] # None => PriceOf(copy[q])' \in inForce'[q]
               /\ inForce[q] \subseteq inForce'[q]
    <3>1. inForce'[q] = IF copy[q] = u THEN inForce[q] \cup {IF x = None THEN BasePrice ELSE x}
                                       ELSE inForce[q]
      BY <1>3, <2>3 DEF Reprices, NotePrice
    <3>2. copy[q] # None => personal'[copy[q]] = IF copy[q] = u THEN x ELSE personal[copy[q]]
      BY <1>0, <2>3 DEF Reprices
    <3> QED
      BY <1>3, <2>0, <3>1, <3>2 DEF Fair, PriceOf
  <2> QED
    BY <1>3, <2>0, <2>1, <2>2, <2>3, PriceMoves DEF Fair, PriceOf
<1> QED
  BY <1>1, <1>2, <1>3

\* Every step leaves a price that was read one that was in force.
LEMMA PricedStays ==
  ASSUME IInv, Next, NEW q \in Requests, Loaded(q), Fair(q), Priced(q)
  PROVE  Priced(q)'
<1>0. /\ pc \in [Requests -> Places] /\ price \in [Requests -> Prices]
      /\ call[q].op \in Ops
  BY CallTypes DEF IInv, TypeOK
<1>1. call' = call
  BY CallsStay
<1>2. PriceIsRead(q) => Handling(q) /\ Buying(q)
  BY BuyersPlaces DEF PriceIsRead, CallbackPlaces, Handling, Outside
<1>3. PriceIsRead(q) => inForce[q] \subseteq inForce'[q]
  BY <1>2, FairStays
<1>4. CASE PriceIsRead(q) /\ price'[q] = price[q]
  BY <1>3, <1>4 DEF Priced
<1>5. ASSUME NEW r \in Requests, Decision(r)
      PROVE  price'[q] = price[q] /\ (PriceIsRead(q)' => PriceIsRead(q))
  <2>1. CASE r # q
    BY <1>0, <1>1, <1>5, <2>1, DecisionsAreMoves DEF PriceIsRead
  <2>2. CASE r = q
    <3>1. pc'[q] \notin CallbackPlaces
      BY <1>0, <1>5, <2>2, EntryIsNoWait
         DEF Decision, Query, Goto, Reply, CallbackPlaces, Unauthorized, Authenticate,
             FindTaken, Me, VerifyPassword, FindTarget, EnsureUser, BeginTimesOut,
             TransactionClosed, QueueBatch, Reload, Load, ReadAgain, Serve
    <3>2. pc'[q] = "begin" /\ call[q].op = "buyBatch" => FALSE
      <4>1. CASE Authenticate(q)
        BY <1>0, <4>1 DEF Authenticate, Goto, Reply, Query, Entry
      <4> QED
        BY <1>0, <1>5, <2>2, <4>1
           DEF Decision, Query, Goto, Reply, CallbackPlaces, Unauthorized, FindTaken, Me,
               VerifyPassword, FindTarget, EnsureUser, BeginTimesOut, TransactionClosed,
               QueueBatch, Reload, Load, ReadAgain, Serve
    <3>3. price'[q] = price[q]
      BY <1>5, DecisionsAreMoves
    <3> QED
      BY <1>1, <3>1, <3>2, <3>3 DEF PriceIsRead
  <2> QED
    BY <2>1, <2>2
<1>6. ASSUME NEW r \in Requests, Effect(r), ~ReadPrice(r)
      PROVE  price'[q] = price[q] /\ (PriceIsRead(q)' => PriceIsRead(q))
  <2>1. CASE r # q
    BY <1>1, <1>6, <2>1, EffectsAreLocal DEF IInv, PriceIsRead
  <2>2. CASE r = q
    <3>1. price' = price
      BY <1>6
         DEF Effect, Arrive, Leave, FindLogin, SaveSession, Register, Logout, SendPassword,
             SetPassword, BeginDelete, DeleteUser, SetPersonal, DeletePersonal, Begin,
             ReadBalance, Debit, Commit, Expire, CompleteBatch, ReadFile, ReadChildren,
             OpenFile, WriteFile, StatementThrows, WriteThrows
    <3>2. CASE Arrive(q)
      <4>1. pc'[q] = "guard" \/ (pc'[q] = Entry(call[q].op) /\ ~Guarded(q))
        BY <1>0, <3>2 DEF Arrive, Goto
      <4>2. ~Guarded(q) => ~Buying(q)
        BY DEF Guarded, Buying, UserOps
      <4>3. Entry(call[q].op) \notin CallbackPlaces
        BY <1>0, EntryIsNoWait DEF CallbackPlaces
      <4> QED
        BY <1>1, <3>1, <4>1, <4>2, <4>3 DEF PriceIsRead, Buying, CallbackPlaces
    <3>3. CASE Begin(q)
      <4>1. pc[q] = "begin" /\ (pc'[q] = "balance" => call[q].op # "buy")
        BY <1>0, <3>3 DEF Begin, Goto
      <4>2. pc'[q] \in {"price", "balance"}
        BY <1>0, <3>3 DEF Begin, Goto
      <4>3. Buying(q)
        BY <4>1, BuyersPlaces DEF Outside
      <4> QED
        BY <1>1, <3>1, <4>1, <4>2, <4>3 DEF PriceIsRead, CallbackPlaces, Buying
    <3>4. CASE ReadBalance(q) \/ Debit(q) \/ Expire(q)
      BY <1>0, <1>1, <3>1, <3>4
         DEF ReadBalance, Debit, Expire, PriceIsRead, CallbackPlaces, Goto, Reply
    <3>5. pc'[q] \in CallbackPlaces \cup {"begin"} =>
            Arrive(q) \/ Begin(q) \/ ReadBalance(q) \/ Debit(q) \/ Expire(q)
      BY <1>0, <1>6, <2>2
         DEF Effect, CallbackPlaces, Query, Goto, Reply, Leave, FindLogin, SaveSession, Register,
             Logout, SendPassword, SetPassword, BeginDelete, DeleteUser, SetPersonal,
             DeletePersonal, Commit, CompleteBatch, ReadFile, Serve, ReadChildren, OpenFile,
             WriteFile, StatementThrows, WriteThrows
    <3> QED
      BY <1>1, <3>1, <3>2, <3>3, <3>4, <3>5 DEF PriceIsRead
  <2> QED
    BY <2>1, <2>2
<1>7. CASE ReadPrice(q)
  <2>1. Buying(q) /\ Handling(q)
    BY <1>7, BuyersPlaces DEF ReadPrice, Query, Outside, Handling
  <2>2. copy[q] # None
    BY <1>7, <2>1
       DEF ReadPrice, Query, IInv, PlaceInv, InPlace, Guarded, Buying, UserOps, Outside
  <2>3. price'[q] = PriceOf(copy[q]) /\ inForce'[q] = inForce[q]
    BY <1>0, <1>7 DEF ReadPrice, PersonalOrBase
  <2> QED
    BY <2>1, <2>2, <2>3 DEF Fair, Priced
<1>8. ASSUME NEW r \in Requests, ReadPrice(r), r # q
      PROVE  price'[q] = price[q] /\ (PriceIsRead(q)' => PriceIsRead(q))
  BY <1>1, <1>8, EffectsAreLocal DEF IInv, PriceIsRead, Effect
<1>9. CASE Crash
  BY <1>0, <1>1, <1>9, <1>4 DEF Crash, PriceIsRead, Priced, CallbackPlaces, Handling
<1>10. CASE UNCHANGED vars
  BY <1>10 DEF Priced, PriceIsRead
<1> QED
  BY <1>4, <1>5, <1>6, <1>7, <1>8, <1>9, <1>10, NextCases DEF Priced

\* Nobody pays a price that was not his while the request ran.
THEOREM PricesAreFair == Spec => []PriceWasInForce
<1> DEFINE AllPriced == \A q \in Requests : Loaded(q) /\ Fair(q) /\ Priced(q)
<1>1. Init => AllPriced
  BY DEF Init, Loaded, Fair, Priced, PriceIsRead, CallbackPlaces, Handling
<1>2. ASSUME IInv, AllPriced, [Next]_vars PROVE AllPriced'
  <2>1. CASE Next
    BY <1>2, <2>1, LoadedStays, FairStays, PricedStays
  <2>2. CASE UNCHANGED vars
    BY <1>2, <2>2
       DEF Loaded, Fair, Priced, PriceIsRead, CallbackPlaces, Handling, Buying, PriceOf
  <2> QED
    BY <1>2, <2>1, <2>2
<1>3. AllPriced => PriceWasInForce
  BY DEF PriceWasInForce, Priced, PriceIsRead
<1> QED
  BY <1>1, <1>2, <1>3, Typed, PTL DEF Spec

-----------------------------------------------------------------------------
(* Report files.                                                           *)

\* A report is generated of what is completed, and is not empty unless the owner was deleted.
Drafted(r) ==
  /\ pc[r] \in {"reload", "read", "children"} => call[r].doc \in completed
  /\ pc[r] \in {"open", "write"} =>
       /\ draft[r] # "early"
       /\ draft[r] = "empty" => ~DocumentRow(call[r].doc)

\* Nothing may be in a file that was generated too early, or of nobody's checks.
Proper(piece, d) == piece[2] # "early" /\ (piece[2] = "empty" => ~DocumentRow(d))

\* What nobody disturbed is empty while its only writer is at it, and one report after that.
Calm(d) ==
  IF \E r \in Requests : Writing(r, d)
  THEN files[d] = {} /\ \A p, q \in Requests : Writing(p, d) /\ Writing(q, d) => p = q
  ELSE \E r \in Requests, c \in Contents : files[d] = {<<r, c>>}

Filed(d) ==
  /\ files[d] # None => \A piece \in files[d] : Proper(piece, d)
  /\ files[d] # None /\ d \notin disturbed => Calm(d)

\* Deleted owners do not come back, and what is completed stays so.
LEMMA RowsAndCompletion ==
  ASSUME IInv, PoolInv, Next
  PROVE  /\ \A d \in Documents : DocumentRow(d)' => DocumentRow(d)
         /\ completed \subseteq completed'
<1>1. \A u \in Accounts : u \in exists' => u \in exists
  BY AccountMoves DEF Registers, Buys, Deletes, SetsPrice
<1>2. completed \subseteq completed'
  <2>1. ASSUME NEW r \in Requests, Effect(r) PROVE completed \subseteq completed'
    BY <2>1
       DEF Effect, Arrive, Leave, FindLogin, SaveSession, Register, Logout, SendPassword,
           SetPassword, BeginDelete, DeleteUser, SetPersonal, DeletePersonal, ReadPrice,
           Begin, ReadBalance, Debit, Commit, Expire, CompleteBatch, ReadFile, ReadChildren,
           OpenFile, WriteFile, StatementThrows, WriteThrows
  <2>2. ASSUME NEW r \in Requests, Decision(r) PROVE completed \subseteq completed'
    BY <2>2, DecisionsAreMoves
  <2> QED
    BY <2>1, <2>2, NextCases DEF Crash
<1> QED
  BY <1>1, <1>2 DEF DocumentRow

\* No handler begins in the middle of a report.
LEMMA EntryIsNoReport ==
  ASSUME NEW op \in Ops
  PROVE  Entry(op) \notin {"reload", "read", "children", "open", "write"}
BY DEF Ops, AdminOps, OpenOps, UserOps, WorkerOps, Entry

\* Who is not at a report step does not touch the files and does not get to one.
LEMMA OtherEffects ==
  ASSUME IInv, NEW r \in Requests, Effect(r),
         ~(CompleteBatch(r) \/ ReadFile(r) \/ ReadChildren(r) \/ OpenFile(r)
           \/ WriteFile(r) \/ WriteThrows(r))
  PROVE  /\ UNCHANGED <<completed, files, draft, got, disturbed>>
         /\ pc[r] = "write" => pc'[r] = "write"
         /\ pc'[r] \in {"reload", "read", "children", "open", "write"} => pc'[r] = pc[r]
<1>0. pc \in [Requests -> Places] /\ call[r].op \in Ops
  BY CallTypes DEF IInv, TypeOK
<1>1. UNCHANGED <<completed, files, draft, got, disturbed>>
  BY
     DEF Effect, Arrive, Leave, FindLogin, SaveSession, Register, Logout, SendPassword,
         SetPassword, BeginDelete, DeleteUser, SetPersonal, DeletePersonal, ReadPrice, Begin,
         ReadBalance, Debit, Commit, Expire, StatementThrows
<1>2. CASE Arrive(r)
  <2>1. pc'[r] \in {"guard", Entry(call[r].op)} /\ pc[r] = "idle"
    BY <1>0, <1>2 DEF Arrive, Goto
  <2> QED
    BY <1>0, <1>1, <2>1, EntryIsNoReport
<1>3. CASE Expire(r)
  BY <1>1, <1>3 DEF Expire
<1>4. CASE StatementThrows(r)
  BY <1>0, <1>1, <1>4 DEF StatementThrows, Statements, Reply
<1> QED
  BY <1>0, <1>1, <1>2, <1>3, <1>4
     DEF Effect, Query, Goto, Reply, Leave, FindLogin, SaveSession, Register, Logout, SendPassword,
         SetPassword, BeginDelete, DeleteUser, SetPersonal, DeletePersonal, ReadPrice, Begin,
         ReadBalance, Debit, Commit

\* Every step leaves a report in the making one of a completed batch.
LEMMA DraftedStays ==
  ASSUME IInv, PoolInv, Next, NEW q \in Requests, Drafted(q)
  PROVE  Drafted(q)'
<1>0. /\ pc \in [Requests -> Places] /\ draft \in [Requests -> Contents]
      /\ call[q].op \in Ops /\ call' = call
  BY CallTypes, CallsStay DEF IInv, TypeOK
<1>1. \A d : d \in completed => d \in completed'
  BY RowsAndCompletion
<1>2. pc[q] \in {"open", "write"} /\ ~DocumentRow(call[q].doc) => ~DocumentRow(call[q].doc)'
  <2>1. pc[q] \in {"open", "write"} => call[q].doc \in Documents
    BY CallTypes, PlacesKnown DEF IInv
  <2> QED
    BY <1>0, <2>1, RowsAndCompletion DEF DocumentRow
<1>3. CASE /\ draft'[q] = draft[q]
           /\ \/ pc'[q] = pc[q]
              \/ pc'[q] \notin {"reload", "read", "children", "open", "write"}
  BY <1>0, <1>1, <1>2, <1>3 DEF Drafted
<1>4. ASSUME NEW r \in Requests, Decision(r) PROVE Drafted(q)'
  <2>0. UNCHANGED <<draft, completed, exists>> /\ pc' = [pc EXCEPT ![r] = pc'[r]]
    BY <1>4, DecisionsAreMoves
  <2>1. CASE r # q
    BY <1>0, <1>3, <2>0, <2>1
  <2>2. CASE Reload(q)
    BY <1>0, <2>0, <2>2 DEF Reload, Query, Goto, Reply, Drafted
  <2>3. CASE Load(q)
    BY <1>0, <2>0, <2>3 DEF Load, Query, Goto, Reply, Drafted
  <2>4. CASE Authenticate(q)
    <3>1. pc'[q] \in {"leave", Entry(call[q].op)}
      BY <1>0, <2>4 DEF Authenticate, Query, Goto, Reply
    <3> QED
      BY <1>0, <1>3, <2>0, <3>1, EntryIsNoReport
  <2>5. CASE r = q /\ ~Reload(q) /\ ~Load(q) /\ ~Authenticate(q)
    <3>1. pc'[q] \notin {"reload", "read", "children", "open", "write"}
      BY <1>0, <1>4, <2>5
         DEF Decision, Query, Goto, Reply, Unauthorized, FindTaken, Me, VerifyPassword,
             FindTarget, EnsureUser, BeginTimesOut, TransactionClosed, QueueBatch, ReadAgain,
             Serve
    <3> QED
      BY <1>3, <2>0, <3>1
  <2> QED
    BY <2>1, <2>2, <2>3, <2>4, <2>5
<1>5. ASSUME NEW r \in Requests, Effect(r) PROVE Drafted(q)'
  <2>1. CASE r # q
    BY <1>3, <1>5, <2>1, EffectsAreLocal DEF IInv
  <2>2. CASE CompleteBatch(q)
    BY <1>0, <2>2 DEF CompleteBatch, Query, Goto, Reply, Drafted
  <2>3. CASE ReadFile(q)
    BY <1>0, <2>3 DEF ReadFile, Serve, Goto, Reply, Drafted
  <2>4. CASE ReadChildren(q)
    BY <1>0, <2>4 DEF ReadChildren, Query, Goto, Drafted, DocumentRow
  <2>5. CASE OpenFile(q)
    BY <1>0, <2>5 DEF OpenFile, Goto, Drafted, DocumentRow
  <2>6. CASE WriteFile(q) \/ WriteThrows(q)
    BY <1>0, <1>3, <2>6 DEF WriteFile, WriteThrows, Goto, Reply
  <2> QED
    BY <1>3, <1>5, <2>1, <2>2, <2>3, <2>4, <2>5, <2>6, OtherEffects
<1>6. CASE Crash
  BY <1>0, <1>3, <1>6 DEF Crash
<1>7. CASE UNCHANGED vars
  BY <1>3, <1>7
<1> QED
  BY <1>4, <1>5, <1>6, <1>7, NextCases

\* Who is not writing and does not begin to changes nobody's writing.
LEMMA WritersStay ==
  ASSUME IInv, NEW r \in Requests, Decision(r) \/ Effect(r), NEW d \in Documents,
         pc[r] = "write" /\ call[r].doc = d <=> pc'[r] = "write" /\ call[r].doc = d
  PROVE  \A q \in Requests : Writing(q, d)' <=> Writing(q, d)
<1>1. call' = call /\ pc \in [Requests -> Places]
  <2>1. CASE Decision(r)
    BY <2>1, DecisionsAreMoves DEF IInv, TypeOK
  <2>2. CASE Effect(r)
    BY <2>2, NextCases, CallsStay DEF IInv, TypeOK, Effect, Next, Step, Timeout, AccountStep,
       PurchaseStep, ReportStep
  <2> QED
    BY <2>1, <2>2
<1>2. \A q \in Requests \ {r} : pc'[q] = pc[q]
  <2>1. CASE Decision(r)
    BY <1>1, <2>1, DecisionsAreMoves
  <2>2. CASE Effect(r)
    BY <2>2, EffectsAreLocal DEF IInv
  <2> QED
    BY <2>1, <2>2
<1> QED
  BY <1>1, <1>2 DEF Writing

\* A file that nobody touches, with its writers, stays as proper and as calm as it was.
LEMMA UntouchedFiles ==
  ASSUME IInv, PoolInv, Next, NEW d \in Documents, Filed(d),
         files'[d] = files[d], d \in disturbed' <=> d \in disturbed,
         \A q \in Requests : Writing(q, d)' <=> Writing(q, d)
  PROVE  Filed(d)'
<1>1. DocumentRow(d)' => DocumentRow(d)
  BY RowsAndCompletion
<1> QED
  BY <1>1 DEF Filed, Calm, Proper

\* Every step leaves a file proper, and calm unless it was disturbed.
LEMMA FiledStays ==
  ASSUME IInv, PoolInv, Next, NEW d \in Documents, Filed(d), \A r \in Requests : Drafted(r)
  PROVE  Filed(d)'
<1>0. /\ pc \in [Requests -> Places] /\ draft \in [Requests -> Contents]
      /\ disturbed \subseteq Documents
      /\ files \in [Documents -> {None} \cup SUBSET Pieces] /\ call' = call
  BY CallsStay DEF IInv, TypeOK
<1>1. DocumentRow(d)' => DocumentRow(d)
  BY RowsAndCompletion
<1>2. ASSUME NEW r \in Requests, Decision(r) PROVE Filed(d)'
  <2>1. pc[r] # "write"
    BY <1>2
       DEF Decision, Query, CallbackPlaces, Unauthorized, Authenticate, FindTaken, Me,
           VerifyPassword, FindTarget, EnsureUser, BeginTimesOut, TransactionClosed,
           QueueBatch, Reload, Load, ReadAgain
  <2>2. UNCHANGED <<files, disturbed>> /\ pc'[r] # "write"
    BY <1>2, DecisionsAreMoves
  <2> QED
    BY <1>2, <2>1, <2>2, WritersStay, UntouchedFiles
<1>3. ASSUME NEW r \in Requests, Effect(r) PROVE Filed(d)'
  <2>0. /\ \A q \in Requests \ {r} : pc'[q] = pc[q]
        /\ \A q \in Requests \ {r} : Writing(q, d)' <=> Writing(q, d)
    BY <1>0, <1>3, EffectsAreLocal DEF IInv, Writing
  <2>1. CASE CompleteBatch(r) \/ ReadFile(r) \/ ReadChildren(r)
    <3>1. UNCHANGED <<files, disturbed>> /\ pc[r] # "write"
      BY <2>1 DEF CompleteBatch, ReadFile, ReadChildren, Query
    <3>2. pc'[r] # "write"
      BY <1>0, <2>1 DEF CompleteBatch, ReadFile, Serve, ReadChildren, Goto, Reply
    <3> QED
      BY <1>3, <3>1, <3>2, WritersStay, UntouchedFiles
  <2>2. CASE OpenFile(r)
    <3>1. /\ files' = [files EXCEPT ![call[r].doc] = {}]
          /\ disturbed' = IF \E q \in Requests : Writing(q, call[r].doc)
                          THEN disturbed \cup {call[r].doc} ELSE disturbed \ {call[r].doc}
          /\ pc[r] = "open" /\ pc'[r] = "write"
      BY <1>0, <2>2 DEF OpenFile, Goto
    <3>2. CASE call[r].doc = d
      <4>1. files'[d] = {} /\ Writing(r, d)'
        BY <1>0, <3>1, <3>2 DEF Writing
      <4>2. d \notin disturbed' => \A q \in Requests : Writing(q, d)' => q = r
        BY <2>0, <3>1, <3>2
      <4> QED
        BY <4>1, <4>2 DEF Filed, Calm
    <3>3. CASE call[r].doc # d
      <4>1. files'[d] = files[d] /\ (d \in disturbed' <=> d \in disturbed)
        BY <1>0, <3>1, <3>3
      <4> QED
        BY <1>3, <3>3, <4>1, WritersStay, UntouchedFiles
    <3> QED
      BY <3>2, <3>3
  <2>3. CASE WriteFile(r) \/ WriteThrows(r)
    <3>1. pc[r] = "write" /\ pc'[r] # "write"
      BY <1>0, <2>3 DEF WriteFile, WriteThrows, Goto, Reply
    <3>2. CASE call[r].doc = d
      <4>1. /\ files[d] \in SUBSET Pieces /\ files[d] # None /\ Writing(r, d) /\ ~Writing(r, d)'
        BY <1>0, <3>1, <3>2, PiecesAreWritten, PlacesKnown DEF Writing, IInv
      <4>2. \A piece \in files[d] : Proper(piece, d)'
        BY <1>1, <4>1 DEF Filed, Proper
      <4>3. CASE WriteFile(r)
        <5>1. PICK left \in SUBSET files[d] : files'[d] = left \cup {<<r, draft[r]>>}
          BY <1>0, <3>2, <4>3 DEF WriteFile, Overwritten
        <5>2. draft[r] # "early" /\ (draft[r] = "empty" => ~DocumentRow(d)')
          BY <1>1, <3>1, <3>2 DEF Drafted
        <5>3. \A piece \in files'[d] : Proper(piece, d)'
          BY <4>2, <5>1, <5>2 DEF Proper
        <5>4. ASSUME d \notin disturbed' PROVE Calm(d)'
          <6>1. Calm(d)
            BY <4>1, <4>3, <5>4 DEF WriteFile, Filed
          <6>2. files[d] = {} /\ \A q \in Requests : Writing(q, d) => q = r
            BY <4>1, <6>1 DEF Calm
          <6>3. files'[d] = {<<r, draft[r]>>} /\ draft[r] \in Contents
            BY <1>0, <5>1, <6>2
          <6>4. ~\E q \in Requests : Writing(q, d)'
            BY <2>0, <4>1, <6>2
          <6> QED
            BY <6>3, <6>4 DEF Calm
        <5> QED
          BY <5>3, <5>4 DEF Filed
      <4>4. CASE WriteThrows(r)
        <5>1. PICK file \in {files[d]} \cup Overwritten(r, d, "part") : files'[d] = file
          BY <1>0, <3>2, <4>4 DEF WriteThrows
        <5>2. \A piece \in file : piece \in files[d] \/ piece = <<r, "part">>
          BY <5>1 DEF Overwritten
        <5>3. Proper(<<r, "part">>, d)'
          BY DEF Proper
        <5>4. \A piece \in files'[d] : Proper(piece, d)'
          BY <4>2, <5>1, <5>2, <5>3
        <5>5. d \in disturbed'
          BY <3>2, <4>4 DEF WriteThrows
        <5> QED
          BY <5>4, <5>5 DEF Filed
      <4> QED
        BY <2>3, <4>3, <4>4
    <3>3. CASE call[r].doc # d
      <4>1. files'[d] = files[d] /\ (d \in disturbed' <=> d \in disturbed)
        BY <1>0, <2>3, <3>3 DEF WriteFile, WriteThrows
      <4> QED
        BY <1>3, <3>3, <4>1, WritersStay, UntouchedFiles
    <3> QED
      BY <3>2, <3>3
  <2>4. CASE ~(CompleteBatch(r) \/ ReadFile(r) \/ ReadChildren(r) \/ OpenFile(r)
               \/ WriteFile(r) \/ WriteThrows(r))
    BY <1>3, <2>4, OtherEffects, WritersStay, UntouchedFiles
  <2> QED
    BY <2>1, <2>2, <2>3, <2>4
<1>4. CASE Crash
  <2>1. \A q \in Requests : ~Writing(q, d)'
    BY <1>0, <1>4 DEF Crash, Writing, Handling
  <2>2. CASE \E r \in Requests : Writing(r, d)
    <3>1. PICK r \in Requests : Writing(r, d)
      BY <2>2
    <3>2. files[d] # None
      BY <3>1, PlacesKnown DEF Writing, IInv
    <3>3. d \in disturbed' /\ \A piece \in files'[d] : piece \in files[d] \/ piece[2] = "part"
      BY <1>4, <2>2, CrashCutsFiles
    <3> QED
      BY <1>1, <3>2, <3>3 DEF Filed, Proper
  <2>3. CASE ~\E r \in Requests : Writing(r, d)
    <3>1. files'[d] = files[d] /\ (d \in disturbed' <=> d \in disturbed)
      BY <1>4, <2>3, CrashCutsFiles
    <3> QED
      BY <2>1, <2>3, <3>1, UntouchedFiles
  <2> QED
    BY <2>2, <2>3
<1>5. CASE UNCHANGED vars
  BY <1>5, UntouchedFiles DEF Writing
<1> QED
  BY <1>2, <1>3, <1>4, <1>5, NextCases

\* A download is answered with what is in the file at that moment.
LEMMA DownloadsReadFiles ==
  ASSUME IInv, Next, NEW q \in Requests, got'[q] # got[q]
  PROVE  /\ call[q].doc \in Documents /\ files[call[q].doc] # None
         /\ got'[q] = files[call[q].doc]
<1>0. got \in [Requests -> {None} \cup SUBSET Pieces]
  BY DEF IInv, TypeOK
<1>1. ASSUME NEW r \in Requests, Decision(r) PROVE ReadAgain(q)
  BY <1>0, <1>1, DecisionsServe DEF ReadAgain, Serve
<1>2. ASSUME NEW r \in Requests, Effect(r) PROVE ReadFile(q)
  <2>1. r = q
    BY <1>2, EffectsAreLocal DEF IInv
  <2> QED
    BY <1>2, <2>1
       DEF Effect, Arrive, Leave, FindLogin, SaveSession, Register, Logout, SendPassword,
           SetPassword, BeginDelete, DeleteUser, SetPersonal, DeletePersonal, ReadPrice,
           Begin, ReadBalance, Debit, Commit, Expire, CompleteBatch, ReadChildren, OpenFile,
           WriteFile, StatementThrows, WriteThrows
<1>3. ReadAgain(q) \/ ReadFile(q)
  BY <1>1, <1>2, NextCases DEF Crash
<1>4. pc[q] \in {"read", "again"} /\ (pc[q] = "read" => files[call[q].doc] # None)
  BY <1>3 DEF ReadAgain, ReadFile
<1>5. call[q].doc \in Documents /\ files[call[q].doc] # None
  BY <1>4, CallTypes, PlacesKnown DEF IInv
<1>6. got'[q] = files[call[q].doc]
  BY <1>0, <1>3 DEF ReadAgain, ReadFile, Serve
<1> QED
  BY <1>5, <1>6

\* No download is ever answered with a report made before its batch was completed, or with one
\* of no checks unless the owner was deleted; and it is one whole final report of one writer
\* whenever nobody is writing the file and whoever wrote it last did so alone and to the end,
\* whatever happened to the file before.
THEOREM DownloadsAreRight == Spec => DownloadsInPeaceAreWhole
<1> DEFINE AllFiled == (\A q \in Requests : Drafted(q)) /\ (\A d \in Documents : Filed(d))
           Whole(q) ==
             LET d == call[q].doc IN
             /\ \A piece \in got'[q] : piece[2] # "early" /\ (piece[2] = "empty" => ~DocumentRow(d))
             /\ DocumentRow(d) /\ d \notin disturbed /\ ~(\E r \in Requests : Writing(r, d)) =>
                  \E r \in Requests : got'[q] = {<<r, "final">>}
<1>1. Init => AllFiled
  BY DEF Init, Drafted, Filed
<1>2. ASSUME IInv, PoolInv, AllFiled, [Next]_vars PROVE AllFiled'
  <2>1. CASE Next
    BY <1>2, <2>1, DraftedStays, FiledStays
  <2>2. CASE UNCHANGED vars
    BY <1>2, <2>2 DEF Drafted, Filed, Calm, Proper, Writing, DocumentRow
  <2> QED
    BY <1>2, <2>1, <2>2
<1>3. ASSUME IInv, AllFiled, [Next]_vars
      PROVE  \A q \in Requests : got'[q] # got[q] => Whole(q)
  <2> SUFFICES ASSUME NEW q \in Requests, got'[q] # got[q] PROVE Whole(q)
    OBVIOUS
  <2> DEFINE d == call[q].doc
  <2>1. Next
    BY <1>3
  <2>2. d \in Documents /\ files[d] # None /\ got'[q] = files[d]
    BY <1>3, <2>1, DownloadsReadFiles
  <2>3. Filed(d)
    BY <1>3, <2>2
  <2>4. \A piece \in got'[q] : Proper(piece, d)
    BY <2>2, <2>3 DEF Filed
  <2>5. ASSUME DocumentRow(d), d \notin disturbed, ~(\E r \in Requests : Writing(r, d))
        PROVE  \E r \in Requests : got'[q] = {<<r, "final">>}
    <3>1. PICK r \in Requests, c \in Contents : files[d] = {<<r, c>>}
      BY <2>2, <2>3, <2>5 DEF Filed, Calm
    <3>2. Proper(<<r, c>>, d)
      BY <2>2, <2>4, <3>1
    <3>3. c = "final"
      BY <2>5, <3>2 DEF Proper, Contents
    <3> QED
      BY <2>2, <3>1, <3>3
  <2> QED
    BY <2>4, <2>5 DEF Proper
<1>4. AllFiled <=> (\A q \in Requests : Drafted(q)) /\ (\A d \in Documents : Filed(d))
  OBVIOUS
<1> QED
  BY <1>1, <1>2, <1>3, Typed, Pooled, PTL DEF Spec, DownloadsInPeaceAreWhole

=============================================================================
