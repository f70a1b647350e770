------------------------------ MODULE Backend ------------------------------
(***************************************************************************)
(* What the HTTP requests of the application share: the tables users and   *)
(* user_check_prices, the sessions in Redis, the report files, the pool of *)
(* database connections with its interactive transactions, and the frame   *)
(* of each request.  Accounts, Purchases and ReportFiles add the handlers, *)
(* Api composes them.                                                      *)
(*                                                                         *)
(* Every await ends an action.  A statement outside a transaction needs a  *)
(* connection for as long as it runs; a transaction keeps one.             *)
(***************************************************************************)
EXTENDS Integers, FiniteSets

CONSTANTS Requests,        \* the requests of a run; one makes at most one account and one session
          Accounts,        \* the users there are at the beginning
          Admins,          \* those of them whose role is ADMIN
          EmailOf,         \* their users.email
          OpeningBalance,  \* and users.balance
          Browsers,        \* the session cookies there are at the beginning
          SessionOf,       \* and whose they are
          Emails, Passwords, InitialPassword,
          Prices,          \* the prices an administrator may set, and
          BasePrice,       \* check_prices.price of the one module bought here
          Documents,       \* checks and batches, each with an Excel file,
          Batches,         \* those that are batches
          OwnerOf,         \* whose they are,
          Finished,        \* and which of them are finished at the beginning
          PoolSize,        \* connections of the pool
          MaxFaults,       \* bound: how often a statement or a write fails or the process dies
          Calls,           \* what clients and the worker ask for
          Scenarios,       \* which requests come together
          None

Ids == Accounts \cup Requests    \* users.id: a registration makes a new one
Sids == Browsers \cup Requests   \* session ids, likewise

AdminOps == {"setPrice", "unsetPrice", "deleteUser", "adminExcel"}
OpenOps == {"login", "register", "logout"}
UserOps == {"buy", "buyBatch", "changePassword", "me", "excel"}
WorkerOps == {"complete"}
Ops == AdminOps \cup OpenOps \cup UserOps \cup WorkerOps

CallType ==
  [op : Ops, sid : Browsers \cup {None}, target : Accounts \cup {None},
   email : Emails \cup {None}, password : Passwords \cup {None}, new : Passwords \cup {None},
   price : Prices \cup {None}, rows : Nat, doc : Documents \cup {None}]

ASSUME SetsAreDisjoint ==
  /\ Accounts \cap Requests = {} /\ Browsers \cap Requests = {}
  /\ None \notin Ids \cup Sids \cup Emails \cup Passwords \cup Documents
ASSUME RequestsAreFinite == IsFiniteSet(Requests)
ASSUME AccountsAreKnown ==
  /\ Admins \subseteq Accounts
  /\ EmailOf \in [Accounts -> Emails]
  /\ \A a, b \in Accounts : EmailOf[a] = EmailOf[b] => a = b
  /\ SessionOf \in [Browsers -> Accounts]
  /\ InitialPassword \in Passwords
  /\ OpeningBalance \in Nat
ASSUME PricesAreNaturals ==
  BasePrice \in Nat /\ Prices \subseteq Nat /\ BasePrice \in Prices /\ None \notin Prices
ASSUME DocumentsHaveOwners ==
  /\ Batches \subseteq Documents /\ Finished \subseteq Documents
  /\ OwnerOf \in [Documents -> Accounts]
ASSUME PoolIsNotEmpty == PoolSize \in Nat \ {0} /\ MaxFaults \in Nat
ASSUME CallsAreCalls == Calls \subseteq CallType /\ Scenarios \subseteq [Requests -> Calls]
ASSUME CallsAreValid ==
  \A c \in Calls : /\ c.op = "setPrice" => c.price # None
                   /\ c.op = "register" => c.email # None
                   /\ c.op \in {"register", "changePassword"} => c.new # None
                   /\ c.op \in {"excel", "adminExcel", "complete"} => c.doc # None

VARIABLES
  exists,     \* the rows of users, by id
  email,      \* users.email
  password,   \* users.password
  balance,    \* users.balance
  spent,      \* sums over the costs of the user's checks and batches
  personal,   \* user_check_prices.price
  completed,  \* the checks that are DONE, the batches with completed_at
  sessions,   \* the session store: session.userId
  files,      \* the report files: what is in them and by whom, None if there is none
  busy,       \* the requests that hold a connection
  tx,         \* their interactive transactions
  holder,     \* whose transaction holds the row lock of a user
  call,       \* what each request asks for
  pc,         \* where it is
  status,     \* its HTTP status, 0 while there is none
  sid,        \* req.sessionID
  copy,       \* req.session.userId as the request has it
  account,    \* the user a login found
  price,      \* the price getForUser returned
  draft,      \* what the report it generates shows
  got,        \* what a download is answered with
  paid,       \* history: the requests whose purchase committed
  inForce,    \* history: the prices of the buyer since the request arrived
  gone,       \* history: the users deleted since then
  stale,      \* history: whether the stored session changed since then
  disturbed,  \* history: the files that two wrote at once or whose last writing broke off
  faults      \* how many faults happened

userVars == <<exists, email, password>>
moneyVars == <<balance, spent, personal, paid>>
reportVars == <<completed, files, draft, got, disturbed>>
poolVars == <<busy, tx, holder>>
sessionVars == <<sessions, sid, copy, stale>>
loginVars == <<account>>
priceVars == <<price>>
windowVars == <<inForce, gone>>
fixedVars == <<call, faults>>
vars == <<userVars, moneyVars, reportVars, poolVars, sessionVars, loginVars, priceVars,
          windowVars, fixedVars, pc, status>>

Handling(r) == pc[r] \notin {"idle", "answered"}

-----------------------------------------------------------------------------
(* Moving on.                                                              *)

Goto(r, place) == pc' = [pc EXCEPT ![r] = place] /\ UNCHANGED status

\* The handler returns or throws; what is left is the end of the response.
Reply(r, code) ==
  /\ pc' = [pc EXCEPT ![r] = "leave"]
  /\ status' = [status EXCEPT ![r] = code]

-----------------------------------------------------------------------------
(* The pool.                                                               *)

Free == Cardinality(busy) < PoolSize

\* A statement that cannot block, outside a transaction: any free connection will do.
Query(r, place) == pc[r] = place /\ Free

TakeConnection(r) == Free /\ busy' = busy \cup {r}

\* Mutant: the connection of a transaction that ends early is not given back.
ReleaseLeaks(r) ==
  /\ busy' = IF tx[r] = "open" THEN busy ELSE busy \ {r}
  /\ tx' = [tx EXCEPT ![r] = "none"]
  /\ holder' = [u \in Ids |-> IF holder[u] = r THEN None ELSE holder[u]]

\* The end of what the request had open, committed or rolled back.
Release(r) ==
  /\ busy' = busy \ {r}
  /\ tx' = [tx EXCEPT ![r] = "none"]
  /\ holder' = [u \in Ids |-> IF holder[u] = r THEN None ELSE holder[u]]

-----------------------------------------------------------------------------
(* What happens to the other requests meanwhile.                           *)

PriceOf(u) == IF personal[u] = None THEN BasePrice ELSE personal[u]

Buying(r) == call[r].op \in {"buy", "buyBatch"}

\* The price of u becomes p.
NotePrice(u, p) ==
  inForce' = [q \in Requests |->
    IF Handling(q) /\ Buying(q) /\ copy[q] = u THEN inForce[q] \cup {p} ELSE inForce[q]]

NoteGone(u) ==
  gone' = [q \in Requests |-> IF Handling(q) THEN gone[q] \cup {u} ELSE gone[q]]

\* r makes the stored session s that of u (None: removes it).
NoteSession(r, s, u) ==
  stale' = [q \in Requests |->
    stale[q] \/ (q # r /\ Handling(q) /\ sid[q] = s /\ copy[q] # u)]

=============================================================================
