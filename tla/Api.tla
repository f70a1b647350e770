--------------------------------- MODULE Api ---------------------------------
(***************************************************************************)
(* The application while it answers requests: any number of them, each one *)
(* handler of Accounts, Purchases or ReportFiles, over one database, one   *)
(* session store and one disk; and the process that may die under them.    *)
(***************************************************************************)
EXTENDS Accounts, Purchases, ReportFiles

Places ==
  {"idle", "guard", "leave", "answered",
   "find", "session", "create", "destroy", "me", "verify", "rehash", "update",
   "target", "delete", "cascade", "ensure", "upsert", "unset",
   "price", "begin", "balance", "debit", "commit", "queue",
   "settle", "reload", "load", "read", "children", "open", "write", "again"}

TypeOK ==
  /\ exists \in SUBSET Ids
  /\ email \in [Ids -> Emails \cup {None}]
  /\ password \in [Ids -> Passwords \cup {None}]
  /\ balance \in [Ids -> Int]
  /\ spent \in [Ids -> Nat]
  /\ personal \in [Ids -> Prices \cup {None}]
  /\ completed \in SUBSET Documents
  /\ sessions \in [Sids -> Ids \cup {None}]
  /\ files \in [Documents -> {None} \cup SUBSET Pieces]
  /\ busy \in SUBSET Requests
  /\ tx \in [Requests -> {"none", "open", "closed"}]
  /\ holder \in [Ids -> Requests \cup {None}]
  /\ call \in [Requests -> Calls]
  /\ pc \in [Requests -> Places]
  /\ status \in [Requests -> {0, 200, 400, 401, 402, 403, 404, 409, 500}]
  /\ sid \in [Requests -> Sids]
  /\ copy \in [Requests -> Ids \cup {None}]
  /\ account \in [Requests -> Ids \cup {None}]
  /\ price \in [Requests -> Prices]
  /\ draft \in [Requests -> Contents]
  /\ got \in [Requests -> {None} \cup SUBSET Pieces]
  /\ paid \in SUBSET Requests
  /\ inForce \in [Requests -> SUBSET Prices]
  /\ gone \in [Requests -> SUBSET Ids]
  /\ stale \in [Requests -> BOOLEAN]
  /\ disturbed \in SUBSET Documents
  /\ faults \in 0..MaxFaults

Init ==
  /\ exists = Accounts
  /\ email = [u \in Ids |-> IF u \in Accounts THEN EmailOf[u] ELSE None]
  /\ password = [u \in Ids |-> IF u \in Accounts THEN InitialPassword ELSE None]
  /\ balance = [u \in Ids |-> IF u \in Accounts THEN OpeningBalance ELSE 0]
  /\ spent = [u \in Ids |-> 0]
  /\ personal = [u \in Ids |-> None]
  /\ completed = Finished
  /\ sessions = [s \in Sids |-> IF s \in Browsers THEN SessionOf[s] ELSE None]
  /\ files = [d \in Documents |-> None]
  /\ busy = {}
  /\ tx = [r \in Requests |-> "none"]
  /\ holder = [u \in Ids |-> None]
  /\ call \in Scenarios
  /\ pc = [r \in Requests |-> "idle"]
  /\ status = [r \in Requests |-> 0]
  /\ sid = [r \in Requests |-> r]
  /\ copy = [r \in Requests |-> None]
  /\ account = [r \in Requests |-> None]
  /\ price = [r \in Requests |-> BasePrice]
  /\ draft = [r \in Requests |-> "final"]
  /\ got = [r \in Requests |-> None]
  /\ paid = {}
  /\ inForce = [r \in Requests |-> {}]
  /\ gone = [r \in Requests |-> {}]
  /\ stale = [r \in Requests |-> FALSE]
  /\ disturbed = {}
  /\ faults = 0

-----------------------------------------------------------------------------
(* What goes wrong.                                                        *)

Fault == faults < MaxFaults /\ faults' = faults + 1

Statements ==
  {"guard", "find", "create", "me", "verify", "update", "target", "cascade", "ensure",
   "upsert", "unset", "price", "balance", "debit", "commit", "queue", "settle", "reload",
   "load", "children"}

\* A statement fails, which undoes the transaction around it; no handler here catches.
StatementThrows(r) ==
  /\ pc[r] \in Statements
  /\ pc[r] = "guard" => copy[r] # None
  /\ pc[r] = "target" => call[r].target # copy[r]
  /\ Fault
  /\ Release(r)
  /\ Reply(r, 500)
  /\ UNCHANGED <<userVars, moneyVars, reportVars, sessionVars, loginVars, priceVars,
                 windowVars, call>>

\* The disk refuses the write, at once or after a part; what was opened stays open to readers.
WriteThrows(r) ==
  LET d == call[r].doc IN
  /\ pc[r] = "write"
  /\ Fault
  /\ \E file \in {files[d]} \cup Overwritten(r, d, "part") : files' = [files EXCEPT ![d] = file]
  /\ disturbed' = disturbed \cup {d}
  /\ Reply(r, 500)
  /\ UNCHANGED <<userVars, moneyVars, completed, draft, got, poolVars, sessionVars, loginVars,
                 priceVars, windowVars, call>>

\* The process dies: connections, transactions and requests with it.  The database and the
\* sessions are what they are; of the files, those in the middle of a write may have any part
\* of it.
Crash ==
  /\ \E r \in Requests : Handling(r)
  /\ Fault
  /\ pc' = [r \in Requests |-> IF Handling(r) THEN "answered" ELSE pc[r]]
  /\ busy' = {}
  /\ tx' = [r \in Requests |-> "none"]
  /\ holder' = [u \in Ids |-> None]
  /\ LET writers == {r \in Requests : pc[r] = "write"}
         cut == {call[r].doc : r \in writers}
     IN  /\ \E wrote \in SUBSET writers : \E kept \in SUBSET (UNION {files[d] : d \in cut}) :
              files' = [d \in Documents |->
                IF d \notin cut THEN files[d]
                ELSE (files[d] \cap kept)
                       \cup {<<r, "part">> : r \in {q \in wrote : call[q].doc = d}}]
         /\ disturbed' = disturbed \cup cut
  /\ UNCHANGED <<userVars, moneyVars, completed, draft, got, sessionVars, loginVars, priceVars,
                 windowVars, call, status>>

-----------------------------------------------------------------------------

Step(r) == AccountStep(r) \/ PurchaseStep(r) \/ ReportStep(r)

\* Nothing is left to do; written out so that any other standstill is a deadlock.
AllAnswered ==
  /\ \A r \in Requests : pc[r] = "answered"
  /\ UNCHANGED vars

Next ==
  \/ \E r \in Requests :
       Arrive(r) \/ Step(r) \/ Timeout(r) \/ StatementThrows(r) \/ WriteThrows(r)
  \/ Crash
  \/ AllAnswered

Spec == Init /\ [][Next]_vars

(* The event loop runs every callback whose promise has settled, and       *)
(* Prisma's timers fire; requests come when they like.                     *)
Fairness == \A r \in Requests : WF_vars(Step(r)) /\ WF_vars(Timeout(r))

FairSpec == Spec /\ Fairness

-----------------------------------------------------------------------------

\* Whatever the requests do to each other, whatever times out, fails or is deleted
\* meanwhile: a user who exists has paid exactly for the checks and batches that exist
\* (createCheck and BatchService.create debit and insert in one transaction).
PaidIsStored ==
  \A u \in exists :
    balance[u] + spent[u] = IF u \in Accounts THEN OpeningBalance ELSE 0

\* The answer tells whether the purchase was made.  Two answers do not: none at all, and
\* the 500 of a batch that cannot be queued after its commit.  (Redis does not fail here: a
\* check that cannot be queued is paid back, see CheckLifecycle.)
AnswersTellPurchases ==
  \A r \in Requests :
    /\ Buying(r) /\ status[r] = 200 => r \in paid
    /\ r \in paid => \/ status[r] \in {0, 200}
                     \/ status[r] = 500 /\ call[r].op = "buyBatch"

\* Nobody pays a price that was not his while the request ran, although createCheck and
\* BatchService.create read it long before they debit it.
PriceWasInForce ==
  \A r \in Requests : pc[r] \in CallbackPlaces => price[r] \in inForce[r]

\* Connections and row locks are held by requests in the middle of a statement or an open
\* transaction only, a row lock by the one that is to commit: what is answered, refused,
\* expired or failed holds nothing.
EverythingIsGivenBack ==
  /\ Cardinality(busy) <= PoolSize
  /\ busy = {r \in Requests : tx[r] = "open" \/ pc[r] \in {"update", "cascade"}}
  /\ \A r \in Requests : tx[r] = "open" => pc[r] \in {"price"} \cup CallbackPlaces
  /\ \A u \in Ids : holder[u] # None =>
       /\ pc[holder[u]] = "commit" /\ tx[holder[u]] = "open" /\ copy[holder[u]] = u

\* Behind the guards is nobody but users who exist or were deleted while the request ran,
\* in administrators' handlers nobody but administrators.  (A session outlives its user.)
InsideIsKnown ==
  \A r \in Requests :
    Guarded(r) /\ pc[r] \notin {"idle", "guard", "leave", "answered"} =>
      /\ copy[r] \in exists \cup gone[r]
      /\ call[r].op \in AdminOps => copy[r] \in Admins

\* Two registrations may both find an email free; one of them gets it.
OneAccountPerEmail ==
  \A u, v \in exists : email[u] = email[v] => u = v

\* Of a user who was deleted no personal price is left and no check or batch, also when
\* setPersonal or a purchase had found him before.
NothingIsLeftBehind ==
  \A u \in Ids \ exists : personal[u] = None /\ spent[u] = 0

\* A session changes hands, or comes back after a logout, by the saveSession of a login or a
\* registration under its id, or by the end of a request that loaded it before it changed.
SessionsFollowLogins ==
  [][\A s \in Sids : sessions'[s] \notin {sessions[s], None} =>
       \E r \in Requests : sid[r] = s /\ (pc[r] = "session" \/ stale[r])]_vars

\* What a download is given, at the moment it reads the file.  Nobody is ever given a report
\* of a batch that was not completed, and an empty one only if the owner is deleted.  Nobody
\* is given less than a whole report by one writer, if nobody writes the file and its last
\* writer was alone and came to his end: what an earlier one left is gone.  Otherwise, as
\* completedAt is set before the report is written and nobody locks a file, a download may
\* get part of a report, or two mixed, although API_REQUESTS.md:316-317 promises the report.
DownloadsInPeaceAreWhole ==
  [][\A q \in Requests : got'[q] # got[q] =>
       LET d == call[q].doc IN
       /\ \A piece \in got'[q] : piece[2] # "early" /\ (piece[2] = "empty" => ~DocumentRow(d))
       /\ DocumentRow(d) /\ d \notin disturbed /\ ~(\E r \in Requests : Writing(r, d)) =>
            \E r \in Requests : got'[q] = {<<r, "final">>}]_vars

\* Every request is answered: those that wait for connections held by others that wait
\* for connections too are released by the transactions' timeouts.
EveryRequestAnswered == []<>(\A r \in Requests : ~Handling(r))

-----------------------------------------------------------------------------

\* The promise of Shop: a registration is one Join, a commit one Buy, a deletion one
\* Depart, and nothing else touches accounts, balances or what they were spent on.
Costs == {p * c.rows : p \in Prices, c \in Calls}

Promise == INSTANCE Shop WITH People <- Ids, members <- exists

KeepsPromise == Promise!Spec

=============================================================================
