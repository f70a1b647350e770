-------------------------------- MODULE MCApi --------------------------------
(***************************************************************************)
(* Api for TLC: two administrators and a user with their browsers, three   *)
(* requests, and every kind of call, by those who may make it and by some  *)
(* who may not.                                                            *)
(***************************************************************************)
EXTENDS Api, Sequences, TLC

MCAccounts == {"root", "eve", "ann"}
MCAdmins == {"root", "eve"}
MCEmailOf == [u \in MCAccounts |-> u]
MCEmails == MCAccounts \cup {"bob"}
MCBrowsers == {"rootTab", "eveTab", "annTab"}
MCSessionOf == "rootTab" :> "root" @@ "eveTab" :> "eve" @@ "annTab" :> "ann"
MCRequests == {"r1", "r2", "r3"}
MCDocuments == {"check", "batch", "late"}
MCOwnerOf == [d \in MCDocuments |-> "ann"]

By(tab, op) ==
  [op |-> op, sid |-> tab, target |-> None, email |-> None, password |-> None, new |-> None,
   price |-> None, rows |-> 1, doc |-> None]

Buy == By("annTab", "buy")
Change(word) == [By("annTab", "changePassword") EXCEPT !.password = word, !.new = "new"]
OnAnn(op) == [By("rootTab", op) EXCEPT !.target = "ann"]
Delete(tab, user) == [By(tab, "deleteUser") EXCEPT !.target = user]
LogIn(tab, word) == [By(tab, "login") EXCEPT !.email = "ann", !.password = word]
SignUp(mail) == [By(None, "register") EXCEPT !.email = mail, !.new = "old"]
Download(tab, op, d) == [By(tab, op) EXCEPT !.doc = d]

\* Calls that meet in the user's money and in the pool,
Money ==
  <<Buy, [By("annTab", "buyBatch") EXCEPT !.rows = 2],
    [OnAnn("setPrice") EXCEPT !.price = 0], OnAnn("unsetPrice"), Delete("rootTab", "ann")>>

\* in the sessions,
Cookies ==
  <<LogIn("rootTab", "old"), By("rootTab", "logout"), By("rootTab", "me"),
    LogIn("annTab", "new"), Change("old")>>

\* in the table users,
People ==
  <<SignUp("bob"), SignUp("ann"), LogIn(None, "old"),
    Delete("rootTab", "ann"), Delete("rootTab", "eve"), Delete("eveTab", "root")>>

\* and in the files; two batches, of which one has lost its file.
Reports ==
  <<Download("annTab", "excel", "batch"), Download("annTab", "excel", "late"),
    Download("eveTab", "adminExcel", "batch"),
    Download(None, "complete", "batch"), Delete("rootTab", "ann")>>

\* What is refused, and what only reads.
Others ==
  <<By("annTab", "me"), Delete("rootTab", "root"),
    [By("annTab", "setPrice") EXCEPT !.target = "ann", !.price = 0],
    Download("annTab", "excel", "check"), Download("rootTab", "excel", "batch")>>

\* The requests are alike: one order of each three calls is enough.
Triples(calls) ==
  {"r1" :> calls[t[1]] @@ "r2" :> calls[t[2]] @@ "r3" :> calls[t[3]] :
     t \in {u \in (DOMAIN calls) \X (DOMAIN calls) \X (DOMAIN calls) :
             u[1] <= u[2] /\ u[2] <= u[3]}}

\* A request without a session, which comes to nothing.
Stranger == By(None, "buy")

All == Money \o Cookies \o People \o Reports \o Others

MCCalls == {Stranger} \cup {All[i] : i \in DOMAIN All}

ReportScenarios == Triples(Reports)

\* Three calls of one kind, or two of any.
MCScenarios ==
  Triples(Money) \cup Triples(Cookies) \cup Triples(People) \cup Triples(Reports)
  \cup {"r1" :> All[i] @@ "r2" :> All[j] @@ "r3" :> Stranger :
           <<i, j>> \in {t \in (DOMAIN All) \X (DOMAIN All) : t[1] <= t[2]}}

=============================================================================
