------------------------------ MODULE Accounts ------------------------------
(***************************************************************************)
(* Sessions and guards (src/src/main.ts, src/src/auth) and the accounts    *)
(* (src/src/auth/auth.service.ts, src/src/user/user.service.ts).           *)
(*                                                                         *)
(* express-session loads the session when a request arrives and, being     *)
(* told to `resave', stores its copy again when the response ends, whatever *)
(* became of the stored one meanwhile.                                     *)
(***************************************************************************)
EXTENDS Backend

Guarded(r) == call[r].op \in AdminOps \cup UserOps

\* The first await of each handler.
Entry(op) ==
  CASE op = "buy"            -> "begin"
    [] op = "buyBatch"       -> "price"
    [] op = "setPrice"       -> "ensure"
    [] op = "unsetPrice"     -> "unset"
    [] op = "deleteUser"     -> "target"
    [] op = "changePassword" -> "verify"
    [] op = "me"             -> "me"
    [] op = "login"          -> "find"
    [] op = "register"       -> "find"
    [] op = "logout"         -> "destroy"
    [] op = "complete"       -> "settle"
    [] OTHER                 -> "load"

-----------------------------------------------------------------------------
(* The session middleware and the guards.                                  *)

Known(r) == call[r].sid # None /\ sessions[call[r].sid] # None

\* The middleware loads the session of the cookie, or makes an empty one under a new id.
Arrive(r) ==
  /\ pc[r] = "idle"
  /\ Goto(r, IF Guarded(r) THEN "guard" ELSE Entry(call[r].op))
  /\ \/ /\ Known(r)
        /\ sid' = [sid EXCEPT ![r] = call[r].sid]
        /\ copy' = [copy EXCEPT ![r] = sessions[call[r].sid]]
        /\ inForce' = [inForce EXCEPT ![r] =
             IF Buying(r) THEN {PriceOf(sessions[call[r].sid])} ELSE {}]
     \/ ~Known(r) /\ UNCHANGED <<sid, copy, inForce>>
  /\ UNCHANGED <<userVars, moneyVars, reportVars, poolVars, sessions, stale, loginVars,
                 priceVars, gone, fixedVars>>

\* A loaded session that the handler stored itself is not stored again.
Stored(r) == call[r].op \in {"login", "register"} /\ status[r] = 200 /\ sid[r] \in Browsers

\* The end of the response.
Leave(r) ==
  /\ pc[r] = "leave"
  /\ Goto(r, "answered")
  /\ \/ /\ copy[r] # None /\ ~Stored(r)
        /\ sessions' = [sessions EXCEPT ![sid[r]] = copy[r]]
        /\ NoteSession(r, sid[r], copy[r])
     \/ (copy[r] = None \/ Stored(r)) /\ UNCHANGED <<sessions, stale>>
  /\ UNCHANGED <<userVars, moneyVars, reportVars, poolVars, sid, copy, loginVars, priceVars,
                 windowVars, fixedVars>>

\* AuthGuard without a userId.
Unauthorized(r) ==
  /\ pc[r] = "guard" /\ copy[r] = None
  /\ Reply(r, 401)
  /\ UNCHANGED <<userVars, moneyVars, reportVars, poolVars, sessionVars, loginVars, priceVars,
                 windowVars, fixedVars>>

\* Mutant: the roles guard trusts session.role and nobody looks the user up.
AuthenticateBySession(r) ==
  /\ Query(r, "guard") /\ copy[r] # None
  /\ \/ call[r].op \in AdminOps /\ copy[r] \notin Admins /\ Reply(r, 403)
     \/ ~(call[r].op \in AdminOps /\ copy[r] \notin Admins) /\ Goto(r, Entry(call[r].op))
  /\ UNCHANGED <<userVars, moneyVars, reportVars, poolVars, sessionVars, loginVars, priceVars,
                 windowVars, fixedVars>>

\* AuthGuard's findById, and RolesGuard on the row it returned.
Authenticate(r) ==
  LET known == copy[r] \in exists
      allowed == call[r].op \in AdminOps => copy[r] \in Admins
  IN
  /\ Query(r, "guard") /\ copy[r] # None
  /\ \/ ~known /\ Reply(r, 404)
     \/ known /\ ~allowed /\ Reply(r, 403)
     \/ known /\ allowed /\ Goto(r, Entry(call[r].op))
  /\ UNCHANGED <<userVars, moneyVars, reportVars, poolVars, sessionVars, loginVars, priceVars,
                 windowVars, fixedVars>>

-----------------------------------------------------------------------------
(* login, register, logout.                                                *)

\* findByEmail for a login, with the password of the row it found.
FindLogin(r) ==
  /\ Query(r, "find") /\ call[r].op = "login"
  /\ \/ \E u \in exists :
          /\ email[u] = call[r].email /\ password[u] = call[r].password
          /\ account' = [account EXCEPT ![r] = u]
          /\ Goto(r, "session")
     \/ /\ ~\E u \in exists : email[u] = call[r].email /\ password[u] = call[r].password
        /\ Reply(r, 401)
        /\ UNCHANGED account
  /\ UNCHANGED <<userVars, moneyVars, reportVars, poolVars, sessionVars, priceVars,
                 windowVars, fixedVars>>

\* saveSession, of a login after argon2's verify and of a registration after its INSERT: from
\* now on the request's session is the user's.
SaveSession(r) ==
  /\ pc[r] = "session"
  /\ copy' = [copy EXCEPT ![r] = account[r]]
  /\ sessions' = [sessions EXCEPT ![sid[r]] = account[r]]
  /\ NoteSession(r, sid[r], account[r])
  /\ Reply(r, 200)
  /\ UNCHANGED <<userVars, moneyVars, reportVars, poolVars, sid, loginVars, priceVars,
                 windowVars, fixedVars>>

EmailTaken(r) == \E u \in exists : email[u] = call[r].email

\* findByEmail for a registration.
FindTaken(r) ==
  /\ Query(r, "find") /\ call[r].op = "register"
  /\ \/ EmailTaken(r) /\ Reply(r, 409)
     \/ ~EmailTaken(r) /\ Goto(r, "create")
  /\ UNCHANGED <<userVars, moneyVars, reportVars, poolVars, sessionVars, loginVars, priceVars,
                 windowVars, fixedVars>>

\* Mutant: users.email is not unique.
RegisterUnchecked(r) ==
  /\ Query(r, "create")
  /\ exists' = exists \cup {r}
  /\ email' = [email EXCEPT ![r] = call[r].email]
  /\ password' = [password EXCEPT ![r] = call[r].new]
  /\ account' = [account EXCEPT ![r] = r]
  /\ Goto(r, "session")
  /\ UNCHANGED <<moneyVars, reportVars, poolVars, sessionVars, priceVars, windowVars, fixedVars>>

\* After the password was hashed: the INSERT, which the unique index may refuse.
Register(r) ==
  /\ Query(r, "create")
  /\ \/ EmailTaken(r) /\ Reply(r, 500) /\ UNCHANGED <<userVars, loginVars>>
     \/ /\ ~EmailTaken(r)
        /\ exists' = exists \cup {r}
        /\ email' = [email EXCEPT ![r] = call[r].email]
        /\ password' = [password EXCEPT ![r] = call[r].new]
        /\ account' = [account EXCEPT ![r] = r]
        /\ Goto(r, "session")
  /\ UNCHANGED <<moneyVars, reportVars, poolVars, sessionVars, priceVars, windowVars, fixedVars>>

\* Mutant: the store forgets the session but the request keeps its copy.
LogoutKeepsCopy(r) ==
  /\ pc[r] = "destroy"
  /\ sessions' = [sessions EXCEPT ![sid[r]] = None]
  /\ NoteSession(r, sid[r], None)
  /\ Reply(r, 200)
  /\ UNCHANGED <<userVars, moneyVars, reportVars, poolVars, sid, copy, loginVars, priceVars,
                 windowVars, fixedVars>>

\* req.session.destroy: the request itself has no session to save any more.
Logout(r) ==
  /\ pc[r] = "destroy"
  /\ sessions' = [sessions EXCEPT ![sid[r]] = None]
  /\ copy' = [copy EXCEPT ![r] = None]
  /\ NoteSession(r, sid[r], None)
  /\ Reply(r, 200)
  /\ UNCHANGED <<userVars, moneyVars, reportVars, poolVars, sid, loginVars, priceVars,
                 windowVars, fixedVars>>

-----------------------------------------------------------------------------
(* getMe, changePassword.                                                  *)

Me(r) ==
  /\ Query(r, "me")
  /\ Reply(r, IF copy[r] \in exists THEN 200 ELSE 401)
  /\ UNCHANGED <<userVars, moneyVars, reportVars, poolVars, sessionVars, loginVars, priceVars,
                 windowVars, fixedVars>>

\* findById, and verify on the row it found.
VerifyPassword(r) ==
  LET known == copy[r] \in exists
      right == password[copy[r]] = call[r].password
  IN
  /\ Query(r, "verify")
  /\ \/ ~known /\ Reply(r, 404)
     \/ known /\ ~right /\ Reply(r, 401)
     \/ known /\ right /\ Goto(r, "rehash")
  /\ UNCHANGED <<userVars, moneyVars, reportVars, poolVars, sessionVars, loginVars, priceVars,
                 windowVars, fixedVars>>

\* The UPDATE is sent; it keeps its connection while it waits for the row lock.
SendPassword(r) ==
  /\ pc[r] = "rehash"
  /\ TakeConnection(r)
  /\ Goto(r, "update")
  /\ UNCHANGED <<userVars, moneyVars, reportVars, tx, holder, sessionVars, loginVars, priceVars,
                 windowVars, fixedVars>>

\* It gets the row, or finds that there is none any more.
SetPassword(r) ==
  /\ pc[r] = "update" /\ holder[copy[r]] = None
  /\ \/ /\ copy[r] \in exists
        /\ password' = [password EXCEPT ![copy[r]] = call[r].new]
        /\ Reply(r, 200)
     \/ copy[r] \notin exists /\ Reply(r, 500) /\ UNCHANGED password
  /\ Release(r)
  /\ UNCHANGED <<exists, email, moneyVars, reportVars, sessionVars, loginVars, priceVars,
                 windowVars, fixedVars>>

-----------------------------------------------------------------------------
(* deleteById.                                                             *)

\* Nobody deletes himself; else findById.
FindTarget(r) ==
  /\ pc[r] = "target"
  /\ \/ call[r].target = copy[r] /\ Reply(r, 403)
     \/ /\ call[r].target # copy[r] /\ Free
        /\ \/ call[r].target \notin exists /\ Reply(r, 404)
           \/ call[r].target \in exists /\ Goto(r, "delete")
  /\ UNCHANGED <<userVars, moneyVars, reportVars, poolVars, sessionVars, loginVars, priceVars,
                 windowVars, fixedVars>>

\* The transaction of the two DELETEs; the second waits for the lock of the user's row.
BeginDelete(r) ==
  /\ pc[r] = "delete"
  /\ TakeConnection(r)
  /\ Goto(r, "cascade")
  /\ UNCHANGED <<userVars, moneyVars, reportVars, tx, holder, sessionVars, loginVars, priceVars,
                 windowVars, fixedVars>>

\* Mutant: the personal prices do not follow the user.
CascadeNoPrices(u) == spent' = [spent EXCEPT ![u] = 0] /\ UNCHANGED personal

\* onDelete: Cascade.  Checks and batches are gone with their owner, here by DocumentRow
\* and `spent'; sessions and files are elsewhere and stay.
Cascade(u) ==
  /\ spent' = [spent EXCEPT ![u] = 0]
  /\ personal' = [personal EXCEPT ![u] = None]

\* The DELETE gets the row and commits, or finds that another administrator was faster.
DeleteUser(r) ==
  LET u == call[r].target IN
  /\ pc[r] = "cascade" /\ holder[u] = None
  /\ \/ /\ u \in exists
        /\ exists' = exists \ {u}
        /\ Cascade(u)
        /\ NotePrice(u, BasePrice) /\ NoteGone(u)
        /\ Reply(r, 200)
     \/ u \notin exists /\ Reply(r, 500) /\ UNCHANGED <<exists, spent, personal, windowVars>>
  /\ Release(r)
  /\ UNCHANGED <<email, password, balance, paid, reportVars, sessionVars, loginVars, priceVars,
                 fixedVars>>

AccountStep(r) ==
  \/ Leave(r) \/ Unauthorized(r) \/ Authenticate(r)
  \/ FindLogin(r) \/ FindTaken(r) \/ Register(r) \/ SaveSession(r) \/ Logout(r)
  \/ Me(r) \/ VerifyPassword(r) \/ SendPassword(r) \/ SetPassword(r)
  \/ FindTarget(r) \/ BeginDelete(r) \/ DeleteUser(r)

=============================================================================
