---------------------------- MODULE ReportFiles ----------------------------
(***************************************************************************)
(* The Excel files of ReportService (src/src/report/report.service.ts).    *)
(* The handler that completes a batch writes the batch's file; a download  *)
(* reads it, and writes it first when there is none.  The file of a single *)
(* check is only ever written by a download.                               *)
(*                                                                         *)
(* writeFile empties the file when it opens it and then writes it.  Nobody *)
(* locks a file, and nobody removes one.  No two workbooks have the same   *)
(* bytes: a file is a set of pieces, each with its writer.                 *)
(***************************************************************************)
EXTENDS Backend

\* What a report shows: the final statuses, others, or nothing; and a part of one.
Contents == {"final", "early", "empty"}
Pieces == Requests \X (Contents \cup {"part"})

ASSUME NoneIsNoFile == \A file \in SUBSET Pieces : file # None

Writing(r, d) == pc[r] = "write" /\ call[r].doc = d

\* The bytes of r over those that others have written since r opened the file: of these,
\* any may be left, a tail at least if theirs are more.
Overwritten(r, d, part) == {left \cup {<<r, part>>} : left \in SUBSET files[d]}

\* The row of the check or batch; it is deleted with its owner.
DocumentRow(d) == OwnerOf[d] \in exists

\* updateMany where completedAt is null, by the handler of the last child.
CompleteBatch(r) ==
  LET d == call[r].doc IN
  /\ Query(r, "settle")
  /\ \/ /\ DocumentRow(d) /\ d \notin completed
        /\ completed' = completed \cup {d}
        /\ Goto(r, "reload")
     \/ ~(DocumentRow(d) /\ d \notin completed) /\ Reply(r, 200) /\ UNCHANGED completed
  /\ UNCHANGED <<userVars, moneyVars, files, draft, got, disturbed, poolVars, sessionVars,
                 loginVars, priceVars, windowVars, fixedVars>>

\* findUniqueOrThrow
Reload(r) ==
  /\ Query(r, "reload")
  /\ \/ DocumentRow(call[r].doc) /\ Goto(r, "children")
     \/ ~DocumentRow(call[r].doc) /\ Reply(r, 500)
  /\ UNCHANGED <<userVars, moneyVars, reportVars, poolVars, sessionVars, loginVars, priceVars,
                 windowVars, fixedVars>>

\* The row a download may see: its user's own, or any for an administrator.
Visible(r) ==
  DocumentRow(call[r].doc) /\ (call[r].op = "excel" => OwnerOf[call[r].doc] = copy[r])

\* findUnique, then completedAt of a batch or DONE of a check.
Load(r) ==
  /\ Query(r, "load")
  /\ IF Visible(r) /\ call[r].doc \in completed THEN Goto(r, "read") ELSE Reply(r, 404)
  /\ UNCHANGED <<userVars, moneyVars, reportVars, poolVars, sessionVars, loginVars, priceVars,
                 windowVars, fixedVars>>

\* What readFile returns to a download.
Serve(r) == got' = [got EXCEPT ![r] = files[call[r].doc]] /\ Reply(r, 200)

\* readFile; only when it throws the file is generated.  That of a check is made from the
\* row of Load, that of a batch from a query to come.
ReadFile(r) ==
  LET d == call[r].doc IN
  /\ pc[r] = "read"
  /\ \/ files[d] # None /\ Serve(r) /\ UNCHANGED draft
     \/ files[d] = None /\ d \in Batches /\ Goto(r, "children") /\ UNCHANGED <<got, draft>>
     \/ /\ files[d] = None /\ d \notin Batches
        /\ draft' = [draft EXCEPT ![r] = "final"]
        /\ Goto(r, "open")
        /\ UNCHANGED got
  /\ UNCHANGED <<userVars, moneyVars, completed, files, disturbed, poolVars, sessionVars, loginVars,
                 priceVars, windowVars, fixedVars>>

\* generateBatch: findMany returns the children there are.
ReadChildren(r) ==
  LET d == call[r].doc IN
  /\ Query(r, "children")
  /\ draft' = [draft EXCEPT ![r] = IF ~DocumentRow(d) THEN "empty"
                                   ELSE IF d \in completed THEN "final" ELSE "early"]
  /\ Goto(r, "open")
  /\ UNCHANGED <<userVars, moneyVars, completed, files, got, disturbed, poolVars, sessionVars,
                 loginVars, priceVars, windowVars, fixedVars>>

\* Mutant: writeFile does not empty the file.
OpenFileKeeps(r) ==
  LET d == call[r].doc IN
  /\ pc[r] = "open"
  /\ files' = [files EXCEPT ![d] = IF @ = None THEN {} ELSE @]
  /\ disturbed' = IF \E q \in Requests : Writing(q, d) THEN disturbed \cup {d} ELSE disturbed \ {d}
  /\ Goto(r, "write")
  /\ UNCHANGED <<userVars, moneyVars, completed, draft, got, poolVars, sessionVars, loginVars,
                 priceVars, windowVars, fixedVars>>

\* writeFile opens the file and empties it, whoever is writing it,
OpenFile(r) ==
  LET d == call[r].doc IN
  /\ pc[r] = "open"
  /\ files' = [files EXCEPT ![d] = {}]
  /\ disturbed' = IF \E q \in Requests : Writing(q, d) THEN disturbed \cup {d} ELSE disturbed \ {d}
  /\ Goto(r, "write")
  /\ UNCHANGED <<userVars, moneyVars, completed, draft, got, poolVars, sessionVars, loginVars,
                 priceVars, windowVars, fixedVars>>

\* and writes from its beginning.
WriteFile(r) ==
  LET d == call[r].doc IN
  /\ pc[r] = "write"
  /\ \E file \in Overwritten(r, d, draft[r]) : files' = [files EXCEPT ![d] = file]
  /\ IF call[r].op = "complete" THEN Reply(r, 200) ELSE Goto(r, "again")
  /\ UNCHANGED <<userVars, moneyVars, completed, draft, got, disturbed, poolVars, sessionVars,
                 loginVars, priceVars, windowVars, fixedVars>>

\* The second readFile of a download.
ReadAgain(r) ==
  /\ pc[r] = "again"
  /\ Serve(r)
  /\ UNCHANGED <<userVars, moneyVars, completed, files, draft, disturbed, poolVars, sessionVars,
                 loginVars, priceVars, windowVars, fixedVars>>

ReportStep(r) ==
  \/ CompleteBatch(r) \/ Reload(r) \/ Load(r) \/ ReadFile(r) \/ ReadChildren(r)
  \/ OpenFile(r) \/ WriteFile(r) \/ ReadAgain(r)

=============================================================================
