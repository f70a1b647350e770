-------------------------- MODULE BatchData_proofs --------------------------
(***************************************************************************)
(* What becomes of a file, for every file, every provider's answers and    *)
(* any number of rows and checks.                                          *)
(***************************************************************************)
EXTENDS BatchData, ReportTables_proofs

\* A check is the one of an item.
IsCheckOf(check, item) ==
  /\ check = [sourceRow |-> check.sourceRow, stored |-> check.stored, text |-> check.text,
              status |-> check.status, result |-> check.result]
  /\ check.sourceRow = item.sourceRow /\ check.stored = Stored(item)

\* A result that is stored is what the mapper made of an answer of the module's provider.
IsAnswered(check, answer) ==
  check.status = "DONE" =>
    IsAnswer(module, answer) /\ check.result = MapResult(module, answer)

\* The checks whose reports are merged when the loop of generateBatch has come to n, and
\* their reports.
DoneBelow(n) == {k \in DOMAIN checks : k < n /\ checks[k].status = "DONE"}
DoneChecks == {k \in DOMAIN checks : checks[k].status = "DONE"}
Reports(M) == [k \in M |-> Render(module, checks[k].result)]

\* The items are those of the rows that were parsed, the file is read to its end before
\* anything is stored.
ImportInv ==
  /\ upload \in Uploads /\ phase \in Phases
  /\ row \in 1..(Len(file.rows) + 1)
  /\ Imported(items, module, file, row)
  /\ phase \notin {"parse", "refused"} => row = Len(file.rows) + 1 /\ items # <<>>

\* Every item has its check, at its place.
ChecksInv ==
  /\ IsSequence(checks) /\ IsSequence(answers) /\ Len(answers) = Len(checks)
  /\ next \in 1..(Len(checks) + 1)
  /\ phase \in {"parse", "refused"} => checks = <<>> /\ next = 1
  /\ phase \notin {"parse", "refused"} => DOMAIN checks = DOMAIN items
  /\ \A k \in DOMAIN checks :
       k \in DOMAIN items /\ IsCheckOf(checks[k], items[k]) /\ IsAnswered(checks[k], answers[k])

\* The checks settle one after the other; a report is made when all have.
StatusInv ==
  \A k \in DOMAIN checks :
    /\ checks[k].status \in {"PENDING", "DONE", "FAILED"}
    /\ phase # "settle" \/ k < next => checks[k].status \in {"DONE", "FAILED"}

\* The workbook has what the checks so far have brought.
WorkbookInv ==
  /\ phase \in {"parse", "refused", "settle"} => workbook = NoSheets
  /\ phase = "merge" =>
       Merged(workbook, module, checks, DoneBelow(next), Reports(DoneBelow(next)))
  /\ phase = "written" =>
       /\ DOMAIN workbook = IF DoneChecks = {} THEN {"results"} ELSE SheetNames(module)
       /\ \A name \in DOMAIN workbook :
            Holds(workbook[name], name, checks, DOMAIN checks, Reports(DoneChecks))

\* The inductive invariant.
Inv == ImportInv /\ ChecksInv /\ StatusInv /\ WorkbookInv

-----------------------------------------------------------------------------
(* The invariant is inductive.                                             *)

\* What an upload is.
LEMMA UploadType ==
  ASSUME upload \in Uploads
  PROVE  /\ module \in CheckModules /\ file \in SheetFiles
         /\ Len(file.rows) \in Nat /\ DOMAIN file.rows = 1..Len(file.rows)
<1>1. upload \in [module : CheckModules, file : SheetFiles]
  BY UploadsAssumption
<1>2. module \in CheckModules /\ file \in SheetFiles
  BY <1>1 DEF module, file
<1>3. file.rows \in Seq(Seq(Cells))
  BY <1>2 DEF SheetFiles
<1>. QED BY <1>2, <1>3

\* What an answer is.
LEMMA AnswerType ==
  ASSUME upload \in Uploads, NEW answer \in Answers[module]
  PROVE  IsAnswer(module, answer)
<1>1. module \in CheckModules
  BY UploadType
<1>2. /\ IsObject(answer.summary)
      /\ \A list \in ListsOf(module) :
           LET objects == answer.lists[list]
           IN  objects \in Seq(ToSet(objects)) /\ \A k \in DOMAIN objects : IsObject(objects[k])
  BY <1>1, AnswersAssumption
<1>. QED BY <1>2 DEF IsAnswer, IsSequence

\* Nothing is there at first.
LEMMA InitInv == Init => Inv
<1>. SUFFICES ASSUME Init PROVE Inv
  OBVIOUS
<1>. USE DEF Init
<1>1. Len(file.rows) \in Nat
  BY UploadType
<1>2. IsSequence(<<>>) /\ DOMAIN <<>> = {} /\ Len(<<>>) = 0
  BY DEF IsSequence
<1>3. ImportInv
  BY <1>1, ImportStart DEF ImportInv, Phases
<1>4. ChecksInv
  BY <1>2 DEF ChecksInv
<1>5. StatusInv
  BY <1>2 DEF StatusInv
<1>6. WorkbookInv
  BY DEF WorkbookInv
<1>. QED BY <1>3, <1>4, <1>5, <1>6 DEF Inv

\* A row is parsed.
LEMMA ParseRowInv == Inv /\ ParseRow => Inv'
<1>. SUFFICES ASSUME Inv, ParseRow PROVE Inv'
  OBVIOUS
<1>. USE DEF Inv
<1>1. /\ phase = "parse" /\ row \in DOMAIN file.rows /\ ~RowThrows(module, file, row)
      /\ row' = row + 1
      /\ UNCHANGED <<upload, phase, checks, next, answers, workbook>>
  BY DEF ParseRow
<1>2. module' = module /\ file' = file
  BY <1>1 DEF module, file
<1>. DEFINE found == RowItems(module, file, row)
            new == [k \in DOMAIN found |->
                      [sourceRow |-> row + 1, type |-> found[k].type, body |-> found[k].body]]
<1>3. items' = items \o new
  BY DEF ParseRow
<1>4. /\ module \in CheckModules /\ file \in SheetFiles
      /\ Len(file.rows) \in Nat /\ DOMAIN file.rows = 1..Len(file.rows)
  BY UploadType DEF ImportInv
<1>5. row \in Nat \ {0} /\ row + 1 \in 1..(Len(file.rows) + 1)
  BY <1>1, <1>4
<1>6. Imported(items \o new, module, file, row + 1)
  BY <1>1, <1>4, <1>5, ImportRow DEF ImportInv
<1>. HIDE DEF found, new
<1>7. ImportInv'
  BY <1>1, <1>2, <1>3, <1>5, <1>6 DEF ImportInv
<1>8. ChecksInv' /\ StatusInv'
  <2>1. checks = <<>> /\ next = 1
    BY <1>1 DEF ChecksInv
  <2>2. DOMAIN checks = {} /\ DOMAIN checks' = {}
    BY <1>1, <2>1
  <2>. QED BY <1>1, <2>1, <2>2 DEF ChecksInv, StatusInv
<1>9. WorkbookInv'
  BY <1>1 DEF WorkbookInv
<1>. QED BY <1>7, <1>8, <1>9

\* The file is refused.
LEMMA RefuseInv == Inv /\ Refuse => Inv'
<1>. SUFFICES ASSUME Inv, Refuse PROVE Inv'
  OBVIOUS
<1>. USE DEF Inv
<1>1. /\ phase = "parse" /\ phase' = "refused"
      /\ UNCHANGED <<upload, items, row, checks, next, answers, workbook>>
  BY DEF Refuse
<1>2. module' = module /\ file' = file
  BY <1>1 DEF module, file
<1>3. ImportInv'
  BY <1>1, <1>2 DEF ImportInv, Phases
<1>4. ChecksInv' /\ StatusInv'
  <2>1. checks = <<>> /\ next = 1
    BY <1>1 DEF ChecksInv
  <2>2. DOMAIN checks = {} /\ DOMAIN checks' = {}
    BY <1>1, <2>1
  <2>. QED BY <1>1, <2>1, <2>2 DEF ChecksInv, StatusInv
<1>5. WorkbookInv'
  BY <1>1 DEF WorkbookInv
<1>. QED BY <1>3, <1>4, <1>5

\* The checks are stored.
LEMMA CreateInv == Inv /\ Create => Inv'
<1>. SUFFICES ASSUME Inv, Create PROVE Inv'
  OBVIOUS
<1>. USE DEF Inv
<1>1. /\ phase = "parse" /\ row \notin DOMAIN file.rows /\ items # <<>> /\ phase' = "settle"
      /\ checks' = [k \in DOMAIN items |-> CheckOf(items[k])]
      /\ answers' = [k \in DOMAIN items |-> NoResult]
      /\ UNCHANGED <<upload, items, row, next, workbook>>
  BY DEF Create
<1>2. module' = module /\ file' = file
  BY <1>1 DEF module, file
<1>3. Len(file.rows) \in Nat /\ DOMAIN file.rows = 1..Len(file.rows)
  BY UploadType DEF ImportInv
<1>4. row = Len(file.rows) + 1
  BY <1>1, <1>3 DEF ImportInv
<1>5. ImportInv'
  BY <1>1, <1>2, <1>4 DEF ImportInv, Phases
<1>. DEFINE n == Len(items)
<1>6. n \in Nat /\ DOMAIN items = 1..n
  BY SequenceElim DEF ImportInv, Imported
<1>. HIDE DEF n
<1>7. /\ IsSequence(checks') /\ Len(checks') = n /\ DOMAIN checks' = 1..n
      /\ IsSequence(answers') /\ Len(answers') = n
  <2>1. checks' = [k \in 1..n |-> checks'[k]] /\ answers' = [k \in 1..n |-> answers'[k]]
    BY <1>1, <1>6
  <2>. QED BY <1>6, <2>1, SequenceIntro
<1>8. ASSUME NEW k \in 1..n
      PROVE  IsCheckOf(checks'[k], items[k]) /\ checks'[k].status = "PENDING"
  <2>. DEFINE check == CheckOf(items[k])
  <2>1. checks'[k] = check
    BY <1>1, <1>6
  <2>2. IsCheckOf(check, items[k]) /\ check.status = "PENDING"
    BY DEF CheckOf, IsCheckOf
  <2>. QED BY <2>1, <2>2
<1>9. ChecksInv'
  <2>1. next = 1 /\ next' = 1
    BY <1>1 DEF ChecksInv
  <2>2. 1 \in 1..(n + 1)
    BY <1>6
  <2>. QED BY <1>1, <1>2, <1>6, <1>7, <1>8, <2>1, <2>2 DEF ChecksInv, IsAnswered
<1>10. StatusInv'
  <2>1. next' = 1
    BY <1>1 DEF ChecksInv
  <2>2. \A k \in 1..n : ~ (k < 1)
    BY <1>6
  <2>. QED BY <1>1, <1>7, <1>8, <2>1, <2>2 DEF StatusInv
<1>11. WorkbookInv'
  BY <1>1 DEF WorkbookInv
<1>. QED BY <1>5, <1>9, <1>10, <1>11

\* A check that is settled: the others stay.
LEMMA SettleInv ==
  ASSUME Inv, phase = "settle", next \in DOMAIN checks, NEW status \in {"DONE", "FAILED"},
         NEW result, DOMAIN checks' = DOMAIN checks, IsSequence(checks'),
         checks'[next] = [checks[next] EXCEPT !.status = status, !.result = result],
         \A k \in DOMAIN checks : k # next => checks'[k] = checks[k],
         IsSequence(answers'), Len(answers') = Len(answers),
         \A k \in DOMAIN checks : k # next => answers'[k] = answers[k],
         status = "DONE" =>
           IsAnswer(module, answers'[next]) /\ result = MapResult(module, answers'[next]),
         next' = next + 1, UNCHANGED <<upload, phase, items, row, workbook>>
  PROVE  Inv'
<1>. USE DEF Inv
<1>1. module' = module /\ file' = file
  BY DEF module, file
<1>2. ImportInv'
  BY <1>1 DEF ImportInv
<1>3. /\ Len(checks) \in Nat /\ DOMAIN checks = 1..Len(checks)
      /\ Len(checks') \in Nat /\ DOMAIN checks' = 1..Len(checks')
  BY SequenceElim DEF ChecksInv
<1>4. Len(checks') = Len(checks)
  BY <1>3
<1>5. IsCheckOf(checks[next], items[next])
  BY DEF ChecksInv
<1>6. /\ IsCheckOf(checks'[next], items[next])
      /\ checks'[next].status = status /\ checks'[next].result = result
  <2>. DEFINE check == checks[next]
              new == checks'[next]
  <2>1. new = [check EXCEPT !.status = status, !.result = result]
    OBVIOUS
  <2>2. IsCheckOf(check, items[next])
    BY <1>5
  <2>. HIDE DEF check, new
  <2>3. /\ new = [sourceRow |-> check.sourceRow, stored |-> check.stored, text |-> check.text,
                  status |-> status, result |-> result]
    BY <2>1, <2>2 DEF IsCheckOf
  <2>. QED BY <2>2, <2>3 DEF IsCheckOf, check, new
<1>7. ChecksInv'
  <2>1. ASSUME NEW k \in DOMAIN checks
        PROVE  /\ k \in DOMAIN items /\ IsCheckOf(checks'[k], items[k])
               /\ checks'[k].status = "DONE" =>
                    /\ IsAnswer(module, answers'[k])
                    /\ checks'[k].result = MapResult(module, answers'[k])
    <3>1. /\ k \in DOMAIN items /\ IsCheckOf(checks[k], items[k])
          /\ IsAnswered(checks[k], answers[k])
      BY DEF ChecksInv
    <3>2. CASE k = next
      BY <1>6, <3>1, <3>2
    <3>3. CASE k # next
      BY <3>1, <3>3 DEF IsAnswered
    <3>. QED BY <3>2, <3>3
  <2>2. next' \in 1..(Len(checks') + 1)
    BY <1>3, <1>4
  <2>3. DOMAIN checks = DOMAIN items /\ Len(answers) = Len(checks)
    BY DEF ChecksInv
  <2>. QED BY <1>1, <1>4, <2>1, <2>2, <2>3 DEF ChecksInv, IsAnswered
<1>8. StatusInv'
  <2>. SUFFICES ASSUME NEW k \in DOMAIN checks
                PROVE  /\ checks'[k].status \in {"PENDING", "DONE", "FAILED"}
                       /\ k < next + 1 => checks'[k].status \in {"DONE", "FAILED"}
    BY DEF StatusInv
  <2>1. CASE k = next
    BY <1>6, <2>1
  <2>2. CASE k # next
    <3>1. k < next + 1 => k < next
      BY <1>3, <2>2
    <3>. QED BY <2>2, <3>1 DEF StatusInv
  <2>. QED BY <2>1, <2>2
<1>9. WorkbookInv'
  BY DEF WorkbookInv
<1>. QED BY <1>2, <1>7, <1>8, <1>9

\* A check fails.
LEMMA FailInv == Inv /\ Fail => Inv'
<1>. SUFFICES ASSUME Inv, Fail PROVE Inv'
  OBVIOUS
<1>1. /\ phase = "settle" /\ next \in DOMAIN checks
      /\ checks' = [checks EXCEPT ![next].status = "FAILED"]
      /\ next' = next + 1
      /\ UNCHANGED <<upload, phase, items, row, answers, workbook>>
  BY DEF Fail
<1>2. IsCheckOf(checks[next], items[next]) /\ IsSequence(checks) /\ IsSequence(answers)
  BY <1>1 DEF Inv, ChecksInv
<1>3. /\ DOMAIN checks' = DOMAIN checks
      /\ checks'[next] = [checks[next] EXCEPT !.status = "FAILED"]
      /\ \A k \in DOMAIN checks : k # next => checks'[k] = checks[k]
  BY <1>1
<1>4. checks'[next] = [checks[next] EXCEPT !.status = "FAILED", !.result = checks[next].result]
  <2>. DEFINE check == checks[next]
              new == checks'[next]
  <2>1. new = [check EXCEPT !.status = "FAILED"] /\ IsCheckOf(check, items[next])
    BY <1>2, <1>3
  <2>. HIDE DEF check, new
  <2>2. new = [check EXCEPT !.status = "FAILED", !.result = check.result]
    BY <2>1 DEF IsCheckOf
  <2>. QED BY <2>2 DEF check, new
<1>5. IsSequence(checks')
  <2>1. Len(checks) \in Nat /\ DOMAIN checks = 1..Len(checks)
    BY <1>2, SequenceElim
  <2>2. checks' = [k \in 1..Len(checks) |-> checks'[k]]
    BY <1>1, <2>1
  <2>. QED BY <2>1, <2>2, SequenceIntro
<1>. QED BY <1>1, <1>2, <1>3, <1>4, <1>5, SettleInv

\* A check is answered.
LEMMA FinishInv == Inv /\ Finish => Inv'
<1>. SUFFICES ASSUME Inv, Finish PROVE Inv'
  OBVIOUS
<1>1. /\ phase = "settle" /\ next \in DOMAIN checks
      /\ next' = next + 1
      /\ UNCHANGED <<upload, phase, items, row, workbook>>
  BY DEF Finish
<1>2. PICK answer \in Answers[module] :
        /\ checks' = [checks EXCEPT ![next].status = "DONE",
                                    ![next].result = MapResult(module, answer)]
        /\ answers' = [answers EXCEPT ![next] = answer]
  BY DEF Finish
<1>3. IsAnswer(module, answer)
  BY AnswerType DEF Inv, ImportInv
<1>4. /\ IsSequence(checks) /\ IsSequence(answers) /\ Len(answers) = Len(checks)
      /\ Len(checks) \in Nat /\ DOMAIN checks = 1..Len(checks) /\ DOMAIN answers = 1..Len(checks)
  BY SequenceElim DEF Inv, ChecksInv
<1>5. /\ DOMAIN checks' = DOMAIN checks
      /\ checks'[next] = [checks[next] EXCEPT !.status = "DONE",
                                              !.result = MapResult(module, answer)]
      /\ \A k \in DOMAIN checks : k # next => checks'[k] = checks[k]
  BY <1>1, <1>2
<1>6. answers'[next] = answer /\ \A k \in DOMAIN checks : k # next => answers'[k] = answers[k]
  BY <1>1, <1>2, <1>4
<1>7. IsSequence(checks') /\ IsSequence(answers') /\ Len(answers') = Len(answers)
  <2>1. /\ checks' = [k \in 1..Len(checks) |-> checks'[k]]
        /\ answers' = [k \in 1..Len(checks) |-> answers'[k]]
    BY <1>2, <1>4
  <2>. QED BY <1>4, <2>1, SequenceIntro
<1>. QED BY <1>1, <1>3, <1>4, <1>5, <1>6, <1>7, SettleInv

\* The loop over the checks begins with none.
LEMMA CompleteInv == Inv /\ Complete => Inv'
<1>. SUFFICES ASSUME Inv, Complete PROVE Inv'
  OBVIOUS
<1>. USE DEF Inv
<1>1. /\ phase = "settle" /\ next \notin DOMAIN checks /\ phase' = "merge" /\ next' = 1
      /\ UNCHANGED <<upload, items, row, checks, answers, workbook>>
  BY DEF Complete
<1>2. module' = module /\ file' = file
  BY <1>1 DEF module, file
<1>3. Len(checks) \in Nat /\ DOMAIN checks = 1..Len(checks)
  BY SequenceElim DEF ChecksInv
<1>4. ImportInv'
  BY <1>1, <1>2 DEF ImportInv, Phases
<1>5. ChecksInv'
  <2>1. 1 \in 1..(Len(checks) + 1)
    BY <1>3
  <2>. QED BY <1>1, <1>2, <2>1 DEF ChecksInv, IsAnswered
<1>6. \A k \in DOMAIN checks : k < next
  <2>1. next \in 1..(Len(checks) + 1)
    BY DEF ChecksInv
  <2>. QED BY <1>1, <1>3, <2>1
<1>7. StatusInv'
  BY <1>1, <1>6 DEF StatusInv
<1>8. WorkbookInv'
  <2>1. \A k \in DOMAIN checks : ~ (k < 1)
    BY <1>3
  <2>2. DoneBelow(next)' = {}
    BY <1>1, <2>1 DEF DoneBelow
  <2>3. workbook' = NoSheets
    BY <1>1 DEF WorkbookInv
  <2>4. DOMAIN workbook' = {}
    BY <2>3 DEF NoSheets
  <2>. QED BY <1>1, <2>2, <2>4 DEF WorkbookInv, Merged
<1>. QED BY <1>4, <1>5, <1>7, <1>8

\* A report is merged, or a failed check is passed over.
LEMMA MergeCheckInv == Inv /\ MergeCheck => Inv'
<1>. SUFFICES ASSUME Inv, MergeCheck PROVE Inv'
  OBVIOUS
<1>. USE DEF Inv
<1>. DEFINE M == DoneBelow(next)
            reports == Reports(M)
            check == checks[next]
<1>1. /\ phase = "merge" /\ next \in DOMAIN checks /\ next' = next + 1
      /\ UNCHANGED <<upload, phase, items, row, checks, answers>>
  BY DEF MergeCheck
<1>2. module' = module /\ file' = file
  BY <1>1 DEF module, file
<1>3. Len(checks) \in Nat /\ DOMAIN checks = 1..Len(checks)
  BY SequenceElim DEF ChecksInv
<1>4. ImportInv'
  BY <1>1, <1>2 DEF ImportInv
<1>5. ChecksInv'
  <2>1. next + 1 \in 1..(Len(checks) + 1)
    BY <1>1, <1>3
  <2>. QED BY <1>1, <1>2, <2>1 DEF ChecksInv, IsAnswered
<1>6. StatusInv'
  BY <1>1 DEF StatusInv
<1>7. Merged(workbook, module, checks, M, reports)
  BY <1>1 DEF WorkbookInv
<1>8. DoneBelow(next)' = {k \in DOMAIN checks : k < next + 1 /\ checks[k].status = "DONE"}
  BY <1>1 DEF DoneBelow
<1>9. \A k \in DOMAIN checks : k < next + 1 <=> k < next \/ k = next
  BY <1>1, <1>3
<1>10. CASE check.status = "FAILED"
  <2>1. workbook' = workbook
    BY <1>10 DEF MergeCheck
  <2>2. check.status # "DONE"
    BY <1>10
  <2>3. DoneBelow(next)' = M
    BY <1>8, <1>9, <2>2 DEF DoneBelow
  <2>4. Reports(DoneBelow(next))' = reports
    BY <1>1, <1>2, <2>3 DEF Reports
  <2>. HIDE DEF M, reports
  <2>5. WorkbookInv'
    BY <1>1, <1>2, <1>7, <2>1, <2>3, <2>4 DEF WorkbookInv
  <2>. QED BY <1>4, <1>5, <1>6, <2>5
<1>11. CASE check.status # "FAILED"
  <2>. DEFINE more == Reports(M \cup {next})
              sheets == Render(module, check.result)
  <2>1. workbook' = AppendCheckRows(workbook, sheets, check)
    BY <1>11 DEF MergeCheck
  <2>2. check.status = "DONE"
    BY <1>1, <1>11 DEF StatusInv
  <2>3. DoneBelow(next)' = M \cup {next}
    BY <1>1, <1>8, <1>9, <2>2 DEF DoneBelow
  <2>4. Reports(DoneBelow(next))' = more
    BY <1>1, <1>2, <2>3 DEF Reports
  <2>5. next \notin M
    BY <1>1, <1>3 DEF DoneBelow
  <2>6. /\ DOMAIN reports = M /\ DOMAIN more = M \cup {next}
        /\ \A j \in M : more[j] = reports[j]
        /\ more[next] = sheets
    BY DEF Reports
  <2>7. IsReport(module, sheets)
    <3>1. IsAnswer(module, answers[next]) /\ check.result = MapResult(module, answers[next])
      BY <1>1, <2>2 DEF ChecksInv, IsAnswered
    <3>2. module \in CheckModules
      BY UploadType DEF ImportInv
    <3>. QED BY <3>1, <3>2, RenderProperties
  <2>. HIDE DEF M, reports, more, sheets
  <2>8. Merged(AppendCheckRows(workbook, more[next], checks[next]), module, checks,
               M \cup {next}, more)
    BY <1>7, <2>5, <2>6, <2>7, AppendCheckRowsProperties
  <2>9. Merged(workbook', module, checks, M \cup {next}, more)
    BY <2>1, <2>6, <2>8
  <2>10. WorkbookInv'
    BY <1>1, <1>2, <2>3, <2>4, <2>9 DEF WorkbookInv
  <2>. QED BY <1>4, <1>5, <1>6, <2>10
<1>. QED BY <1>10, <1>11

\* The failed checks are written last.
LEMMA WriteBatchInv == Inv /\ WriteBatch => Inv'
<1>. SUFFICES ASSUME Inv, WriteBatch PROVE Inv'
  OBVIOUS
<1>. USE DEF Inv
<1>. DEFINE M == DoneBelow(next)
            F == {k \in DOMAIN checks : checks[k].status = "FAILED"}
            n == Len(checks)
            reports == Reports(M)
<1>1. /\ phase = "merge" /\ next \notin DOMAIN checks /\ phase' = "written"
      /\ workbook' = AppendFailedRows(workbook, KeepAt(checks, F))
      /\ UNCHANGED <<upload, items, row, checks, next, answers>>
  BY DEF WriteBatch
<1>2. module' = module /\ file' = file
  BY <1>1 DEF module, file
<1>3. n \in Nat /\ DOMAIN checks = 1..n /\ next \in 1..(n + 1)
  BY SequenceElim DEF ChecksInv
<1>4. ImportInv'
  BY <1>1, <1>2 DEF ImportInv, Phases
<1>5. ChecksInv'
  BY <1>1, <1>2 DEF ChecksInv, IsAnswered
<1>6. StatusInv'
  BY <1>1 DEF StatusInv
<1>7. n # 0
  <2>1. items # <<>> /\ DOMAIN items = 1..n /\ IsSequence(items)
    BY <1>1, <1>3 DEF ImportInv, ChecksInv, Imported
  <2>2. Len(items) = n
    BY <1>3, <2>1, SequenceElim
  <2>. HIDE DEF n
  <2>. QED BY <2>1, <2>2 DEF IsSequence
<1>8. \A k \in DOMAIN checks : k < next
  BY <1>1, <1>3
<1>9. M = DoneChecks
  BY <1>8 DEF DoneBelow, DoneChecks
<1>10. \A k \in DOMAIN checks : checks[k].status \in {"DONE", "FAILED"}
  BY <1>1 DEF StatusInv
<1>11. M \cap F = {} /\ M \cup F = 1..n /\ F \in SUBSET (1..n)
  BY <1>3, <1>9, <1>10 DEF DoneChecks
<1>12. DOMAIN reports = M
  BY DEF Reports
<1>13. Merged(workbook, module, checks, M, reports)
  BY <1>1 DEF WorkbookInv
<1>14. \A k \in F : checks[k].status = "FAILED"
  OBVIOUS
<1>15. n \in Nat \ {0}
  BY <1>3, <1>7
<1>. HIDE DEF M, F, n, reports
<1>16. Completed(AppendFailedRows(workbook, KeepAt(checks, F)), module, checks, M, reports)
  BY <1>3, <1>11, <1>12, <1>13, <1>14, <1>15, AppendFailedRowsProperties
<1>17. DoneChecks' = M /\ Reports(DoneChecks)' = reports
  BY <1>1, <1>2, <1>9 DEF DoneChecks, Reports, reports
<1>18. WorkbookInv'
  BY <1>1, <1>2, <1>16, <1>17 DEF WorkbookInv, Completed
<1>. QED BY <1>4, <1>5, <1>6, <1>18

\* Steps that change nothing.
LEMMA StutterInv == Inv /\ UNCHANGED vars => Inv'
<1>. SUFFICES ASSUME Inv, UNCHANGED vars PROVE Inv'
  OBVIOUS
<1>1. UNCHANGED <<upload, phase, items, row, checks, next, answers, workbook>>
  BY DEF vars
<1>. QED BY <1>1 DEF Inv, ImportInv, ChecksInv, StatusInv, WorkbookInv, module, file, IsAnswered,
                     DoneBelow, DoneChecks, Reports

\* The invariant holds in every state.
LEMMA Invariance == Spec => []Inv
<1>1. Inv /\ [Next]_vars => Inv'
  BY ParseRowInv, RefuseInv, CreateInv, FailInv, FinishInv, CompleteInv, MergeCheckInv,
     WriteBatchInv, StutterInv DEF Next, Rest
<1>. QED BY <1>1, InitInv, PTL DEF Spec

-----------------------------------------------------------------------------
(* The import.                                                             *)

\* Every variable has its type: the items are from rows of the file, the checks have the
\* statuses of a check, the workbook has the sheets of the modules or the one of a batch that
\* failed.
THEOREM TypeCorrect == Spec => []TypeOK
<1>1. Inv => TypeOK
  <2>. SUFFICES ASSUME Inv PROVE TypeOK
    OBVIOUS
  <2>. USE DEF Inv
  <2>1. \A k \in DOMAIN items : items[k].sourceRow \in 1..(Len(file.rows) + 1)
    <3>1. Len(file.rows) \in Nat /\ row \in 1..(Len(file.rows) + 1)
      BY UploadType DEF ImportInv
    <3>2. \A k \in DOMAIN items : items[k].sourceRow \in 2..row
      BY DEF ImportInv, Imported
    <3>. QED BY <3>1, <3>2
  <2>2. \A k \in DOMAIN checks : checks[k].status \in {"PENDING", "DONE", "FAILED"}
    BY DEF StatusInv
  <2>3. DOMAIN workbook \subseteq {"summary", "fines", "accidents", "results"} \cup CheckModules
    <3>1. SheetNames(module) \subseteq {"summary", "fines", "accidents"} \cup CheckModules
      <4>1. module \in CheckModules
        BY UploadType DEF ImportInv
      <4>. QED BY <4>1 DEF SheetNames
    <3>2. \/ workbook = NoSheets
          \/ DOMAIN workbook = {} \/ DOMAIN workbook = {"results"}
          \/ DOMAIN workbook = SheetNames(module)
      BY DEF WorkbookInv, ImportInv, Phases, Merged
    <3>3. DOMAIN NoSheets = {}
      BY DEF NoSheets
    <3>. QED BY <3>1, <3>2, <3>3
  <2>. QED BY <2>1, <2>2, <2>3 DEF TypeOK, ImportInv, ChecksInv
<1>. QED BY <1>1, Invariance, PTL

\* A date of birth that is stored is a day of the calendar: the one a text in the documented
\* form says, and of any other cell the day that ExcelJS or JavaScript reads in it.
THEOREM BirthDays == Spec => []BirthDaysAreTheCells
<1>1. Inv => BirthDaysAreTheCells
  <2>. SUFFICES ASSUME Inv, NEW k \in DOMAIN items, "dob" \in DOMAIN items[k].body
                PROVE  LET dob == items[k].body.dob
                       IN  IsCalendarDay(dob) /\ ShowsDay(BirthDayCell(k), dob)
    BY DEF BirthDaysAreTheCells
  <2>. DEFINE r == items[k].sourceRow - 1
              cell == file.rows[r][ColumnOf(file, "DOB")]
              dob == items[k].body.dob
  <2>1. items[k].sourceRow \in 2..row /\ HasDayOf(items[k].body, file, r)
    BY DEF Inv, ImportInv, Imported
  <2>2. dob = NormalizeDate(cell) /\ dob # NoDate /\ "DOB" \in Headers(file)
    BY <2>1 DEF HasDayOf
  <2>3. /\ file \in SheetFiles /\ Len(file.rows) \in Nat /\ DOMAIN file.rows = 1..Len(file.rows)
        /\ row \in 1..(Len(file.rows) + 1)
    BY UploadType DEF Inv, ImportInv
  <2>4. r \in DOMAIN file.rows
    BY <2>1, <2>3
  <2>. HIDE DEF r
  <2>5. cell \in Cells
    BY <2>2, <2>3, <2>4, CellProperties
  <2>. HIDE DEF cell, dob
  <2>6. IsCalendarDay(dob) /\ ShowsDay(cell, dob)
    BY <2>2, <2>5, NormalizeDateProperties
  <2>. QED BY <2>6 DEF cell, dob, r, BirthDayCell
<1>. QED BY <1>1, Invariance, PTL

\* What is asked of the provider is the item, without the type that was stored with it.
THEOREM RequestsCarry == Spec => []RequestsCarryTheItems
<1>1. Inv => RequestsCarryTheItems
  <2>. SUFFICES ASSUME Inv, NEW k \in DOMAIN checks
                PROVE  CarriesTheItem(module, Request(module, checks[k].stored), items[k].body)
    BY Zenon DEF RequestsCarryTheItems, CarriesTheItem
  <2>1. k \in DOMAIN items /\ checks[k].stored = Stored(items[k])
    BY DEF Inv, ChecksInv, IsCheckOf
  <2>2. IsItem(module, items[k])
    BY <2>1 DEF Inv, ImportInv, Imported
  <2>. QED BY <2>1, <2>2, RequestProperties
<1>. QED BY <1>1, Invariance, PTL

\* A file that is not refused gives one check for every filled cell of the columns that
\* matter, in the order of its rows.
THEOREM CellsBecomeChecks == Spec => []EveryCellBecomesACheck
<1>1. Inv => EveryCellBecomesACheck
  <2>. SUFFICES ASSUME Inv, phase \notin {"parse", "refused"}
                PROVE  EveryCellBecomesACheck
    BY DEF EveryCellBecomesACheck
  <2>. DEFINE filled == {cell \in (DOMAIN file.rows) \X SubjectHeaders(module) :
                           CellText(file, cell[1], cell[2]) # ""}
  <2>1. /\ file \in SheetFiles /\ Len(file.rows) \in Nat
        /\ DOMAIN file.rows = 1..Len(file.rows) /\ row = Len(file.rows) + 1
    BY UploadType DEF Inv, ImportInv
  <2>2. filled = FilledAbove(module, file, row)
    <3>1. row - 1 = Len(file.rows)
      BY <2>1
    <3>. QED BY <2>1, <3>1 DEF FilledAbove
  <2>. HIDE DEF filled
  <2>3. Imported(items, module, file, row)
    BY DEF Inv, ImportInv
  <2>4. /\ DOMAIN checks = DOMAIN items /\ IsSequence(checks)
        /\ \A k \in DOMAIN checks :
             checks[k].sourceRow = items[k].sourceRow /\ checks[k].stored = Stored(items[k])
    BY DEF Inv, ChecksInv, IsCheckOf
  <2>5. Len(checks) = Cardinality(filled)
    <3>1. IsSequence(items) /\ Len(items) = Cardinality(filled)
      BY <2>2, <2>3 DEF Imported
    <3>2. Len(items) = Len(checks)
      <4>1. /\ Len(items) \in Nat /\ DOMAIN items = 1..Len(items)
            /\ Len(checks) \in Nat /\ DOMAIN checks = 1..Len(checks)
        BY <2>4, <3>1, SequenceElim
      <4>. QED BY <2>4, <4>1
    <3>. QED BY <3>1, <3>2
  <2>6. ASSUME NEW cell \in filled
        PROVE  \E k \in DOMAIN checks :
                 /\ checks[k].sourceRow = cell[1] + 1
                 /\ FieldOf[cell[2]] \in DOMAIN checks[k].stored
                 /\ checks[k].stored[FieldOf[cell[2]]] \in
                      {CellText(file, cell[1], cell[2]), Upper(CellText(file, cell[1], cell[2]))}
    <3>1. PICK k \in DOMAIN items :
            items[k].sourceRow = cell[1] + 1 /\ Shows(items[k].body, file, cell[1], cell[2])
      BY <2>2, <2>3 DEF Imported
    <3>2. Shows(Stored(items[k]), file, cell[1], cell[2])
      BY <2>3, <3>1, StoredShows DEF Imported
    <3>3. Shows(checks[k].stored, file, cell[1], cell[2]) /\ checks[k].sourceRow = cell[1] + 1
      BY <2>4, <3>1, <3>2
    <3>. QED BY <2>4, <3>3 DEF Shows
  <2>7. \A j, k \in DOMAIN checks : j < k => checks[j].sourceRow <= checks[k].sourceRow
    BY <2>3, <2>4 DEF Imported
  <2>. QED BY <2>5, <2>6, <2>7, Zenon DEF EveryCellBecomesACheck, filled
<1>. QED BY <1>1, Invariance, PTL

-----------------------------------------------------------------------------
(* The report.                                                             *)

\* Checks that are on a sheet have rows of their own, with their text and status.
LEMMA PlacedChecks ==
  ASSUME NEW rows, IsSequence(rows), NEW M, NEW place, Placed(rows, checks, M, place),
         NEW text, NEW status,
         NEW R, R = {r \in DOMAIN rows : rows[r].subject = text /\ rows[r].status = status},
         NEW C, C = {k \in M : checks[k].text = text /\ checks[k].status = status}
  PROVE  Cardinality(R) >= Cardinality(C)
<1>. DEFINE into == [k \in C |-> place[k]]
<1>1. IsFiniteSet(R)
  <2>1. Len(rows) \in Nat /\ DOMAIN rows = 1..Len(rows)
    BY SequenceElim
  <2>2. IsFiniteSet(DOMAIN rows)
    BY <2>1, FS_Interval
  <2>3. R \subseteq DOMAIN rows
    OBVIOUS
  <2>. QED BY <2>2, <2>3, FS_Subset
<1>2. into \in [C -> R]
  BY DEF Placed, RowOf
<1>3. \A j, k \in C : into[j] = into[k] => j = k
  BY DEF Placed
<1>. HIDE DEF into
<1>4. into \in Injection(C, R)
  BY <1>2, <1>3 DEF Injection, IsInjective
<1>5. IsFiniteSet(C) /\ Cardinality(C) <= Cardinality(R)
  BY <1>1, <1>4, FS_Injection
<1>6. Cardinality(C) \in Nat /\ Cardinality(R) \in Nat
  BY <1>1, <1>5, FS_CardinalityType
<1>. QED BY <1>5, <1>6

\* Every check of the batch is on every sheet of the file, as often as the upload named its
\* subject: no merge loses a row, and the failed checks are added to all sheets.
THEOREM ChecksAreShown == Spec => []EveryCheckIsShown
<1>1. Inv => EveryCheckIsShown
  <2>. SUFFICES ASSUME Inv, phase = "written" PROVE EveryCheckIsShown
    BY DEF EveryCheckIsShown
  <2>1. /\ DOMAIN workbook = IF DoneChecks = {} THEN {"results"} ELSE SheetNames(module)
        /\ \A name \in DOMAIN workbook :
             Holds(workbook[name], name, checks, DOMAIN checks, Reports(DoneChecks))
    BY DEF Inv, WorkbookInv
  <2>2. workbook # NoSheets
    <3>1. DOMAIN workbook # {}
      BY <2>1 DEF SheetNames
    <3>. QED BY <3>1 DEF NoSheets
  <2>3. ASSUME NEW name \in DOMAIN workbook, NEW k \in DOMAIN checks
        PROVE  Cardinality(RowsWith(name, checks[k].text, checks[k].status)) >=
                 Cardinality({j \in DOMAIN checks : checks[j].text = checks[k].text /\
                                                    checks[j].status = checks[k].status})
    <3>1. PICK place : Placed(workbook[name].rows, checks, DOMAIN checks, place)
      BY <2>1 DEF Holds
    <3>2. IsSequence(workbook[name].rows)
      BY <2>1 DEF Holds
    <3>. DEFINE rows == workbook[name].rows
                text == checks[k].text
                status == checks[k].status
                R == RowsWith(name, text, status)
                C == {j \in DOMAIN checks : checks[j].text = text /\ checks[j].status = status}
    <3>3. R = {r \in DOMAIN rows : rows[r].subject = text /\ rows[r].status = status}
      BY DEF RowsWith
    <3>4. C = {j \in DOMAIN checks : checks[j].text = text /\ checks[j].status = status}
      OBVIOUS
    <3>5. IsSequence(rows) /\ Placed(rows, checks, DOMAIN checks, place)
      BY <3>1, <3>2
    <3>. HIDE DEF rows, text, status, R, C
    <3>6. Cardinality(R) >= Cardinality(C)
      BY <3>3, <3>4, <3>5, PlacedChecks
    <3>. QED BY <3>6 DEF R, C, text, status
  <2>. QED BY <2>2, <2>3, Zenon DEF EveryCheckIsShown
<1>. QED BY <1>1, Invariance, PTL

\* Whatever a provider said of a check stands in a row of this check under its label,
\* whichever columns the other checks have brought to the sheet.
THEOREM AnswersReach == Spec => []AnswersReachTheReport
<1>1. Inv => AnswersReachTheReport
  <2>. SUFFICES ASSUME Inv, phase = "written", NEW k \in DOMAIN checks,
                       checks[k].status = "DONE", ~Unparsed(module, answers[k]),
                       NEW shown \in ShownObjects(module, answers[k]), OwnTexts(shown[2]) # {}
                PROVE  LET sheet == workbook[shown[1]]
                       IN  \E r \in RowsWith(shown[1], checks[k].text, "DONE") :
                             \A field \in OwnTexts(shown[2]) :
                               \E c \in DOMAIN sheet.rows[r].cells :
                                 /\ sheet.header[c] = Label(field[2])
                                 /\ sheet.rows[r].cells[c] = shown[2][field]
    BY DEF AnswersReachTheReport
  <2>. DEFINE report == Render(module, checks[k].result)
              name == shown[1]
              sheet == workbook[name]
  <2>1. IsAnswer(module, answers[k]) /\ checks[k].result = MapResult(module, answers[k])
    BY DEF Inv, ChecksInv, IsAnswered
  <2>2. IsReport(module, report) /\ Says(module, report, answers[k])
    <3>1. module \in CheckModules
      BY UploadType DEF Inv, ImportInv
    <3>. QED BY <2>1, <3>1, RenderProperties
  <2>. HIDE DEF report
  <2>3. PICK i \in DOMAIN report : report[i].name = name /\
          \E s \in DOMAIN report[i].rows : ShowsObject(report[i], s, shown[2])
    BY <2>2 DEF Says
  <2>4. PICK s \in DOMAIN report[i].rows : ShowsObject(report[i], s, shown[2])
    BY <2>3
  <2>5. k \in DoneChecks
    BY DEF DoneChecks
  <2>6. Holds(sheet, name, checks, DOMAIN checks, Reports(DoneChecks))
    <3>1. name \in SheetNames(module)
      BY <2>2, <2>3 DEF IsReport
    <3>. QED BY <2>5, <3>1 DEF Inv, WorkbookInv
  <2>7. DOMAIN Reports(DoneChecks) = DoneChecks /\ Reports(DoneChecks)[k] = report
    BY <2>5 DEF Reports, report
  <2>8. ShowsReport(sheet, name, checks[k], report)
    BY <2>5, <2>6, <2>7 DEF Holds
  <2>. HIDE DEF name, sheet
  <2>9. PICK r \in DOMAIN sheet.rows :
          /\ RowOf(sheet.rows[r], checks[k])
          /\ ShowsRow(sheet.rows[r].cells, sheet.header, report[i], s)
    BY <2>3, <2>8, Zenon DEF ShowsReport
  <2>10. r \in RowsWith(name, checks[k].text, "DONE")
    BY <2>9 DEF RowOf, RowsWith, sheet
  <2>11. ASSUME NEW field \in OwnTexts(shown[2])
         PROVE  \E c \in DOMAIN sheet.rows[r].cells :
                  /\ sheet.header[c] = Label(field[2])
                  /\ sheet.rows[r].cells[c] = shown[2][field]
    <3>1. PICK c \in DOMAIN report[i].rows[s] :
            report[i].header[c] = Label(field[2]) /\ report[i].rows[s][c] = shown[2][field]
      BY <2>4 DEF ShowsObject
    <3>2. PICK t \in DOMAIN sheet.rows[r].cells :
            /\ sheet.header[t] = report[i].header[c]
            /\ sheet.rows[r].cells[t] = report[i].rows[s][c]
      BY <2>9 DEF ShowsRow
    <3>. QED BY <3>1, <3>2
  <2>. QED BY <2>10, <2>11 DEF sheet, name
<1>. QED BY <1>1, Invariance, PTL

\* No row shows a check what was answered to another, and every column of a sheet has a
\* header of its own, in every state of the merge.
THEOREM NothingMixedUp == Spec => []NothingIsMixedUp
<1>1. Inv => NothingIsMixedUp
  <2>. SUFFICES ASSUME Inv, NEW name \in DOMAIN workbook
                PROVE  LET sheet == workbook[name]
                       IN  /\ IsInjective(sheet.header)
                           /\ \A r \in DOMAIN sheet.rows :
                                \E k \in DOMAIN checks :
                                  /\ sheet.rows[r].subject = checks[k].text
                                  /\ sheet.rows[r].status = checks[k].status
                                  /\ \/ sheet.rows[r].cells = NoCells
                                     \/ \E source \in ToSet(Render(module, checks[k].result)) :
                                          /\ source.name = name
                                          /\ \E s \in DOMAIN source.rows :
                                               ShowsRow(sheet.rows[r].cells, sheet.header, source, s)
    BY Zenon DEF NothingIsMixedUp, ShowsRow
  <2>. DEFINE sheet == workbook[name]
  <2>1. \E M, D : M \subseteq DOMAIN checks /\ Holds(sheet, name, checks, M, Reports(D))
    <3>1. phase # "merge" => phase = "written"
      <4>1. DOMAIN NoSheets = {}
        BY DEF NoSheets
      <4>. QED BY <4>1 DEF Inv, ImportInv, WorkbookInv, Phases
    <3>2. CASE phase = "merge"
      <4>1. DoneBelow(next) \subseteq DOMAIN checks
        BY DEF DoneBelow
      <4>2. Holds(sheet, name, checks, DoneBelow(next), Reports(DoneBelow(next)))
        BY <3>2 DEF Inv, WorkbookInv, Merged
      <4>. HIDE DEF sheet
      <4>. QED BY <4>1, <4>2
    <3>3. CASE phase = "written"
      <4>1. Holds(sheet, name, checks, DOMAIN checks, Reports(DoneChecks))
        BY <3>3 DEF Inv, WorkbookInv
      <4>. HIDE DEF sheet
      <4>. QED BY <4>1
    <3>. QED BY <3>1, <3>2, <3>3
  <2>2. PICK M, D : M \subseteq DOMAIN checks /\ Holds(sheet, name, checks, M, Reports(D))
    BY <2>1
  <2>. HIDE DEF sheet
  <2>3. IsInjective(sheet.header)
    BY <2>2 DEF Holds, IsHeader
  <2>4. ASSUME NEW r \in DOMAIN sheet.rows
        PROVE  \E k \in DOMAIN checks :
                 /\ sheet.rows[r].subject = checks[k].text
                 /\ sheet.rows[r].status = checks[k].status
                 /\ \/ sheet.rows[r].cells = NoCells
                    \/ \E source \in ToSet(Render(module, checks[k].result)) :
                         /\ source.name = name
                         /\ \E s \in DOMAIN source.rows :
                              ShowsRow(sheet.rows[r].cells, sheet.header, source, s)
    <3>1. PICK k \in M : /\ RowOf(sheet.rows[r], checks[k])
                         /\ FromReport(sheet.rows[r], sheet.header, name, Reports(D), k)
      BY <2>2 DEF Holds
    <3>2. /\ k \in DOMAIN checks
          /\ sheet.rows[r].subject = checks[k].text /\ sheet.rows[r].status = checks[k].status
      BY <2>2, <3>1 DEF RowOf
    <3>3. CASE sheet.rows[r].cells = NoCells
      BY <3>2, <3>3
    <3>4. CASE sheet.rows[r].cells # NoCells
      <4>1. k \in D /\ Reports(D)[k] = Render(module, checks[k].result)
        BY <3>1, <3>4 DEF FromReport, Reports
      <4>. DEFINE report == Render(module, checks[k].result)
      <4>. HIDE DEF report
      <4>2. PICK i \in DOMAIN report : /\ report[i].name = name
                                      /\ \E s \in DOMAIN report[i].rows :
                                           ShowsRow(sheet.rows[r].cells, sheet.header, report[i], s)
        BY <3>1, <3>4, <4>1 DEF FromReport, report
      <4>3. report[i] \in ToSet(report)
        BY DEF ToSet
      <4>. QED BY <3>2, <4>2, <4>3 DEF report
    <3>. QED BY <3>3, <3>4
  <2>. QED BY <2>3, <2>4 DEF sheet
<1>. QED BY <1>1, Invariance, PTL

=============================================================================
