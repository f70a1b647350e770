------------------------------ MODULE BatchData ------------------------------
(***************************************************************************)
(* What becomes of a file: BatchService.create reads a spreadsheet and     *)
(* stores a check for every item, providers answer, and                    *)
(* ReportService.generateBatch writes what they answered into one file     *)
(* (src/src/batch/batch.service.ts, src/src/report/report.service.ts).     *)
(*                                                                         *)
(* Everything in here runs in one process's memory or inside one           *)
(* transaction; when and how often checks settle is the subject of         *)
(* CheckLifecycle and Batch.                                               *)
(***************************************************************************)
EXTENDS ReportTables

CONSTANTS Uploads,   \* the uploads: records of a module and a file
          Answers    \* the answers of a module's provider to a finished check

ASSUME UploadsAssumption == Uploads \subseteq [module : CheckModules, file : SheetFiles]

ASSUME AnswersAssumption ==
  \A m \in CheckModules : \A answer \in Answers[m] :
    /\ answer.input_key \in STRING /\ IsObject(answer.summary)
    /\ \A list \in ListsOf(m) :
         LET objects == answer.lists[list]
         IN  objects \in Seq(ToSet(objects)) /\ \A k \in DOMAIN objects : IsObject(objects[k])

VARIABLES
  upload,    \* the upload of this batch
  phase,     \* how far it came
  items,     \* readSpreadsheetItems: the items so far
  row,       \* and the row that is parsed next
  checks,    \* the rows of checks, in the order of batchPosition
  next,      \* the check that is settled or merged next
  answers,   \* history: what the provider answered
  workbook   \* generateBatch: the workbook so far

vars == <<upload, phase, items, row, checks, next, answers, workbook>>

Phases == {"parse", "refused", "settle", "merge", "written"}
NoResult == <<>>
NoSheets == [name \in {} |-> NewSheet]

module == upload.module
file == upload.file

TypeOK ==
  /\ upload \in Uploads
  /\ phase \in Phases
  /\ row \in 1..(Len(file.rows) + 1)
  /\ \A k \in DOMAIN items : items[k].sourceRow \in 1..(Len(file.rows) + 1)
  /\ \A k \in DOMAIN checks : checks[k].status \in {"PENDING", "DONE", "FAILED"}
  /\ next \in 1..(Len(checks) + 1)
  /\ Len(answers) = Len(checks)
  /\ DOMAIN workbook \subseteq {"summary", "fines", "accidents", "results"} \cup CheckModules

Init ==
  /\ upload \in Uploads
  /\ phase = "parse"
  /\ items = <<>> /\ row = 1
  /\ checks = <<>> /\ next = 1 /\ answers = <<>>
  /\ workbook = NoSheets

\* A row of the file; the first one below the headers is row 2 of the sheet.
ParseRow ==
  /\ phase = "parse" /\ row \in DOMAIN file.rows
  /\ ~RowThrows(module, file, row)
  /\ LET found == RowItems(module, file, row)
     IN  items' = items \o [k \in DOMAIN found |->
                              [sourceRow |-> row + 1, type |-> found[k].type,
                               body |-> found[k].body]]
  /\ row' = row + 1
  /\ UNCHANGED <<upload, phase, checks, next, answers, workbook>>

\* The request is answered with 400 and nothing is stored.
Refuse ==
  /\ phase = "parse"
  /\ \/ row \in DOMAIN file.rows /\ RowThrows(module, file, row)
     \/ row \notin DOMAIN file.rows /\ items = <<>>
  /\ phase' = "refused"
  /\ UNCHANGED <<upload, items, row, checks, next, answers, workbook>>

\* Mutant: the check is inserted with the status of the batch.
CheckOfQueued(item) ==
  LET stored == Stored(item)
  IN  [sourceRow |-> item.sourceRow, stored |-> stored, text |-> SubjectText(module, stored),
       status |-> "QUEUED", result |-> NoResult]

CheckOf(item) ==
  LET stored == Stored(item)
  IN  [sourceRow |-> item.sourceRow, stored |-> stored, text |-> SubjectText(module, stored),
       status |-> "PENDING", result |-> NoResult]

\* createMany
Create ==
  /\ phase = "parse" /\ row \notin DOMAIN file.rows /\ items # <<>>
  /\ checks' = [k \in DOMAIN items |-> CheckOf(items[k])]
  /\ answers' = [k \in DOMAIN items |-> NoResult]
  /\ phase' = "settle"
  /\ UNCHANGED <<upload, items, row, next, workbook>>

\* failCheck
Fail ==
  /\ phase = "settle" /\ next \in DOMAIN checks
  /\ checks' = [checks EXCEPT ![next].status = "FAILED"]
  /\ next' = next + 1
  /\ UNCHANGED <<upload, phase, items, row, answers, workbook>>

\* persistProviderResult with what the mapper made of the answer.
Finish ==
  /\ phase = "settle" /\ next \in DOMAIN checks
  /\ \E answer \in Answers[module] :
       /\ ~MapThrows(module, answer)
       /\ checks' = [checks EXCEPT ![next].status = "DONE",
                                   ![next].result = MapResult(module, answer)]
       /\ answers' = [answers EXCEPT ![next] = answer]
  /\ next' = next + 1
  /\ UNCHANGED <<upload, phase, items, row, workbook>>

\* Every check is final: onCheckCompleted calls generateBatch.
Complete ==
  /\ phase = "settle" /\ next \notin DOMAIN checks
  /\ phase' = "merge" /\ next' = 1
  /\ UNCHANGED <<upload, items, row, checks, answers, workbook>>

\* The loop of generateBatch over the checks.
MergeCheck ==
  /\ phase = "merge" /\ next \in DOMAIN checks
  /\ LET check == checks[next]
     IN  \/ check.status = "FAILED" /\ UNCHANGED workbook
         \/ /\ check.status # "FAILED"
            /\ workbook' = AppendCheckRows(workbook, Render(module, check.result), check)
  /\ next' = next + 1
  /\ UNCHANGED <<upload, phase, items, row, checks, answers>>

\* appendFailedRows, and the file is written.
WriteBatch ==
  /\ phase = "merge" /\ next \notin DOMAIN checks
  /\ workbook' = AppendFailedRows(workbook,
                   KeepAt(checks, {k \in DOMAIN checks : checks[k].status = "FAILED"}))
  /\ phase' = "written"
  /\ UNCHANGED <<upload, items, row, checks, next, answers>>

Rest == phase \in {"refused", "written"} /\ UNCHANGED vars

Next ==
  \/ ParseRow \/ Refuse \/ Create
  \/ Fail \/ Finish \/ Complete
  \/ MergeCheck \/ WriteBatch
  \/ Rest

Spec == Init /\ [][Next]_vars

-----------------------------------------------------------------------------
(* The import.                                                             *)

\* A file that is not refused gives one check for every filled cell of the columns that
\* matter, in the order of the file: none is lost to another of its row, none comes twice.
\* Of several columns with one header the last is read.
EveryCellBecomesACheck ==
  phase \notin {"parse", "refused"} =>
    LET filled == {cell \in (DOMAIN file.rows) \X SubjectHeaders(module) :
                     CellText(file, cell[1], cell[2]) # ""}
    IN  /\ Len(checks) = Cardinality(filled)
        /\ \A cell \in filled : \E k \in DOMAIN checks :
             /\ checks[k].sourceRow = cell[1] + 1
             /\ FieldOf[cell[2]] \in DOMAIN checks[k].stored
             /\ checks[k].stored[FieldOf[cell[2]]] \in
                  {CellText(file, cell[1], cell[2]), Upper(CellText(file, cell[1], cell[2]))}
        /\ \A j, k \in DOMAIN checks : j < k => checks[j].sourceRow <= checks[k].sourceRow

BirthDayCell(k) == file.rows[items[k].sourceRow - 1][ColumnOf(file, "DOB")]

\* A date of birth that is stored is a day of the calendar.  It is the one its cell says if
\* this is a text in the form that is asked for, and the day ExcelJS or JavaScript reads in
\* any other cell: 2023-02-31 is stored as 03.03.2023, although API_REQUESTS.md:262-263 and
\* the message of the refusal ask for a date of Excel or for ДД.ММ.ГГГГ.
BirthDaysAreTheCells ==
  \A k \in DOMAIN items :
    "dob" \in DOMAIN items[k].body =>
      LET dob == items[k].body.dob
      IN  IsCalendarDay(dob) /\ ShowsDay(BirthDayCell(k), dob)

\* What is asked of the provider is the item: the FSSP mode fits the fields of the subject.
RequestsCarryTheItems ==
  \A k \in DOMAIN checks :
    LET request == Request(module, checks[k].stored)
    IN  /\ request.subject = items[k].body
        /\ module = "FSSP" =>
             request.mode = CASE DOMAIN request.subject = {"fio", "dob"} -> "fio_dob"
                              [] OTHER -> CHOOSE field \in DOMAIN request.subject : TRUE

-----------------------------------------------------------------------------
(* The report.                                                             *)

RowsWith(name, text, status) ==
  {k \in DOMAIN workbook[name].rows :
     workbook[name].rows[k].subject = text /\ workbook[name].rows[k].status = status}

\* Every check of the batch is to be found on every sheet, the failed ones too, and as
\* often as the file named its subject.
EveryCheckIsShown ==
  phase = "written" =>
    /\ workbook # NoSheets
    /\ \A name \in DOMAIN workbook : \A k \in DOMAIN checks :
         Cardinality(RowsWith(name, checks[k].text, checks[k].status)) >=
           Cardinality({j \in DOMAIN checks :
                          checks[j].text = checks[k].text /\ checks[j].status = checks[k].status})

\* Whatever a provider said of a check stands in a row of this check in the column of its
\* label, although every check may have brought other columns to the sheet.  A result of
\* the FSSP that does not fit the schema is stored but not shown.
AnswersReachTheReport ==
  phase = "written" =>
    \A k \in DOMAIN checks :
      checks[k].status = "DONE" /\ ~Unparsed(module, answers[k]) =>
        \A shown \in ShownObjects(module, answers[k]) :
          OwnTexts(shown[2]) # {} =>
            LET sheet == workbook[shown[1]]
            IN  \E r \in RowsWith(shown[1], checks[k].text, "DONE") :
                  \A field \in OwnTexts(shown[2]) :
                    \E c \in DOMAIN sheet.rows[r].cells :
                      /\ sheet.header[c] = Label(field[2])
                      /\ sheet.rows[r].cells[c] = shown[2][field]

\* No row shows a check what was answered to another, and every cell has a header of its own.
NothingIsMixedUp ==
  \A name \in DOMAIN workbook :
    LET sheet == workbook[name]
    IN  /\ IsInjective(sheet.header)
        /\ \A r \in DOMAIN sheet.rows :
             \E k \in DOMAIN checks :
               /\ sheet.rows[r].subject = checks[k].text
               /\ sheet.rows[r].status = checks[k].status
               /\ \/ sheet.rows[r].cells = NoCells
                  \/ \E source \in ToSet(Render(module, checks[k].result)) :
                       /\ source.name = name
                       /\ \E s \in DOMAIN source.rows :
                            /\ Cardinality(DOMAIN sheet.rows[r].cells) = Len(source.rows[s])
                            /\ \A c \in DOMAIN source.rows[s] :
                                 \E t \in DOMAIN sheet.rows[r].cells :
                                   /\ sheet.header[t] = source.header[c]
                                   /\ sheet.rows[r].cells[t] = source.rows[s][c]

=============================================================================
