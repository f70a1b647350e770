---------------------------- MODULE ReportTables ----------------------------
(***************************************************************************)
(* From a provider's answer to the rows of an Excel file: the result       *)
(* mappers (src/src/check/providers), the templates of the modules         *)
(* (src/src/report/templates) and the merge of the single reports into the *)
(* batch's (src/src/report/report.service.ts).                             *)
(*                                                                         *)
(* An object of a provider is a function from its fields to values: a      *)
(* text, "null", or a "nested" value where a text is expected.  Every      *)
(* mapper renames fields to keys, every template keys to labels; two       *)
(* fields besides the VIN stand for all of them.  Styles are left out.     *)
(***************************************************************************)
EXTENDS Spreadsheet

Raw(name) == <<"raw", name>>
Key(name) == <<"key", name>>
Label(name) == <<"label", name>>

\* What the templates print for null, undefined and the empty text.
Dash == "-"

Value(object, key) ==
  IF key \in DOMAIN object /\ object[key] # "null" THEN object[key] ELSE Dash

-----------------------------------------------------------------------------
(* Result mappers.  An answer is                                           *)
(*   [input_key, summary : object, lists : [list -> sequence of objects]]. *)

IsObject(object) ==
  /\ DOMAIN object \subseteq {Raw("VIN"), Raw("status"), Raw("date")}
  /\ object \in [DOMAIN object -> STRING]

\* The lists of a module's answers.
ListsOf(module) ==
  CASE module = "GIBDD" -> {"fines", "accidents"}
    [] module \in {"BANKRUPTCY", "TAXI", "LIMITATION"} -> {"records"}
    [] OTHER -> {}

\* textValue of every field: JSON drops what is undefined.
TextValues(object) ==
  [key \in {Key(field[2]) : field \in {f \in DOMAIN object : object[f] # "nested"}} |->
     object[Raw(key[2])]]

\* LimitationResultSchema.parse throws: the poll of the check fails, now and ever.
MapThrows(module, answer) ==
  /\ module = "LIMITATION"
  /\ \E k \in DOMAIN answer.lists["records"] :
       \E f \in DOMAIN answer.lists["records"][k] : answer.lists["records"][k][f] = "nested"

\* FsspResultSchema.safeParse fails: the result is stored as it came.
Unparsed(module, answer) ==
  module = "FSSP" /\ \E f \in DOMAIN answer.summary : answer.summary[f] = "nested"

Result(vin, summary, lists) == [input_key |-> vin, summary |-> summary, lists |-> lists]

TextLists(answer, lists) ==
  [list \in lists |-> [k \in DOMAIN answer.lists[list] |-> TextValues(answer.lists[list][k])]]

NoObject == [key \in {} |-> Dash]

MapGibdd(answer) ==
  Result(Dash, TextValues(answer.summary), TextLists(answer, {"fines", "accidents"}))

MapInn(answer) == Result(Dash, TextValues(answer.summary), NoObject)

\* A result that does not fit is stored as it came.
MapFssp(answer) ==
  IF Unparsed("FSSP", answer) THEN answer
  ELSE Result(Dash, TextValues(answer.summary), NoObject)

\* The VIN is the one of the summary, if it has one; the rest of it is the only lot.
MapGistorgi(answer) ==
  LET summary == TextValues(answer.summary)
      lot == [key \in DOMAIN summary \ {Key("VIN")} |-> summary[key]]
  IN  Result(IF Value(summary, Key("VIN")) = Dash THEN answer.input_key ELSE summary[Key("VIN")],
             NoObject,
             [records |-> IF DOMAIN lot = {} THEN <<>> ELSE <<lot>>])

MapBankruptcy(answer) == Result(Dash, NoObject, TextLists(answer, {"records"}))

MapTaxi(answer) == Result(answer.input_key, NoObject, TextLists(answer, {"records"}))

\* The VIN is the one of the check.
MapLimitation(answer) == Result(answer.input_key, NoObject, TextLists(answer, {"records"}))

\* What persistProviderResult stores.
MapResult(module, answer) ==
  CASE module = "GIBDD" -> MapGibdd(answer)
    [] module = "INN" -> MapInn(answer)
    [] module = "GISTORGI" -> MapGistorgi(answer)
    [] module = "FSSP" -> MapFssp(answer)
    [] module = "BANKRUPTCY" -> MapBankruptcy(answer)
    [] module = "TAXI" -> MapTaxi(answer)
    [] OTHER -> MapLimitation(answer)

-----------------------------------------------------------------------------
(* Templates: a sheet has a name, the labels of its first row, and rows.   *)

Labels(keys) == [k \in DOMAIN keys |-> Label(keys[k][2])]

Sheet(name, keys, rows) == [name |-> name, header |-> Labels(keys), rows |-> rows]

OwnKeys == <<Key("status"), Key("date")>>

\* Mutant: the keys of the first object.
PresentKeysOfFirst(objects) ==
  <<Key("VIN")>> \o
  KeepAt(OwnKeys, {c \in DOMAIN OwnKeys : objects # <<>> /\ OwnKeys[c] \in DOMAIN objects[1]})

\* uniqueKeys: the keys some of the objects have, after the VIN.
PresentKeys(objects) ==
  <<Key("VIN")>> \o
  KeepAt(OwnKeys,
         {c \in DOMAIN OwnKeys : \E k \in DOMAIN objects : OwnKeys[c] \in DOMAIN objects[k]})

\* One row per object; a VIN that is not its own comes first.
Row(vin, keys, object) ==
  [k \in DOMAIN keys |-> IF keys[k] = Key("VIN") THEN vin ELSE Value(object, keys[k])]

Rows(vin, keys, objects) == [k \in DOMAIN objects |-> Row(vin, keys, objects[k])]

\* buildGibddExcel: the columns of its sheets are the keys that the result has.
GibddSheets(result) ==
  LET vin == Value(result.summary, Key("VIN"))
      keys(objects) == PresentKeys(objects)
      sheet(name, objects) == Sheet(name, keys(objects), Rows(vin, keys(objects), objects))
  IN  <<sheet("summary", <<result.summary>>),
        sheet("fines", result.lists["fines"]),
        sheet("accidents", result.lists["accidents"])>>

VinKeys == <<Key("VIN")>> \o OwnKeys

FsspSheet(result) == Sheet("FSSP", OwnKeys, Rows(Dash, OwnKeys, <<result.summary>>))

InnSheet(result) == Sheet("INN", OwnKeys, Rows(Dash, OwnKeys, <<result.summary>>))

BankruptcySheet(result) ==
  Sheet("BANKRUPTCY", OwnKeys, Rows(Dash, OwnKeys, result.lists["records"]))

GistorgiSheet(result) ==
  Sheet("GISTORGI", VinKeys, Rows(result.input_key, VinKeys, result.lists["records"]))

LimitationSheet(result) ==
  Sheet("LIMITATION", VinKeys, Rows(result.input_key, VinKeys, result.lists["records"]))

\* A taxi that is in no register has a row that says so, in the second column.
TaxiSheet(result) ==
  Sheet("TAXI", VinKeys,
        IF result.lists["records"] = <<>> THEN <<<<result.input_key, "none found">>>>
        ELSE Rows(result.input_key, VinKeys, result.lists["records"]))

\* renderExcel
Render(module, result) ==
  CASE module = "GIBDD" -> GibddSheets(result)
    [] module = "FSSP" -> <<FsspSheet(result)>>
    [] module = "BANKRUPTCY" -> <<BankruptcySheet(result)>>
    [] module = "LIMITATION" -> <<LimitationSheet(result)>>
    [] module = "TAXI" -> <<TaxiSheet(result)>>
    [] module = "INN" -> <<InnSheet(result)>>
    [] OTHER -> <<GistorgiSheet(result)>>

-----------------------------------------------------------------------------
(* The batch's workbook: a function from the names of its sheets to their  *)
(* header and rows.  The first two columns are the subject and the status. *)

FirstColumns == <<<<"column", "subject">>, <<"column", "status">>>>

\* ensureBatchHeaders: labels that are new become columns on the right.
EnsureHeaders(header, source) ==
  LET first == IF header = <<>> THEN FirstColumns \o source.header ELSE header
      known(c) == ToSet(first) \cup {source.header[b] : b \in 1..(c - 1)}
  IN  first \o KeepAt(source.header,
                       {c \in DOMAIN source.header : source.header[c] \notin known(c)})

\* Mutant: columns by their position.
TargetColumnByPosition(header, source, column) == column + Len(FirstColumns)

\* headerColumns
TargetColumn(header, source, column) ==
  Max({t \in DOMAIN header : header[t] = source.header[column]})

NoCells == [column \in {} |-> Dash]

\* The cells of a row, every one in the column of its label.
CellsOf(header, source, cells) ==
  LET target(c) == TargetColumn(header, source, c)
  IN  [t \in {target(c) : c \in DOMAIN cells} |-> cells[Max({c \in DOMAIN cells : target(c) = t})]]

\* The rows a single report's sheet adds: its data, or the check alone if there is none.
RowsOf(header, source, check) ==
  IF source.rows = <<>>
  THEN <<[subject |-> check.text, status |-> check.status, cells |-> NoCells]>>
  ELSE [k \in DOMAIN source.rows |->
          [subject |-> check.text,
           status  |-> check.status,
           cells   |-> CellsOf(header, source, source.rows[k])]]

NewSheet == [header |-> <<>>, rows |-> <<>>]

SheetOf(workbook, name) == IF name \in DOMAIN workbook THEN workbook[name] ELSE NewSheet

\* One turn of the loop of appendCheckRows.
AppendSheet(target, source, check) ==
  LET header == EnsureHeaders(target.header, source)
  IN  [header |-> header, rows |-> target.rows \o RowsOf(header, source, check)]

\* The loop: the sheets of a report have different names, so that every turn has a sheet of
\* its own.
AppendCheckRows(workbook, sheets, check) ==
  LET turn(name) == {k \in DOMAIN sheets : sheets[k].name = name}
  IN  [name \in DOMAIN workbook \cup {sheets[k].name : k \in DOMAIN sheets} |->
         IF turn(name) = {} THEN workbook[name]
         ELSE AppendSheet(SheetOf(workbook, name), sheets[CHOOSE k \in turn(name) : TRUE], check)]

\* Mutant: the failed checks go to a sheet of their own if there is no other.
FailedRowsAlone(workbook, failed) ==
  LET rows == [k \in DOMAIN failed |->
                 [subject |-> failed[k].text, status |-> "FAILED", cells |-> NoCells]]
  IN  IF failed = <<>> \/ DOMAIN workbook # {} THEN workbook
      ELSE [name \in {"results"} |-> [header |-> FirstColumns, rows |-> rows]]

\* appendFailedRows: on every sheet, after the others.
AppendFailedRows(workbook, failed) ==
  LET rows == [k \in DOMAIN failed |->
                 [subject |-> failed[k].text, status |-> "FAILED", cells |-> NoCells]]
  IN  CASE failed = <<>> -> workbook
        [] failed # <<>> /\ DOMAIN workbook = {} ->
             [name \in {"results"} |-> [header |-> FirstColumns, rows |-> rows]]
        [] OTHER -> [name \in DOMAIN workbook |->
                       [workbook[name] EXCEPT !.rows = @ \o rows]]

-----------------------------------------------------------------------------
(* What an answer says, to measure its report by.                          *)

\* The objects of an answer that its report shows, with their sheets.
ShownObjects(module, answer) ==
  CASE module = "GIBDD" ->
         {<<"summary", answer.summary>>} \cup
         UNION {{<<list, answer.lists[list][k]>> : k \in DOMAIN answer.lists[list]} :
                list \in {"fines", "accidents"}}
    [] module \in {"FSSP", "INN", "GISTORGI"} -> {<<module, answer.summary>>}
    [] OTHER -> {<<module, answer.lists["records"][k]>> : k \in DOMAIN answer.lists["records"]}

\* The texts of an object that have a column of their own: with the VIN of the request most
\* sheets begin instead.
OwnTexts(object) ==
  {field \in DOMAIN object : object[field] \notin {"null", "nested"} /\ field # Raw("VIN")}

=============================================================================
