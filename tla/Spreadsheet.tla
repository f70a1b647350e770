----------------------------- MODULE Spreadsheet -----------------------------
(***************************************************************************)
(* The spreadsheet of a batch: readSpreadsheetItems and what it calls      *)
(* (src/src/batch/batch.service.ts), the body that is stored for an item   *)
(* and the request that is later built from it.                            *)
(*                                                                         *)
(* A file is what ExcelJS reads from the first sheet: a row of headers and *)
(* rows of cells, all as wide as the sheet.  Of a text only its meaning is *)
(* kept: a VIN, a name, a number that matches the patterns or not.         *)
(***************************************************************************)
EXTENDS Integers, Sequences, SequencesExt, FiniteSetsExt

VinModules == {"GIBDD", "TAXI", "LIMITATION", "GISTORGI"}

CheckModules == VinModules \cup {"INN", "BANKRUPTCY", "FSSP"}

NoDate == <<>>

\* The elements of a sequence at some of its positions, in their order.  SelectSeq would do
\* the same with a test; a set of positions is something the proofs can speak of.
KeepAt(s, positions) ==
  [i \in 1..Cardinality(positions) |->
     s[CHOOSE p \in positions : Cardinality({q \in positions : q <= p}) = i]]

-----------------------------------------------------------------------------
(* Dates: JavaScript's UTC days, counted from 1970-01-01, months from 0.   *)

DayFromYear(y) ==
  365 * (y - 1970) + ((y - 1969) \div 4) - ((y - 1901) \div 100) + ((y - 1601) \div 400)

LeapDay(y) == DayFromYear(y + 1) - DayFromYear(y) - 365

MonthLength(y, m) ==
  CASE m \in {3, 5, 8, 10} -> 30
    [] m = 1 -> 28 + LeapDay(y)
    [] OTHER -> 31

DayFromMonth(y, m) ==
  <<0, 31, 59, 90, 120, 151, 181, 212, 243, 273, 304, 334>>[m + 1]
    + (IF m > 1 THEN LeapDay(y) ELSE 0)

\* Date.UTC: months and days run over, and a year below 100 is one of the 20th century.
DateUTC(y, m, d) ==
  LET year == (IF y \in 0..99 THEN 1900 + y ELSE y) + (m \div 12)
  IN  DayFromYear(year) + DayFromMonth(year, m % 12) + d - 1

\* 400 years have 146097 days.
YearOf(n) ==
  LET near == 1970 + ((400 * n) \div 146097)
  IN  CHOOSE y \in (near - 1)..(near + 1) : DayFromYear(y) <= n /\ n < DayFromYear(y + 1)

\* Day, month from 1, and year of a day.
Civil(n) ==
  LET y == YearOf(n)
      rest == n - DayFromYear(y)
      m == CHOOSE k \in 0..11 :
             DayFromMonth(y, k) <= rest /\ rest < DayFromMonth(y, k) + MonthLength(y, k)
  IN  <<rest - DayFromMonth(y, m) + 1, m + 1, y>>

\* Mutant: the date is not compared with what it became.
FormatDateRolls(d, m, y) == Civil(DateUTC(y, m - 1, d))

\* formatDate, as a triple.
FormatDate(d, m, y) ==
  IF Civil(DateUTC(y, m - 1, d)) = <<d, m, y>> THEN <<d, m, y>> ELSE NoDate

ExcelEpoch == DateUTC(1899, 11, 30)

-----------------------------------------------------------------------------
(* Cells, each with the trimmed text ExcelJS shows of it.  Their kinds:    *)
(* nothing, only spaces, a formula or another object, a text that is no    *)
(* date to JavaScript, the text of a date as it is asked for (three        *)
(* numbers, the year last), in ISO order, and in any other form that       *)
(* `new Date` reads, with the UTC day it reads; a number and a date.       *)

Cells ==
  [kind : {"empty", "blank"}, text : {""}]
  \cup [kind : {"formula"}, text : STRING]
  \cup [kind : {"text"}, text : STRING \ {""}]
  \cup [kind : {"dmy", "ymd"}, text : STRING \ {""}, d : Nat, m : Nat, y : Int]
  \cup [kind : {"loose", "date"}, text : STRING \ {""}, day : Int]
  \cup [kind : {"number"}, text : STRING \ {""}, number : Int]

\* Every row is as wide as the sheet.
SheetFiles ==
  {file \in [headers : Seq(STRING), rows : Seq(Seq(Cells))] :
     \A r \in DOMAIN file.rows : Len(file.rows[r]) = Len(file.headers)}

\* The UTC day of a cell to JavaScript.  In ISO order the day of a short month runs over,
\* and no year is moved to another century.
DayOf(cell) ==
  CASE cell.kind = "number" -> ExcelEpoch + cell.number
    [] cell.kind = "ymd" ->
         DayFromYear(cell.y) + DayFromMonth(cell.y, cell.m - 1) + cell.d - 1
    [] OTHER -> cell.day

HasUtcDay(cell) ==
  \/ cell.kind \in {"date", "number", "loose"}
  \/ cell.kind = "ymd" /\ cell.m \in 1..12 /\ cell.d \in 1..31

FormatDay(n) == LET c == Civil(n) IN FormatDate(c[1], c[2], c[3])

\* normalizeSpreadsheetDate
NormalizeDate(cell) ==
  CASE cell.kind = "dmy" -> FormatDate(cell.d, cell.m, cell.y)
    [] HasUtcDay(cell) -> FormatDay(DayOf(cell))
    [] OTHER -> NoDate

\* Headers and VINs are compared in upper case; the small letters of the model.
Upper(text) ==
  CASE text = "vin" -> "VIN"
    [] text = "wvw1" -> "WVW1"
    [] OTHER -> text

ValidVins == {"WVW1", "WVW2", "WVW3"}
ValidInns == {"inn10", "inn12"}

-----------------------------------------------------------------------------
(* Rows.                                                                   *)

\* The map of the headers: the last column of several with one header.
Headers(file) == {Upper(file.headers[k]) : k \in DOMAIN file.headers} \ {""}

ColumnOf(file, header) == Max({k \in DOMAIN file.headers : Upper(file.headers[k]) = header})

CellText(file, r, header) ==
  IF header \in Headers(file) THEN file.rows[r][ColumnOf(file, header)].text ELSE ""

\* dateCell: whether it has nothing to read, and what it reads.
NoDateCell(file, r) ==
  \/ "DOB" \notin Headers(file)
  \/ file.rows[r][ColumnOf(file, "DOB")].kind = "empty"

DateIn(file, r) ==
  IF NoDateCell(file, r) THEN NoDate ELSE NormalizeDate(file.rows[r][ColumnOf(file, "DOB")])

DateThrows(file, r) == ~NoDateCell(file, r) /\ DateIn(file, r) = NoDate

\* The headers of which one column is enough, in the order of the columns.
Candidates(module) ==
  CASE module = "BANKRUPTCY" -> {"INN", "FIO"}
    [] module = "FSSP" -> {"INN", "IP", "DOC_ID", "FIO"}
    [] OTHER -> {}

OrderedHeaders(file, candidates) ==
  KeepAt([k \in DOMAIN file.headers |-> Upper(file.headers[k])],
         {ColumnOf(file, header) : header \in candidates \cap Headers(file)})

HeadersMissing(module, file) ==
  CASE module \in VinModules -> "VIN" \notin Headers(file)
    [] module = "INN" -> ~({"FIO", "DOB", "PASSPORT"} \subseteq Headers(file))
    [] OTHER -> Candidates(module) \cap Headers(file) = {}

\* What makes parseSpreadsheetRow throw, which refuses the whole file.
RowThrows(module, file, r) ==
  LET text(header) == CellText(file, r, header)
  IN  \/ HeadersMissing(module, file)
      \/ /\ module \in VinModules
         /\ text("VIN") # "" /\ Upper(text("VIN")) \notin ValidVins
      \/ /\ module = "INN"
         /\ LET given == {text("FIO") # "", ~NoDateCell(file, r), text("PASSPORT") # ""}
            IN  DateThrows(file, r) \/ given = {TRUE, FALSE}
      \/ /\ module = "FSSP"
         /\ \/ text("INN") # "" /\ text("INN") \notin ValidInns
            \/ text("FIO") # "" /\ DateIn(file, r) = NoDate

\* One item of the FSSP or bankruptcy module: its type and body.
ItemOf(module, file, r, header) ==
  LET text == CellText(file, r, header)
  IN  CASE header = "INN" -> [type |-> "for_inn", body |-> [inn |-> text]]
        [] header = "IP" -> [type |-> "for_ip", body |-> [ip |-> text]]
        [] header = "DOC_ID" -> [type |-> "for_doc_id", body |-> [doc_id |-> text]]
        [] header = "FIO" /\ module = "BANKRUPTCY" ->
             [type |-> "for_fio", body |-> [fio |-> text]]
        [] OTHER -> [type |-> "for_fio_dob", body |-> [fio |-> text, dob |-> DateIn(file, r)]]

\* Of the headers of which one is enough, those that the row has a text for.
FilledHeaders(module, file, r) ==
  LET ordered == OrderedHeaders(file, Candidates(module))
  IN  KeepAt(ordered, {k \in DOMAIN ordered : CellText(file, r, ordered[k]) # ""})

\* Mutant: a row gives one item at most.
RowItemsFirst(module, file, r) ==
  LET filled == FilledHeaders(module, file, r)
  IN  IF filled = <<>> THEN <<>> ELSE <<ItemOf(module, file, r, filled[1])>>

\* The items of a row that parseSpreadsheetRow accepts.
RowItems(module, file, r) ==
  LET text(header) == CellText(file, r, header)
  IN  CASE module \in VinModules ->
             IF text("VIN") = "" THEN <<>>
             ELSE <<[type |-> "", body |-> [vin |-> Upper(text("VIN"))]]>>
        [] module = "INN" ->
             IF text("FIO") = "" THEN <<>>
             ELSE <<[type |-> "for_structured",
                     body |-> [fio |-> text("FIO"), dob |-> DateIn(file, r),
                               passport |-> text("PASSPORT")]]>>
        [] OTHER ->
             LET filled == FilledHeaders(module, file, r)
             IN  [k \in DOMAIN filled |-> ItemOf(module, file, r, filled[k])]

-----------------------------------------------------------------------------
(* From the item to the provider.                                          *)

\* toStoredSubjectBody
Stored(item) ==
  IF item.type = "" THEN item.body
  ELSE [key \in {"type"} \cup DOMAIN item.body |->
          IF key \in DOMAIN item.body THEN item.body[key] ELSE item.type]

\* buildSubjectBodyText, as the values it joins.
SubjectText(module, stored) ==
  LET given == DOMAIN stored
      values(keys) == [k \in DOMAIN keys |-> stored[keys[k]]]
  IN  IF module \in VinModules THEN values(<<"vin">>)
      ELSE IF module = "INN" THEN values(<<"fio", "dob", "passport">>)
      ELSE IF "inn" \in given THEN values(<<"inn">>)
      ELSE IF module = "BANKRUPTCY" THEN values(<<"fio">>)
      ELSE IF "ip" \in given THEN values(<<"ip">>)
      ELSE IF "doc_id" \in given THEN values(<<"doc_id">>)
      ELSE values(<<"fio", "dob">>)

Provider(module) == IF module = "LIMITATION" THEN "DUCKDNS" ELSE "STORMFINDER"

FsspModes ==
  [for_fio_dob |-> "fio_dob", for_inn |-> "inn", for_ip |-> "ip", for_doc_id |-> "doc_id"]

WithoutType(stored) == [key \in DOMAIN stored \ {"type"} |-> stored[key]]

\* Mutant: the type stays in the subject.
RequestWithType(module, stored) ==
  [provider |-> Provider(module),
   mode     |-> IF module = "FSSP" THEN FsspModes[stored.type] ELSE "",
   subject  |-> stored]

\* buildStormfinderRequest, and what DuckdnsCheckHandler sends.  Every module has a path of
\* its own; the request is named by the module.
Request(module, stored) ==
  [provider |-> Provider(module),
   mode     |-> IF module = "FSSP" THEN FsspModes[stored.type] ELSE "",
   subject  |-> WithoutType(stored)]

-----------------------------------------------------------------------------
(* What a file asks for, to measure the import by.                         *)

\* The columns that give items, and where their text is stored.
SubjectHeaders(module) ==
  CASE module \in VinModules -> {"VIN"}
    [] module = "INN" -> {"FIO"}
    [] OTHER -> Candidates(module)

FieldOf == [VIN |-> "vin", INN |-> "inn", IP |-> "ip", DOC_ID |-> "doc_id", FIO |-> "fio"]

\* The date is the one a text in the form that is asked for says, and of any other cell the
\* day that ExcelJS or JavaScript reads in it.
ShowsDay(cell, dob) ==
  CASE cell.kind = "dmy" -> dob = <<cell.d, cell.m, cell.y>>
    [] OTHER -> HasUtcDay(cell) /\ DateUTC(dob[3], dob[2] - 1, dob[1]) = DayOf(cell)

IsLeapYear(y) == y % 4 = 0 /\ (y % 100 # 0 \/ y % 400 = 0)

IsCalendarDay(date) ==
  /\ date[2] \in 1..12
  /\ date[1] \in 1..(CASE date[2] \in {4, 6, 9, 11} -> 30
                       [] date[2] = 2 -> IF IsLeapYear(date[3]) THEN 29 ELSE 28
                       [] OTHER -> 31)

=============================================================================
