----------------------------- MODULE MCBatchData -----------------------------
(***************************************************************************)
(* BatchData for TLC: files of at most three rows, every kind of cell, and *)
(* answers that have different fields.                                     *)
(***************************************************************************)
EXTENDS BatchData

Kind(kind) == [kind |-> kind, text |-> ""]
Text(text) == [kind |-> "text", text |-> text]
Dmy(d, m, y) == [kind |-> "dmy", text |-> "digits", d |-> d, m |-> m, y |-> y]
Ymd(d, m, y) == [kind |-> "ymd", text |-> "digits", d |-> d, m |-> m, y |-> y]
Number(text, n) == [kind |-> "number", text |-> text, number |-> n]
Day(kind, n) == [kind |-> kind, text |-> "a day", day |-> n]

Empty == Kind("empty")

\* Every day and month that two digits around the calendar can name, in years with and
\* without a leap day and in those JavaScript reads as others.
Dates ==
  {Dmy(d, m, y) : d \in 0..32, m \in 0..13, y \in {50, 99, 100, 1900, 1999, 2000, 2023, 2024}}
  \cup {Ymd(d, m, y) : d \in {0, 1, 28, 29, 31, 32}, m \in {0, 1, 2, 4, 12, 13},
                       y \in {99, 2023, 2024}}
  \cup {Number("digits", n) : n \in (0..70) \cup (365..400) \cup (45289..45360)}
  \cup {Day(kind, n) : kind \in {"date", "loose"},
                       n \in (-25570..-25560) \cup (-1..1) \cup (11015..11020)}
  \cup {Kind("formula"), Kind("blank"), Empty, Text("Ivanov")}

FewDates == {Dmy(29, 2, 2023), Dmy(29, 2, 2024), Kind("blank"), Empty}

Files(headers, rows) == [headers : {headers}, rows : rows]

Upload(modules, files) == [module : modules, file : files]

Vins == {Text("WVW1"), Text("wvw1"), Text("WVW2")}

VinFiles ==
  Files(<<"vin">>, SeqOf({<<c>> : c \in Vins \cup {Empty, Text("WVW9"), Number("digits", 7)}}, 2))
  \cup Files(<<"vin", "NOTE", "VIN">>, {<<<<Text("WVW1"), Empty, Text("WVW2")>>,
                                            <<Empty, Text("x"), Kind("blank")>>>>})
  \cup Files(<<"NOTE">>, {<<>>, <<<<Text("WVW1")>>>>})

LongVinFiles == Files(<<"VIN">>, {<<<<Text("WVW1")>>, <<Text("WVW2")>>, <<Text("wvw1")>>>>})

InnFiles ==
  Files(<<"FIO", "DOB", "PASSPORT">>,
        {<<<<Text("Ivanov"), date, Text("4510")>>>> : date \in Dates}
        \cup SeqOf({Empty, Text("Ivanov")} \X FewDates \X {Empty, Text("4510")}, 2))
  \cup Files(<<"FIO", "PASSPORT">>, {<<<<Text("Ivanov"), Text("4510")>>>>})

FsspFiles ==
  Files(<<"FIO", "INN", "DOB">>,
        SeqOf({Empty, Text("Ivanov")} \X {Empty, Number("inn10", 7), Text("7")} \X FewDates, 2))
  \cup Files(<<"DOC_ID", "IP", "INN">>,
             SeqOf({Empty, Text("doc")} \X {Kind("blank"), Text("ip")} \X {Empty, Text("inn12")}, 2))
  \cup Files(<<"FIO">>, {<<<<Text("Ivanov")>>>>, <<<<Empty>>>>})
  \cup Files(<<"DOB">>, {<<<<Dmy(1, 1, 2000)>>>>})

BankruptcyFiles ==
  UNION {Files(headers, SeqOf({Empty, Text("a"), Text("b")} \X {Empty, Text("a")}, 2)) :
           headers \in {<<"FIO", "INN">>, <<"INN", "FIO">>}}

MCUploads ==
  Upload(VinModules, VinFiles) \cup Upload({"GIBDD", "TAXI"}, LongVinFiles)
  \cup Upload({"INN"}, InnFiles)
  \cup Upload({"FSSP"}, FsspFiles)
  \cup Upload({"BANKRUPTCY"}, BankruptcyFiles)

Nothing == [field \in {} |-> "x"]
A == Raw("status") :> "x"
B == Raw("date") :> "y"
C == Raw("status") :> "null" @@ Raw("date") :> "x"
D == Raw("status") :> "nested" @@ Raw("date") :> "x"
V == Raw("VIN") :> "own"

Answer(summaries, lists) == [input_key : {"asked"}, summary : summaries, lists : lists]

Records == [records : {<<>>, <<A>>, <<B, C>>, <<D>>}]

MCAnswers ==
  [m \in CheckModules |->
     CASE m = "GIBDD" ->
            Answer({Nothing, V @@ A, V @@ D},
                   [fines : {<<>>, <<A>>, <<B, A>>}, accidents : {<<>>, <<B>>}])
       [] m \in {"FSSP", "INN"} -> Answer({Nothing, A, C, D}, {Nothing})
       [] m = "GISTORGI" -> Answer({Nothing, A, V @@ C, V @@ D}, {Nothing})
       [] OTHER -> Answer({Nothing}, Records)]

=============================================================================
