------------------------- MODULE ReportTables_proofs -------------------------
(***************************************************************************)
(* What the operators of ReportTables return, for every answer and every   *)
(* workbook: the sheets of a report, and what the merge leaves of them.    *)
(***************************************************************************)
EXTENDS ReportTables, Spreadsheet_proofs

-----------------------------------------------------------------------------
(* Sheets of a single report.                                              *)

\* The keys of a template: each once.
IsKeys(keys) ==
  /\ IsSequence(keys) /\ IsInjective(keys)
  /\ \A c \in DOMAIN keys : keys[c] \in {Key("VIN"), Key("status"), Key("date")}

\* A sheet that a template makes: every column has a label of its own, and no row is wider
\* than the header.
IsSource(source) ==
  /\ IsSequence(source.header) /\ IsInjective(source.header)
  /\ \A c \in DOMAIN source.header :
       source.header[c] \notin {<<"column", "subject">>, <<"column", "status">>}
  /\ IsSequence(source.rows)
  /\ \A s \in DOMAIN source.rows :
       IsSequence(source.rows[s]) /\ DOMAIN source.rows[s] \subseteq DOMAIN source.header

\* The labels of different keys differ, and are no first columns.
LEMMA LabelsProperties ==
  ASSUME NEW keys, IsKeys(keys)
  PROVE  /\ IsSequence(Labels(keys)) /\ IsInjective(Labels(keys))
         /\ DOMAIN Labels(keys) = DOMAIN keys
         /\ \A c \in DOMAIN keys :
              /\ Labels(keys)[c] = Label(keys[c][2])
              /\ Labels(keys)[c] \notin {<<"column", "subject">>, <<"column", "status">>}
<1>. DEFINE labels == Labels(keys)
<1>1. Len(keys) \in Nat /\ DOMAIN keys = 1..Len(keys)
  BY SequenceElim DEF IsKeys
<1>2. labels = [c \in 1..Len(keys) |-> Label(keys[c][2])]
  BY <1>1 DEF Labels
<1>. HIDE DEF labels
<1>3. DOMAIN labels = 1..Len(keys) /\ \A c \in 1..Len(keys) : labels[c] = Label(keys[c][2])
  BY <1>2
<1>4. IsSequence(labels)
  <2>1. labels = [c \in 1..Len(keys) |-> labels[c]]
    BY <1>2
  <2>. QED BY <1>1, <2>1, SequenceIntro
<1>5. \A c \in 1..Len(keys) : keys[c] \in {Key("VIN"), Key("status"), Key("date")}
  BY <1>1 DEF IsKeys
<1>6. \A c \in 1..Len(keys) :
        labels[c] \notin {<<"column", "subject">>, <<"column", "status">>}
  BY <1>3 DEF Label
<1>7. ASSUME NEW a \in 1..Len(keys), NEW b \in 1..Len(keys), labels[a] = labels[b]
      PROVE  a = b
  <2>1. Label(keys[a][2]) = Label(keys[b][2])
    BY <1>3, <1>7
  <2>2. keys[a][2] = keys[b][2]
    BY <2>1 DEF Label
  <2>3. keys[a] = keys[b]
    BY <1>5, <2>2 DEF Key
  <2>. QED BY <1>1, <2>3 DEF IsKeys, IsInjective
<1>8. IsInjective(labels)
  BY <1>3, <1>7 DEF IsInjective
<1>. QED BY <1>1, <1>3, <1>4, <1>6, <1>8 DEF labels

\* The rows of the objects: one for each, as wide as the keys.
LEMMA RowsProperties ==
  ASSUME NEW keys, IsKeys(keys), NEW objects, IsSequence(objects), NEW vin
  PROVE  /\ IsSequence(Rows(vin, keys, objects))
         /\ DOMAIN Rows(vin, keys, objects) = DOMAIN objects
         /\ \A s \in DOMAIN objects :
              LET row == Rows(vin, keys, objects)[s]
              IN  /\ IsSequence(row) /\ DOMAIN row = DOMAIN keys
                  /\ \A c \in DOMAIN keys :
                       keys[c] # Key("VIN") => row[c] = Value(objects[s], keys[c])
<1>. DEFINE rows == Rows(vin, keys, objects)
<1>1. /\ Len(keys) \in Nat /\ DOMAIN keys = 1..Len(keys)
      /\ Len(objects) \in Nat /\ DOMAIN objects = 1..Len(objects)
  BY SequenceElim DEF IsKeys
<1>2. /\ DOMAIN rows = 1..Len(objects)
      /\ \A s \in 1..Len(objects) : rows[s] = Row(vin, keys, objects[s])
  BY <1>1 DEF Rows
<1>3. IsSequence(rows)
  <2>1. rows = [s \in 1..Len(objects) |-> rows[s]]
    BY <1>1 DEF Rows
  <2>. HIDE DEF rows
  <2>. QED BY <1>1, <2>1, SequenceIntro
<1>4. ASSUME NEW s \in 1..Len(objects)
      PROVE  /\ IsSequence(rows[s]) /\ DOMAIN rows[s] = DOMAIN keys
             /\ \A c \in DOMAIN keys :
                  keys[c] # Key("VIN") => rows[s][c] = Value(objects[s], keys[c])
  <2>. DEFINE row == rows[s]
  <2>1. row = [c \in 1..Len(keys) |->
                 IF keys[c] = Key("VIN") THEN vin ELSE Value(objects[s], keys[c])]
    BY <1>1, <1>2 DEF Row
  <2>. HIDE DEF row
  <2>2. row = [c \in 1..Len(keys) |-> row[c]]
    BY <2>1
  <2>3. IsSequence(row) /\ DOMAIN row = 1..Len(keys)
    BY <1>1, <2>2, SequenceIntro
  <2>. QED BY <1>1, <2>1, <2>3 DEF row
<1>. HIDE DEF rows
<1>. QED BY <1>1, <1>2, <1>3, <1>4, Zenon DEF rows

\* A template with such keys makes such a sheet.
LEMMA SheetIsSource ==
  ASSUME NEW keys, IsKeys(keys), NEW objects, IsSequence(objects), NEW vin, NEW name
  PROVE  LET sheet == Sheet(name, keys, Rows(vin, keys, objects))
         IN  IsSource(sheet) /\ sheet.name = name
<1>. DEFINE sheet == Sheet(name, keys, Rows(vin, keys, objects))
<1>1. /\ sheet.name = name /\ sheet.header = Labels(keys)
      /\ sheet.rows = Rows(vin, keys, objects)
  BY DEF Sheet
<1>. HIDE DEF sheet
<1>2. /\ IsSequence(sheet.header) /\ IsInjective(sheet.header)
      /\ DOMAIN sheet.header = DOMAIN keys
      /\ \A c \in DOMAIN keys :
           sheet.header[c] \notin {<<"column", "subject">>, <<"column", "status">>}
  BY <1>1, LabelsProperties, Zenon
<1>3. /\ IsSequence(sheet.rows)
      /\ \A s \in DOMAIN sheet.rows :
           IsSequence(sheet.rows[s]) /\ DOMAIN sheet.rows[s] = DOMAIN keys
  BY <1>1, RowsProperties
<1>4. IsSource(sheet)
  BY <1>2, <1>3, Zenon DEF IsSource
<1>. QED BY <1>1, <1>4 DEF sheet

\* The keys of the templates.
LEMMA TemplateKeys ==
  /\ IsKeys(OwnKeys) /\ IsKeys(VinKeys)
  /\ \A key \in {Key("status"), Key("date")} :
       (\E c \in DOMAIN OwnKeys : OwnKeys[c] = key) /\ (\E c \in DOMAIN VinKeys : VinKeys[c] = key)
<1>1. Key("VIN") # Key("status") /\ Key("VIN") # Key("date") /\ Key("status") # Key("date")
  BY DEF Key
<1>2. /\ OwnKeys = [c \in 1..2 |-> OwnKeys[c]] /\ DOMAIN OwnKeys = 1..2
      /\ OwnKeys[1] = Key("status") /\ OwnKeys[2] = Key("date")
  BY DEF OwnKeys
<1>3. /\ VinKeys = [c \in 1..3 |-> VinKeys[c]] /\ DOMAIN VinKeys = 1..3
      /\ VinKeys[1] = Key("VIN") /\ VinKeys[2] = Key("status") /\ VinKeys[3] = Key("date")
  BY DEF VinKeys, OwnKeys
<1>4. 1 \in 1..2 /\ 2 \in 1..2 /\ 2 \in 1..3 /\ 3 \in 1..3 /\ 2 \in Nat /\ 3 \in Nat
  OBVIOUS
<1>5. (\A k \in 1..2 : k = 1 \/ k = 2) /\ (\A k \in 1..3 : k = 1 \/ k = 2 \/ k = 3)
  OBVIOUS
<1>6. IsSequence(OwnKeys) /\ IsSequence(VinKeys)
  BY <1>2, <1>3, <1>4, SequenceIntro
<1>7. IsInjective(OwnKeys) /\ IsInjective(VinKeys)
  <2>1. \A a, b \in 1..2 : OwnKeys[a] = OwnKeys[b] => a = b
    BY <1>1, <1>2, <1>5
  <2>2. \A a, b \in 1..3 : VinKeys[a] = VinKeys[b] => a = b
    BY <1>1, <1>3, <1>5
  <2>. QED BY <1>2, <1>3, <2>1, <2>2, Zenon DEF IsInjective
<1>8. /\ \A c \in DOMAIN OwnKeys : OwnKeys[c] \in {Key("VIN"), Key("status"), Key("date")}
      /\ \A c \in DOMAIN VinKeys : VinKeys[c] \in {Key("VIN"), Key("status"), Key("date")}
  BY <1>2, <1>3, <1>5, Zenon
<1>9. \A key \in {Key("status"), Key("date")} :
        (\E c \in DOMAIN OwnKeys : OwnKeys[c] = key) /\ (\E c \in DOMAIN VinKeys : VinKeys[c] = key)
  BY <1>2, <1>3, <1>4, Zenon
<1>. QED BY <1>6, <1>7, <1>8, <1>9 DEF IsKeys

\* Two sequences with different elements, one after the other.
LEMMA JoinedInjective ==
  ASSUME NEW s, IsInjective(s), IsSequence(s), NEW t, IsInjective(t), IsSequence(t),
         NEW u, Joins(s, t, u),
         \A a \in DOMAIN s, b \in DOMAIN t : s[a] # t[b]
  PROVE  IsInjective(u)
<1>. SUFFICES ASSUME NEW a \in DOMAIN u, NEW b \in DOMAIN u, u[a] = u[b] PROVE a = b
  BY DEF IsInjective
<1>1. /\ Len(s) \in Nat /\ DOMAIN s = 1..Len(s) /\ Len(t) \in Nat /\ DOMAIN t = 1..Len(t)
      /\ DOMAIN u = 1..Len(u)
  BY SequenceElim DEF Joins
<1>2. \A k \in DOMAIN s : u[k] = s[k]
  BY DEF Joins
<1>3. \A k \in DOMAIN u : k \notin DOMAIN s =>
        k - Len(s) \in DOMAIN t /\ u[k] = t[k - Len(s)] /\ k \in Int
  <2>1. \A k \in DOMAIN t : u[Len(s) + k] = t[k]
    BY DEF Joins
  <2>2. \A k \in DOMAIN u : k \notin DOMAIN s =>
          k - Len(s) \in DOMAIN t /\ k = Len(s) + (k - Len(s))
    BY DEF Joins
  <2>3. \A k \in DOMAIN u : k \in Int
    BY <1>1
  <2>. QED BY <2>1, <2>2, <2>3
<1>4. CASE a \in DOMAIN s /\ b \in DOMAIN s
  BY <1>2, <1>4 DEF IsInjective
<1>5. CASE a \in DOMAIN s /\ b \notin DOMAIN s
  BY <1>2, <1>3, <1>5
<1>6. CASE a \notin DOMAIN s /\ b \in DOMAIN s
  BY <1>2, <1>3, <1>6
<1>7. CASE a \notin DOMAIN s /\ b \notin DOMAIN s
  <2>1. a - Len(s) = b - Len(s)
    BY <1>3, <1>7 DEF IsInjective
  <2>. QED BY <1>1, <1>3, <1>7, <2>1
<1>. QED BY <1>4, <1>5, <1>6, <1>7

\* A sequence of one element.
LEMMA Singleton ==
  ASSUME NEW x
  PROVE  /\ IsSequence(<<x>>) /\ IsInjective(<<x>>) /\ DOMAIN <<x>> = 1..1
         /\ <<x>>[1] = x /\ Len(<<x>>) = 1
<1>. DEFINE s == <<x>>
<1>1. DOMAIN s = 1..1 /\ s[1] = x /\ (\A k \in 1..1 : k = 1) /\ 1 \in Nat
  BY ShortSequences, Zenon
<1>2. s = [k \in 1..1 |-> s[k]]
  OBVIOUS
<1>. HIDE DEF s
<1>3. IsSequence(s) /\ Len(s) = 1
  BY <1>1, <1>2, SequenceIntro
<1>4. IsInjective(s)
  BY <1>1, Zenon DEF IsInjective
<1>. QED BY <1>1, <1>3, <1>4, Zenon DEF s

\* uniqueKeys: each key once, and every key that an object has.
LEMMA PresentKeysProperties ==
  ASSUME NEW objects
  PROVE  /\ IsKeys(PresentKeys(objects))
         /\ \A k \in DOMAIN objects : \A key \in {Key("status"), Key("date")} \cap DOMAIN objects[k] :
              \E c \in DOMAIN PresentKeys(objects) : PresentKeys(objects)[c] = key
<1>. DEFINE P == {c \in DOMAIN OwnKeys : \E k \in DOMAIN objects : OwnKeys[c] \in DOMAIN objects[k]}
            kept == KeepAt(OwnKeys, P)
            T == {OwnKeys[p] : p \in P}
            first == <<Key("VIN")>>
            keys == first \o kept
            N == Cardinality(P)
<1>1. PresentKeys(objects) = keys
  BY DEF PresentKeys
<1>2. DOMAIN OwnKeys = 1..2 /\ OwnKeys[1] = Key("status") /\ OwnKeys[2] = Key("date")
  BY DEF OwnKeys
<1>3. /\ P \in SUBSET (1..2) /\ 2 \in Nat /\ \A p, q \in P : OwnKeys[p] = OwnKeys[q] => p = q
  <2>1. P \subseteq DOMAIN OwnKeys
    OBVIOUS
  <2>2. \A p, q \in DOMAIN OwnKeys : OwnKeys[p] = OwnKeys[q] => p = q
    BY TemplateKeys DEF IsKeys, IsInjective
  <2>. HIDE DEF P
  <2>. QED BY <1>2, <2>1, <2>2
<1>4. T \subseteq {Key("status"), Key("date")}
  <2>1. \A p \in P : p \in 1..2
    BY <1>3
  <2>2. \A p \in 1..2 : p = 1 \/ p = 2
    OBVIOUS
  <2>. HIDE DEF P
  <2>. QED BY <1>2, <2>1, <2>2, Zenon
<1>5. ASSUME NEW k \in DOMAIN objects,
             NEW key \in {Key("status"), Key("date")} \cap DOMAIN objects[k]
      PROVE  key \in T
  <2>1. PICK c \in DOMAIN OwnKeys : OwnKeys[c] = key
    BY TemplateKeys
  <2>2. c \in P
    BY <2>1
  <2>. HIDE DEF P
  <2>. QED BY <2>1, <2>2
<1>. HIDE DEF P, T
<1>6. N \in Nat /\ kept \in Bijection(1..N, T)
  <2>1. T = {OwnKeys[p] : p \in P}
    BY DEF T
  <2>. QED BY <1>3, <2>1, KeptOnce
<1>. HIDE DEF N, kept
<1>7. /\ kept \in [1..N -> T] /\ IsInjective(kept)
      /\ \A key \in T : \E c \in 1..N : kept[c] = key
  BY <1>6 DEF Bijection, Injection, Surjection, IsInjective
<1>8. IsSequence(kept) /\ DOMAIN kept = 1..N
  <2>1. kept = [c \in 1..N |-> kept[c]]
    BY <1>7
  <2>. QED BY <1>6, <2>1, SequenceIntro
<1>9. IsSequence(first) /\ IsInjective(first) /\ DOMAIN first = 1..1 /\ first[1] = Key("VIN")
  BY Singleton
<1>. HIDE DEF first
<1>10. Joins(first, kept, keys)
  BY <1>8, <1>9, Joined
<1>. HIDE DEF keys
<1>11. \A a \in DOMAIN first : first[a] = Key("VIN")
  <2>1. \A a \in 1..1 : a = 1
    OBVIOUS
  <2>. QED BY <1>9, <2>1, Zenon
<1>12. \A b \in DOMAIN kept : kept[b] \in {Key("status"), Key("date")}
  BY <1>4, <1>7, <1>8
<1>13. Key("VIN") # Key("status") /\ Key("VIN") # Key("date")
  BY DEF Key
<1>14. IsInjective(keys)
  <2>1. \A a \in DOMAIN first, b \in DOMAIN kept : first[a] # kept[b]
    BY <1>11, <1>12, <1>13, Zenon
  <2>2. IsSequence(first) /\ IsInjective(first) /\ IsSequence(kept) /\ IsInjective(kept)
    BY <1>7, <1>8, <1>9, Zenon
  <2>. QED BY <1>10, <2>1, <2>2, JoinedInjective, Zenon
<1>15. \A c \in DOMAIN keys : keys[c] \in {Key("VIN"), Key("status"), Key("date")}
  <2>. SUFFICES ASSUME NEW c \in DOMAIN keys
                PROVE  keys[c] \in {Key("VIN"), Key("status"), Key("date")}
    OBVIOUS
  <2>1. CASE c \in DOMAIN first
    BY <1>10, <1>11, <2>1, Zenon DEF Joins
  <2>2. CASE c \notin DOMAIN first
    <3>1. c - Len(first) \in DOMAIN kept /\ c = Len(first) + (c - Len(first))
      BY <1>10, <2>2 DEF Joins
    <3>2. keys[Len(first) + (c - Len(first))] = kept[c - Len(first)]
      BY <1>10, <3>1 DEF Joins
    <3>3. keys[c] = kept[c - Len(first)]
      BY <3>1, <3>2
    <3>. QED BY <1>12, <3>1, <3>3, Zenon
  <2>. QED BY <2>1, <2>2
<1>16. \A key \in T : \E c \in DOMAIN keys : keys[c] = key
  BY <1>7, <1>8, <1>10, Zenon DEF Joins
<1>17. IsKeys(keys)
  BY <1>10, <1>14, <1>15, Zenon DEF IsKeys, Joins
<1>. QED BY <1>1, <1>5, <1>16, <1>17, Zenon

-----------------------------------------------------------------------------
(* From an answer to its report.                                           *)

\* The answers of a module's provider.
IsAnswer(module, answer) ==
  /\ IsObject(answer.summary)
  /\ \A list \in ListsOf(module) :
       /\ IsSequence(answer.lists[list])
       /\ \A k \in DOMAIN answer.lists[list] : IsObject(answer.lists[list][k])

\* The sheets of a module's reports.
SheetNames(module) ==
  IF module = "GIBDD" THEN {"summary", "fines", "accidents"} ELSE {module}

\* The sheets of one report: all of them, each once.
IsReport(module, sheets) ==
  /\ \A name \in SheetNames(module) : \E k \in DOMAIN sheets : sheets[k].name = name
  /\ \A k \in DOMAIN sheets : sheets[k].name \in SheetNames(module) /\ IsSource(sheets[k])
  /\ \A j, k \in DOMAIN sheets : sheets[j].name = sheets[k].name => j = k

\* A row shows the texts of an object under their labels.
ShowsObject(source, s, object) ==
  \A field \in OwnTexts(object) : \E c \in DOMAIN source.rows[s] :
    source.header[c] = Label(field[2]) /\ source.rows[s][c] = object[field]

\* A report shows what the provider said.
Says(module, sheets, answer) ==
  \A shown \in ShownObjects(module, answer) :
    OwnTexts(shown[2]) # {} =>
      \E k \in DOMAIN sheets : sheets[k].name = shown[1] /\
        \E s \in DOMAIN sheets[k].rows : ShowsObject(sheets[k], s, shown[2])

\* textValue keeps every text of an object, under the key of its field.
LEMMA TextValuesProperties ==
  ASSUME NEW object, IsObject(object), NEW field \in OwnTexts(object)
  PROVE  /\ Key(field[2]) \in {Key("status"), Key("date")}
         /\ Key(field[2]) \in DOMAIN TextValues(object)
         /\ Value(TextValues(object), Key(field[2])) = object[field]
<1>. DEFINE texts == TextValues(object)
            given == {f \in DOMAIN object : object[f] # "nested"}
<1>1. /\ field \in DOMAIN object /\ object[field] # "nested" /\ object[field] # "null"
      /\ field # Raw("VIN")
  BY DEF OwnTexts
<1>2. field = Raw("status") \/ field = Raw("date")
  BY <1>1 DEF IsObject
<1>3. field = Raw(field[2]) /\ Key(field[2])[2] = field[2]
  BY <1>2 DEF Raw, Key
<1>4. texts = [key \in {Key(f[2]) : f \in given} |-> object[Raw(key[2])]]
  BY DEF TextValues
<1>5. field \in given
  BY <1>1
<1>. HIDE DEF texts, given
<1>6. Key(field[2]) \in DOMAIN texts /\ texts[Key(field[2])] = object[field]
  BY <1>3, <1>4, <1>5
<1>7. Value(texts, Key(field[2])) = object[field]
  BY <1>1, <1>6 DEF Value
<1>8. Key(field[2]) \in {Key("status"), Key("date")}
  <2>1. field[2] = "status" \/ field[2] = "date"
    BY <1>2 DEF Raw
  <2>. QED BY <2>1
<1>. QED BY <1>6, <1>7, <1>8 DEF texts

\* A template with the keys of an object's texts shows them.
LEMMA ObjectIsShown ==
  ASSUME NEW keys, IsKeys(keys), NEW objects, IsSequence(objects), NEW vin, NEW name,
         NEW s \in DOMAIN objects, NEW object, IsObject(object),
         \A field \in OwnTexts(object) :
           /\ \E c \in DOMAIN keys : keys[c] = Key(field[2])
           /\ Value(objects[s], Key(field[2])) = Value(TextValues(object), Key(field[2]))
  PROVE  LET sheet == Sheet(name, keys, Rows(vin, keys, objects))
         IN  s \in DOMAIN sheet.rows /\ ShowsObject(sheet, s, object)
<1>. DEFINE sheet == Sheet(name, keys, Rows(vin, keys, objects))
            row == sheet.rows[s]
<1>1. sheet.header = Labels(keys) /\ sheet.rows = Rows(vin, keys, objects)
  BY DEF Sheet
<1>. HIDE DEF sheet
<1>2. /\ s \in DOMAIN sheet.rows /\ DOMAIN row = DOMAIN keys
      /\ \A c \in DOMAIN keys : keys[c] # Key("VIN") => row[c] = Value(objects[s], keys[c])
  BY <1>1, RowsProperties
<1>. HIDE DEF row
<1>3. ASSUME NEW field \in OwnTexts(object)
      PROVE  \E c \in DOMAIN row : sheet.header[c] = Label(field[2]) /\ row[c] = object[field]
  <2>1. PICK c \in DOMAIN keys : keys[c] = Key(field[2])
    OBVIOUS
  <2>2. /\ Key(field[2]) \in {Key("status"), Key("date")}
        /\ Value(TextValues(object), Key(field[2])) = object[field]
    BY TextValuesProperties
  <2>3. Key(field[2]) # Key("VIN") /\ Key(field[2])[2] = field[2]
    BY <2>2 DEF Key
  <2>4. row[c] = object[field]
    BY <1>2, <2>1, <2>2, <2>3, Zenon
  <2>5. sheet.header[c] = Label(field[2])
    <3>1. sheet.header[c] = Label(keys[c][2])
      BY <1>1, LabelsProperties, Zenon
    <3>. QED BY <2>1, <2>3, <3>1, Zenon
  <2>. QED BY <1>2, <2>4, <2>5
<1>. QED BY <1>2, <1>3 DEF sheet, row, ShowsObject

\* A list of objects, and the texts that are kept of them.
IsTextsOf(texts, objects) ==
  /\ IsSequence(texts) /\ DOMAIN texts = DOMAIN objects
  /\ \A k \in DOMAIN objects : texts[k] = TextValues(objects[k])

\* TextLists keeps the texts of every object of a list.
LEMMA TextListsProperties ==
  ASSUME NEW answer, NEW lists, NEW list \in lists, IsSequence(answer.lists[list])
  PROVE  IsTextsOf(TextLists(answer, lists)[list], answer.lists[list])
<1>. DEFINE objects == answer.lists[list]
            texts == TextLists(answer, lists)[list]
<1>1. texts = [k \in DOMAIN objects |-> TextValues(objects[k])]
  BY DEF TextLists
<1>. HIDE DEF texts, objects
<1>2. Len(objects) \in Nat /\ DOMAIN objects = 1..Len(objects)
  BY SequenceElim DEF objects
<1>3. texts = [k \in 1..Len(objects) |-> texts[k]]
  BY <1>1, <1>2
<1>4. IsSequence(texts)
  BY <1>2, <1>3, SequenceIntro
<1>. QED BY <1>1, <1>4, Zenon DEF IsTextsOf, texts, objects

\* A sheet of a list shows its objects, if the keys have a column for each of their texts.
LEMMA ListIsShown ==
  ASSUME NEW keys, IsKeys(keys), NEW objects, NEW texts, IsTextsOf(texts, objects),
         NEW vin, NEW name, \A k \in DOMAIN objects : IsObject(objects[k]),
         \A k \in DOMAIN objects : \A key \in {Key("status"), Key("date")} \cap DOMAIN texts[k] :
           \E c \in DOMAIN keys : keys[c] = key
  PROVE  LET sheet == Sheet(name, keys, Rows(vin, keys, texts))
         IN  \A k \in DOMAIN objects : k \in DOMAIN sheet.rows /\ ShowsObject(sheet, k, objects[k])
<1>. DEFINE sheet == Sheet(name, keys, Rows(vin, keys, texts))
<1>. SUFFICES ASSUME NEW k \in DOMAIN objects
              PROVE  k \in DOMAIN sheet.rows /\ ShowsObject(sheet, k, objects[k])
  OBVIOUS
<1>1. IsSequence(texts) /\ k \in DOMAIN texts /\ texts[k] = TextValues(objects[k])
  BY DEF IsTextsOf
<1>2. \A field \in OwnTexts(objects[k]) :
        /\ \E c \in DOMAIN keys : keys[c] = Key(field[2])
        /\ Value(texts[k], Key(field[2])) = Value(TextValues(objects[k]), Key(field[2]))
  BY <1>1, TextValuesProperties
<1>. HIDE DEF sheet
<1>. QED BY <1>1, <1>2, ObjectIsShown, Zenon DEF sheet

\* A report of one sheet.
LEMMA OneSheet ==
  ASSUME NEW module, module # "GIBDD", NEW sheet, IsSource(sheet), sheet.name = module
  PROVE  IsReport(module, <<sheet>>)
<1>. DEFINE sheets == <<sheet>>
<1>1. DOMAIN sheets = 1..1 /\ sheets[1] = sheet /\ 1 \in 1..1 /\ \A k \in 1..1 : k = 1
  BY ShortSequences, Zenon
<1>2. SheetNames(module) = {module}
  BY DEF SheetNames
<1>. HIDE DEF sheets
<1>3. IsReport(module, sheets)
  BY <1>1, <1>2, Zenon DEF IsReport
<1>. QED BY <1>3 DEF sheets

\* And it shows an answer, if its sheet shows every object of it.
LEMMA OneSheetSays ==
  ASSUME NEW module, NEW answer, NEW sheet, sheet.name = module,
         \A shown \in ShownObjects(module, answer) :
           OwnTexts(shown[2]) # {} =>
             /\ shown[1] = module
             /\ \E s \in DOMAIN sheet.rows : ShowsObject(sheet, s, shown[2])
  PROVE  Says(module, <<sheet>>, answer)
<1>. DEFINE sheets == <<sheet>>
<1>1. DOMAIN sheets = 1..1 /\ sheets[1] = sheet /\ 1 \in 1..1
  BY ShortSequences, Zenon
<1>. HIDE DEF sheets
<1>2. Says(module, sheets, answer)
  BY <1>1, Zenon DEF Says
<1>. QED BY <1>2 DEF sheets

\* The object of an answer, in the only row of a sheet.
LEMMA SummaryIsShown ==
  ASSUME NEW keys \in {OwnKeys, VinKeys}, NEW object, IsObject(object), NEW text, NEW vin, NEW name,
         \A key \in {Key("status"), Key("date")} :
           Value(text, key) = Value(TextValues(object), key)
  PROVE  LET sheet == Sheet(name, keys, Rows(vin, keys, <<text>>))
         IN  \E s \in DOMAIN sheet.rows : ShowsObject(sheet, s, object)
<1>. DEFINE objects == <<text>>
            sheet == Sheet(name, keys, Rows(vin, keys, objects))
<1>1. IsSequence(objects) /\ 1 \in DOMAIN objects /\ objects[1] = text
  BY Singleton, ShortSequences, Zenon
<1>. HIDE DEF objects
<1>2. IsKeys(keys) /\ \A key \in {Key("status"), Key("date")} : \E c \in DOMAIN keys : keys[c] = key
  BY TemplateKeys
<1>3. \A field \in OwnTexts(object) :
        /\ \E c \in DOMAIN keys : keys[c] = Key(field[2])
        /\ Value(objects[1], Key(field[2])) = Value(TextValues(object), Key(field[2]))
  BY <1>1, <1>2, TextValuesProperties
<1>. HIDE DEF sheet
<1>4. 1 \in DOMAIN sheet.rows /\ ShowsObject(sheet, 1, object)
  BY <1>1, <1>2, <1>3, ObjectIsShown, Zenon DEF sheet
<1>. QED BY <1>4 DEF sheet, objects

\* A module with one object in its answers: the sheet has one row.
LEMMA SummarySheet ==
  ASSUME NEW module \in {"FSSP", "INN", "GISTORGI"}, NEW answer, IsAnswer(module, answer),
         NEW keys \in {OwnKeys, VinKeys}, NEW text, NEW vin,
         \A key \in {Key("status"), Key("date")} :
           Value(text, key) = Value(TextValues(answer.summary), key)
  PROVE  Says(module, <<Sheet(module, keys, Rows(vin, keys, <<text>>))>>, answer)
<1>. DEFINE sheet == Sheet(module, keys, Rows(vin, keys, <<text>>))
<1>1. ShownObjects(module, answer) = {<<module, answer.summary>>}
  BY DEF ShownObjects
<1>2. IsObject(answer.summary)
  BY DEF IsAnswer
<1>3. \E s \in DOMAIN sheet.rows : ShowsObject(sheet, s, answer.summary)
  BY <1>2, SummaryIsShown
<1>4. sheet.name = module
  BY DEF Sheet
<1>. HIDE DEF sheet
<1>5. \A shown \in ShownObjects(module, answer) :
        shown[1] = module /\ \E s \in DOMAIN sheet.rows : ShowsObject(sheet, s, shown[2])
  BY <1>1, <1>3
<1>. QED BY <1>4, <1>5, OneSheetSays, Zenon DEF sheet

\* A template with the keys of every object makes a report of one sheet.
LEMMA OneTemplate ==
  ASSUME NEW module, module # "GIBDD", NEW keys \in {OwnKeys, VinKeys},
         NEW objects, IsSequence(objects), NEW vin
  PROVE  IsReport(module, <<Sheet(module, keys, Rows(vin, keys, objects))>>)
<1>1. IsKeys(keys)
  BY TemplateKeys
<1>. DEFINE sheet == Sheet(module, keys, Rows(vin, keys, objects))
<1>2. IsSource(sheet) /\ sheet.name = module
  BY <1>1, SheetIsSource
<1>. HIDE DEF sheet
<1>. QED BY <1>2, OneSheet, Zenon DEF sheet

\* A module with a list in its answers: the sheet has a row for each of its objects.
LEMMA ListSheet ==
  ASSUME NEW module \in {"BANKRUPTCY", "TAXI", "LIMITATION"},
         NEW answer, IsAnswer(module, answer), NEW keys \in {OwnKeys, VinKeys}, NEW vin,
         NEW texts, texts = TextLists(answer, {"records"})["records"]
  PROVE  LET sheets == <<Sheet(module, keys, Rows(vin, keys, texts))>>
         IN  IsReport(module, sheets) /\ Says(module, sheets, answer)
<1>. DEFINE objects == answer.lists["records"]
            sheet == Sheet(module, keys, Rows(vin, keys, texts))
<1>1. IsSequence(objects) /\ \A k \in DOMAIN objects : IsObject(objects[k])
  <2>1. "records" \in ListsOf(module)
    BY DEF ListsOf
  <2>. QED BY <2>1 DEF IsAnswer
<1>2. IsTextsOf(texts, objects)
  BY <1>1, TextListsProperties
<1>3. IsKeys(keys) /\ \A key \in {Key("status"), Key("date")} : \E c \in DOMAIN keys : keys[c] = key
  BY TemplateKeys
<1>4. ShownObjects(module, answer) = {<<module, objects[k]>> : k \in DOMAIN objects}
  BY DEF ShownObjects
<1>5. sheet.name = module
  BY DEF Sheet
<1>. HIDE DEF sheet, objects
<1>6. \A k \in DOMAIN objects : k \in DOMAIN sheet.rows /\ ShowsObject(sheet, k, objects[k])
  BY <1>1, <1>2, <1>3, ListIsShown, Zenon DEF sheet
<1>7. \A shown \in ShownObjects(module, answer) :
        shown[1] = module /\ \E s \in DOMAIN sheet.rows : ShowsObject(sheet, s, shown[2])
  BY <1>4, <1>6
<1>8. Says(module, <<sheet>>, answer)
  BY <1>5, <1>7, OneSheetSays, Zenon
<1>9. IsReport(module, <<sheet>>)
  <2>1. module # "GIBDD" /\ IsSequence(texts)
    BY <1>2 DEF IsTextsOf
  <2>. QED BY <2>1, OneTemplate DEF sheet
<1>. QED BY <1>8, <1>9, Zenon DEF sheet

\* A report of INN, FSSP or GISTORGI.
LEMMA SummaryReports ==
  ASSUME NEW module \in {"FSSP", "INN", "GISTORGI"}, NEW answer, IsAnswer(module, answer)
  PROVE  LET sheets == Render(module, MapResult(module, answer))
         IN  /\ IsReport(module, sheets)
             /\ ~Unparsed(module, answer) => Says(module, sheets, answer)
<1>. DEFINE sheets == Render(module, MapResult(module, answer))
            summary == TextValues(answer.summary)
<1>1. CASE module = "INN"
  <2>1. sheets = <<Sheet(module, OwnKeys, Rows(Dash, OwnKeys, <<summary>>))>>
    BY <1>1 DEF Render, MapResult, MapInn, InnSheet, Result
  <2>. HIDE DEF sheets, summary
  <2>2. IsReport(module, sheets)
    BY <1>1, <2>1, Singleton, OneTemplate
  <2>3. Says(module, sheets, answer)
    BY <1>1, <2>1, SummarySheet DEF summary
  <2>. QED BY <2>2, <2>3 DEF sheets
<1>2. CASE module = "FSSP" /\ Unparsed(module, answer)
  <2>1. sheets = <<Sheet(module, OwnKeys, Rows(Dash, OwnKeys, <<answer.summary>>))>>
    BY <1>2 DEF Render, MapResult, MapFssp, FsspSheet, Result
  <2>. HIDE DEF sheets
  <2>2. IsReport(module, sheets)
    BY <1>2, <2>1, Singleton, OneTemplate
  <2>. QED BY <1>2, <2>2 DEF sheets
<1>3. CASE module = "FSSP" /\ ~Unparsed(module, answer)
  <2>1. sheets = <<Sheet(module, OwnKeys, Rows(Dash, OwnKeys, <<summary>>))>>
    BY <1>3 DEF Render, MapResult, MapFssp, FsspSheet, Result
  <2>. HIDE DEF sheets, summary
  <2>2. IsReport(module, sheets)
    BY <1>3, <2>1, Singleton, OneTemplate
  <2>3. Says(module, sheets, answer)
    BY <1>3, <2>1, SummarySheet DEF summary
  <2>. QED BY <2>2, <2>3 DEF sheets
<1>4. CASE module = "GISTORGI"
  <2>. DEFINE lot == [key \in DOMAIN summary \ {Key("VIN")} |-> summary[key]]
              vin == MapGistorgi(answer).input_key
              records == IF DOMAIN lot = {} THEN <<>> ELSE <<lot>>
  <2>1. sheets = <<Sheet(module, VinKeys, Rows(vin, VinKeys, records))>>
    BY <1>4 DEF Render, MapResult, MapGistorgi, GistorgiSheet, Result
  <2>2. \A key \in {Key("status"), Key("date")} : Value(lot, key) = Value(summary, key)
    <3>1. \A key \in {Key("status"), Key("date")} : key # Key("VIN")
      BY DEF Key
    <3>. HIDE DEF summary
    <3>. QED BY <3>1 DEF Value
  <2>3. IsSequence(records)
    <3>1. IsSequence(<<>>)
      BY DEF IsSequence
    <3>. HIDE DEF lot
    <3>. QED BY <3>1, Singleton
  <2>. HIDE DEF sheets, summary, vin
  <2>4. IsReport(module, sheets)
    <3>. HIDE DEF records
    <3>. QED BY <1>4, <2>1, <2>3, OneTemplate
  <2>5. ASSUME OwnTexts(answer.summary) # {} PROVE DOMAIN lot # {}
    <3>1. PICK field : field \in OwnTexts(answer.summary)
      BY <2>5
    <3>2. Key(field[2]) \in {Key("status"), Key("date")} /\ Key(field[2]) \in DOMAIN summary
      BY <3>1, TextValuesProperties DEF IsAnswer, summary
    <3>3. Key(field[2]) # Key("VIN")
      BY <3>2 DEF Key
    <3>. QED BY <3>2, <3>3
  <2>. HIDE DEF lot
  <2>6. Says(module, sheets, answer)
    <3>1. CASE OwnTexts(answer.summary) # {}
      <4>1. records = <<lot>>
        BY <2>5, <3>1
      <4>2. sheets = <<Sheet(module, VinKeys, Rows(vin, VinKeys, <<lot>>))>>
        BY <2>1, <4>1
      <4>. QED BY <1>4, <2>2, <4>2, SummarySheet DEF summary
    <3>2. CASE OwnTexts(answer.summary) = {}
      <4>1. ShownObjects(module, answer) = {<<module, answer.summary>>}
        BY <1>4 DEF ShownObjects
      <4>2. \A shown \in ShownObjects(module, answer) : OwnTexts(shown[2]) = {}
        BY <3>2, <4>1
      <4>. QED BY <4>2, Zenon DEF Says
    <3>. QED BY <3>1, <3>2
  <2>. QED BY <2>4, <2>6 DEF sheets
<1>. QED BY <1>1, <1>2, <1>3, <1>4

\* A report of BANKRUPTCY, TAXI or LIMITATION.
LEMMA ListReports ==
  ASSUME NEW module \in {"BANKRUPTCY", "TAXI", "LIMITATION"},
         NEW answer, IsAnswer(module, answer)
  PROVE  LET sheets == Render(module, MapResult(module, answer))
         IN  IsReport(module, sheets) /\ Says(module, sheets, answer)
<1>. DEFINE sheets == Render(module, MapResult(module, answer))
            texts == TextLists(answer, {"records"})["records"]
            objects == answer.lists["records"]
<1>1. CASE module = "BANKRUPTCY"
  <2>1. sheets = <<Sheet(module, OwnKeys, Rows(Dash, OwnKeys, texts))>>
    BY <1>1 DEF Render, MapResult, MapBankruptcy, BankruptcySheet, Result
  <2>. HIDE DEF sheets
  <2>. QED BY <1>1, <2>1, ListSheet DEF sheets
<1>2. CASE module = "LIMITATION"
  <2>1. sheets = <<Sheet(module, VinKeys, Rows(answer.input_key, VinKeys, texts))>>
    BY <1>2 DEF Render, MapResult, MapLimitation, LimitationSheet, Result
  <2>. HIDE DEF sheets
  <2>. QED BY <1>2, <2>1, ListSheet DEF sheets
<1>3. CASE module = "TAXI" /\ texts # <<>>
  <2>1. sheets = <<Sheet(module, VinKeys, Rows(answer.input_key, VinKeys, texts))>>
    BY <1>3 DEF Render, MapResult, MapTaxi, TaxiSheet, Result
  <2>. HIDE DEF sheets
  <2>. QED BY <1>3, <2>1, ListSheet DEF sheets
<1>4. CASE module = "TAXI" /\ texts = <<>>
  <2>. DEFINE row == <<answer.input_key, "none found">>
              sheet == Sheet(module, VinKeys, <<row>>)
  <2>1. sheets = <<sheet>>
    BY <1>4 DEF Render, MapResult, MapTaxi, TaxiSheet, Result
  <2>2. sheet.name = module /\ sheet.header = Labels(VinKeys) /\ sheet.rows = <<row>>
    BY DEF Sheet
  <2>3. /\ IsSequence(sheet.header) /\ IsInjective(sheet.header) /\ DOMAIN sheet.header = 1..3
        /\ \A c \in 1..3 :
             sheet.header[c] \notin {<<"column", "subject">>, <<"column", "status">>}
    <3>1. DOMAIN VinKeys = 1..3
      BY DEF VinKeys, OwnKeys
    <3>2. IsKeys(VinKeys)
      BY TemplateKeys
    <3>. HIDE DEF sheet
    <3>. QED BY <2>2, <3>1, <3>2, LabelsProperties, Zenon
  <2>4. IsSequence(row) /\ DOMAIN row = 1..2
    <3>1. row = [c \in 1..2 |-> row[c]] /\ DOMAIN row = 1..2 /\ 2 \in Nat
      OBVIOUS
    <3>. HIDE DEF row
    <3>. QED BY <3>1, SequenceIntro
  <2>. HIDE DEF sheet, sheets, row
  <2>5. /\ IsSequence(sheet.rows) /\ DOMAIN sheet.rows = 1..1
        /\ \A s \in 1..1 : sheet.rows[s] = row
    BY <2>2, Singleton, ShortSequences, Zenon
  <2>6. \A c \in 1..2 : c \in 1..3
    OBVIOUS
  <2>7. IsSource(sheet)
    BY <2>3, <2>4, <2>5, <2>6 DEF IsSource
  <2>8. IsReport(module, sheets)
    BY <1>4, <2>1, <2>2, <2>7, OneSheet
  <2>9. DOMAIN objects = {}
    <3>1. "records" \in ListsOf(module)
      BY <1>4 DEF ListsOf
    <3>2. IsTextsOf(texts, objects)
      BY <3>1, TextListsProperties DEF IsAnswer
    <3>3. DOMAIN texts = {}
      BY <1>4
    <3>. QED BY <3>2, <3>3, Zenon DEF IsTextsOf
  <2>10. ShownObjects(module, answer) = {}
    BY <1>4, <2>9 DEF ShownObjects
  <2>11. Says(module, sheets, answer)
    BY <2>10, Zenon DEF Says
  <2>. QED BY <2>8, <2>11 DEF sheets
<1>. QED BY <1>1, <1>2, <1>3, <1>4

\* One sheet of the GIBDD report shows its objects.
LEMMA PresentSheet ==
  ASSUME NEW objects, NEW texts, IsTextsOf(texts, objects), NEW vin, NEW name,
         \A k \in DOMAIN objects : IsObject(objects[k])
  PROVE  LET sheet == Sheet(name, PresentKeys(texts), Rows(vin, PresentKeys(texts), texts))
         IN  /\ IsSource(sheet) /\ sheet.name = name
             /\ \A k \in DOMAIN objects : k \in DOMAIN sheet.rows /\ ShowsObject(sheet, k, objects[k])
<1>. DEFINE keys == PresentKeys(texts)
            sheet == Sheet(name, keys, Rows(vin, keys, texts))
<1>1. IsSequence(texts) /\ DOMAIN texts = DOMAIN objects
  BY DEF IsTextsOf
<1>2. IsKeys(keys)
  BY PresentKeysProperties
<1>3. \A k \in DOMAIN objects : \A key \in {Key("status"), Key("date")} \cap DOMAIN texts[k] :
        \E c \in DOMAIN keys : keys[c] = key
  BY <1>1, PresentKeysProperties
<1>. HIDE DEF keys
<1>4. IsSource(sheet) /\ sheet.name = name
  BY <1>1, <1>2, SheetIsSource
<1>. HIDE DEF sheet
<1>5. \A k \in DOMAIN objects : k \in DOMAIN sheet.rows /\ ShowsObject(sheet, k, objects[k])
  BY <1>2, <1>3, ListIsShown, Zenon DEF sheet
<1>. QED BY <1>4, <1>5 DEF sheet, keys

\* A report of the GIBDD.
LEMMA GibddReports ==
  ASSUME NEW answer, IsAnswer("GIBDD", answer)
  PROVE  LET sheets == Render("GIBDD", MapResult("GIBDD", answer))
         IN  IsReport("GIBDD", sheets) /\ Says("GIBDD", sheets, answer)
<1>. DEFINE sheets == Render("GIBDD", MapResult("GIBDD", answer))
            summary == TextValues(answer.summary)
            vin == Value(summary, Key("VIN"))
            texts(list) == TextLists(answer, {"fines", "accidents"})[list]
            sheet(name, objects) ==
              Sheet(name, PresentKeys(objects), Rows(vin, PresentKeys(objects), objects))
            one == sheet("summary", <<summary>>)
            two == sheet("fines", texts("fines"))
            three == sheet("accidents", texts("accidents"))
            fines == answer.lists["fines"]
            accidents == answer.lists["accidents"]
<1>1. sheets = <<one, two, three>>
  BY DEF Render, MapResult, MapGibdd, GibddSheets, Result
<1>2. /\ IsObject(answer.summary)
      /\ IsSequence(fines) /\ \A k \in DOMAIN fines : IsObject(fines[k])
      /\ IsSequence(accidents) /\ \A k \in DOMAIN accidents : IsObject(accidents[k])
  <2>1. ListsOf("GIBDD") = {"fines", "accidents"}
    BY DEF ListsOf
  <2>. QED BY <2>1 DEF IsAnswer
<1>3. IsTextsOf(texts("fines"), fines) /\ IsTextsOf(texts("accidents"), accidents)
  BY <1>2, TextListsProperties
<1>4. IsTextsOf(<<summary>>, <<answer.summary>>)
  <2>. HIDE DEF summary
  <2>1. IsSequence(<<summary>>) /\ DOMAIN <<summary>> = 1..1 /\ <<summary>>[1] = summary
    BY Singleton, Zenon
  <2>2. DOMAIN <<answer.summary>> = 1..1 /\ <<answer.summary>>[1] = answer.summary
    BY Singleton, Zenon
  <2>3. \A k \in 1..1 : k = 1
    BY ShortSequences
  <2>. QED BY <2>1, <2>2, <2>3, Zenon DEF IsTextsOf, summary
<1>. HIDE DEF texts, vin, summary, sheets, fines, accidents
<1>5. /\ IsSource(one) /\ one.name = "summary"
      /\ \E s \in DOMAIN one.rows : ShowsObject(one, s, answer.summary)
  <2>. DEFINE objects == <<answer.summary>>
  <2>1. DOMAIN objects = 1..1 /\ objects[1] = answer.summary /\ 1 \in 1..1 /\ \A k \in 1..1 : k = 1
    BY ShortSequences, Zenon
  <2>. HIDE DEF objects
  <2>2. \A k \in DOMAIN objects : IsObject(objects[k])
    BY <1>2, <2>1, Zenon
  <2>3. /\ IsSource(one) /\ one.name = "summary"
        /\ \A k \in DOMAIN objects : k \in DOMAIN one.rows /\ ShowsObject(one, k, objects[k])
    BY <1>4, <2>2, PresentSheet DEF objects
  <2>. HIDE DEF one
  <2>. QED BY <2>1, <2>3
<1>6. /\ IsSource(two) /\ two.name = "fines"
      /\ \A k \in DOMAIN fines : k \in DOMAIN two.rows /\ ShowsObject(two, k, fines[k])
  BY <1>2, <1>3, PresentSheet
<1>7. /\ IsSource(three) /\ three.name = "accidents"
      /\ \A k \in DOMAIN accidents : k \in DOMAIN three.rows /\ ShowsObject(three, k, accidents[k])
  BY <1>2, <1>3, PresentSheet
<1>. HIDE DEF one, two, three
<1>8. /\ DOMAIN sheets = 1..3 /\ 1 \in 1..3 /\ 2 \in 1..3 /\ 3 \in 1..3
      /\ sheets[1] = one /\ sheets[2] = two /\ sheets[3] = three
      /\ \A k \in 1..3 : k = 1 \/ k = 2 \/ k = 3
  BY <1>1
<1>9. SheetNames("GIBDD") = {"summary", "fines", "accidents"}
  BY DEF SheetNames
<1>10. \A k \in DOMAIN sheets : sheets[k].name \in SheetNames("GIBDD") /\ IsSource(sheets[k])
  BY <1>5, <1>6, <1>7, <1>8, <1>9
<1>11. \A j, k \in DOMAIN sheets : sheets[j].name = sheets[k].name => j = k
  BY <1>5, <1>6, <1>7, <1>8
<1>12. \A name \in SheetNames("GIBDD") : \E k \in DOMAIN sheets : sheets[k].name = name
  BY <1>5, <1>6, <1>7, <1>8, <1>9
<1>13. ASSUME NEW shown \in ShownObjects("GIBDD", answer)
       PROVE  \E k \in DOMAIN sheets : sheets[k].name = shown[1] /\
                \E s \in DOMAIN sheets[k].rows : ShowsObject(sheets[k], s, shown[2])
  <2>1. \/ shown = <<"summary", answer.summary>>
        \/ \E k \in DOMAIN fines : shown = <<"fines", fines[k]>>
        \/ \E k \in DOMAIN accidents : shown = <<"accidents", accidents[k]>>
    BY DEF ShownObjects, fines, accidents
  <2>2. CASE shown = <<"summary", answer.summary>>
    <3>1. shown[1] = "summary" /\ shown[2] = answer.summary
      BY <2>2
    <3>. QED BY <1>5, <1>8, <3>1
  <2>3. ASSUME NEW k \in DOMAIN fines, shown = <<"fines", fines[k]>>
        PROVE  \E i \in DOMAIN sheets : sheets[i].name = shown[1] /\
                 \E s \in DOMAIN sheets[i].rows : ShowsObject(sheets[i], s, shown[2])
    <3>1. shown[1] = "fines" /\ shown[2] = fines[k]
      BY <2>3
    <3>. QED BY <1>6, <1>8, <3>1
  <2>4. ASSUME NEW k \in DOMAIN accidents, shown = <<"accidents", accidents[k]>>
        PROVE  \E i \in DOMAIN sheets : sheets[i].name = shown[1] /\
                 \E s \in DOMAIN sheets[i].rows : ShowsObject(sheets[i], s, shown[2])
    <3>1. shown[1] = "accidents" /\ shown[2] = accidents[k]
      BY <2>4
    <3>. QED BY <1>7, <1>8, <3>1
  <2>. QED BY <2>1, <2>2, <2>3, <2>4
<1>14. IsReport("GIBDD", sheets) /\ Says("GIBDD", sheets, answer)
  BY <1>10, <1>11, <1>12, <1>13, Zenon DEF IsReport, Says
<1>. QED BY <1>14 DEF sheets

\* Whatever a provider answers, its report has the sheets of its module, and shows what was
\* said, except a result of the FSSP that does not fit the schema.
THEOREM RenderProperties ==
  ASSUME NEW module \in CheckModules, NEW answer, IsAnswer(module, answer)
  PROVE  LET sheets == Render(module, MapResult(module, answer))
         IN  /\ IsReport(module, sheets)
             /\ ~Unparsed(module, answer) => Says(module, sheets, answer)
BY SummaryReports, ListReports, GibddReports DEF CheckModules, VinModules

-----------------------------------------------------------------------------
(* The merge of the headers.                                               *)

\* The columns of a sheet: each label once.
IsHeader(header) == IsSequence(header) /\ IsInjective(header)

\* A header after another: no column is moved, and every label of the source has one.
Extends(new, header, source) ==
  /\ IsHeader(new)
  /\ \A t \in DOMAIN header : t \in DOMAIN new /\ new[t] = header[t]
  /\ \A c \in DOMAIN source.header : \E t \in DOMAIN new : new[t] = source.header[c]

\* The first columns are two.
LEMMA FirstColumnsAreAHeader ==
  /\ IsHeader(FirstColumns)
  /\ \A a \in DOMAIN FirstColumns :
       FirstColumns[a] \in {<<"column", "subject">>, <<"column", "status">>}
<1>1. /\ FirstColumns = [a \in 1..2 |-> FirstColumns[a]] /\ DOMAIN FirstColumns = 1..2
      /\ FirstColumns[1] = <<"column", "subject">> /\ FirstColumns[2] = <<"column", "status">>
      /\ <<"column", "subject">> # <<"column", "status">>
  BY DEF FirstColumns
<1>2. 2 \in Nat /\ \A a \in 1..2 : a = 1 \/ a = 2
  OBVIOUS
<1>3. IsSequence(FirstColumns)
  BY <1>1, <1>2, SequenceIntro
<1>. QED BY <1>1, <1>2, <1>3, Zenon DEF IsInjective, IsHeader

\* ensureBatchHeaders adds what is missing and leaves the rest where it was.
THEOREM EnsureHeadersProperties ==
  ASSUME NEW header, IsHeader(header), NEW source, IsSource(source)
  PROVE  Extends(EnsureHeaders(header, source), header, source)
<1>. DEFINE first == IF header = <<>> THEN FirstColumns \o source.header ELSE header
            known(c) == ToSet(first) \cup {source.header[b] : b \in 1..(c - 1)}
            P == {c \in DOMAIN source.header : source.header[c] \notin known(c)}
            kept == KeepAt(source.header, P)
            new == first \o kept
            n == Len(source.header)
            N == Cardinality(P)
            T == {source.header[p] : p \in P}
<1>1. EnsureHeaders(header, source) = new
  BY DEF EnsureHeaders
<1>2. /\ IsSequence(source.header) /\ IsInjective(source.header)
      /\ n \in Nat /\ DOMAIN source.header = 1..n
  BY SequenceElim DEF IsSource
<1>3. /\ IsSequence(FirstColumns) /\ IsInjective(FirstColumns)
      /\ \A a \in DOMAIN FirstColumns :
           FirstColumns[a] \in {<<"column", "subject">>, <<"column", "status">>}
  BY FirstColumnsAreAHeader DEF IsHeader
<1>4. /\ IsHeader(first)
      /\ \A t \in DOMAIN header : t \in DOMAIN first /\ first[t] = header[t]
  <2>1. CASE header = <<>>
    <3>1. first = FirstColumns \o source.header /\ DOMAIN header = {}
      BY <2>1
    <3>2. Joins(FirstColumns, source.header, first)
      BY <1>2, <1>3, <3>1, Joined
    <3>. HIDE DEF first
    <3>3. \A a \in DOMAIN FirstColumns, b \in DOMAIN source.header :
            FirstColumns[a] # source.header[b]
      BY <1>3, Zenon DEF IsSource
    <3>4. IsInjective(first)
      BY <1>2, <1>3, <3>2, <3>3, JoinedInjective, Zenon
    <3>5. IsSequence(first)
      BY <3>2 DEF Joins
    <3>. QED BY <3>1, <3>4, <3>5 DEF IsHeader
  <2>2. CASE header # <<>>
    BY <2>2
  <2>. QED BY <2>1, <2>2
<1>. HIDE DEF first
<1>5. P \in SUBSET (1..n) /\ \A p, q \in P : source.header[p] = source.header[q] => p = q
  BY <1>2 DEF IsInjective
<1>6. ASSUME NEW c \in DOMAIN source.header, source.header[c] \notin ToSet(first)
      PROVE  c \in P
  <2>1. \A b \in 1..(c - 1) : b \in DOMAIN source.header /\ b # c
    BY <1>2
  <2>2. \A b \in 1..(c - 1) : source.header[b] # source.header[c]
    BY <1>2, <2>1 DEF IsInjective
  <2>. QED BY <1>6, <2>2
<1>7. \A p \in P : source.header[p] \notin ToSet(first)
  OBVIOUS
<1>. HIDE DEF P, n
<1>8. N \in Nat /\ kept \in Bijection(1..N, T)
  BY <1>2, <1>5, KeptOnce
<1>. HIDE DEF kept, N
<1>9. /\ kept \in [1..N -> T] /\ IsInjective(kept)
      /\ \A label \in T : \E c \in 1..N : kept[c] = label
  <2>. HIDE DEF T
  <2>. QED BY <1>8 DEF Bijection, Injection, Surjection, IsInjective
<1>10. IsSequence(kept) /\ DOMAIN kept = 1..N
  <2>1. kept = [c \in 1..N |-> kept[c]]
    BY <1>9
  <2>. QED BY <1>8, <2>1, SequenceIntro
<1>11. Joins(first, kept, new)
  BY <1>4, <1>10, Joined DEF IsHeader
<1>. HIDE DEF new
<1>12. IsHeader(new)
  <2>1. \A b \in DOMAIN kept : kept[b] \notin ToSet(first)
    BY <1>7, <1>9, <1>10
  <2>2. \A a \in DOMAIN first, b \in DOMAIN kept : first[a] # kept[b]
    BY <2>1 DEF ToSet
  <2>3. IsSequence(first) /\ IsInjective(first)
    BY <1>4 DEF IsHeader
  <2>4. IsInjective(new)
    BY <1>9, <1>10, <1>11, <2>2, <2>3, JoinedInjective, Zenon
  <2>. QED BY <1>11, <2>4 DEF IsHeader, Joins
<1>13. \A t \in DOMAIN header : t \in DOMAIN new /\ new[t] = header[t]
  BY <1>4, <1>11, Zenon DEF Joins
<1>14. ASSUME NEW c \in DOMAIN source.header
       PROVE  \E t \in DOMAIN new : new[t] = source.header[c]
  <2>1. CASE source.header[c] \in ToSet(first)
    <3>1. PICK t \in DOMAIN first : first[t] = source.header[c]
      BY <2>1 DEF ToSet
    <3>. QED BY <1>11, <3>1 DEF Joins
  <2>2. CASE source.header[c] \notin ToSet(first)
    <3>1. PICK b \in 1..N : kept[b] = source.header[c]
      BY <1>6, <1>9, <2>2
    <3>. QED BY <1>10, <1>11, <3>1 DEF Joins
  <2>. QED BY <2>1, <2>2
<1>. QED BY <1>1, <1>12, <1>13, <1>14, Zenon DEF Extends

\* headerColumns finds the column of every label of the source.
LEMMA TargetColumnProperties ==
  ASSUME NEW header, IsHeader(header), NEW source, NEW c,
         \E t \in DOMAIN header : header[t] = source.header[c]
  PROVE  /\ TargetColumn(header, source, c) \in DOMAIN header
         /\ header[TargetColumn(header, source, c)] = source.header[c]
<1>. DEFINE P == {t \in DOMAIN header : header[t] = source.header[c]}
            n == Len(header)
<1>1. n \in Nat /\ DOMAIN header = 1..n
  BY SequenceElim DEF IsHeader
<1>2. P \in SUBSET (1..n) /\ P # {}
  BY <1>1
<1>. HIDE DEF n
<1>3. Max(P) \in P
  <2>. HIDE DEF P
  <2>. QED BY <1>1, <1>2, LastPosition
<1>. QED BY <1>3 DEF TargetColumn

\* A row of the merged sheet shows a row of a single report's sheet.
ShowsRow(cells, header, source, s) ==
  /\ Cardinality(DOMAIN cells) = Len(source.rows[s])
  /\ \A c \in DOMAIN source.rows[s] : \E t \in DOMAIN cells :
       header[t] = source.header[c] /\ cells[t] = source.rows[s][c]

\* Every cell goes to the column of its label, and none to the column of another.
LEMMA CellsOfProperties ==
  ASSUME NEW header, NEW old, NEW source, IsSource(source), Extends(header, old, source),
         NEW s \in DOMAIN source.rows
  PROVE  LET cells == CellsOf(header, source, source.rows[s])
         IN  DOMAIN cells \subseteq DOMAIN header /\ ShowsRow(cells, header, source, s)
<1>. DEFINE row == source.rows[s]
            n == Len(row)
            target(c) == TargetColumn(header, source, c)
            columns == {target(c) : c \in DOMAIN row}
            cells == CellsOf(header, source, row)
            targets == [c \in 1..n |-> target(c)]
<1>1. IsSequence(row) /\ n \in Nat /\ DOMAIN row = 1..n /\ 1..n \subseteq DOMAIN source.header
  BY SequenceElim DEF IsSource
<1>2. cells = [t \in columns |-> row[Max({c \in DOMAIN row : target(c) = t})]]
  BY DEF CellsOf
<1>. HIDE DEF cells, row, n
<1>3. \A c \in 1..n : target(c) \in DOMAIN header /\ header[target(c)] = source.header[c]
  BY <1>1, TargetColumnProperties DEF Extends
<1>. HIDE DEF target
<1>4. \A b, c \in 1..n : target(b) = target(c) => b = c
  BY <1>1, <1>3 DEF IsSource, IsInjective
<1>5. ASSUME NEW c \in 1..n
      PROVE  target(c) \in DOMAIN cells /\ cells[target(c)] = row[c]
  <2>. DEFINE P == {b \in DOMAIN row : target(b) = target(c)}
  <2>1. P = {c}
    BY <1>1, <1>4
  <2>2. Max(P) \in P
    <3>1. P \in SUBSET (1..n) /\ P # {}
      BY <1>1, <2>1
    <3>. HIDE DEF P
    <3>. QED BY <1>1, <3>1, LastPosition
  <2>3. Max(P) = c
    BY <2>1, <2>2
  <2>4. target(c) \in columns
    BY <1>1
  <2>. QED BY <1>2, <2>3, <2>4
<1>6. DOMAIN cells = columns
  BY <1>2
<1>7. columns \subseteq DOMAIN header
  BY <1>1, <1>3
<1>8. Cardinality(columns) = n
  <2>1. targets \in [1..n -> columns] /\ \A c \in 1..n : targets[c] = target(c)
    BY <1>1
  <2>2. \A t \in columns : \E c \in 1..n : targets[c] = t
    BY <1>1
  <2>3. \A b, c \in 1..n : targets[b] = targets[c] => b = c
    BY <1>4, <2>1
  <2>. HIDE DEF targets, columns
  <2>4. targets \in Bijection(1..n, columns)
    BY <2>1, <2>2, <2>3 DEF Bijection, Injection, Surjection, IsInjective
  <2>5. IsFiniteSet(1..n) /\ Cardinality(1..n) = n
    BY <1>1, FS_Interval
  <2>. QED BY <2>4, <2>5, FS_Bijection DEF ExistsBijection
<1>. HIDE DEF columns
<1>9. ShowsRow(cells, header, source, s)
  <2>1. \A c \in DOMAIN row : \E t \in DOMAIN cells :
          header[t] = source.header[c] /\ cells[t] = row[c]
    BY <1>1, <1>3, <1>5
  <2>. QED BY <1>6, <1>8, <2>1 DEF ShowsRow, row, n
<1>. QED BY <1>6, <1>7, <1>9 DEF cells, row

\* A row is one of a check.
RowOf(row, check) == row.subject = check.text /\ row.status = check.status

\* The rows that a single report's sheet adds to the batch's.
IsAdded(rows, header, source, check) ==
  /\ IsSequence(rows) /\ 1 \in DOMAIN rows
  /\ \A r \in DOMAIN rows :
       /\ RowOf(rows[r], check) /\ DOMAIN rows[r].cells \subseteq DOMAIN header
       /\ \/ rows[r].cells = NoCells
          \/ \E s \in DOMAIN source.rows : ShowsRow(rows[r].cells, header, source, s)
  /\ \A s \in DOMAIN source.rows : \E r \in DOMAIN rows : ShowsRow(rows[r].cells, header, source, s)

\* At least one row, and one for each of the source's.
LEMMA RowsOfProperties ==
  ASSUME NEW header, NEW old, NEW source, IsSource(source), Extends(header, old, source),
         NEW check
  PROVE  IsAdded(RowsOf(header, source, check), header, source, check)
<1>. DEFINE rows == RowsOf(header, source, check)
<1>1. CASE source.rows = <<>>
  <2>. DEFINE row == [subject |-> check.text, status |-> check.status, cells |-> NoCells]
  <2>1. rows = <<row>>
    BY <1>1 DEF RowsOf
  <2>2. RowOf(row, check) /\ row.cells = NoCells
    BY DEF RowOf
  <2>3. DOMAIN NoCells = {} /\ DOMAIN source.rows = {}
    BY <1>1 DEF NoCells
  <2>. HIDE DEF row, rows
  <2>4. /\ IsSequence(rows) /\ DOMAIN rows = 1..1 /\ rows[1] = row
        /\ 1 \in 1..1 /\ \A k \in 1..1 : k = 1
    BY <2>1, Singleton, ShortSequences, Zenon
  <2>. QED BY <2>2, <2>3, <2>4 DEF IsAdded, rows
<1>2. CASE source.rows # <<>>
  <2>. DEFINE n == Len(source.rows)
  <2>1. IsSequence(source.rows) /\ n \in Nat /\ DOMAIN source.rows = 1..n
    BY SequenceElim DEF IsSource
  <2>2. 1 \in 1..n
    <3>1. n # 0
      BY <1>2, <2>1 DEF IsSequence
    <3>. QED BY <2>1, <3>1
  <2>3. rows = [k \in DOMAIN source.rows |->
                  [subject |-> check.text, status |-> check.status,
                   cells |-> CellsOf(header, source, source.rows[k])]]
    BY <1>2 DEF RowsOf
  <2>. HIDE DEF rows, n
  <2>4. /\ DOMAIN rows = 1..n
        /\ \A k \in 1..n : /\ RowOf(rows[k], check)
                           /\ rows[k].cells = CellsOf(header, source, source.rows[k])
    BY <2>1, <2>3 DEF RowOf
  <2>5. IsSequence(rows)
    <3>1. rows = [k \in 1..n |-> rows[k]]
      BY <2>1, <2>3
    <3>. QED BY <2>1, <3>1, SequenceIntro
  <2>6. \A k \in 1..n : /\ DOMAIN rows[k].cells \subseteq DOMAIN header
                        /\ ShowsRow(rows[k].cells, header, source, k)
    BY <2>1, <2>4, CellsOfProperties
  <2>. QED BY <2>1, <2>2, <2>4, <2>5, <2>6, Zenon DEF IsAdded, rows
<1>. QED BY <1>1, <1>2

-----------------------------------------------------------------------------
(* The merge of the rows.                                                  *)

\* Every check of M has a row of its own.
Placed(rows, checks, M, place) ==
  /\ place \in [M -> DOMAIN rows]
  /\ \A j, k \in M : place[j] = place[k] => j = k
  /\ \A k \in M : RowOf(rows[place[k]], checks[k])

\* A row shows nothing, or what the report of check k has for the sheet of this name.
FromReport(row, header, name, reports, k) ==
  \/ row.cells = NoCells
  \/ k \in DOMAIN reports /\ \E i \in DOMAIN reports[k] : reports[k][i].name = name /\
       \E s \in DOMAIN reports[k][i].rows : ShowsRow(row.cells, header, reports[k][i], s)

\* A sheet shows a check's report.
ShowsReport(sheet, name, check, report) ==
  \A i \in DOMAIN report : report[i].name = name =>
    \A s \in DOMAIN report[i].rows : \E r \in DOMAIN sheet.rows :
      RowOf(sheet.rows[r], check) /\ ShowsRow(sheet.rows[r].cells, sheet.header, report[i], s)

\* What a sheet of the batch's workbook is, when the checks of M are on it and the reports of
\* some of them are merged.
Holds(sheet, name, checks, M, reports) ==
  /\ sheet = [header |-> sheet.header, rows |-> sheet.rows]
  /\ IsHeader(sheet.header) /\ IsSequence(sheet.rows)
  /\ \A r \in DOMAIN sheet.rows :
       /\ DOMAIN sheet.rows[r].cells \subseteq DOMAIN sheet.header
       /\ \E k \in M : /\ RowOf(sheet.rows[r], checks[k])
                       /\ FromReport(sheet.rows[r], sheet.header, name, reports, k)
  /\ \E place : Placed(sheet.rows, checks, M, place)
  /\ \A k \in DOMAIN reports : ShowsReport(sheet, name, checks[k], reports[k])

\* A sheet that has no header yet.
LEMMA NewSheetHolds ==
  ASSUME NEW name, NEW checks, NEW reports, DOMAIN reports = {}
  PROVE  Holds(NewSheet, name, checks, {}, reports)
<1>1. /\ NewSheet.header = <<>> /\ NewSheet.rows = <<>>
      /\ NewSheet = [header |-> NewSheet.header, rows |-> NewSheet.rows]
  BY DEF NewSheet
<1>2. DOMAIN <<>> = {} /\ IsSequence(<<>>) /\ IsInjective(<<>>)
  BY DEF IsSequence, IsInjective
<1>3. \E place : place \in [{} -> DOMAIN <<>>]
  <2>. WITNESS [x \in {} |-> x]
  <2>. QED OBVIOUS
<1>4. \E place : Placed(<<>>, checks, {}, place)
  BY <1>3, Zenon DEF Placed
<1>. QED BY <1>1, <1>2, <1>4, Zenon DEF Holds, IsHeader

\* What a row shows it shows when columns are added.
LEMMA MoreColumns ==
  ASSUME NEW header, NEW new, \A t \in DOMAIN header : new[t] = header[t],
         NEW cells, DOMAIN cells \subseteq DOMAIN header,
         NEW source, NEW s, ShowsRow(cells, header, source, s)
  PROVE  ShowsRow(cells, new, source, s)
BY DEF ShowsRow

\* One turn of the loop of appendCheckRows: the new check has its rows, and nothing that was
\* on the sheet is lost or moved under another label.
LEMMA AppendSheetProperties ==
  ASSUME NEW sheet, NEW name, NEW checks, NEW M, NEW reports, DOMAIN reports = M,
         Holds(sheet, name, checks, M, reports),
         NEW k, k \notin M, NEW more, DOMAIN more = M \cup {k},
         \A j \in M : more[j] = reports[j],
         NEW i \in DOMAIN more[k], more[k][i].name = name, IsSource(more[k][i]),
         \A l \in DOMAIN more[k] : more[k][l].name = name => l = i
  PROVE  Holds(AppendSheet(sheet, more[k][i], checks[k]), name, checks, M \cup {k}, more)
<1>. DEFINE source == more[k][i]
            header == EnsureHeaders(sheet.header, source)
            added == RowsOf(header, source, checks[k])
            rows == sheet.rows \o added
            new == AppendSheet(sheet, source, checks[k])
            n == Len(sheet.rows)
<1>1. new.header = header /\ new.rows = rows /\ new = [header |-> new.header, rows |-> new.rows]
  BY DEF AppendSheet
<1>2. Extends(header, sheet.header, source)
  BY EnsureHeadersProperties DEF Holds
<1>3. IsAdded(added, header, source, checks[k])
  BY <1>2, RowsOfProperties
<1>4. IsSequence(sheet.rows) /\ IsSequence(added) /\ n \in Nat /\ DOMAIN sheet.rows = 1..n
  BY <1>3, SequenceElim DEF Holds, IsAdded
<1>. HIDE DEF new, header, added, source
<1>5. Joins(sheet.rows, added, rows)
  BY <1>4, Joined
<1>. HIDE DEF rows, n
<1>6. \A t \in DOMAIN sheet.header : t \in DOMAIN header /\ header[t] = sheet.header[t]
  BY <1>2 DEF Extends
<1>7. ASSUME NEW r \in DOMAIN sheet.rows
      PROVE  r \in DOMAIN rows /\ rows[r] = sheet.rows[r]
  BY <1>5 DEF Joins
<1>8. ASSUME NEW r \in DOMAIN rows, r \notin DOMAIN sheet.rows
      PROVE  \E a \in DOMAIN added : rows[r] = added[a]
  <2>1. /\ r - n \in DOMAIN added /\ r = n + (r - n)
        /\ rows[n + (r - n)] = added[r - n]
    BY <1>5, <1>8 DEF Joins, n
  <2>2. rows[r] = added[r - n]
    BY <2>1
  <2>. QED BY <2>1, <2>2
<1>9. ASSUME NEW a \in DOMAIN added PROVE n + a \in DOMAIN rows /\ rows[n + a] = added[a]
  BY <1>5 DEF Joins, n
<1>10. ASSUME NEW r \in DOMAIN rows
       PROVE  /\ DOMAIN rows[r].cells \subseteq DOMAIN header
              /\ \E j \in M \cup {k} : /\ RowOf(rows[r], checks[j])
                                       /\ FromReport(rows[r], header, name, more, j)
  <2>1. CASE r \in DOMAIN sheet.rows
    <3>1. rows[r] = sheet.rows[r]
      BY <1>7, <2>1
    <3>2. PICK j \in M : /\ RowOf(rows[r], checks[j])
                         /\ FromReport(rows[r], sheet.header, name, reports, j)
      BY <2>1, <3>1 DEF Holds
    <3>3. DOMAIN rows[r].cells \subseteq DOMAIN sheet.header /\ more[j] = reports[j]
      BY <2>1, <3>1 DEF Holds
    <3>4. FromReport(rows[r], header, name, more, j)
      BY <1>6, <3>2, <3>3, MoreColumns DEF FromReport
    <3>. QED BY <1>6, <3>2, <3>3, <3>4
  <2>2. CASE r \notin DOMAIN sheet.rows
    <3>1. PICK a \in DOMAIN added : rows[r] = added[a]
      BY <1>8, <2>2
    <3>2. /\ RowOf(rows[r], checks[k]) /\ DOMAIN rows[r].cells \subseteq DOMAIN header
          /\ \/ rows[r].cells = NoCells
             \/ \E s \in DOMAIN source.rows : ShowsRow(rows[r].cells, header, source, s)
      BY <1>3, <3>1, Zenon DEF IsAdded
    <3>3. FromReport(rows[r], header, name, more, k)
      BY <3>2, Zenon DEF FromReport, source
    <3>. QED BY <3>2, <3>3
  <2>. QED BY <2>1, <2>2
<1>11. \E place : Placed(rows, checks, M \cup {k}, place)
  <2>1. PICK place : Placed(sheet.rows, checks, M, place)
    BY DEF Holds
  <2>. DEFINE to == [j \in M \cup {k} |-> IF j = k THEN n + 1 ELSE place[j]]
  <2>2. to[k] = n + 1 /\ \A j \in M : to[j] = place[j]
    OBVIOUS
  <2>3. /\ 1 \in DOMAIN added /\ RowOf(added[1], checks[k])
        /\ n + 1 \in DOMAIN rows /\ rows[n + 1] = added[1] /\ n + 1 \notin DOMAIN sheet.rows
    BY <1>3, <1>4, <1>9 DEF IsAdded
  <2>4. \A j \in M : place[j] \in DOMAIN sheet.rows /\ RowOf(sheet.rows[place[j]], checks[j])
    BY <2>1 DEF Placed
  <2>5. to \in [M \cup {k} -> DOMAIN rows]
    BY <1>7, <2>3, <2>4
  <2>. HIDE DEF to
  <2>6. \A j, l \in M \cup {k} : to[j] = to[l] => j = l
    BY <2>1, <2>2, <2>3, <2>4 DEF Placed
  <2>7. \A j \in M \cup {k} : RowOf(rows[to[j]], checks[j])
    BY <1>7, <2>2, <2>3, <2>4
  <2>. QED BY <2>5, <2>6, <2>7, Zenon DEF Placed
<1>12. ASSUME NEW j \in M PROVE ShowsReport(new, name, checks[j], more[j])
  <2>. SUFFICES ASSUME NEW l \in DOMAIN more[j], more[j][l].name = name,
                       NEW s \in DOMAIN more[j][l].rows
                PROVE  \E r \in DOMAIN rows :
                         RowOf(rows[r], checks[j]) /\ ShowsRow(rows[r].cells, header, more[j][l], s)
    BY <1>1, Zenon DEF ShowsReport
  <2>1. ShowsReport(sheet, name, checks[j], more[j])
    BY DEF Holds
  <2>2. PICK r \in DOMAIN sheet.rows :
          /\ RowOf(sheet.rows[r], checks[j])
          /\ ShowsRow(sheet.rows[r].cells, sheet.header, more[j][l], s)
    BY <2>1, Zenon DEF ShowsReport
  <2>3. DOMAIN sheet.rows[r].cells \subseteq DOMAIN sheet.header
    BY DEF Holds
  <2>. QED BY <1>6, <1>7, <2>2, <2>3, MoreColumns
<1>13. ShowsReport(new, name, checks[k], more[k])
  <2>. SUFFICES ASSUME NEW l \in DOMAIN more[k], more[k][l].name = name,
                       NEW s \in DOMAIN more[k][l].rows
                PROVE  \E r \in DOMAIN rows :
                         RowOf(rows[r], checks[k]) /\ ShowsRow(rows[r].cells, header, more[k][l], s)
    BY <1>1, Zenon DEF ShowsReport
  <2>1. more[k][l] = source
    BY DEF source
  <2>2. PICK a \in DOMAIN added : ShowsRow(added[a].cells, header, source, s)
    BY <1>3, <2>1 DEF IsAdded
  <2>3. RowOf(added[a], checks[k])
    BY <1>3 DEF IsAdded
  <2>. QED BY <1>9, <2>1, <2>2, <2>3
<1>14. \A j \in DOMAIN more : ShowsReport(new, name, checks[j], more[j])
  BY <1>12, <1>13
<1>15. IsHeader(header) /\ IsSequence(rows)
  BY <1>2, <1>5 DEF Extends, Joins
<1>16. Holds(new, name, checks, M \cup {k}, more)
  BY <1>1, <1>10, <1>11, <1>14, <1>15, Zenon DEF Holds
<1>. QED BY <1>16 DEF new, source

\* appendFailedRows gives every failed check a row of its own, and changes no other.
LEMMA FailedRowsProperties ==
  ASSUME NEW sheet, NEW name, NEW checks, NEW n \in Nat, NEW M, NEW reports,
         Holds(sheet, name, checks, M, reports),
         NEW F \in SUBSET (1..n), M \cap F = {}, \A k \in F : checks[k].status = "FAILED",
         NEW rows, rows = [k \in 1..Cardinality(F) |->
                             [subject |-> KeepAt(checks, F)[k].text, status |-> "FAILED",
                              cells |-> NoCells]]
  PROVE  Holds([header |-> sheet.header, rows |-> sheet.rows \o rows],
               name, checks, M \cup F, reports)
<1>. DEFINE N == Cardinality(F)
            all == sheet.rows \o rows
            new == [header |-> sheet.header, rows |-> all]
            m == Len(sheet.rows)
<1>1. PICK pos : Places(checks, F, pos)
  BY KeepAtProperties
<1>2. N \in Nat
  BY RanksDiffer
<1>3. /\ \A a \in 1..N : pos[a] \in F /\ KeepAt(checks, F)[a] = checks[pos[a]]
      /\ \A p \in F : \E a \in 1..N : pos[a] = p
  BY <1>1 DEF Places
<1>4. DOMAIN rows = 1..N /\ rows = [k \in 1..N |-> rows[k]]
  OBVIOUS
<1>5. IsSequence(rows)
  BY <1>2, <1>4, SequenceIntro
<1>6. \A a \in 1..N : RowOf(rows[a], checks[pos[a]]) /\ rows[a].cells = NoCells
  BY <1>3 DEF RowOf
<1>7. /\ new.header = sheet.header /\ new.rows = all
      /\ new = [header |-> new.header, rows |-> new.rows]
  OBVIOUS
<1>8. IsSequence(sheet.rows) /\ m \in Nat /\ DOMAIN sheet.rows = 1..m
  BY SequenceElim DEF Holds
<1>. HIDE DEF N, new
<1>9. Joins(sheet.rows, rows, all)
  BY <1>5, <1>8, Joined
<1>. HIDE DEF all, m
<1>10. \A r \in DOMAIN sheet.rows : r \in DOMAIN all /\ all[r] = sheet.rows[r]
  BY <1>9 DEF Joins
<1>11. ASSUME NEW r \in DOMAIN all, r \notin DOMAIN sheet.rows
       PROVE  \E a \in 1..N : all[r] = rows[a]
  <2>1. /\ r - m \in DOMAIN rows /\ r = m + (r - m)
        /\ all[m + (r - m)] = rows[r - m]
    BY <1>9, <1>11 DEF Joins, m
  <2>2. all[r] = rows[r - m]
    BY <2>1
  <2>. QED BY <1>4, <2>1, <2>2
<1>12. \A a \in 1..N : m + a \in DOMAIN all /\ all[m + a] = rows[a]
  BY <1>4, <1>9 DEF Joins, m
<1>13. ASSUME NEW r \in DOMAIN all
       PROVE  /\ DOMAIN all[r].cells \subseteq DOMAIN sheet.header
              /\ \E j \in M \cup F : /\ RowOf(all[r], checks[j])
                                     /\ FromReport(all[r], sheet.header, name, reports, j)
  <2>1. CASE r \in DOMAIN sheet.rows
    <3>1. all[r] = sheet.rows[r]
      BY <1>10, <2>1
    <3>2. PICK j \in M : /\ RowOf(all[r], checks[j])
                         /\ FromReport(all[r], sheet.header, name, reports, j)
      BY <2>1, <3>1 DEF Holds
    <3>3. DOMAIN all[r].cells \subseteq DOMAIN sheet.header
      BY <2>1, <3>1 DEF Holds
    <3>. QED BY <3>2, <3>3
  <2>2. CASE r \notin DOMAIN sheet.rows
    <3>1. PICK a \in 1..N : all[r] = rows[a]
      BY <1>11, <2>2
    <3>2. RowOf(all[r], checks[pos[a]]) /\ all[r].cells = NoCells /\ pos[a] \in F
      BY <1>3, <1>6, <3>1
    <3>3. DOMAIN NoCells = {}
      BY DEF NoCells
    <3>. QED BY <3>2, <3>3 DEF FromReport
  <2>. QED BY <2>1, <2>2
<1>14. \E place : Placed(all, checks, M \cup F, place)
  <2>1. PICK place : Placed(sheet.rows, checks, M, place)
    BY DEF Holds
  <2>. DEFINE rank(j) == CHOOSE a \in 1..N : pos[a] = j
              to == [j \in M \cup F |-> IF j \in F THEN m + rank(j) ELSE place[j]]
  <2>2. \A j \in F : rank(j) \in 1..N /\ pos[rank(j)] = j
    BY <1>3
  <2>. HIDE DEF rank
  <2>3. \A j \in F : to[j] = m + rank(j)
    OBVIOUS
  <2>4. \A j \in M : to[j] = place[j]
    OBVIOUS
  <2>5. \A j \in M : place[j] \in DOMAIN sheet.rows /\ RowOf(sheet.rows[place[j]], checks[j])
    BY <2>1 DEF Placed
  <2>6. \A j \in F : /\ m + rank(j) \in DOMAIN all /\ all[m + rank(j)] = rows[rank(j)]
                     /\ m + rank(j) \notin DOMAIN sheet.rows
    <3>1. \A a \in 1..N : m + a \notin 1..m
      BY <1>2, <1>8
    <3>. QED BY <1>8, <1>12, <2>2, <3>1, Zenon
  <2>7. to \in [M \cup F -> DOMAIN all]
    BY <1>10, <2>5, <2>6
  <2>. HIDE DEF to
  <2>8. ASSUME NEW j \in M \cup F, NEW l \in M \cup F, to[j] = to[l] PROVE j = l
    <3>1. CASE j \in M /\ l \in M
      BY <2>1, <2>4, <2>8, <3>1 DEF Placed
    <3>2. CASE j \in F /\ l \in F
      <4>1. rank(j) = rank(l)
        BY <1>8, <2>2, <2>3, <2>8, <3>2
      <4>. QED BY <2>2, <3>2, <4>1
    <3>3. CASE j \in M /\ l \in F
      BY <2>3, <2>4, <2>5, <2>6, <2>8, <3>3
    <3>4. CASE j \in F /\ l \in M
      BY <2>3, <2>4, <2>5, <2>6, <2>8, <3>4
    <3>. QED BY <3>1, <3>2, <3>3, <3>4
  <2>9. ASSUME NEW j \in M \cup F PROVE RowOf(all[to[j]], checks[j])
    <3>1. CASE j \in M
      BY <1>10, <2>4, <2>5, <3>1
    <3>2. CASE j \in F
      <4>1. RowOf(rows[rank(j)], checks[pos[rank(j)]])
        BY <1>6, <2>2, <3>2
      <4>. QED BY <2>2, <2>3, <2>6, <3>2, <4>1
    <3>. QED BY <3>1, <3>2
  <2>. QED BY <2>7, <2>8, <2>9, Zenon DEF Placed
<1>15. ASSUME NEW k \in DOMAIN reports PROVE ShowsReport(new, name, checks[k], reports[k])
  <2>1. ShowsReport(sheet, name, checks[k], reports[k])
    BY DEF Holds
  <2>. QED BY <1>7, <1>10, <2>1, Zenon DEF ShowsReport
<1>16. IsHeader(new.header) /\ IsSequence(new.rows)
  BY <1>7, <1>9 DEF Holds, Joins
<1>17. Holds(new, name, checks, M \cup F, reports)
  BY <1>7, <1>13, <1>14, <1>15, <1>16, Zenon DEF Holds
<1>. QED BY <1>17 DEF new, all

-----------------------------------------------------------------------------
(* The workbook.                                                           *)

\* The workbook when the reports of the checks of M are merged.
Merged(workbook, module, checks, M, reports) ==
  /\ DOMAIN workbook = IF M = {} THEN {} ELSE SheetNames(module)
  /\ \A name \in DOMAIN workbook : Holds(workbook[name], name, checks, M, reports)

\* The workbook when the failed checks are on it as well.
Completed(workbook, module, checks, M, reports) ==
  /\ DOMAIN workbook = IF M = {} THEN {"results"} ELSE SheetNames(module)
  /\ \A name \in DOMAIN workbook :
       Holds(workbook[name], name, checks, DOMAIN checks, reports)

\* The loop of generateBatch: one more report is merged.
LEMMA AppendCheckRowsProperties ==
  ASSUME NEW workbook, NEW module, NEW checks, NEW M, NEW reports, DOMAIN reports = M,
         Merged(workbook, module, checks, M, reports),
         NEW k, k \notin M, NEW more, DOMAIN more = M \cup {k},
         \A j \in M : more[j] = reports[j], IsReport(module, more[k])
  PROVE  Merged(AppendCheckRows(workbook, more[k], checks[k]), module, checks, M \cup {k}, more)
<1>. DEFINE sheets == more[k]
            turn(name) == {i \in DOMAIN sheets : sheets[i].name = name}
            names == DOMAIN workbook \cup {sheets[i].name : i \in DOMAIN sheets}
            new == AppendCheckRows(workbook, sheets, checks[k])
<1>1. new = [name \in names |->
               IF turn(name) = {} THEN workbook[name]
               ELSE AppendSheet(SheetOf(workbook, name), sheets[CHOOSE i \in turn(name) : TRUE],
                                checks[k])]
  BY DEF AppendCheckRows
<1>2. names = SheetNames(module)
  <2>1. {sheets[i].name : i \in DOMAIN sheets} = SheetNames(module)
    BY DEF IsReport
  <2>2. DOMAIN workbook \subseteq SheetNames(module)
    BY DEF Merged
  <2>. QED BY <2>1, <2>2
<1>. HIDE DEF new, names, sheets
<1>3. ASSUME NEW name \in SheetNames(module)
      PROVE  Holds(new[name], name, checks, M \cup {k}, more)
  <2>1. PICK i \in DOMAIN sheets : sheets[i].name = name
    BY DEF IsReport, sheets
  <2>2. \A l \in DOMAIN sheets : sheets[l].name = name => l = i
    BY <2>1 DEF IsReport, sheets
  <2>3. turn(name) = {i}
    BY <2>1, <2>2
  <2>4. (CHOOSE l \in turn(name) : TRUE) = i
    BY <2>3
  <2>5. new[name] = AppendSheet(SheetOf(workbook, name), sheets[i], checks[k])
    BY <1>1, <1>2, <2>3, <2>4
  <2>6. IsSource(sheets[i])
    BY DEF IsReport, sheets
  <2>7. Holds(SheetOf(workbook, name), name, checks, M, reports)
    <3>1. CASE M = {}
      <4>1. SheetOf(workbook, name) = NewSheet
        BY <3>1 DEF Merged, SheetOf
      <4>. QED BY <3>1, <4>1, NewSheetHolds
    <3>2. CASE M # {}
      <4>1. name \in DOMAIN workbook
        BY <3>2 DEF Merged
      <4>2. SheetOf(workbook, name) = workbook[name]
        BY <4>1 DEF SheetOf
      <4>. QED BY <4>1, <4>2 DEF Merged
    <3>. QED BY <3>1, <3>2
  <2>8. Holds(AppendSheet(SheetOf(workbook, name), more[k][i], checks[k]), name, checks,
              M \cup {k}, more)
    BY <2>1, <2>2, <2>6, <2>7, AppendSheetProperties DEF sheets
  <2>. QED BY <2>5, <2>8 DEF sheets
<1>4. DOMAIN new = SheetNames(module)
  BY <1>1, <1>2
<1>. QED BY <1>3, <1>4 DEF Merged, new, sheets

\* A sheet with other rows.
LEMMA RowsReplaced ==
  ASSUME NEW sheet, sheet = [header |-> sheet.header, rows |-> sheet.rows], NEW rows
  PROVE  [sheet EXCEPT !.rows = rows] = [header |-> sheet.header, rows |-> rows]
<1>. DEFINE header == sheet.header
            old == sheet.rows
<1>1. sheet = [header |-> header, rows |-> old]
  OBVIOUS
<1>. HIDE DEF header, old
<1>2. [sheet EXCEPT !.rows = rows] = [header |-> header, rows |-> rows]
  BY <1>1
<1>. QED BY <1>2 DEF header

\* appendFailedRows completes the workbook: every check is on every sheet.
LEMMA AppendFailedRowsProperties ==
  ASSUME NEW workbook, NEW module, NEW n \in Nat \ {0}, NEW checks, DOMAIN checks = 1..n,
         NEW M, NEW reports, DOMAIN reports = M, Merged(workbook, module, checks, M, reports),
         NEW F \in SUBSET (1..n), M \cap F = {}, M \cup F = 1..n,
         \A k \in F : checks[k].status = "FAILED"
  PROVE  Completed(AppendFailedRows(workbook, KeepAt(checks, F)), module, checks, M, reports)
<1>. DEFINE failed == KeepAt(checks, F)
            N == Cardinality(F)
            rows == [k \in DOMAIN failed |->
                       [subject |-> failed[k].text, status |-> "FAILED", cells |-> NoCells]]
            new == AppendFailedRows(workbook, failed)
<1>1. N \in Nat /\ IsFiniteSet(F)
  BY RanksDiffer
<1>2. DOMAIN failed = 1..N
  BY DEF KeepAt
<1>3. N = 0 <=> F = {}
  BY <1>1, FS_EmptySet
<1>4. failed = <<>> <=> F = {}
  <2>1. ASSUME F = {} PROVE failed = <<>>
    <3>1. N = 0
      BY <1>3, <2>1
    <3>2. 1..N = {}
      BY <3>1
    <3>3. failed = [i \in 1..N |-> failed[i]]
      BY DEF KeepAt
    <3>. HIDE DEF failed, N
    <3>. QED BY <3>2, <3>3
  <2>2. ASSUME F # {} PROVE failed # <<>>
    <3>1. 1 \in DOMAIN failed
      BY <1>1, <1>2, <1>3, <2>2
    <3>. HIDE DEF failed
    <3>. QED BY <3>1
  <2>. QED BY <2>1, <2>2
<1>5. rows = [k \in 1..N |-> [subject |-> KeepAt(checks, F)[k].text, status |-> "FAILED",
                              cells |-> NoCells]]
  BY <1>2
<1>6. DOMAIN workbook = IF M = {} THEN {} ELSE SheetNames(module)
  BY DEF Merged
<1>7. SheetNames(module) # {}
  BY DEF SheetNames
<1>8. CASE F = {}
  <2>1. new = workbook
    BY <1>4, <1>8 DEF AppendFailedRows
  <2>2. M = 1..n /\ M # {}
    BY <1>8
  <2>. QED BY <2>1, <2>2 DEF Merged, Completed
<1>9. CASE F # {} /\ M = {}
  <2>. DEFINE sheet == [header |-> FirstColumns, rows |-> rows]
              empty == [header |-> FirstColumns, rows |-> <<>>]
              full == [header |-> empty.header, rows |-> empty.rows \o rows]
  <2>1. new = [name \in {"results"} |-> sheet]
    BY <1>4, <1>6, <1>9 DEF AppendFailedRows
  <2>2. Holds(empty, "results", checks, {}, reports)
    <3>1. /\ empty.header = FirstColumns /\ empty.rows = <<>>
          /\ empty = [header |-> empty.header, rows |-> empty.rows]
      OBVIOUS
    <3>. HIDE DEF empty
    <3>2. DOMAIN <<>> = {} /\ IsSequence(<<>>)
      BY DEF IsSequence
    <3>3. \E place : place \in [{} -> DOMAIN <<>>]
      <4>. WITNESS [x \in {} |-> x]
      <4>. QED OBVIOUS
    <3>4. \E place : Placed(<<>>, checks, {}, place)
      BY <3>3, Zenon DEF Placed
    <3>5. IsHeader(FirstColumns)
      BY FirstColumnsAreAHeader
    <3>. QED BY <1>9, <3>1, <3>2, <3>4, <3>5, Zenon DEF Holds
  <2>3. Holds(full, "results", checks, {} \cup F, reports)
    <3>. HIDE DEF empty, rows, N
    <3>. QED BY <1>5, <2>2, FailedRowsProperties DEF N
  <2>4. full = sheet
    <3>1. empty.rows \o rows = rows
      <4>1. empty.rows = <<>> /\ rows = [k \in 1..N |-> rows[k]]
        BY <1>2
      <4>. HIDE DEF empty, rows, N
      <4>2. IsSequence(rows)
        BY <1>1, <4>1, SequenceIntro
      <4>. QED BY <4>1, <4>2 DEF IsSequence
    <3>2. empty.header = FirstColumns
      OBVIOUS
    <3>. HIDE DEF empty, rows
    <3>. QED BY <3>1, <3>2
  <2>5. F = 1..n
    BY <1>9
  <2>. HIDE DEF full, sheet, new
  <2>6. DOMAIN new = {"results"} /\ new["results"] = sheet
    BY <2>1
  <2>. QED BY <1>9, <2>3, <2>4, <2>5, <2>6 DEF Completed, new
<1>10. CASE F # {} /\ M # {}
  <2>1. new = [name \in DOMAIN workbook |-> [workbook[name] EXCEPT !.rows = @ \o rows]]
    BY <1>4, <1>6, <1>7, <1>10 DEF AppendFailedRows
  <2>2. DOMAIN new = SheetNames(module) /\ DOMAIN workbook = SheetNames(module)
    BY <1>6, <1>10, <2>1
  <2>3. ASSUME NEW name \in SheetNames(module) PROVE Holds(new[name], name, checks, 1..n, reports)
    <3>. DEFINE sheet == workbook[name]
    <3>1. Holds(sheet, name, checks, M, reports)
      BY <2>2 DEF Merged
    <3>2. new[name] = [sheet EXCEPT !.rows = @ \o rows]
      BY <2>1, <2>2
    <3>. HIDE DEF sheet, new, rows, N
    <3>3. [sheet EXCEPT !.rows = @ \o rows] = [header |-> sheet.header, rows |-> sheet.rows \o rows]
      BY <3>1, RowsReplaced, Zenon DEF Holds
    <3>4. Holds([header |-> sheet.header, rows |-> sheet.rows \o rows],
                name, checks, M \cup F, reports)
      BY <1>5, <3>1, FailedRowsProperties DEF N
    <3>. QED BY <3>2, <3>3, <3>4
  <2>. QED BY <1>10, <2>2, <2>3 DEF Completed
<1>. QED BY <1>8, <1>9, <1>10

=============================================================================
