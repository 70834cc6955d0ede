------------------------ MODULE LocalMarkdownProofs ------------------------
(* Proofs about LocalMarkdown, for any clients, IDs, failures and edits. *)
EXTENDS LocalMarkdown, TLAPS

-----------------------------------------------------------------------------
\* Type correctness

RowsCall == [at : {"opening", "filling", "reloading"}, rows : Rows]
WritingCall ==
  [at : {"writing"}, id : Ids, content : Nat, form : Forms, revision : Nat \ {0}, active : BOOLEAN]

LEMMA CallShapes ==
  ASSUME NEW k \in Call \cup {Idle}
  PROVE  /\ k.at = "writing" => k \in WritingCall
         /\ k.at \in {"opening", "filling", "reloading"} => k \in RowsCall
         /\ k.at = "idle" <=> k = Idle
BY DEF Call, Idle, RowsCall, WritingCall

LEMMA RowsCallTyped ==
  ASSUME NEW at \in {"opening", "filling", "reloading"}, NEW rows \in Rows
  PROVE  /\ [at |-> at, rows |-> rows] \in Call
         /\ [at |-> at, rows |-> rows] # Idle
BY DEF Call, Idle

\* Rows put together from two tables.
LEMMA Patchwork ==
  ASSUME NEW one \in Rows, NEW other \in Rows, NEW S
  PROVE  [i \in Ids |-> IF i \in S THEN one[i] ELSE other[i]] \in Rows
BY DEF Rows

LEMMA RowTyped ==
  ASSUME NEW rows \in Rows, NEW i \in Ids
  PROVE  /\ rows[i].version \in Nat /\ rows[i].content \in Nat /\ rows[i].form \in Forms
         /\ rows[i].revision \in Nat /\ rows[i].active \in BOOLEAN
         /\ rows[i] # NoRow => rows[i] \in Row
<1>1. rows[i] \in Row \/ rows[i] = NoRow
  BY DEF Rows
<1>2. CASE rows[i] \in Row
  BY <1>2 DEF Row
<1>3. CASE rows[i] = NoRow
  BY <1>3 DEF NoRow, Forms
<1> QED
  BY <1>1, <1>2, <1>3

LEMMA RowEdited ==
  ASSUME NEW r \in Row, NEW version \in Nat \ {0}, NEW active \in BOOLEAN
  PROVE  [r EXCEPT !.version = version, !.content = version, !.form = Plain, !.active = active] \in Row
BY DEF Row, Forms

LEMMA NoRowsTyped == NoRows \in Rows
BY DEF NoRows, Rows

LEMMA PatchworkFile ==
  ASSUME NEW one \in Rows, NEW other \in Rows, NEW S
  PROVE  Whole([i \in Ids |-> IF i \in S THEN one[i] ELSE other[i]]) \in File
BY Patchwork DEF Whole, File

\* What is read of a row is a row, and no row is read only of none.
LEMMA ParsedTyped ==
  ASSUME NEW r \in Row
  PROVE  /\ Parsed(r) \in Row /\ Planted(r) \in Row
         /\ Parsed(r).version = r.version /\ Parsed(r).content = r.content
         /\ Planted(r).version = r.version /\ Planted(r).content = r.content
         /\ r.form \notin Marks => Parsed(r) = r
<1>1. Planted(r) \in Row /\ Planted(r).version = r.version /\ Planted(r).content = r.content
  BY DEF Row, Planted, Forms
<1>2. PICK form \in Forms : Parsed(r) = [r EXCEPT !.form = form] /\ (r.form \notin Marks => form = r.form)
  BY DEF Row, Parsed, Forms
<1>3. [r EXCEPT !.form = form] \in Row
  BY DEF Row
<1> QED
  BY <1>1, <1>2, <1>3 DEF Row

LEMMA RowIsNot == NoRow \notin Row
BY DEF Row, NoRow

LEMMA ReadBackRow ==
  ASSUME NEW rows \in Rows, NEW id \in Ids
  PROVE  \/ ReadBack(rows)[id] = NoRow /\ rows[id] = NoRow
         \/ \E i \in Ids : rows[i] \in Row /\ ReadBack(rows)[id] \in {Parsed(rows[i]), Planted(rows[i])}
<1> DEFINE last == {i \in Planters(rows, id) :
                      (rows[id] = NoRow \/ ~(i < id)) /\ \A j \in Planters(rows, id) : ~(i < j)}
<1>1. ReadBack(rows)[id] = IF last # {} THEN Planted(rows[CHOOSE i \in last : TRUE])
                           ELSE IF rows[id] # NoRow THEN Parsed(rows[id])
                           ELSE NoRow
  BY DEF ReadBack
<1>2. \A i \in last : i \in Ids /\ rows[i] \in Row
  BY RowTyped DEF Planters
<1> HIDE DEF last
<1>3. last # {} => (CHOOSE i \in last : TRUE) \in last
  OBVIOUS
<1>4. rows[id] # NoRow => rows[id] \in Row
  BY RowTyped
<1> QED
  BY <1>1, <1>2, <1>3, <1>4

LEMMA ReadBackTyped ==
  ASSUME NEW rows \in Rows
  PROVE  /\ ReadBack(rows) \in Rows
         /\ \A id \in Ids : rows[id] # NoRow => ReadBack(rows)[id] # NoRow
<1>1. ASSUME NEW id \in Ids
      PROVE  /\ ReadBack(rows)[id] \in Row \cup {NoRow}
             /\ rows[id] # NoRow => ReadBack(rows)[id] # NoRow
  BY ReadBackRow, ParsedTyped, RowIsNot
<1>2. ReadBack(rows) = [id \in Ids |-> ReadBack(rows)[id]]
  BY DEF ReadBack
<1> QED
  BY <1>1, <1>2 DEF Rows

\* A memory without a mark, which no other names, reads back as it is.
LEMMA ReadBackPlain ==
  ASSUME NEW rows \in Rows, NEW id \in Ids, rows[id].form \notin Marks,
         \A k \in Ids : rows[k].form # Splits(id)
  PROVE  ReadBack(rows)[id] = rows[id]
<1>1. Planters(rows, id) = {}
  BY DEF Planters
<1>2. ReadBack(rows)[id] = IF rows[id] # NoRow THEN Parsed(rows[id]) ELSE NoRow
  BY <1>1 DEF ReadBack
<1> QED
  BY <1>2, RowTyped, ParsedTyped

LEMMA ReadBackAllPlain ==
  ASSUME NEW rows \in Rows, \A i \in Ids : rows[i].form \notin Marks
  PROVE  Readable(rows) /\ ReadBack(rows) = rows
<1>1. \A id, k \in Ids : rows[k].form # Splits(id)
  BY DEF Marks
<1>2. \A id \in Ids : ReadBack(rows)[id] = rows[id]
  BY <1>1, ReadBackPlain
<1>3. ReadBack(rows) = [id \in Ids |-> rows[id]]
  BY <1>2 DEF ReadBack
<1> QED
  BY <1>3 DEF Rows, Readable, Marks

\* What an upsert writes, and how the four writes begin.
Upserted(c) ==
  [version |-> versions + 1,
   content |-> IF call[c].content = New THEN versions + 1 ELSE call[c].content,
   form |-> call[c].form, revision |-> call[c].revision, active |-> call[c].active]

WriteBegins(c, id) == Store(c, id) \/ Update(c, id) \/ UpdateImportance(c, id) \/ Forget(c, id)

LEMMA WriteBegun ==
  ASSUME NEW c \in Clients, NEW id \in Ids, WriteBegins(c, id)
  PROVE  \E content \in {New, items[id].content}, form \in NewForms \cup {items[id].form}, active \in BOOLEAN :
           /\ Begin(c, Writing(id, content, form, active)) /\ UNCHANGED <<items, file, versions, doubt>>
           /\ content = New \/ form = items[id].form
BY DEF WriteBegins, Store, Update, UpdateImportance, Forget

LEMMA TypeInductive == TypeOK /\ [Next]_vars => TypeOK'
<1> SUFFICES ASSUME TypeOK, [Next]_vars
             PROVE  TypeOK'
  OBVIOUS
<1> USE DEF TypeOK
<1>a. Idle \in Call \cup {Idle} /\ Running \subseteq Clients
  BY DEF Running
<1>b. ASSUME NEW c \in Clients, NEW k \in Call, Begin(c, k), UNCHANGED <<items, file, versions, doubt>>
      PROVE  TypeOK'
  BY <1>a, <1>b DEF Begin
<1>1. ASSUME NEW c \in Clients, NEW id \in Ids, WriteBegins(c, id)
      PROVE  TypeOK'
  <2>1. PICK content \in {New, items[id].content}, form \in NewForms \cup {items[id].form}, active \in BOOLEAN :
          /\ Begin(c, Writing(id, content, form, active)) /\ UNCHANGED <<items, file, versions, doubt>>
          /\ content = New \/ form = items[id].form
    BY <1>1, WriteBegun
  <2>2. items[id].revision \in Nat /\ content \in Nat /\ form \in Forms
    BY RowTyped DEF New, NewForms, Forms
  <2>3. Writing(id, content, form, active) \in Call
    BY <2>2 DEF Writing, Call
  <2> QED
    BY <1>b, <2>1, <2>3
<1>2. ASSUME NEW c \in Clients, Upsert(c)
      PROVE  TypeOK'
  <2>1. call[c] \in WritingCall
    BY <1>2, CallShapes DEF Upsert, ThenExport, Goto
  <2>2. Upserted(c) \in Row
    BY <2>1 DEF Upserted, Row, WritingCall, New
  <2>3. items' \in Rows
    <3>1. items' = [items EXCEPT ![call[c].id] = Upserted(c)]
      BY <1>2 DEF Upsert, Upserted
    <3> QED
      BY <2>2, <3>1 DEF Rows
  <2>4. [at |-> "listing"] \in Call
    BY DEF Call
  <2> QED
    BY <1>2, <2>3, <2>4 DEF Upsert, ThenExport, Goto
<1>3. ASSUME NEW c \in Clients, List(c)
      PROVE  TypeOK'
  BY <1>3, RowsCallTyped DEF List, Goto, Exported
<1>4. ASSUME NEW c \in Clients, Open(c)
      PROVE  TypeOK'
  <2>1. call[c].rows \in Rows
    BY <1>4, CallShapes DEF Open, Goto, RowsCall
  <2>2. Torn \in File
    BY NoRowsTyped DEF Torn, File
  <2> QED
    BY <1>4, <2>1, <2>2, RowsCallTyped DEF Open, Goto
<1>5. ASSUME NEW c \in Clients, Return(c), UNCHANGED <<items, versions>>,
             doubt' \in BOOLEAN, file' \in File
      PROVE  TypeOK'
  BY <1>5, <1>a DEF Return
<1>6. ASSUME NEW c \in Clients, Retrieve(c)
      PROVE  TypeOK'
  <2>1. file.rows \in Rows
    BY DEF File
  <2> QED
    BY <1>6, <1>b, <2>1, ReadBackTyped, RowsCallTyped DEF Retrieve
<1>7. ASSUME NEW c \in Clients, Reload(c)
      PROVE  TypeOK'
  <2>1. call[c].rows \in Rows
    BY <1>7, CallShapes DEF Reload, RowsCall
  <2>2. items' \in Rows
    BY <1>7, <2>1 DEF Reload, UpsertItems, Rows
  <2> QED
    BY <1>7, <1>a, <2>2 DEF Reload, Return
<1>8. ASSUME NEW c \in Clients, Abort(c)
      PROVE  TypeOK'
  BY <1>8, <1>a DEF Abort, Return
<1>9. ASSUME NEW id \in Ids, Edit(id)
      PROVE  TypeOK'
  <2>1. file \in File /\ file.rows \in Rows /\ file.rows[id] \in Row
    BY <1>9, RowTyped DEF Edit, File
  <2>2. ASSUME NEW row \in Row \cup {NoRow}, file' = [file EXCEPT !.rows[id] = row]
        PROVE  file' \in File
    <3>1. [file.rows EXCEPT ![id] = row] \in Rows
      BY <2>1 DEF Rows
    <3> QED
      BY <2>1, <2>2, <3>1 DEF File
  <2>3. ASSUME NEW active \in BOOLEAN,
               file' = [file EXCEPT !.rows[id] =
                 [@ EXCEPT !.version = versions + 1, !.content = versions + 1, !.form = Plain, !.active = active]]
        PROVE  file' \in File
    <3> DEFINE row == [file.rows[id] EXCEPT !.version = versions + 1, !.content = versions + 1, !.form = Plain, !.active = active]
    <3>1. versions + 1 \in Nat \ {0}
      OBVIOUS
    <3>2. row \in Row
      BY <2>1, <3>1, RowEdited, Zenon
    <3>3. file' = [file EXCEPT !.rows[id] = row]
      BY <2>3
    <3> HIDE DEF row
    <3> QED
      BY <2>2, <3>2, <3>3
  <2>0. Spoiled \in File
    BY NoRowsTyped DEF Spoiled, Torn, File
  <2>4. file' \in File
    BY <1>9, <2>0, <2>2, <2>3 DEF Edit
  <2>5. versions' = versions + 1 \/ versions' = versions
    BY <1>9, Zenon DEF Edit
  <2>6. doubt' = TRUE /\ UNCHANGED <<items, call, met>>
    BY <1>9, Zenon DEF Edit
  <2> QED
    BY <2>4, <2>5, <2>6
<1>10. CASE UNCHANGED vars
  BY <1>10 DEF vars
<1>11. ASSUME NEW c \in Clients, Fill(c)
       PROVE  TypeOK'
  <2>1. call[c].rows \in Rows /\ file.rows \in Rows
    BY <1>11, CallShapes DEF Fill, RowsCall, File
  <2>2. PICK rest : file' = Whole([i \in Ids |-> IF i \in rest /\ file.rows[i] # NoRow
                                                 THEN file.rows[i] ELSE call[c].rows[i]])
    BY <1>11 DEF Fill
  <2> DEFINE S == {i \in rest : file.rows[i] # NoRow}
  <2>3. file' = Whole([i \in Ids |-> IF i \in S THEN file.rows[i] ELSE call[c].rows[i]])
    BY <2>2
  <2> HIDE DEF S
  <2>4. file' \in File
    BY <2>1, <2>3, PatchworkFile
  <2> QED
    BY <1>5, <1>11, <2>4 DEF Fill
<1>12. ASSUME NEW c \in Clients, CutShort(c)
       PROVE  TypeOK'
  <2>1. call[c].rows \in Rows /\ file.rows \in Rows
    BY <1>12, CallShapes DEF CutShort, RowsCall, File
  <2>2. ASSUME NEW k \in Ids,
               file' = Whole([i \in Ids |-> IF i < k THEN call[c].rows[i] ELSE file.rows[i]])
        PROVE  file' \in File
    <3> DEFINE S == {j \in Ids : j < k}
    <3>1. file' = Whole([i \in Ids |-> IF i \in S THEN call[c].rows[i] ELSE file.rows[i]])
      BY <2>2
    <3> HIDE DEF S
    <3> QED
      BY <2>1, <3>1, PatchworkFile
  <2>3. Torn \in File
    BY NoRowsTyped DEF Torn, File
  <2>4. file' \in File
    BY <1>12, <2>2, <2>3 DEF CutShort
  <2> QED
    BY <1>5, <1>12, <2>4 DEF CutShort
<1> QED
  BY <1>1, <1>2, <1>3, <1>4, <1>6, <1>7, <1>8, <1>9, <1>10, <1>11, <1>12
     DEF Next, ClientStep, WriteBegins

LEMMA TypeInit == Init => TypeOK
<1> SUFFICES ASSUME Init
             PROVE  TypeOK
  OBVIOUS
<1>1. file \in File
  BY NoRowsTyped DEF Init, File
<1>2. call \in [Clients -> Call \cup {Idle}]
  BY DEF Init
<1> QED
  BY <1>1, <1>2, NoRowsTyped DEF Init, TypeOK

\* The table, the file and the calls keep their types, whatever fails or is edited
\* (internal/localmarkdown/store.go, memory/goncho_v1.go).
THEOREM TypeCorrect == Spec => []TypeOK
BY TypeInit, TypeInductive, PTL DEF Spec
-----------------------------------------------------------------------------
\* The mirror

Exporting == {"listing", "opening", "filling"}

\* A write with a text of its own, or with that of the table.
KeepsText(k, rows) == k.content = New \/ (k.content = rows[k.id].content /\ k.form = rows[k.id].form)

\* A running call that met no other is the only one, writes back the text
\* of the table, exports the table as it is, and has emptied the file by itself.
Solitary ==
  /\ met \subseteq Running
  /\ \A c, d \in Running : c \notin met => d = c
  /\ \A c \in Running \ met :
       /\ call[c].at = "writing" => KeepsText(call[c], items)
       /\ call[c].at \in {"opening", "filling"} => call[c].rows = items
       /\ call[c].at = "filling" => file = Torn

Faithful == Mirrored \/ file = Whole(items) \/ (items = NoRows /\ file.state = "absent")

\* A retrieval has what can be read of the file.
ReadWell(k) == file.state = "whole" /\ Readable(file.rows) /\ k.rows = ReadBack(file.rows)

\* Without doubt, and with nobody exporting, the file is an export of the table or reads
\* back as it, and the retrievals read that file.
Undoubted ==
  ~doubt /\ (\A c \in Clients : call[c].at \notin Exporting) =>
    /\ Faithful
    /\ \A c \in Clients : call[c].at = "reloading" => ReadWell(call[c])

MirrorInv == TypeOK /\ Solitary /\ Undoubted

LEMMA SolitaryInductive == TypeOK /\ Solitary /\ [Next]_vars => Solitary'
<1> SUFFICES ASSUME TypeOK, Solitary, [Next]_vars
             PROVE  Solitary'
  OBVIOUS
<1> USE DEF Solitary, Running, KeepsText
<1>a. call \in [Clients -> Call \cup {Idle}]
  BY DEF TypeOK
<1>b. \A k \in Call : k.at # "idle" /\ k # Idle
  BY DEF Call, Idle
<1>1. ASSUME NEW c \in Clients, NEW k, k.at \in {"writing", "reloading"}, Begin(c, k),
             k.at = "writing" => KeepsText(k, items),
             UNCHANGED <<items, file>>
      PROVE  Solitary'
  <2>1. k # Idle /\ call[c] = Idle /\ call' = [call EXCEPT ![c] = k]
    BY <1>1 DEF Begin, Idle
  <2>2. Running' = Running \cup {c} /\ c \notin Running
    BY <1>a, <2>1
  <2>3. CASE Running = {}
    <3>1. met' = met /\ Running' = {c} /\ met' = {}
      BY <1>1, <2>2, <2>3 DEF Begin
    <3>2. call'[c] = k
      BY <1>1, <1>a, <2>1
    <3> QED
      BY <1>1, <3>1, <3>2
  <2>4. CASE Running # {}
    <3>1. met' = met \cup Running \cup {c}
      BY <1>1, <2>4 DEF Begin
    <3> QED
      BY <2>2, <3>1
  <2> QED
    BY <2>3, <2>4
<1>2. ASSUME NEW c \in Clients, call[c] # Idle, Return(c)
      PROVE  Solitary'
  <2>1. Running' = Running \ {c} /\ met' = met \ {c}
    BY <1>2, <1>a DEF Return
  <2>2. Running' \subseteq met'
    BY <1>2, <2>1
  <2> QED
    BY <2>1, <2>2
<1>3. ASSUME NEW c \in Clients, NEW k, call[c] # Idle, k # Idle,
             call' = [call EXCEPT ![c] = k], UNCHANGED met,
             c \notin met =>
               /\ k.at # "writing"
               /\ k.at \in {"opening", "filling"} => k.rows = items'
               /\ k.at = "filling" => file' = Torn
      PROVE  Solitary'
  <2>1. Running' = Running /\ c \in Running
    BY <1>3, <1>a
  <2>2. \A d \in Running \ met : d = c
    BY <2>1
  <2>3. call'[c] = k
    BY <1>3, <1>a
  <2> QED
    BY <1>3, <2>1, <2>2, <2>3
<1>4. ASSUME NEW c \in Clients, Upsert(c)
      PROVE  Solitary'
  <2>1. [at |-> "listing"].at = "listing" /\ [at |-> "listing"] # Idle /\ call[c] # Idle
    BY <1>4 DEF Upsert, ThenExport, Goto, Idle
  <2> QED
    BY <1>3, <1>4, <2>1 DEF Upsert, ThenExport, Goto
<1>5. ASSUME NEW c \in Clients, List(c)
      PROVE  Solitary'
  <2> DEFINE k == [at |-> "opening", rows |-> items]
  <2>1. /\ k.at = "opening" /\ k.rows = items /\ k # Idle /\ call[c] # Idle
        /\ call' = [call EXCEPT ![c] = k] /\ UNCHANGED <<items, met>>
    BY <1>5 DEF List, Goto, Exported, Idle
  <2> HIDE DEF k
  <2> QED
    BY <1>3, <2>1
<1>6. ASSUME NEW c \in Clients, Open(c)
      PROVE  Solitary'
  <2> DEFINE k == [at |-> "filling", rows |-> call[c].rows]
  <2>1. /\ k.at = "filling" /\ k.rows = call[c].rows /\ k # Idle /\ call[c] # Idle
        /\ call' = [call EXCEPT ![c] = k] /\ UNCHANGED <<items, met>> /\ file' = Torn
        /\ call[c].at = "opening"
    BY <1>6 DEF Open, Goto, Idle
  <2> HIDE DEF k
  <2> QED
    BY <1>3, <2>1
<1>7. ASSUME NEW id \in Ids, Edit(id)
      PROVE  Solitary'
  <2>1. file.state = "whole" /\ UNCHANGED <<items, call, met>>
    BY <1>7, Zenon DEF Edit
  <2>2. file # Torn
    BY <2>1 DEF Torn
  <2> QED
    BY <2>1, <2>2
<1>8. CASE UNCHANGED vars
  BY <1>8 DEF vars
<1>9. ASSUME NEW c \in Clients, ClientStep(c)
      PROVE  Solitary'
  <2>1. ASSUME NEW id \in Ids, WriteBegins(c, id)
        PROVE  Solitary'
    <3>1. PICK content \in {New, items[id].content}, form \in NewForms \cup {items[id].form}, active \in BOOLEAN :
            /\ Begin(c, Writing(id, content, form, active)) /\ UNCHANGED <<items, file>>
            /\ content = New \/ form = items[id].form
      BY <2>1, WriteBegun
    <3> DEFINE k == Writing(id, content, form, active)
    <3>2. k.at = "writing" /\ k.content = content /\ k.form = form /\ k.id = id
      BY DEF Writing
    <3> HIDE DEF k
    <3>3. KeepsText(k, items)
      BY <3>1, <3>2
    <3> QED
      BY <1>1, <3>1, <3>2, <3>3 DEF k
  <2>2. CASE Retrieve(c)
    BY <1>1, <2>2 DEF Retrieve
  <2>3. CASE Fill(c) \/ Reload(c) \/ Abort(c) \/ CutShort(c)
    <3>1. Return(c) /\ (call[c].at \in {"filling", "reloading"} \/ call[c] # Idle)
      BY <2>3, Zenon DEF Fill, Reload, Abort, CutShort
    <3>2. call[c] # Idle
      BY <3>1 DEF Idle
    <3> QED
      BY <1>2, <3>1, <3>2
  <2> QED
    BY <1>4, <1>5, <1>6, <1>9, <2>1, <2>2, <2>3 DEF ClientStep, WriteBegins
<1> QED
  BY <1>7, <1>8, <1>9 DEF Next

LEMMA UndoubtedInductive == MirrorInv /\ [Next]_vars => Undoubted'
<1> SUFFICES ASSUME MirrorInv, [Next]_vars,
                    ~doubt', \A c \in Clients : call'[c].at \notin Exporting
             PROVE  /\ Faithful'
                    /\ \A c \in Clients : call'[c].at = "reloading" => ReadWell(call[c])'
  BY DEF Undoubted
<1> USE DEF MirrorInv
<1>a. call \in [Clients -> Call \cup {Idle}] /\ items \in Rows
  BY DEF TypeOK
<1>b. ASSUME UNCHANGED <<items, file, doubt>>, NEW c \in Clients, NEW k,
             call[c].at \notin Exporting, call' = [call EXCEPT ![c] = k],
             k.at = "reloading" => ReadWell(k)
      PROVE  /\ Faithful'
             /\ \A d \in Clients : call'[d].at = "reloading" => ReadWell(call[d])'
  <2>1. call'[c] = k /\ \A d \in Clients \ {c} : call'[d] = call[d]
    BY <1>a, <1>b
  <2>2. \A d \in Clients : call[d].at \notin Exporting
    BY <1>b, <2>1
  <2>3. Faithful /\ \A d \in Clients : call[d].at = "reloading" => ReadWell(call[d])
    BY <1>b, <2>2 DEF Undoubted
  <2> QED
    BY <1>b, <2>1, <2>3 DEF Faithful, Mirrored, ReadWell
<1>1. ASSUME NEW c \in Clients, NEW id \in Ids, WriteBegins(c, id)
      PROVE  /\ Faithful'
             /\ \A d \in Clients : call'[d].at = "reloading" => ReadWell(call[d])'
  <2>1. PICK content \in {New, items[id].content}, form \in NewForms \cup {items[id].form}, active \in BOOLEAN :
          /\ Begin(c, Writing(id, content, form, active)) /\ UNCHANGED <<items, file, doubt>>
          /\ content = New \/ form = items[id].form
    BY <1>1, WriteBegun
  <2>2. Writing(id, content, form, active).at = "writing" /\ Idle.at \notin Exporting
    BY DEF Writing, Idle, Exporting
  <2> QED
    BY <1>b, <2>1, <2>2 DEF Begin
<1>2. ASSUME NEW c \in Clients, Upsert(c) \/ List(c) \/ Open(c)
      PROVE  FALSE
  <2>1. call'[c].at \in Exporting
    BY <1>2, <1>a DEF Upsert, List, Open, ThenExport, Goto, Exporting
  <2> QED
    BY <2>1
<1>3. ASSUME NEW c \in Clients, Retrieve(c)
      PROVE  /\ Faithful'
             /\ \A d \in Clients : call'[d].at = "reloading" => ReadWell(call[d])'
  <2> DEFINE k == [at |-> "reloading", rows |-> ReadBack(file.rows)]
  <2>1. /\ k.rows = ReadBack(file.rows) /\ call[c] = Idle /\ Idle.at \notin Exporting
        /\ call' = [call EXCEPT ![c] = k] /\ UNCHANGED <<items, file, doubt>>
        /\ file.state = "whole" /\ Readable(file.rows)
    BY <1>3 DEF Retrieve, Begin, Idle, Exporting
  <2>2. ReadWell(k)
    BY <2>1 DEF ReadWell
  <2> HIDE DEF k
  <2> QED
    BY <1>b, <2>1, <2>2
<1>4. ASSUME NEW c \in Clients, Fill(c)
      PROVE  /\ Faithful'
             /\ \A d \in Clients : call'[d].at = "reloading" => ReadWell(call[d])'
  <2>1. call[c].at = "filling" /\ call[c] # Idle /\ c \notin met
    <3>1. call[c].at = "filling" /\ (doubt' <=> c \in met)
      BY <1>4, Zenon DEF Fill
    <3> QED
      BY <3>1 DEF Idle
  <2>2. call[c].rows = items /\ file = Torn /\ \A d \in Clients \ {c} : call[d] = Idle
    BY <2>1 DEF Solitary, Running
  <2>3. \A i \in Ids : file.rows[i] = NoRow
    BY <2>2 DEF Torn, NoRows
  <2>4. PICK rest : file' = Whole([i \in Ids |-> IF i \in rest /\ file.rows[i] # NoRow
                                                 THEN file.rows[i] ELSE call[c].rows[i]])
    BY <1>4 DEF Fill
  <2>5. file' = Whole([i \in Ids |-> items[i]])
    BY <2>2, <2>3, <2>4
  <2>6. file' = Whole(items) /\ items' = items
    BY <1>4, <1>a, <2>5 DEF Rows, Fill
  <2>7. Faithful'
    BY <2>6 DEF Faithful, Whole
  <2>8. \A d \in Clients : call'[d] = Idle
    BY <1>4, <1>a, <2>2 DEF Fill, Return
  <2> QED
    BY <2>7, <2>8 DEF Idle
<1>5. ASSUME NEW c \in Clients, Reload(c)
      PROVE  /\ Faithful'
             /\ \A d \in Clients : call'[d].at = "reloading" => ReadWell(call[d])'
  <2>1. call[c].at \notin Exporting /\ call' = [call EXCEPT ![c] = Idle]
        /\ UNCHANGED <<file, doubt>>
    BY <1>5 DEF Reload, Return, Exporting
  <2>2. \A d \in Clients : call[d].at \notin Exporting
    BY <1>a, <2>1
  <2>3. Faithful /\ \A d \in Clients : call[d].at = "reloading" => ReadWell(call[d])
    BY <2>1, <2>2 DEF Undoubted
  <2>4. ReadWell(call[c]) /\ call[c].rows = ReadBack(file.rows)
    BY <1>5, <2>3 DEF Reload, ReadWell
  <2>5. items' = [i \in Ids |-> IF ReadBack(file.rows)[i] # NoRow THEN ReadBack(file.rows)[i] ELSE items[i]]
    BY <1>5, <2>4 DEF Reload, UpsertItems
  <2>6. ASSUME NEW i \in Ids
        PROVE  ReadBack(file.rows)[i] = NoRow => items[i] = NoRow
    <3>1. CASE Mirrored
      BY <3>1 DEF Mirrored
    <3>2. CASE file = Whole(items)
      <4>1. file.rows = items
        BY <3>2 DEF Whole
      <4> QED
        BY <1>a, <4>1, ReadBackTyped
    <3> QED
      BY <2>3, <2>4, <3>1, <3>2 DEF Faithful, ReadWell
  <2>7. items' = [i \in Ids |-> ReadBack(file.rows)[i]]
    BY <2>5, <2>6
  <2>8. items' = ReadBack(file.rows)
    BY <2>7 DEF ReadBack
  <2>9. Mirrored'
    BY <2>1, <2>4, <2>8 DEF Mirrored, ReadWell
  <2>10. \A d \in Clients : call'[d] = IF d = c THEN Idle ELSE call[d]
    BY <1>a, <2>1
  <2>11. Idle.at # "reloading"
    BY DEF Idle
  <2> QED
    BY <2>1, <2>3, <2>9, <2>10, <2>11 DEF Faithful, ReadWell
<1>6. ASSUME NEW c \in Clients, Abort(c)
      PROVE  /\ Faithful'
             /\ \A d \in Clients : call'[d].at = "reloading" => ReadWell(call[d])'
  <2>1. /\ call[c].at \notin Exporting /\ call' = [call EXCEPT ![c] = Idle]
        /\ UNCHANGED <<items, file, doubt>>
    BY <1>6 DEF Abort, Return, Exporting, MirrorInv, TypeOK
  <2>2. Idle.at # "reloading"
    BY DEF Idle
  <2> QED
    BY <1>b, <2>1, <2>2
<1>7. ASSUME NEW c \in Clients, CutShort(c)
      PROVE  FALSE
  BY <1>7 DEF CutShort
<1>8. ASSUME NEW id \in Ids, Edit(id)
      PROVE  FALSE
  BY <1>8, Zenon DEF Edit
<1>9. CASE UNCHANGED vars
  BY <1>9 DEF vars, Undoubted, Faithful, Mirrored, ReadWell
<1> QED
  BY <1>1, <1>2, <1>3, <1>4, <1>5, <1>6, <1>7, <1>8, <1>9 DEF Next, ClientStep, WriteBegins

LEMMA MirrorInit == Init => MirrorInv
BY TypeInit DEF Init, MirrorInv, Solitary, Running, Undoubted, Faithful, Idle

LEMMA AlwaysMirrored == Spec => []MirrorInv
BY TypeInductive, SolitaryInductive, UndoubtedInductive, MirrorInit, PTL DEF Spec, MirrorInv

\* A write that ran alone to its end leaves the file an exact mirror of the table, tombstones
\* included, unless a memory holds a marker of the format - and then still the text of the
\* table, until a retrieval makes the table what that text reads back as - for any number of
\* clients and memories, any marks, failures and edits (exportMarkdown, store.go:306-312;
\* ParseGonchoMemoryV1Markdown, goncho_v1.go:112-147).
THEOREM QuietWritesAreMirrored == Spec => []QuietWritesMirror
<1>1. ASSUME MirrorInv, Running = {}, ~doubt, items # NoRows
      PROVE  \/ Mirrored
             \/ file = Whole(items) /\ \E i \in Ids : items[i].form \in Marks
  <2>1. \A c \in Clients : call[c].at \notin Exporting
    BY <1>1 DEF Running, Exporting, Idle
  <2>2. Mirrored \/ file = Whole(items)
    BY <1>1, <2>1 DEF MirrorInv, Undoubted, Faithful
  <2>3. CASE file = Whole(items) /\ \A i \in Ids : items[i].form \notin Marks
    <3>1. file.rows = items /\ file.state = "whole" /\ items \in Rows
      BY <1>1, <2>3 DEF Whole, MirrorInv, TypeOK
    <3>2. Readable(items) /\ ReadBack(items) = items
      BY <2>3, <3>1, ReadBackAllPlain
    <3> QED
      BY <3>1, <3>2 DEF Mirrored
  <2> QED
    BY <2>2, <2>3
<1>2. MirrorInv => QuietWritesMirror
  BY <1>1 DEF QuietWritesMirror
<1> QED
  BY <1>2, AlwaysMirrored, PTL

-----------------------------------------------------------------------------
\* What is undone

\* A row is of a write that has been, and so is its content.
UpTo(r, n) == r.version <= n /\ r.content <= n

\* Every version in the table, the file or a call has been written.
Dated ==
  \A i \in Ids :
    /\ UpTo(items[i], versions)
    /\ UpTo(file.rows[i], versions)
    /\ \A c \in Clients :
         /\ call[c].at \in {"opening", "filling", "reloading"} => UpTo(call[c].rows[i], versions)
         /\ call[c].at = "writing" => call[c].content <= versions

LEMMA UpToMore ==
  ASSUME NEW rows \in Rows, NEW i \in Ids, NEW n \in Nat, UpTo(rows[i], n)
  PROVE  UpTo(rows[i], n + 1)
BY RowTyped DEF UpTo

LEMMA DatedInductive == TypeOK /\ Dated /\ [Next]_vars => Dated'
<1> SUFFICES ASSUME TypeOK, Dated, [Next]_vars
             PROVE  Dated'
  OBVIOUS
<1> USE DEF Dated, UpTo
<1> DEFINE Carries(k) == k.at \in {"opening", "filling", "reloading"}
<1>a. /\ call \in [Clients -> Call \cup {Idle}] /\ items \in Rows /\ file.rows \in Rows
      /\ versions \in Nat
  BY DEF TypeOK, File
<1>b. ~Carries(Idle) /\ Idle.at # "writing" /\ UpTo(NoRow, versions)
  BY <1>a DEF Idle, NoRow, UpTo
<1>1. ASSUME NEW c \in Clients, NEW k, call' = [call EXCEPT ![c] = k],
             UNCHANGED <<items, file, versions>>,
             Carries(k) => \A i \in Ids : UpTo(k.rows[i], versions),
             k.at = "writing" => k.content <= versions
      PROVE  Dated'
  <2>1. \A d \in Clients : call'[d] = IF d = c THEN k ELSE call[d]
    BY <1>a, <1>1
  <2> QED
    BY <1>1, <2>1
<1>2. ASSUME NEW c \in Clients, NEW id \in Ids, WriteBegins(c, id)
      PROVE  Dated'
  <2>1. PICK content \in {New, items[id].content}, form \in NewForms \cup {items[id].form}, active \in BOOLEAN :
          /\ Begin(c, Writing(id, content, form, active)) /\ UNCHANGED <<items, file, versions>>
          /\ content = New \/ form = items[id].form
    BY <1>2, WriteBegun
  <2> DEFINE k == Writing(id, content, form, active)
  <2>2. ~Carries(k) /\ k.content = content
    BY DEF Writing
  <2>3. content <= versions
    BY <1>a DEF UpTo, New
  <2> HIDE DEF k
  <2>4. call' = [call EXCEPT ![c] = k]
    BY <2>1 DEF Begin, k
  <2> QED
    BY <1>1, <2>1, <2>2, <2>3, <2>4
<1>3. ASSUME NEW c \in Clients, Upsert(c)
      PROVE  Dated'
  <2>1. versions' = versions + 1 /\ file' = file
    BY <1>3 DEF Upsert
  <2>2. UpTo(Upserted(c), versions + 1)
    <3>1. call[c] \in WritingCall /\ call[c].content <= versions
      BY <1>3, <1>a, CallShapes DEF Upsert, ThenExport, Goto, WritingCall
    <3> QED
      BY <1>a, <3>1 DEF UpTo, Upserted, WritingCall
  <2>3. \A i \in Ids : UpTo(items'[i], versions + 1)
    <3>1. items' = [items EXCEPT ![call[c].id] = Upserted(c)]
      BY <1>3 DEF Upsert, Upserted
    <3>2. \A i \in Ids : items'[i] = Upserted(c) \/ items'[i] = items[i]
      BY <1>a, <3>1 DEF Rows
    <3> QED
      BY <1>a, <2>2, <3>2, UpToMore
  <2>4. \A d \in Clients : call'[d].at # "listing" => call'[d] = call[d]
    BY <1>3, <1>a DEF Upsert, ThenExport, Goto
  <2>5. ASSUME NEW i \in Ids, NEW d \in Clients
        PROVE  /\ Carries(call'[d]) => UpTo(call'[d].rows[i], versions + 1)
               /\ call'[d].at = "writing" => call'[d].content <= versions + 1
    <3>1. CASE Carries(call[d])
      <4>1. call[d].rows \in Rows
        BY <1>a, <3>1, CallShapes DEF RowsCall
      <4> QED
        BY <1>a, <2>4, <3>1, <4>1, UpToMore
    <3>2. CASE call[d].at = "writing"
      <4>1. call[d].content \in Nat
        BY <1>a, <3>2, CallShapes DEF WritingCall
      <4> QED
        BY <1>a, <2>4, <3>2, <4>1
    <3> QED
      BY <2>4, <3>1, <3>2
  <2>6. \A i \in Ids : UpTo(file.rows[i], versions + 1)
    BY <1>a, UpToMore
  <2> QED
    BY <2>1, <2>3, <2>5, <2>6
<1>4. ASSUME NEW c \in Clients, List(c)
      PROVE  Dated'
  <2> DEFINE k == [at |-> "opening", rows |-> items]
  <2>1. /\ k.at # "writing" /\ k.rows = items /\ call' = [call EXCEPT ![c] = k]
        /\ UNCHANGED <<items, file, versions>>
    BY <1>4 DEF List, Goto, Exported
  <2> HIDE DEF k
  <2> QED
    BY <1>1, <2>1
<1>5. ASSUME NEW c \in Clients, Open(c)
      PROVE  Dated'
  <2> DEFINE k == [at |-> "filling", rows |-> call[c].rows]
  <2>1. /\ k.at # "writing" /\ k.rows = call[c].rows /\ call' = [call EXCEPT ![c] = k]
        /\ call[c].at = "opening" /\ UNCHANGED <<items, versions>> /\ file' = Torn
    BY <1>5 DEF Open, Goto
  <2> HIDE DEF k
  <2>2. \A d \in Clients : call'[d] = IF d = c THEN k ELSE call[d]
    BY <1>a, <2>1
  <2>3. \A i \in Ids : file'.rows[i] = NoRow
    BY <2>1 DEF Torn, NoRows
  <2> QED
    BY <1>b, <2>1, <2>2, <2>3
<1>6. ASSUME NEW c \in Clients, Return(c), UNCHANGED versions,
             \A i \in Ids : UpTo(items'[i], versions) /\ UpTo(file'.rows[i], versions)
      PROVE  Dated'
  <2>1. \A d \in Clients : call'[d] = IF d = c THEN Idle ELSE call[d]
    BY <1>a, <1>6 DEF Return
  <2> QED
    BY <1>b, <1>6, <2>1
<1>7. ASSUME NEW c \in Clients, Fill(c)
      PROVE  Dated'
  <2>1. call[c].at = "filling" /\ Return(c) /\ UNCHANGED <<items, versions>>
    BY <1>7, Zenon DEF Fill
  <2>2. PICK rest : file' = Whole([i \in Ids |-> IF i \in rest /\ file.rows[i] # NoRow
                                                 THEN file.rows[i] ELSE call[c].rows[i]])
    BY <1>7 DEF Fill
  <2>3. \A i \in Ids : file'.rows[i] = file.rows[i] \/ file'.rows[i] = call[c].rows[i]
    BY <2>2 DEF Whole
  <2>4. \A i \in Ids : UpTo(file'.rows[i], versions)
    BY <2>1, <2>3
  <2> QED
    BY <1>6, <2>1, <2>4
<1>8. ASSUME NEW c \in Clients, CutShort(c)
      PROVE  Dated'
  <2>1. call[c].at = "filling" /\ Return(c) /\ UNCHANGED <<items, versions>>
    BY <1>8, Zenon DEF CutShort
  <2>2. CASE file' = Torn
    <3>1. \A i \in Ids : file'.rows[i] = NoRow
      BY <2>2 DEF Torn, NoRows
    <3> QED
      BY <1>6, <1>b, <2>1, <3>1
  <2>3. ASSUME NEW k \in Ids,
               file' = Whole([i \in Ids |-> IF i < k THEN call[c].rows[i] ELSE file.rows[i]])
        PROVE  Dated'
    <3>1. \A i \in Ids : file'.rows[i] = file.rows[i] \/ file'.rows[i] = call[c].rows[i]
      BY <2>3 DEF Whole
    <3>2. \A i \in Ids : UpTo(file'.rows[i], versions)
      BY <2>1, <3>1
    <3> QED
      BY <1>6, <2>1, <3>2
  <2> QED
    BY <1>8, <2>2, <2>3 DEF CutShort
<1>9. ASSUME NEW c \in Clients, Retrieve(c)
      PROVE  Dated'
  <2> DEFINE k == [at |-> "reloading", rows |-> ReadBack(file.rows)]
  <2>1. /\ k.at # "writing" /\ k.rows = ReadBack(file.rows) /\ call' = [call EXCEPT ![c] = k]
        /\ UNCHANGED <<items, file, versions>>
    BY <1>9 DEF Retrieve, Begin
  <2> HIDE DEF k
  <2>2. ASSUME NEW i \in Ids
        PROVE  UpTo(ReadBack(file.rows)[i], versions)
    <3>1. CASE ReadBack(file.rows)[i] = NoRow
      BY <1>b, <3>1
    <3>2. ASSUME NEW j \in Ids, file.rows[j] \in Row,
                 ReadBack(file.rows)[i] \in {Parsed(file.rows[j]), Planted(file.rows[j])}
          PROVE  UpTo(ReadBack(file.rows)[i], versions)
      <4>1. /\ ReadBack(file.rows)[i].version = file.rows[j].version
            /\ ReadBack(file.rows)[i].content = file.rows[j].content
        BY <3>2, ParsedTyped
      <4> QED
        BY <3>2, <4>1
    <3> QED
      BY <1>a, <3>1, <3>2, ReadBackRow
  <2> QED
    BY <1>1, <2>1, <2>2
<1>10. ASSUME NEW c \in Clients, Reload(c)
       PROVE  Dated'
  <2>1. call[c].at = "reloading" /\ Return(c) /\ UNCHANGED <<file, versions>>
    BY <1>10 DEF Reload
  <2>2. \A i \in Ids : items'[i] = call[c].rows[i] \/ items'[i] = items[i]
    BY <1>10 DEF Reload, UpsertItems
  <2> QED
    BY <1>6, <2>1, <2>2
<1>11. ASSUME NEW c \in Clients, Abort(c)
       PROVE  Dated'
  BY <1>6, <1>11 DEF Abort
<1>12. ASSUME NEW id \in Ids, Edit(id)
       PROVE  Dated'
  <2>1. UNCHANGED <<items, call>>
    BY <1>12, Zenon DEF Edit
  <2>2. CASE file' = [file EXCEPT !.rows[id] = NoRow] /\ UNCHANGED versions
    <3>1. file'.rows = [file.rows EXCEPT ![id] = NoRow]
      BY <2>2 DEF TypeOK, File
    <3>2. \A i \in Ids : file'.rows[i] = NoRow \/ file'.rows[i] = file.rows[i]
      BY <1>a, <3>1 DEF Rows
    <3> QED
      BY <1>a, <1>b, <2>1, <2>2, <3>2
  <2>4. CASE file' = Spoiled /\ UNCHANGED versions
    <3>1. \A i \in Ids : file'.rows[i] = NoRow
      BY <2>4 DEF Spoiled, Torn, NoRows
    <3> QED
      BY <1>a, <1>b, <2>1, <2>4, <3>1
  <2>3. ASSUME NEW active \in BOOLEAN, versions' = versions + 1,
               file' = [file EXCEPT !.rows[id] =
                 [@ EXCEPT !.version = versions + 1, !.content = versions + 1, !.form = Plain, !.active = active]]
        PROVE  Dated'
    <3> DEFINE row == [file.rows[id] EXCEPT !.version = versions + 1, !.content = versions + 1, !.form = Plain, !.active = active]
    <3>1. file.rows[id] \in Row
      BY <1>12, <1>a, RowTyped DEF Edit
    <3>2. UpTo(row, versions + 1)
      BY <1>a, <3>1 DEF Row, UpTo
    <3>3. file' = [file EXCEPT !.rows[id] = row]
      BY <2>3
    <3> HIDE DEF row
    <3>4. file'.rows = [file.rows EXCEPT ![id] = row]
      BY <3>3 DEF TypeOK, File
    <3>5. \A i \in Ids : file'.rows[i] = row \/ file'.rows[i] = file.rows[i]
      BY <1>a, <3>4 DEF Rows
    <3>6. \A i \in Ids : UpTo(file'.rows[i], versions + 1) /\ UpTo(items[i], versions + 1)
      BY <1>a, <3>2, <3>5, UpToMore
    <3>7. ASSUME NEW i \in Ids, NEW d \in Clients
          PROVE  /\ Carries(call[d]) => UpTo(call[d].rows[i], versions + 1)
                 /\ call[d].at = "writing" => call[d].content <= versions + 1
      <4>1. Carries(call[d]) => call[d].rows \in Rows
        BY <1>a, CallShapes DEF RowsCall
      <4>2. call[d].at = "writing" => call[d].content \in Nat
        BY <1>a, CallShapes DEF WritingCall
      <4> QED
        BY <1>a, <4>1, <4>2, UpToMore
    <3> QED
      BY <2>1, <2>3, <3>6, <3>7
  <2> QED
    BY <1>12, <2>2, <2>3, <2>4 DEF Edit
<1>13. CASE UNCHANGED vars
  BY <1>13 DEF vars
<1> QED
  BY <1>2, <1>3, <1>4, <1>5, <1>7, <1>8, <1>9, <1>10, <1>11, <1>12, <1>13
     DEF Next, ClientStep, WriteBegins

LEMMA DatedInit == Init => Dated
BY DEF Init, Dated, UpTo, NoRows, NoRow, Idle

\* Nothing that calls running alone to their ends stored, changed or forgot is undone, and
\* no content cut, by a retrieval or by a write that keeps the content it read, but by a
\* marker in the memory or one that names it, for any number of clients and memories (Reload, goncho_v1.go:247-271;
\* UpdateImportance, store.go:225-254).
THEOREM NothingUndoneQuietly == Spec => UndoneOnlyInDoubt
<1>1. ASSUME MirrorInv, Dated, Next, ~doubt, met = {}, NEW i \in Ids,
             Undone(i), items[i].form \notin Marks, ~Named(i)
      PROVE  FALSE
  <2> USE DEF MirrorInv
  <2>a. items \in Rows /\ items[i].version \in Nat /\ items[i].content \in Nat
        /\ versions \in Nat
    BY <1>1, RowTyped DEF TypeOK
  <2>b. items'[i] # items[i]
    BY <1>1, <2>a DEF Undone
  <2>1. items' # items
    BY <2>b
  <2>2. PICK c \in Clients : Upsert(c) \/ Reload(c)
    <3>1. ASSUME NEW id \in Ids, Edit(id)
          PROVE  FALSE
      BY <2>1, <3>1, Zenon DEF Edit
    <3>2. ASSUME NEW c \in Clients, Fill(c) \/ CutShort(c) \/ Abort(c)
          PROVE  FALSE
      BY <2>1, <3>2, Zenon DEF Fill, CutShort, Abort
    <3> QED
      BY <1>1, <2>1, <3>1, <3>2 DEF Next, ClientStep, Store, Update, UpdateImportance,
             Forget, List, Open, Retrieve
  <2>3. CASE Upsert(c)
    <3>1. items' = [items EXCEPT ![call[c].id] = Upserted(c)]
      BY <2>3 DEF Upsert, Upserted
    <3>2. items'[i] = Upserted(c) /\ i = call[c].id
      BY <2>a, <2>b, <3>1 DEF Rows
    <3>3. call[c].at = "writing" /\ c \in Running
      BY <2>3 DEF Upsert, ThenExport, Goto, Running, Idle
    <3>4. KeepsText(call[c], items)
      BY <1>1, <3>3 DEF Solitary
    <3>5. items[i].version <= versions /\ items[i].content <= versions
      BY <1>1 DEF Dated, UpTo
    <3>6. /\ items'[i].version = versions + 1
          /\ \/ items'[i].content = versions + 1
             \/ items'[i].content = items[i].content /\ items'[i].form = items[i].form
      BY <3>2, <3>4 DEF Upserted, KeepsText
    <3> QED
      BY <1>1, <2>a, <3>5, <3>6 DEF Undone
  <2>4. CASE Reload(c)
    <3>1. call[c].at = "reloading" /\ c \in Running
      BY <2>4 DEF Reload, Running, Idle
    <3>2. \A d \in Clients : d # c => call[d] = Idle
      BY <1>1, <3>1 DEF Solitary, Running
    <3>3. ASSUME NEW d \in Clients
          PROVE  call[d].at \notin Exporting
      <4>1. call[d].at \in {"reloading", "idle"}
        BY <3>1, <3>2 DEF Idle
      <4> QED
        BY <4>1 DEF Exporting
    <3>4. ReadWell(call[c]) /\ Faithful
      BY <1>1, <3>1, <3>3 DEF Undoubted
    <3>6. ReadBack(file.rows)[i] = items[i]
      <4>1. CASE Mirrored
        BY <4>1 DEF Mirrored
      <4>2. CASE file = Whole(items)
        <5>1. file.rows = items
          BY <4>2 DEF Whole
        <5> QED
          BY <1>1, <2>a, <5>1, ReadBackPlain DEF Named
      <4> QED
        BY <3>4, <4>1, <4>2 DEF ReadWell, Faithful
    <3>5. items'[i] = items[i]
      BY <2>4, <3>4, <3>6 DEF Reload, UpsertItems, ReadWell
    <3> QED
      BY <2>b, <3>5
  <2> QED
    BY <2>2, <2>3, <2>4
<1>2. MirrorInv /\ Dated /\ [Next]_vars =>
        [\A i \in Ids : Undone(i) => doubt \/ met # {} \/ items[i].form \in Marks \/ Named(i)]_vars
  BY <1>1
<1>3. Spec => []Dated
  BY DatedInit, DatedInductive, TypeInductive, TypeInit, PTL DEF Spec
<1> QED
  BY <1>2, <1>3, AlwaysMirrored, PTL DEF Spec, UndoneOnlyInDoubt
=============================================================================
