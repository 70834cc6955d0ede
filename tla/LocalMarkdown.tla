--------------------------- MODULE LocalMarkdown ---------------------------
(***************************************************************************)
(* internal/localmarkdown/store.go over memory/goncho_v1.go: memories in a *)
(* table, mirrored to a file that people edit.  A write reads its row,     *)
(* upserts it and exports the whole table; a retrieval first reloads the   *)
(* file into the table.  Each SQL statement, transaction and file          *)
(* operation is a step, and nothing holds the steps of a call together.    *)
(***************************************************************************)
EXTENDS Integers, Sequences, FiniteSets

CONSTANTS
  Clients,              \* goroutines calling the store
  Ids,                  \* memory IDs, in the order the file lists them
  Failing, Editing,     \* do calls fail or crash, do people edit the file
  Marked,               \* what markers of the file's format memories may hold
  MaxVersions           \* bound: contents ever written

VARIABLES
  items,                \* goncho_memory_items, by ID
  file,                 \* the Markdown file
  call,                 \* the call each client is in
  versions,             \* history: contents written so far
  met,                  \* history: the running calls that overlapped another
  doubt                 \* history: since the last write that ran alone to its end,
                        \* a write overlapped or failed, or somebody edited the file

vars == <<items, file, call, versions, met, doubt>>

-----------------------------------------------------------------------------
\* Types

\* Nothing escapes the markers of the format. The end of a block inside a content ends it
\* there: what stands before is the memory, and a block after it is one of its own, of the
\* ID it names. If nothing stands before, or what follows is no block, or "-->" in a tag or
\* an ID ends the front of a block, no item can be read.
Plain == <<"plain">>
Stub == <<"stub">>          \* what is left of a content that was cut
Cut == <<"cut">>
Spoils == <<"spoils">>
Splits(id) == <<"splits", id>>
Marks == {Cut, Spoils} \cup {Splits(id) : id \in Ids}
Forms == {Plain, Stub} \cup Marks
NewForms == {Plain} \cup (Marked \cap Marks)

\* A row's version is the write that it is of, and stands for its tags, importance
\* and timestamps; its content is the version that brought it.
Row == [version : Nat \ {0}, content : Nat \ {0}, form : Forms, revision : Nat \ {0}, active : BOOLEAN]
NoRow == [version |-> 0, content |-> 0, form |-> Plain, revision |-> 0, active |-> FALSE]
NoRows == [i \in Ids |-> NoRow]
Rows == [Ids -> Row \cup {NoRow}]

\* A torn file is not reloaded: its front matter or an item's end is missing, or one item
\* of it is not valid.
File == [state : {"absent", "torn", "whole"}, rows : Rows]
Torn == [state |-> "torn", rows |-> NoRows]
Whole(rows) == [state |-> "whole", rows |-> rows]

Idle == [at |-> "idle"]
Call == [at : {"writing"}, id : Ids, content : Nat, form : Forms, revision : Nat \ {0}, active : BOOLEAN]
        \cup [at : {"listing"}] \cup [at : {"opening", "filling", "reloading"}, rows : Rows]

TypeOK ==
  /\ items \in Rows
  /\ file \in File
  /\ call \in [Clients -> Call \cup {Idle}]
  /\ versions \in Nat
  /\ met \subseteq Clients
  /\ doubt \in BOOLEAN

Init ==
  /\ items = NoRows
  /\ file = [state |-> "absent", rows |-> NoRows]
  /\ call = [c \in Clients |-> Idle]
  /\ versions = 0 /\ met = {} /\ doubt = FALSE

-----------------------------------------------------------------------------
\* Calls

Running == {c \in Clients : call[c] # Idle}

Begin(c, k) ==
  /\ call[c] = Idle
  /\ call' = [call EXCEPT ![c] = k]
  /\ met' = IF Running = {} THEN met ELSE met \cup Running \cup {c}

Goto(c, from, k) == call[c].at = from /\ call' = [call EXCEPT ![c] = k]

Return(c) == call' = [call EXCEPT ![c] = Idle] /\ met' = met \ {c}

-----------------------------------------------------------------------------
\* Store, Update, UpdateImportance and Forget

New == 0
Writing(id, content, form, active) ==
  [at |-> "writing", id |-> id, content |-> content, form |-> form,
   revision |-> items[id].revision + 1, active |-> active]

\* nextRevision, 1 for a new memory.
Store(c, id) ==
  /\ \E form \in NewForms : Begin(c, Writing(id, New, form, TRUE))
  /\ UNCHANGED <<items, file, versions, doubt>>

\* readItem finds the memory, forgotten or not.
Found(id) == items[id] # NoRow

\* A new content makes it active.
Update(c, id) ==
  /\ Found(id)
  /\ \E form \in NewForms : Begin(c, Writing(id, New, form, TRUE))
  /\ UNCHANGED <<items, file, versions, doubt>>

\* A new importance does too, and a forgetting tombstones it: both write back the
\* content they read.
UpdateImportance(c, id) ==
  /\ Found(id)
  /\ Begin(c, Writing(id, items[id].content, items[id].form, TRUE))
  /\ UNCHANGED <<items, file, versions, doubt>>

Forget(c, id) ==
  /\ Found(id)
  /\ Begin(c, Writing(id, items[id].content, items[id].form, FALSE))
  /\ UNCHANGED <<items, file, versions, doubt>>

\* Mutant: a forgetting is not exported.
ExportActive(c) ==
  \/ call[c].at = "writing" /\ call[c].active /\ Goto(c, "writing", [at |-> "listing"]) /\ UNCHANGED met
  \/ call[c].at = "writing" /\ ~call[c].active /\ Return(c)

ThenExport(c) == Goto(c, "writing", [at |-> "listing"]) /\ UNCHANGED met

\* upsertItem writes the whole row.
Upsert(c) ==
  /\ ThenExport(c)
  /\ versions < MaxVersions /\ versions' = versions + 1
  /\ items' = [items EXCEPT ![call[c].id] =
       [version |-> versions + 1,
        content |-> IF call[c].content = New THEN versions + 1 ELSE call[c].content,
        form |-> call[c].form, revision |-> call[c].revision, active |-> call[c].active]]
  /\ UNCHANGED <<file, doubt>>

\* Mutant: forgotten memories are not exported.
ActiveItems == [i \in Ids |-> IF items[i].active THEN items[i] ELSE NoRow]

\* Export's query: every row, the tombstoned ones too.
Exported == items

List(c) ==
  /\ Goto(c, "listing", [at |-> "opening", rows |-> Exported])
  /\ UNCHANGED <<items, file, versions, met, doubt>>

\* os.WriteFile opens the file and empties it ...
Open(c) ==
  /\ Goto(c, "opening", [at |-> "filling", rows |-> call[c].rows])
  /\ file' = Torn
  /\ UNCHANGED <<items, versions, met, doubt>>

\* ... and writes from its start, over what another call wrote since: if that
\* was longer, its last items remain and are reloaded after the new ones.
Fill(c) ==
  /\ call[c].at = "filling"
  /\ \E rest \in {{i \in Ids : k < i} : k \in Ids \cup {0}} :
       file' = Whole([i \in Ids |-> IF i \in rest /\ file.rows[i] # NoRow THEN file.rows[i]
                                    ELSE call[c].rows[i]])
  /\ doubt' = (c \in met)
  /\ Return(c)
  /\ UNCHANGED <<items, versions>>

-----------------------------------------------------------------------------
\* Retrieve: an absent file is not reloaded, a torn one or one that cannot be read
\* fails the call; the ranked rows it returns change nothing.

Readable(rows) == \A i \in Ids : rows[i] = NoRow \/ rows[i].form # Spoils

\* The item of a block, and that of a block that its content holds.
Parsed(row) == [row EXCEPT !.form = IF @ \in {Plain, Stub} THEN @ ELSE Stub]
Planted(row) ==
  [version |-> row.version, content |-> row.content, form |-> Plain, revision |-> 1, active |-> TRUE]
Planters(rows, id) == {i \in Ids : rows[i] # NoRow /\ rows[i].form = Splits(id)}

\* ParseGonchoMemoryV1Markdown: of the items of an ID the last one counts.
ReadBack(rows) ==
  [id \in Ids |->
     LET last == {i \in Planters(rows, id) :
                    (rows[id] = NoRow \/ ~(i < id)) /\ \A j \in Planters(rows, id) : ~(i < j)}
     IN IF last # {} THEN Planted(rows[CHOOSE i \in last : TRUE])
        ELSE IF rows[id] # NoRow THEN Parsed(rows[id])
        ELSE NoRow]

Retrieve(c) ==
  /\ file.state = "whole" /\ Readable(file.rows)
  /\ Begin(c, [at |-> "reloading", rows |-> ReadBack(file.rows)])
  /\ UNCHANGED <<items, file, versions, doubt>>

\* upsertMarkdownItem writes the whole row of an item, whatever is in the table.
UpsertItems(rows) == [i \in Ids |-> IF rows[i] # NoRow THEN rows[i] ELSE items[i]]

\* One transaction upserts every item of the file.
Reload(c) ==
  /\ call[c].at = "reloading"
  /\ items' = UpsertItems(call[c].rows)
  /\ Return(c)
  /\ UNCHANGED <<file, versions, doubt>>

-----------------------------------------------------------------------------
\* What a retrieval returns, and what may be forgotten (internal/importance, which
\* store.go repeats). An entry has the phrases its content contains, its tags, an
\* importance in tenths and the times of its creation and last update, in half-lives;
\* scores are in parts of One.

One == 1600
NoTime == -1
Clamp(x, low, high) == IF x < low THEN low ELSE IF x > high THEN high ELSE x

\* memoryReferenceTime: an entry without times is of this moment.
ReferenceTime(e, now) ==
  IF e.updated # NoTime THEN e.updated ELSE IF e.created # NoTime THEN e.created ELSE now

\* One half-life halves it; what is ahead of the clock is as recent as can be.
Recency(e, now) ==
  LET age == now - ReferenceTime(e, now) IN IF age <= 0 THEN One ELSE One \div 2^age

\* Never less than a hundredth.
EffectiveImportance(e, now) ==
  Clamp((Clamp(e.importance, 0, 10) * Recency(e, now)) \div 10, One \div 100, One)

\* The whole question, or the share of its words in the content or in a tag.
Relevance(e, q) ==
  IF q.words = <<>> THEN 0
  ELSE IF q.phrase \in e.contains THEN One
  ELSE (One * Cardinality({i \in DOMAIN q.words : q.words[i] \in e.contains \cup e.tags}))
         \div Len(q.words)

\* In tenths of One; the weights add up to ten.
Score(e, relevance, now) ==
  3 * Recency(e, now) + 5 * EffectiveImportance(e, now) + 2 * Clamp(relevance, 0, One)

\* Rank sorts by score, importance, time and ID.
Precedes(d, e, q, now) ==
  LET Key(x) == <<Score(x, Relevance(x, q), now), EffectiveImportance(x, now), ReferenceTime(x, now), -x.id>>
      first == {k \in 1..4 : Key(d)[k] # Key(e)[k]}
  IN \E k \in first : Key(d)[k] > Key(e)[k] /\ \A j \in first : k <= j

\* The entries of S of which fewer than limit entries of S come before.
FirstOf(S, limit, Before(_, _)) == {e \in S : Cardinality({d \in S : Before(d, e)}) < limit}

\* The query of Retrieve: the newest active rows, at most scan of them.
Candidates(rows, scan) ==
  FirstOf({e \in rows : e.active}, scan,
          LAMBDA d, e : d.updated > e.updated \/ (d.updated = e.updated /\ d.id < e.id))

\* rankEntriesByQuery and the loop over its result: what does not match a question is
\* skipped before the limit counts.
Matching(S, q) == {e \in S : q.words = <<>> \/ Relevance(e, q) > 0}

\* Mutant: the limit counts what is skipped.
RetrievedOfTop(rows, q, limit, scan, now) ==
  Matching(FirstOf(Candidates(rows, scan), limit, LAMBDA d, e : Precedes(d, e, q, now)), q)
Retrieved(rows, q, limit, scan, now) ==
  FirstOf(Matching(Candidates(rows, scan), q), limit, LAMBDA d, e : Precedes(d, e, q, now))

\* ReviewRetentionCandidates, with its defaults of one half-life and five hundredths.
MinAge(policy) == IF policy.minAge <= 0 THEN 1 ELSE policy.minAge
MinEffective(policy) == IF policy.minEffective <= 0 THEN One \div 20 ELSE policy.minEffective

\* Mutant: a memory at the threshold is kept.
BelowThreshold(e, policy, now) ==
  /\ now - ReferenceTime(e, now) >= MinAge(policy)
  /\ EffectiveImportance(e, now) < MinEffective(policy)
Decayed(e, policy, now) ==
  /\ now - ReferenceTime(e, now) >= MinAge(policy)
  /\ EffectiveImportance(e, now) <= MinEffective(policy)

RetentionCandidates(S, policy, now) ==
  LET found == {e \in S : Decayed(e, policy, now)}
      Before(d, e) ==
        LET Key(x) == <<-EffectiveImportance(x, now), now - ReferenceTime(x, now), -x.id>>
            first == {k \in 1..3 : Key(d)[k] # Key(e)[k]}
        IN \E k \in first : Key(d)[k] > Key(e)[k] /\ \A j \in first : k <= j
  IN IF policy.limit <= 0 THEN found ELSE FirstOf(found, policy.limit, Before)

\* An important memory is summarized before it is forgotten.
Action(e) == IF Clamp(e.importance, 0, 10) >= 3 THEN "summarize" ELSE "forget"

-----------------------------------------------------------------------------
\* Failures and the people who edit the file

\* A statement or file operation fails, or the process dies: the call ends
\* where it is.
Abort(c) ==
  /\ Failing /\ call[c] # Idle
  /\ doubt' = (doubt \/ call[c].at \in {"listing", "opening", "filling"})
  /\ Return(c)
  /\ UNCHANGED <<items, file, versions>>

\* The same in the middle of the writing: an item is cut, or the file ends
\* after one.
CutShort(c) ==
  /\ Failing /\ call[c].at = "filling"
  /\ \/ file' = Torn
     \/ \E k \in Ids :
          file' = Whole([i \in Ids |-> IF i < k THEN call[c].rows[i] ELSE file.rows[i]])
  /\ doubt' = TRUE
  /\ Return(c)
  /\ UNCHANGED <<items, versions>>

\* ValidateGonchoMemoryV1Item: an item without content, an owner or a positive revision, or
\* a tombstone without a time, keeps every item out of the table until the next export.
Spoiled == Torn

\* Somebody corrects a memory in the file, takes its block out, or spoils it.
Edit(id) ==
  /\ Editing /\ file.state = "whole" /\ file.rows[id] # NoRow
  /\ \/ /\ versions < MaxVersions /\ versions' = versions + 1
        /\ \E active \in BOOLEAN :
             file' = [file EXCEPT !.rows[id] =
               [@ EXCEPT !.version = versions + 1, !.content = versions + 1, !.form = Plain, !.active = active]]
     \/ file' \in {[file EXCEPT !.rows[id] = NoRow], Spoiled} /\ UNCHANGED versions
  /\ doubt' = TRUE
  /\ UNCHANGED <<items, call, met>>

ClientStep(c) ==
  \/ \E id \in Ids :
       Store(c, id) \/ Update(c, id) \/ UpdateImportance(c, id) \/ Forget(c, id)
  \/ Upsert(c) \/ List(c) \/ Open(c) \/ Fill(c)
  \/ Retrieve(c) \/ Reload(c)
  \/ Abort(c) \/ CutShort(c)

Next == (\E c \in Clients : ClientStep(c)) \/ \E id \in Ids : Edit(id)

Spec == Init /\ [][Next]_vars

-----------------------------------------------------------------------------
\* Properties

\* What can be read of the file is the table.
Mirrored == file.state = "whole" /\ Readable(file.rows) /\ ReadBack(file.rows) = items

\* A write that ran alone to its end leaves the file an exact mirror of the table,
\* tombstones included, whatever had torn or outdated it before, and later retrievals keep
\* it so - unless a memory holds a marker of the format: then the file has the text of the
\* table, and reads back as another one until a retrieval made the table that one, or as
\* none at all (exportMarkdown, store.go:306-312; goncho_v1.go:112-182).
QuietWritesMirror ==
  Running = {} /\ ~doubt /\ items # NoRows =>
    \/ Mirrored
    \/ file = Whole(items) /\ \E i \in Ids : items[i].form \in Marks

\* The file names a memory in the text of another one.
Named(i) == \E k \in Ids : file.rows[k].form = Splits(i)

\* A retrieval takes a memory back to an older write, or a new importance or a
\* forgetting back to an older content, or cuts a content, only if a call ran beside it, or
\* in doubt, or a marker of its own does it or a block in the text of another memory:
\* nothing stored, changed or forgotten by calls that ran alone to their end is undone
\* (Reload, goncho_v1.go:247-271; UpdateImportance, store.go:225-254).
Undone(i) ==
  \/ items'[i].version < items[i].version \/ items'[i].content < items[i].content
  \/ items'[i].content = items[i].content /\ items'[i].form # items[i].form
UndoneOnlyInDoubt ==
  [][\A i \in Ids : Undone(i) => doubt \/ met # {} \/ items[i].form \in Marks \/ Named(i)]_vars

\* "Store persists tool memories into the Goncho V1 SQLite table and mirrors
\* the table to a human-editable Markdown file" (store.go:55-56): where no
\* call fails and nobody edits the file, it mirrors the table whenever no call
\* is running.
MirroredAtRest == Running = {} => Mirrored \/ items = NoRows

\* A retrieval is not misled by what does not match: it finds a match if there is one among
\* the rows it scans, up to the limit, and never leaves one out for a worse one - one that
\* is no more recent, no more important and no more relevant (store.go:144-197).
RetrievesTheBest(worlds, queries, limit, scan, now) ==
  \A rows \in worlds, q \in queries :
    LET found == Retrieved(rows, q, limit, scan, now)
        rest == Matching(Candidates(rows, scan), q) \ found
    IN /\ Cardinality(found) <= limit
       /\ rest # {} => Cardinality(found) = limit
       /\ \A e \in found, d \in rest :
            ~ /\ Recency(d, now) > Recency(e, now)
              /\ d.importance >= e.importance
              /\ Relevance(d, q) >= Relevance(e, q)

\* Nothing escapes a review for ever: with a threshold no lower than the hundredth that
\* importance decays to, every memory that is left alone becomes a candidate, and stays
\* one, whatever it is to be - while a lower threshold finds none at any age
\* (ReviewRetentionCandidates, importance.go:193-248).
ReviewsReachAll(memories, policies, now, later) ==
  \A e \in memories, policy \in policies :
    LET all == [policy EXCEPT !.limit = 0]
        at(t) == e \in RetentionCandidates(memories, all, t)
    IN /\ at(now) => at(later) \/ ReferenceTime(e, later) = later
       /\ MinEffective(policy) >= One \div 100 => at(later) \/ ReferenceTime(e, later) = later
       /\ MinEffective(policy) < One \div 100 => ~at(later)
       /\ e \in RetentionCandidates(memories, policy, later) =>
            \A d \in memories : Decayed(d, policy, later) /\ d \notin RetentionCandidates(memories, policy, later) =>
              EffectiveImportance(d, later) >= EffectiveImportance(e, later)
=============================================================================
