----------------------------- MODULE VectorIndex -----------------------------
(***************************************************************************)
(* service/local_vector_index.go: vectors of memories, in memory under     *)
(* a lock, written whole to a file after every change; and the reindex of  *)
(* service/vector_reindex.go, which adds what the conclusions lack. A      *)
(* text is embedded before the lock is taken. Vectors and similarity are   *)
(* data; a vector is known by its text and its dimensions.                 *)
(***************************************************************************)
EXTENDS Integers, Sequences, FiniteSets, SequencesExt, TLC

CONSTANTS
  Clients,   \* goroutines calling the index
  Memories,  \* what is indexed, in the index's order: by workspace, then by ID
  Texts,     \* contents
  Here,      \* the workspace of the service
  About,     \* ID, workspace, peer, session and source a memory is indexed under
  Searches,  \* searches: what they ask for, and how alike each text is to it
  Dims,      \* dimensions of the embedding providers a process may be given
  MaxCalls   \* bound on the calls begun

VARIABLES
  conclusions,  \* the text of each active conclusion, or None
  entries,      \* LocalVectorIndex.entries: the text each vector is of, or None
  dimensions,   \* LocalVectorIndex.dimensions; 0 before the first vector
  provider,     \* dimensions of the provider of this process
  disk,         \* the file: its entries and dimensions
  call,         \* the call each client is in
  calls,        \* calls begun
  unsaved,      \* history: the last save failed
  met           \* history: a client changed the index while another was in a call

indexVars == <<entries, dimensions, disk, unsaved>>
vars == <<conclusions, indexVars, provider, call, calls, met>>

None == "none"
Idle == [at |-> "idle"]
Empty == [m \in Memories |-> None]
Own == {m \in Memories : About[m].workspace = Here}

TypeOK ==
  /\ conclusions \in [Memories -> Texts \cup {None}] /\ entries \in [Memories -> Texts \cup {None}]
  /\ dimensions \in Dims \cup {0} /\ provider \in Dims
  /\ disk \in [entries : [Memories -> Texts \cup {None}], dimensions : Dims \cup {0}]
  /\ \A c \in Clients : call[c].at \in {"idle", "upsert", "reindex", "embedded", "summarize"}
  /\ calls \in 0..MaxCalls /\ unsaved \in BOOLEAN /\ met \in BOOLEAN

Init ==
  /\ conclusions \in [Memories -> Texts \cup {None}] /\ \A m \in Memories \ Own : conclusions[m] = None
  /\ entries = Empty /\ dimensions = 0 /\ provider \in Dims
  /\ disk = [entries |-> Empty, dimensions |-> 0]
  /\ call = [c \in Clients |-> Idle] /\ calls = 0
  /\ unsaved = FALSE /\ met = FALSE

Goto(c, k) == call' = [call EXCEPT ![c] = k]
Begin(c, k) == call[c] = Idle /\ calls < MaxCalls /\ calls' = calls + 1 /\ Goto(c, k)

-----------------------------------------------------------------------------
\* Upsert

\* saveLocked writes a temporary file and renames it over the old one: it takes
\* place or it does not, and memory keeps the entry either way.
Saves(new, dims, ok) ==
  /\ entries' = new /\ dimensions' = dims
  /\ disk' = IF ok THEN [entries |-> new, dimensions |-> dims] ELSE disk
  /\ unsaved' = ~ok

FitsDimensions == dimensions \in {0, provider}

\* The part of Upsert under the lock, for a text that is embedded: a save, and
\* the step the call takes when it succeeded or failed.
Locked(c, m, text, done, failed) ==
  /\ met' = (met \/ \E d \in Clients \ {c} : call[d] # Idle)
  /\ IF FitsDimensions
     THEN \E ok \in BOOLEAN :
            /\ Saves([entries EXCEPT ![m] = text], provider, ok)
            /\ Goto(c, IF ok THEN done ELSE failed)
     ELSE Goto(c, failed) /\ UNCHANGED indexVars

\* A host indexes a memory: the provider embeds its text, or fails.
BeginUpsert(c) ==
  /\ \E m \in Memories, text \in Texts : Begin(c, [at |-> "upsert", memory |-> m, text |-> text])
  /\ UNCHANGED <<conclusions, indexVars, provider, met>>

Upsert(c) ==
  /\ call[c].at = "upsert"
  /\ Locked(c, call[c].memory, call[c].text, Idle, Idle)
  /\ UNCHANGED <<conclusions, provider, calls>>

-----------------------------------------------------------------------------
\* Reindex

Reindexing(at, list, done) == [at |-> at, list |-> list, done |-> done]

\* listReindexConclusions
BeginReindex(c) ==
  /\ Begin(c, Reindexing("reindex", [m \in {n \in Own : conclusions[n] # None} |-> conclusions[m]], {}))
  /\ met' = (met \/ \E d \in Clients \ {c} : call[d] # Idle)
  /\ UNCHANGED <<conclusions, indexVars, provider>>

\* ORDER BY id ASC
Ahead(k) == DOMAIN k.list \ k.done
IsNext(k, m) == m \in Ahead(k) /\ \A n \in Ahead(k) : m <= n

\* The vectors of that ID, whatever their workspace; a workspace has one of each ID.
Namesakes(m) == {n \in {m} \cup (Memories \ Own) : About[n].id = About[m].id /\ entries[n] # None}

\* Mutant: any vector of the memory will do.
FreshIfThere(m, text) == Namesakes(m) # {}
Fresh(m, text) ==
  \E n \in Namesakes(m) : entries[n] = text /\ \A other \in Namesakes(m) : n <= other

\* readVectorIndexEntries and beforeEntryFresh; the text is embedded if it must.
Check(c) ==
  /\ call[c].at = "reindex"
  /\ LET k == call[c] IN
     \/ Ahead(k) = {} /\ Goto(c, Reindexing("summarize", k.list, k.done))
     \/ \E m \in Memories : IsNext(k, m) /\
          \/ Fresh(m, k.list[m]) /\ Goto(c, Reindexing("reindex", k.list, k.done \cup {m}))
          \/ ~Fresh(m, k.list[m]) /\ Goto(c, Reindexing("embedded", k.list, k.done))
  /\ UNCHANGED <<conclusions, indexVars, provider, calls, met>>

\* The first vector that cannot be stored ends the reindex.
Index(c) ==
  /\ call[c].at = "embedded"
  /\ \E m \in Memories :
       /\ IsNext(call[c], m)
       /\ Locked(c, m, call[c].list[m],
                 Reindexing("reindex", call[c].list, call[c].done \cup {m}), Idle)
  /\ UNCHANGED <<conclusions, provider, calls>>

\* summarizeReindex counts what is fresh now; the answer is a success.
Summarize(c) ==
  /\ call[c].at = "summarize"
  /\ Goto(c, Idle)
  /\ UNCHANGED <<conclusions, indexVars, provider, calls, met>>

\* The provider fails, or the context ends before the lock is taken.
EmbedFails(c) ==
  /\ call[c].at \in {"upsert", "embedded"}
  /\ Goto(c, Idle)
  /\ UNCHANGED <<conclusions, indexVars, provider, calls, met>>

-----------------------------------------------------------------------------
\* Search and Diagnostics, under the read lock

\* localVectorEntryMatches, of a set of entries: a session is asked for as a wish, for an
\* entry of none answers every session. The service asks for its own workspace. The profile
\* and the peer are asked for alike, and so are the session and the scope.
EntryMatches(q, kept, m) ==
  /\ kept[m] # None /\ m \in Own
  /\ q.peer \in {"", About[m].peer}
  /\ q.session = "" \/ About[m].session \in {"", q.session}
  /\ q.sources = {} \/ (IF About[m].source = "" THEN "vector" ELSE About[m].source) \in q.sources

Score(q, kept, m) == q.alike[kept[m]]
Ranks(q, kept, m, n) ==
  \/ Score(q, kept, m) > Score(q, kept, n)
  \/ Score(q, kept, m) = Score(q, kept, n) /\ m < n
AtMost(limit, list) == IF limit = 0 \/ limit > Len(list) THEN list ELSE SubSeq(list, 1, limit)

\* Mutant: the index is cut to the limit before what does not match is left out.
ScanSome(q, kept) ==
  {m \in ToSet(AtMost(q.limit, SetToSortSeq({n \in Memories : kept[n] # None}, LAMBDA m, n : m < n))) :
     EntryMatches(q, kept, m) /\ Score(q, kept, m) > 0}
Alike(q, kept) == {m \in Memories : EntryMatches(q, kept, m) /\ Score(q, kept, m) > 0}

\* The hits of a search in these entries; the query's vector must have their dimensions.
Search(q, kept, dims) ==
  IF dims \notin {0, provider} THEN [ok |-> FALSE, hits |-> <<>>]
  ELSE LET list == SetToSortSeq(Alike(q, kept), LAMBDA m, n : Ranks(q, kept, m, n))
           top == AtMost(q.limit, list)
       IN [ok |-> TRUE, hits |-> [i \in DOMAIN top |-> [memory |-> top[i], text |-> kept[top[i]]]]]

\* The stale rows it counts are those whose vector is not of their text: it knows nothing
\* of the conclusions.
Diagnostics(kept, dims) ==
  [dimensions |-> dims, count |-> Cardinality({m \in Memories : kept[m] # None}), checksum |-> <<dims, kept>>]

-----------------------------------------------------------------------------
\* A conclusion is made, or deleted: nothing takes its vector away.
Conclude(c) ==
  /\ \E m \in Own :
       \/ conclusions[m] = None /\ \E text \in Texts : conclusions' = [conclusions EXCEPT ![m] = text]
       \/ conclusions[m] # None /\ conclusions' = [conclusions EXCEPT ![m] = None]
  /\ call[c] = Idle /\ calls < MaxCalls /\ calls' = calls + 1
  /\ UNCHANGED <<indexVars, provider, call, met>>

\* NewLocalVectorIndex loads the file; the provider may be another one.
Restart ==
  /\ entries' = disk.entries /\ dimensions' = disk.dimensions
  /\ provider' \in Dims
  /\ call' = [c \in Clients |-> Idle]
  /\ unsaved' = FALSE /\ met' = FALSE
  /\ UNCHANGED <<conclusions, disk, calls>>

Next ==
  \/ Restart
  \/ \E c \in Clients : \/ BeginUpsert(c) \/ Upsert(c) \/ EmbedFails(c) \/ Conclude(c)
                        \/ BeginReindex(c) \/ Check(c) \/ Index(c) \/ Summarize(c)

Spec == Init /\ [][Next]_vars

-----------------------------------------------------------------------------
\* Properties

\* The entry of another workspace stands for a conclusion: it has its ID and its text.
StoodFor(m, text, kept) ==
  \E n \in Memories \ Own : About[n].id = About[m].id /\ kept[n] = text

\* A process is told by its reindex that the conclusions are indexed, and the next one
\* finds them in the file - unless a save failed and nothing was saved since, for the entry
\* left in memory counts as fresh and is not written again (local_vector_index.go:136,
\* vector_reindex.go:75), or another call ran meanwhile. All a reindex takes for its own
\* without it is an entry of that ID and that text of another workspace
\* (readVectorIndexEntries, vector_reindex.go:178).
ReindexPersists ==
  unsaved \/ met \/ \A c \in Clients : call[c].at = "summarize" =>
    \A m \in DOMAIN call[c].list :
      disk.entries[m] = call[c].list[m] \/ StoodFor(m, call[c].list[m], disk.entries)

\* A restart with the same provider changes no answer, unless the last save failed: what a
\* process searches and diagnoses is what the next one will (saveLocked, load,
\* local_vector_index.go:229-273).
AnswersSurvive ==
  unsaved \/
    /\ \A q \in Searches : Search(q, entries, dimensions) = Search(q, disk.entries, disk.dimensions)
    /\ Diagnostics(entries, dimensions) = Diagnostics(disk.entries, disk.dimensions)

\* A process whose reindex reports no failure finds each conclusion it listed that is
\* alike and asked for, or others before it up to the limit (Search,
\* local_vector_index.go:169-205).
ReindexedIsFound ==
  met \/ \A c \in Clients, q \in Searches :
    LET told == Search(q, entries, dimensions) IN
    call[c].at = "summarize" /\ told.ok =>
      \A m \in DOMAIN call[c].list : LET text == call[c].list[m] IN
        \/ ~EntryMatches(q, entries, m) \/ q.alike[text] = 0 \/ StoodFor(m, text, entries)
        \/ \E h \in DOMAIN told.hits : told.hits[h] = [memory |-> m, text |-> text]
        \/ q.limit > 0 /\ Len(told.hits) = q.limit
             /\ \A h \in DOMAIN told.hits : q.alike[told.hits[h].text] >= q.alike[text]
=============================================================================
