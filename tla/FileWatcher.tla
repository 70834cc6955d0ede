---------------------------- MODULE FileWatcher -----------------------------
(***************************************************************************)
(* service/filesystem_watcher.go: a batch of changed files becomes         *)
(* observations, whose IDs are derived from the path and the checksum of   *)
(* the content. A call first looks at every file - its size, then its      *)
(* content, in two calls of the system - and then observes what it found,  *)
(* one observation after the other, while others change the files.         *)
(***************************************************************************)
EXTENDS ObservationLog, Sequences, SequencesExt

CONSTANTS
  Clients,     \* goroutines importing changes
  Paths,       \* files under the root
  Included,    \* those that pass the globs and resolve inside the root
  Contents,    \* what a file may hold; of different sizes
  Size,        \* the size of each
  Binary,      \* those that look binary, and are not allowed
  Previews,    \* values of MaxPreviewBytes
  Batches,     \* the paths of a call, in order, perhaps repeated
  MaxChanges   \* bound on the changes of files

VARIABLES
  files,     \* the content of each path, or None
  changes,   \* changes so far
  importing, \* the import each client is in
  torn,      \* history: IDs of observations sent with a size that is not their content's
  limits,    \* history: the previews each ID was sent with
  refused    \* history: IDs that were sent and met another observation

fileVars == <<files, changes>>
watchVars == <<logVars, fileVars, importing, torn, limits, refused>>

NotImporting == [at |-> "none"]

\* The IDs and texts of the log: what is observed of a file. The preview is the
\* content up to a limit, and the size goes along as metadata.
WatchIds == Paths \X Contents
WatchTexts == [of : Contents, shown : Nat, size : Nat]

WatchTypeOK ==
  /\ LogTypeOK
  /\ files \in [Paths -> Contents \cup {None}] /\ changes \in 0..MaxChanges
  /\ \A c \in Clients : importing[c].at \in {"none", "stat", "read", "observe"}
  /\ torn \subseteq Ids /\ refused \subseteq Ids
  /\ limits \in [Ids -> SUBSET Previews]

WatchInit ==
  /\ LogInit
  /\ files \in [Paths -> Contents \cup {None}] /\ changes = 0
  /\ importing = [c \in Clients |-> NotImporting]
  /\ torn = {} /\ refused = {} /\ limits = [id \in Ids |-> {}]

Goto(c, k) == importing' = [importing EXCEPT ![c] = k]

\* A file is written, or removed.
Change(p, content) ==
  /\ changes < MaxChanges /\ files[p] # content
  /\ files' = [files EXCEPT ![p] = content] /\ changes' = changes + 1
  /\ UNCHANGED <<logVars, importing, torn, limits, refused>>

-----------------------------------------------------------------------------
\* The preview

BeginWatch(c, batch, preview) ==
  /\ importing[c] = NotImporting
  /\ Goto(c, [at |-> "stat", paths |-> batch, preview |-> preview, found |-> <<>>])
  /\ UNCHANGED <<logVars, fileVars, torn, limits, refused>>

\* The path is done with: the next one, or the observations.
NextPath(k) ==
  LET rest == Tail(k.paths)
  IN [at |-> IF rest = <<>> THEN "observe" ELSE "stat",
      paths |-> rest, preview |-> k.preview, found |-> k.found]

\* A path that is excluded or has no file is skipped.
Stat(c) ==
  /\ importing[c].at = "stat"
  /\ LET k == importing[c]
         p == Head(k.paths)
     IN Goto(c, IF p \in Included /\ files[p] # None
                THEN [k EXCEPT !.at = "read"] @@ [size |-> Size[files[p]]]
                ELSE NextPath(k))
  /\ UNCHANGED <<logVars, fileVars, torn, limits, refused>>

\* Mutant: the ID leaves out the checksum.
ByPath(p, content) == <<p, CHOOSE x \in Contents : TRUE>>
filesystemWatcherObservationID(p, content) == <<p, content>>

Truncated(content, preview) == IF Size[content] > preview THEN preview ELSE Size[content]

Candidate(p, content, k) ==
  [path |-> p, id |-> filesystemWatcherObservationID(p, content),
   text |-> [of |-> content, shown |-> Truncated(content, k.preview), size |-> k.size]]

\* A file that is gone or binary is skipped, and of a repeated path the first counts.
ReadFile(c) ==
  /\ importing[c].at = "read"
  /\ LET k == importing[c]
         p == Head(k.paths)
         skip == files[p] \in Binary \cup {None} \/ \E i \in DOMAIN k.found : k.found[i].path = p
     IN Goto(c, NextPath(IF skip THEN k
                         ELSE [k EXCEPT !.found = Append(@, Candidate(p, files[p], k))]))
  /\ UNCHANGED <<logVars, fileVars, torn, limits, refused>>

-----------------------------------------------------------------------------
\* Observe, for every candidate; a conflict or a failure ends the call.
ObserveCandidate(c) ==
  /\ importing[c].at = "observe" /\ importing[c].found # <<>>
  /\ LET k == importing[c]
         x == Head(k.found)
     IN /\ limits' = [limits EXCEPT ![x.id] = @ \cup {k.preview}]
        /\ torn' = IF x.text.size # Size[x.text.of] THEN torn \cup {x.id} ELSE torn
        /\ Observe(x.id, x.text)
        /\ IF observations[x.id] # None /\ ~SameChecksum(x.id, x.text)
           THEN refused' = refused \cup {x.id} /\ Goto(c, NotImporting)
           ELSE UNCHANGED refused /\ Goto(c, [k EXCEPT !.found = Tail(@)])
  /\ UNCHANGED fileVars

WatchEnds(c) ==
  /\ importing[c].at \in {"observe"} /\ importing[c].found = <<>>
  /\ Goto(c, NotImporting)
  /\ UNCHANGED <<logVars, fileVars, torn, limits, refused>>

\* A statement fails: what was observed before stays.
WatchFails(c) ==
  /\ importing[c].at = "observe" /\ importing[c].found # <<>>
  /\ Goto(c, NotImporting)
  /\ UNCHANGED <<logVars, fileVars, torn, limits, refused>>

WatchNext ==
  \/ \E p \in Paths, content \in Contents \cup {None} : Change(p, content)
  \/ \E c \in Clients :
       \/ \E batch \in Batches, preview \in Previews : BeginWatch(c, batch, preview)
       \/ Stat(c) \/ ReadFile(c) \/ ObserveCandidate(c) \/ WatchEnds(c) \/ WatchFails(c)

WatchSpec == WatchInit /\ [][WatchNext]_watchVars

-----------------------------------------------------------------------------
\* Properties

\* An import is refused only because the file changed between its size and its
\* content were read, then or when it was first observed, or because it came with
\* another preview limit: whatever calls overlap, fail half way or are repeated, the
\* same content of the same path is one observation, whose text is of the content
\* its ID was made from (filesystem_watcher.go:107-132, 237-261, 287-294).
RefusedOnlyTorn ==
  \A id \in Ids :
    /\ id \in refused => id \in torn \/ \E m, n \in limits[id] : m # n
    /\ observations[id] # None =>
         /\ observations[id].of = id[2] /\ id[1] \in Included /\ id[2] \notin Binary
         /\ id \notin torn => observations[id].size = Size[id[2]]
=============================================================================
