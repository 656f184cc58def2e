---------------------------- MODULE ChapterFiles ----------------------------
(***************************************************************************)
(* One chapter in its two homes: the knowledge graph (ChapterRepository)   *)
(* and the owned markdown file (DocumentStore), and the ChapterService     *)
(* calls that keep them together: save_document, open_document, update     *)
(* (rename), move and delete (services/crud_services.py), with             *)
(* apply_chapter_file (services/markdown_import.py) inside the first two.  *)
(*                                                                         *)
(* Only save and open take the chapter's save lock, and they load the      *)
(* chapter before they do; the other calls take no lock.  A query of the   *)
(* graph, a rename of a file and each half of a path.write_text (truncate, *)
(* then write) is one action.  The server may crash between any two.       *)
(*                                                                         *)
(* A text is the set of its paragraphs.  In the graph a paragraph is full  *)
(* (its sentences are there) or a stub: a node a chapter write re-created  *)
(* from a list that still names a paragraph deleted meanwhile.  Paragraph  *)
(* order, tokens and front matter other than title and act are left out,   *)
(* and of git all but which files it tracks, for it moves no other; a unit *)
(* of work is taken as its sequence of saves (UnitOfWork: sharing it).     *)
(***************************************************************************)
EXTENDS Naturals, FiniteSets

CONSTANTS
    Threads,      \* request threads
    Titles, Acts, \* chapter titles and acts
    Paras,        \* paragraphs of a text
    Texts,        \* the texts an editor may send
    OpsOf,        \* the calls each thread may serve in this instance
    Edits,        \* whether the writer also edits the file by other means
    Serial,       \* TRUE: a request is served only when no other one is
    MaxRequests,  \* bound on the requests and hand edits of a behaviour
    MaxCrashes,   \* bound on the crashes of the server
    NoThread, NoFile, NoText,
    Blank         \* the content of a file that is truncated and not yet written

ASSUME NobodyAssumption == NoThread \notin Threads
ASSUME PlaceAssumption == Titles # {} /\ Acts # {}
ASSUME TextsAssumption == Texts \subseteq SUBSET Paras
ASSUME OpsAssumption   ==
    OpsOf \in [Threads -> SUBSET {"save", "open", "rename", "move", "delete"}]
ASSUME BoundAssumption ==
    {Edits, Serial} \subseteq BOOLEAN /\ MaxRequests \in Nat /\ MaxCrashes \in Nat

VARIABLES
    graph,    \* the Chapter node: live, title, act and its paragraphs
    files,    \* the markdown tree: the text of the file at each <<act, title>>
    tracked,  \* the files that the account's git repository tracks
    poisoned, \* whether the unit of work holds a model the database refuses
    owner,    \* who holds the chapter's save lock (module ChapterMutex)
    req,      \* the request each thread serves and its local variables
    requests, \* requests and edits so far
    crashes,  \* crashes so far
    parted,   \* whether a file may have been left where the chapter is no more: history
    allowed,  \* the texts a reader may expect: history variable
    overlap   \* for each save in flight, the texts saved concurrently

vars == <<graph, files, tracked, poisoned, owner, req, requests, crashes, parted, allowed, overlap>>

chapterId == "chapter"
Mutex == INSTANCE ChapterMutex WITH Chapters <- {chapterId}

Places == Acts \X Titles

ASSUME ContentAssumption ==
    /\ \A text \in SUBSET Paras : text \notin {NoFile, Blank, NoText}
    /\ NoFile # Blank /\ NoText # Blank
    /\ NoFile \notin Places

\* The graph's view of a text; a stub has no sentences.
Full(body)   == {p \in Paras : body[p] = "full"}
Listed(body) == {p \in Paras : body[p] # "absent"}

\* What is on disk: git_commit has git track all of it and nothing else.
Present == {f \in Places : files[f] # NoFile}

(***************************************************************************)
(* Local state of a request: its operation and argument, the chapter as    *)
(* loaded at the start (ch), the path it works on, where the file it has   *)
(* open for writing is by now (fd; NoFile once it is removed), the text it *)
(* writes, the text it has read from the file (seen) and the chapter as    *)
(* reloaded under the lock (fresh), the paragraphs still to persist        *)
(* (todo), where it is and its answer.                                     *)
(***************************************************************************)
Steps == {"idle", "load", "enter", "locked", "truncate", "write", "read", "diff",
          "paragraphs", "back", "back_write", "leave", "answer",
          "retitle", "rename_file", "snapshot", "adopt", "remove_file", "drop"}

NoChapter == [title |-> CHOOSE x \in Titles : TRUE, act |-> CHOOSE a \in Acts : TRUE,
              paras |-> {}]

IdleReq == [op |-> "open", arg |-> NoText, ch |-> NoChapter,
            path |-> <<NoChapter.act, NoChapter.title>>, fd |-> NoFile, text |-> {}, seen |-> {},
            fresh |-> NoChapter, todo |-> {}, at |-> "idle", ok |-> TRUE, answer |-> NoText]

ChapterRecord == [title : Titles, act : Acts, paras : SUBSET Paras]

TypeOK ==
    /\ graph \in [live : BOOLEAN, title : Titles, act : Acts,
                  body : [Paras -> {"absent", "stub", "full"}]]
    /\ files \in [Places -> (SUBSET Paras) \cup {NoFile, Blank}]
    /\ tracked \subseteq Places
    /\ poisoned \in BOOLEAN
    /\ Mutex!MutexTypeOK
    /\ req \in [Threads ->
         [op : {"save", "open", "rename", "move", "delete"}, arg : Texts \cup Titles \cup Acts \cup {NoText},
          ch : ChapterRecord, path : Places,
          fd : Places \cup {NoFile}, text : (SUBSET Paras) \cup {Blank},
          seen : (SUBSET Paras) \cup {Blank},
          fresh : ChapterRecord, todo : SUBSET Paras, at : Steps, ok : BOOLEAN,
          answer : (SUBSET Paras) \cup {NoText, Blank}]]
    /\ requests \in 0 .. MaxRequests
    /\ crashes \in 0 .. MaxCrashes
    /\ parted \in BOOLEAN
    /\ allowed \subseteq SUBSET Paras
    /\ overlap \in [Threads -> SUBSET SUBSET Paras]

\* A chapter saved or imported earlier; its file is not yet materialized or
\* there, and not tracked where it was imported and not opened since.
Init ==
    \E text \in Texts, title \in Titles, act \in Acts, there \in BOOLEAN :
      /\ graph = [live |-> TRUE, title |-> title, act |-> act,
                  body |-> [p \in Paras |-> IF p \in text THEN "full" ELSE "absent"]]
      /\ files = [f \in Places |-> IF there /\ f = <<act, title>> THEN text ELSE NoFile]
      /\ tracked \in SUBSET Present
      /\ poisoned = FALSE
      /\ Mutex!MutexInit
      /\ req = [t \in Threads |-> IdleReq]
      /\ requests = 0
      /\ crashes = 0
      /\ parted = FALSE
      /\ allowed = {text}
      /\ overlap = [t \in Threads |-> {}]

Active(t) == req[t].at # "idle"
At(t, step) == req[t].at = step
Goto(t, step) == req' = [req EXCEPT ![t].at = step]
Quiet == \A t \in Threads : ~Active(t)

Saving(t) == Active(t) /\ req[t].op = "save"

\* The calls that take the chapter from the place of its file, or its file away.
Displacing == {"rename", "move", "delete"}

(***************************************************************************)
(* History: a save in flight may be what a reader sees from now on; a call *)
(* that displaces the chapter while another is served may part chapter and *)
(* file, and so may a move by itself, a rename of a file git does not      *)
(* track, and a crash of any of them.                                      *)
(***************************************************************************)
Begin(t, op, arg) ==
    /\ op \in OpsOf[t]
    /\ ~Active(t)
    /\ Serial => Quiet
    /\ requests < MaxRequests
    /\ requests' = requests + 1
    /\ req' = [req EXCEPT ![t] = [IdleReq EXCEPT !.op = op, !.arg = arg, !.at = "load"]]
    /\ IF op = "save"
       THEN /\ allowed' = allowed \cup {arg}
            /\ overlap' = [u \in Threads |->
                             IF u = t THEN {req[v].arg : v \in {v \in Threads : Saving(v)}}
                             ELSE IF Saving(u) THEN overlap[u] \cup {arg} ELSE overlap[u]]
       ELSE UNCHANGED <<allowed, overlap>>
    /\ parted' = (parted \/ \E u \in Threads : Active(u) /\ {op, req[u].op} \cap Displacing # {})
    /\ UNCHANGED <<graph, files, tracked, poisoned, owner, crashes>>

Request(t) ==
    \/ \E x \in Texts  : Begin(t, "save", x)
    \/ Begin(t, "open", NoText)
    \/ \E x \in Titles : Begin(t, "rename", x)
    \/ \E a \in Acts   : Begin(t, "move", a)
    \/ Begin(t, "delete", NoText)

\* Mutant of FirstStep: delete goes straight to the graph.
FirstStepKeepsFile(op) ==
    CASE op \in {"save", "open"} -> "enter"
      [] op = "rename" -> "retitle"
      [] op = "move"   -> "adopt"
      [] op = "delete" -> "drop"

\* The first step after the chapter is loaded.
FirstStep(op) ==
    CASE op \in {"save", "open"} -> "enter"
      [] op = "rename" -> "retitle"
      [] op = "move"   -> "adopt"
      [] op = "delete" -> "remove_file"

\* _chapter_repo.load, with the document it belongs to: before any lock.
Load(t) ==
    /\ At(t, "load")
    /\ IF graph.live
       THEN req' = [req EXCEPT ![t].ch   = [title |-> graph.title, act |-> graph.act,
                                            paras |-> Listed(graph.body)],
                               ![t].text = IF req[t].op = "save" THEN req[t].arg
                                           ELSE Full(graph.body),
                               ![t].path = <<graph.act, graph.title>>,
                               ![t].at   = FirstStep(req[t].op)]
       ELSE req' = [req EXCEPT ![t].ok = FALSE, ![t].at = "answer"]
    /\ UNCHANGED <<graph, files, tracked, poisoned, owner, requests, crashes, parted, allowed, overlap>>

\* `with self._save_scope(chapter_id)`
EnterScope(t) ==
    /\ At(t, "enter")
    /\ Mutex!Enter(t, chapterId)
    /\ Goto(t, "locked")
    /\ UNCHANGED <<graph, files, tracked, poisoned, requests, crashes, parted, allowed, overlap>>

\* A save writes its text; an open materializes a missing file from the
\* chapter it loaded, and otherwise goes on to absorb the file.
Choose(t) ==
    /\ At(t, "locked")
    /\ Goto(t, IF req[t].op = "save" \/ files[req[t].path] = NoFile
               THEN "truncate" ELSE "read")
    /\ UNCHANGED <<graph, files, tracked, poisoned, owner, requests, crashes, parted, allowed, overlap>>

\* path.write_text: the file is opened for writing, then filled.
Truncate(t) ==
    /\ At(t, "truncate")
    /\ files' = [files EXCEPT ![req[t].path] = Blank]
    /\ req' = [req EXCEPT ![t].fd = req[t].path, ![t].at = "write"]
    /\ UNCHANGED <<graph, tracked, poisoned, owner, requests, crashes, parted, allowed, overlap>>

\* Mutant of Filled: the text is written in part.
FilledInPart(t, text) ==
    IF req[t].fd = NoFile THEN files
    ELSE [files EXCEPT ![req[t].fd] = text \ {CHOOSE p \in Paras : TRUE}]

\* A file moved meanwhile is filled where it is now, a removed one nowhere.
Filled(t, text) ==
    IF req[t].fd = NoFile THEN files ELSE [files EXCEPT ![req[t].fd] = text]

Write(t) ==
    /\ At(t, "write")
    /\ files' = Filled(t, req[t].text)
    /\ Goto(t, CASE req[t].op = "save" -> "read"
                 [] req[t].op = "open" -> "leave"
                 [] req[t].op = "rename" -> "snapshot")
    /\ UNCHANGED <<graph, tracked, poisoned, owner, requests, crashes, parted, allowed, overlap>>

-----------------------------------------------------------------------------
(***************************************************************************)
(* apply_chapter_file, under the lock: the file is read, then diffed       *)
(* against the chapter; an empty diff changes nothing.                     *)
(***************************************************************************)
\* Mutant of Stored: the chapter as it was loaded before the lock was taken.
StoredAsLoaded(t) == [p \in Paras |-> IF p \in req[t].ch.paras THEN "full" ELSE "absent"]

\* The chapter the file is diffed against: a fresh load.
Stored(t) == graph.body

\* The body holds exactly the paragraphs of the text, all with their sentences.
SameText(body, text) == \A p \in Paras : body[p] = IF p \in text THEN "full" ELSE "absent"

\* Mutant of NoChanges: only the number of paragraphs is compared.
SameLength(body, text) == Cardinality(Full(body)) = Cardinality(text)

\* detect_changes finds nothing to do.
NoChanges(body, text) == SameText(body, text)

\* Mutant of Raises: the exception leaves the lock locked.
RaisesLocked(t) == req' = [req EXCEPT ![t].ok = FALSE, ![t].at = "answer"]

\* An exception inside the scope: the lock is released on the way out.
Raises(t) == req' = [req EXCEPT ![t].ok = FALSE, ![t].at = "leave"]

Read(t) ==
    LET text == files[req[t].path] IN
    /\ At(t, "read")
    /\ IF text = NoFile THEN Raises(t)
       ELSE req' = [req EXCEPT ![t].seen = text, ![t].at = "diff"]
    /\ UNCHANGED <<graph, files, tracked, poisoned, owner, requests, crashes, parted, allowed, overlap>>

\* The chapter the file names is gone: ChapterMismatchError.
DiffGone(t) ==
    /\ At(t, "diff") /\ req[t].seen # Blank /\ ~graph.live
    /\ Raises(t)
    /\ UNCHANGED <<graph, files, tracked, poisoned, owner, requests, crashes, parted, allowed, overlap>>

(***************************************************************************)
(* A file without front matter is a new chapter titled like the file.  The *)
(* database refuses it for the title it shares with this one, and it stays *)
(* in the unit of work.  (Under a title that is free it would become a     *)
(* chapter of its own, which this module of one chapter takes as refused.) *)
(***************************************************************************)
DiffBlank(t) ==
    /\ At(t, "diff") /\ req[t].seen = Blank
    /\ poisoned' = TRUE
    /\ Raises(t)
    /\ UNCHANGED <<graph, files, tracked, owner, requests, crashes, parted, allowed, overlap>>

Diff(t) ==
    /\ At(t, "diff") /\ req[t].seen # Blank /\ graph.live
    /\ req' = [req EXCEPT ![t].fresh = [title |-> graph.title, act |-> graph.act,
                                        paras |-> Listed(graph.body)],
                          ![t].todo  = req[t].seen \ Full(Stored(t)),
                          ![t].at    = IF NoChanges(Stored(t), req[t].seen)
                                       THEN "leave" ELSE "paragraphs"]
    /\ UNCHANGED <<graph, files, tracked, poisoned, owner, requests, crashes, parted, allowed, overlap>>

(***************************************************************************)
(* A commit saves what the unit of work holds of earlier requests first:   *)
(* while that is refused, every commit of the process fails.  A delete has *)
(* removed the file by then: what the graph holds of the chapter, be it an *)
(* older text, is what a reader gets from now on.                          *)
(***************************************************************************)
Commits(t) ==
    \/ At(t, "paragraphs") \/ At(t, "retitle") \/ At(t, "drop")
    \/ At(t, "adopt") /\ req[t].arg # req[t].ch.act

CommitFails(t) ==
    /\ Commits(t) /\ poisoned
    /\ IF At(t, "paragraphs") THEN Raises(t)
       ELSE req' = [req EXCEPT ![t].ok = FALSE, ![t].at = "answer"]
    /\ allowed' = IF At(t, "drop") THEN allowed \cup {Full(graph.body)} ELSE allowed
    /\ UNCHANGED <<graph, files, tracked, poisoned, owner, requests, crashes, parted, overlap>>

\* _persist: a new or changed paragraph with its sentences.  Its MATCH on a
\* deleted chapter matches nothing.
SaveParagraph(t) ==
    /\ At(t, "paragraphs") /\ ~poisoned
    /\ \E p \in req[t].todo :
         /\ graph' = IF graph.live THEN [graph EXCEPT !.body[p] = "full"] ELSE graph
         /\ req' = [req EXCEPT ![t].todo = @ \ {p}]
    /\ UNCHANGED <<files, tracked, poisoned, owner, requests, crashes, parted, allowed, overlap>>

(***************************************************************************)
(* The chapter's CHANGED query: MERGE the node, set its attributes, MERGE  *)
(* every listed paragraph and delete the others.  Over an empty list the   *)
(* UNWIND leaves no row, so nothing after it runs.                         *)
(***************************************************************************)
ChapterChanged(title, act, list) ==
    graph' = [live |-> TRUE, title |-> title, act |-> act,
              body |-> [p \in Paras |->
                          IF list = {} THEN graph.body[p]
                          ELSE IF p \notin list THEN "absent"
                          ELSE IF graph.body[p] = "absent" THEN "stub" ELSE graph.body[p]]]

SaveChapter(t) ==
    /\ At(t, "paragraphs") /\ ~poisoned
    /\ req[t].todo = {}
    /\ ChapterChanged(req[t].fresh.title, req[t].fresh.act, req[t].seen)
    /\ Goto(t, "back")
    /\ UNCHANGED <<files, tracked, poisoned, owner, requests, crashes, parted, allowed, overlap>>

\* write_back_chapter_file: the canonical text, to the path it was read from.
\* The existing file is read first, for its front matter.
TruncateBack(t) ==
    /\ At(t, "back")
    /\ IF files[req[t].path] = NoFile THEN Raises(t) /\ UNCHANGED files
       ELSE /\ files' = [files EXCEPT ![req[t].path] = Blank]
            /\ req' = [req EXCEPT ![t].fd = req[t].path, ![t].at = "back_write"]
    /\ UNCHANGED <<graph, tracked, poisoned, owner, requests, crashes, parted, allowed, overlap>>

WriteBack(t) ==
    /\ At(t, "back_write")
    /\ files' = Filled(t, req[t].seen)
    /\ Goto(t, "leave")
    /\ UNCHANGED <<graph, tracked, poisoned, owner, requests, crashes, parted, allowed, overlap>>

\* The git_commit that ends a save or an open that raised nothing, and the
\* release of the lock after it, which only calls that wait for it can tell.
LeaveScope(t) ==
    /\ At(t, "leave")
    /\ tracked' = IF req[t].ok THEN Present ELSE tracked
    /\ Mutex!Leave(t, chapterId)
    /\ Goto(t, "answer")
    /\ UNCHANGED <<graph, files, poisoned, requests, crashes, parted, allowed, overlap>>

-----------------------------------------------------------------------------
(***************************************************************************)
(* update: the whole chapter, as loaded, is written under its new title;   *)
(* then the file is moved and its front matter rewritten.                  *)
(***************************************************************************)
Retitle(t) ==
    /\ At(t, "retitle") /\ ~poisoned
    /\ ChapterChanged(req[t].arg, req[t].ch.act, req[t].ch.paras)
    /\ Goto(t, IF req[t].arg = req[t].ch.title THEN "answer" ELSE "rename_file")
    /\ UNCHANGED <<files, tracked, poisoned, owner, requests, crashes, parted, allowed, overlap>>

\* The open files follow the move of a file and are cut off by its removal.
Reopened(old, new) ==
    [u \in Threads |-> IF req[u].fd = old THEN [req[u] EXCEPT !.fd = new] ELSE req[u]]

\* Refused onto another file and, by git, where it does not track this one:
\* the graph has the new title by then, so that parts chapter and file.
RenameFile(t) ==
    LET old == req[t].path
        new == <<req[t].ch.act, req[t].arg>>
        refused == req' = [req EXCEPT ![t].ok = FALSE, ![t].at = "answer"] /\ UNCHANGED <<files, tracked>> IN
    /\ At(t, "rename_file")
    /\ \/ /\ files[old] = NoFile                          \* nothing to rename
          /\ Goto(t, "answer")
          /\ UNCHANGED <<files, tracked, parted>>
       \/ /\ files[old] # NoFile /\ files[new] # NoFile   \* SnapshotError
          /\ refused /\ UNCHANGED parted
       \/ /\ files[old] # NoFile /\ files[new] = NoFile /\ old \notin tracked
          /\ refused /\ parted' = TRUE
       \/ /\ files[old] # NoFile /\ files[new] = NoFile /\ old \in tracked
          /\ files' = [files EXCEPT ![new] = files[old], ![old] = NoFile]
          /\ tracked' = (tracked \ {old}) \cup {new}
          /\ req' = [Reopened(old, new) EXCEPT ![t].path = new, ![t].text = files[old],
                                                ![t].at = "truncate"]
          /\ UNCHANGED parted
    /\ UNCHANGED <<graph, poisoned, owner, requests, crashes, allowed, overlap>>

\* The git_commit that ends the rename of a file.
Snapshot(t) ==
    /\ At(t, "snapshot")
    /\ tracked' = Present
    /\ Goto(t, "answer")
    /\ UNCHANGED <<graph, files, poisoned, owner, requests, crashes, parted, allowed, overlap>>

\* move: the neighbour's act is adopted by the same whole-chapter write; the
\* file stays where it is.
Adopt(t) ==
    /\ At(t, "adopt") /\ ~(Commits(t) /\ poisoned)
    /\ IF req[t].arg = req[t].ch.act THEN UNCHANGED graph
       ELSE ChapterChanged(req[t].ch.title, req[t].arg, req[t].ch.paras)
    /\ parted' = (parted \/ req[t].arg # req[t].ch.act)
    /\ Goto(t, "answer")
    /\ UNCHANGED <<files, tracked, poisoned, owner, requests, crashes, allowed, overlap>>

\* delete: the store file first, then the graph subtree.
RemoveFile(t) ==
    /\ At(t, "remove_file")
    /\ files' = [files EXCEPT ![req[t].path] = NoFile]
    /\ tracked' = tracked \ {req[t].path}
    /\ req' = [Reopened(req[t].path, NoFile) EXCEPT ![t].at = "drop"]
    /\ UNCHANGED <<graph, poisoned, owner, requests, crashes, parted, allowed, overlap>>

Drop(t) ==
    /\ At(t, "drop") /\ ~poisoned
    /\ graph' = [graph EXCEPT !.live = FALSE, !.body = [p \in Paras |-> "absent"]]
    /\ Goto(t, "answer")
    /\ UNCHANGED <<files, tracked, poisoned, owner, requests, crashes, parted, allowed, overlap>>

(***************************************************************************)
(* The answer.  save and open read the file once more, after the lock is   *)
(* released, at the path they loaded; an acknowledged save narrows what a  *)
(* reader may expect to it and to the saves it overlapped with.            *)
(***************************************************************************)
Answer(t) ==
    /\ At(t, "answer")
    /\ req' = [req EXCEPT ![t] =
                 [IdleReq EXCEPT
                    !.op = req[t].op, !.arg = req[t].arg, !.ok = req[t].ok,
                    !.answer = IF /\ req[t].ok
                                  /\ req[t].op \in {"save", "open"}
                                  /\ files[req[t].path] # NoFile
                               THEN files[req[t].path] ELSE NoText]]
    /\ allowed' = IF req[t].op = "save" /\ req[t].ok
                  THEN {req[t].arg} \cup overlap[t] ELSE allowed
    /\ UNCHANGED <<graph, files, tracked, poisoned, owner, requests, crashes, parted, overlap>>

-----------------------------------------------------------------------------
\* The writer edits the chapter's file with another program.
Edit ==
    /\ Edits
    /\ Quiet
    /\ requests < MaxRequests
    /\ graph.live /\ files[<<graph.act, graph.title>>] # NoFile
    /\ \E x \in Texts :
         /\ files' = [files EXCEPT ![<<graph.act, graph.title>>] = x]
         /\ allowed' = {x}
    /\ requests' = requests + 1
    /\ UNCHANGED <<graph, tracked, poisoned, owner, req, crashes, parted, overlap>>

(***************************************************************************)
(* The server dies and is started again: threads, locks and the unit of    *)
(* work are gone, the graph and the files stay as they are.                *)
(***************************************************************************)
Crash ==
    /\ crashes < MaxCrashes
    /\ ~Quiet
    /\ crashes' = crashes + 1
    /\ parted' = (parted \/ \E t \in Threads : Active(t) /\ req[t].op \in Displacing)
    /\ req' = [t \in Threads |-> IdleReq]
    /\ owner' = [c \in {chapterId} |-> NoThread]
    /\ poisoned' = FALSE
    /\ overlap' = [t \in Threads |-> {}]
    /\ UNCHANGED <<graph, files, tracked, requests, allowed>>

ServeStep(t) ==
    \/ Load(t) \/ EnterScope(t) \/ Choose(t) \/ Truncate(t) \/ Write(t)
    \/ Read(t) \/ DiffGone(t) \/ DiffBlank(t) \/ Diff(t)
    \/ CommitFails(t) \/ SaveParagraph(t) \/ SaveChapter(t)
    \/ TruncateBack(t) \/ WriteBack(t) \/ LeaveScope(t)
    \/ Retitle(t) \/ RenameFile(t) \/ Snapshot(t) \/ Adopt(t) \/ RemoveFile(t) \/ Drop(t)
    \/ Answer(t)

Next == Edit \/ Crash \/ \E t \in Threads : Request(t) \/ ServeStep(t)

Spec == Init /\ [][Next]_vars
FairSpec == Spec /\ \A t \in Threads : WF_vars(ServeStep(t))
-----------------------------------------------------------------------------
Here == <<graph.act, graph.title>>   \* where the chapter's file belongs

\* Thread t answers its request in this step.
Answers(t) == At(t, "answer") /\ req'[t].at = "idle"

(***************************************************************************)
(* What open_document and save_document answer is a whole text that was    *)
(* saved, or written into the file: the last one acknowledged or one that  *)
(* raced with it, never an older one and never half a write ("the editor   *)
(* always works against hydrated truth and there is never stale-client     *)
(* state to reconcile", README_markdown_redesign.md:74).  Where chapter    *)
(* and file have been parted the code does answer an older text: a moved   *)
(* chapter that is saved and moved back meets the file it had left.        *)
(***************************************************************************)
AnswersCurrentText ==
    [][\A t \in Threads :
         Answers(t) /\ req'[t].answer # NoText /\ ~parted => req'[t].answer \in allowed]_vars

(***************************************************************************)
(* When an open or a save that ran alone is answered, the graph holds      *)
(* exactly the paragraphs of the file, all with their sentences: whatever  *)
(* a hand edit, a crash or a move left behind is absorbed (open_document). *)
(* Of an emptied text this is not so: its CHANGED query deletes nothing.   *)
(***************************************************************************)
Reconciled ==
    [][\A t \in Threads :
         /\ Answers(t) /\ req'[t].answer \notin {NoText, {}, Blank}
         /\ \A u \in Threads \ {t} : ~Active(u)
         => SameText(graph.body, req'[t].answer)]_vars

(***************************************************************************)
(* Between requests the chapter has no file but the one at its act and     *)
(* title, and a deleted chapter has none (update, delete; "manuscript      *)
(* chapters live under Act <name>", README_markdown_redesign.md:245), also *)
(* when a save, an open or a delete failed, until a move, a rename of a    *)
(* file that git refuses to move, for it does not track it, or a crash of  *)
(* a rename or delete parts the two.                                       *)
(***************************************************************************)
OneFile ==
    /\ TypeOK
    /\ Quiet /\ ~parted => \A f \in Places : files[f] # NoFile => graph.live /\ f = Here

(***************************************************************************)
(* Saves of one chapter are queued, the last one wins: once everything is  *)
(* answered the graph and the file hold one text, the one acknowledged     *)
(* last or one that raced with it ("last-write-wins within the queue",     *)
(* README_markdown_redesign.md:142).  Of saves that raced with a rename,   *)
(* move or delete this is not so: those calls take no save lock.           *)
(***************************************************************************)
LastSaveWins ==
    Quiet /\ graph.live /\ ~parted =>
      /\ Full(graph.body) \in allowed
      /\ files[Here] # NoFile => files[Here] # Blank /\ SameText(graph.body, files[Here])

(***************************************************************************)
(* Every request is answered, also when reading the file fails inside the  *)
(* lock or the chapter is renamed or deleted meanwhile.                    *)
(***************************************************************************)
EveryRequestAnswered == \A t \in Threads : Active(t) ~> ~Active(t)
=============================================================================
