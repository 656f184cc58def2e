---------------------------- MODULE ChapterOrder ----------------------------
(***************************************************************************)
(* The chapters of one document: their order, titles, acts and files       *)
(* (services/crud_services.py ChapterService create, move, update, delete  *)
(* and renumber; services/chapter_renumber.py, chapter_numbers.py,         *)
(* repositories/chapter_repository.py and the chapter half of              *)
(* infrastructure/document_store/store.py).                                *)
(*                                                                         *)
(* The calls take no lock.  One query or transaction of the graph, one     *)
(* commit of the unit of work (its interleavings are module UnitOfWork),   *)
(* and one git command with the file access around it are the actions, and *)
(* the calls of the clients interleave between them.  Two git commands in  *)
(* one account's repository at once may fail on its index lock.            *)
(*                                                                         *)
(* A title is its words and its number, with the letter after the number;  *)
(* the text of a chapter is its id (module ChapterFiles is about texts),   *)
(* so a file is whose text it holds and the title in its front matter.     *)
(***************************************************************************)
EXTENDS Integers, FiniteSets, SequencesExt

CONSTANTS
    Chapters,     \* chapter ids
    Words,        \* the titles' words
    LowerOf,      \* the words in lower case
    Acts,         \* acts, "" for none
    Clients, Scripts,  \* the calls each client makes, in order: one of these
    Documents,    \* the documents at the start: chapters, and the ones with a file
    MaxFaults,    \* bound on the git commands that fail
    NoChapter, NoNumber, NoIndex

ASSUME NumberAssumption == MaxFaults \in Nat /\ NoNumber = -1 /\ NoIndex = -1
ASSUME ActsAssumption   == "" \in Acts
ASSUME FiniteAssumption == IsFiniteSet(Chapters)
ASSUME LowerAssumption  == LowerOf \in [Words -> Words] /\ \A w \in Words : LowerOf[LowerOf[w]] = LowerOf[w]

Title   == [words : Words, number : Nat \cup {NoNumber}, letter : {"", "b"}]
Chapter == [title : Title, act : Acts, category : {"Chapter", "Character"},
            index : Nat \cup {NoIndex}]
File    == [id : Chapters, title : Title, tracked : BOOLEAN]
Write   == [kind : {"new", "changed", "deleted"}, id : Chapters, ch : Chapter]

\* What a client asks for; a renumber counts from start, which the request
\* keeps from being negative.
Requests ==
    [op : {"create"}, id : Chapters, after : Chapters \cup {NoChapter},
     title : Title, category : {"Chapter", "Character"}]
    \cup [op : {"move"}, id : Chapters, after : Chapters \cup {NoChapter}]
    \cup [op : {"update"}, id : Chapters, title : Title]
    \cup [op : {"delete"}, id : Chapters]
    \cup [op : {"renumber"}, start : Nat]

ASSUME NoneAssumption == NoChapter \notin Chapter
ASSUME ScriptsAssumption == \A s \in Scripts : s \in [Clients -> Seq(Requests)]

VARIABLES
    chapters,  \* the Chapter nodes of the document, NoChapter for none
    files,     \* the markdown tree: by path, whose text, the title in it, known to git
    held,      \* what the unit of work has registered and not yet cleared
    script,    \* what each client still has to do
    call,      \* the call each client is in, with its local variables
    faults,    \* git commands that have failed on the index lock
    gone       \* history: what has parted order, files and calls

vars == <<chapters, files, held, script, call, faults, gone>>

Key(title) == [title EXCEPT !.words = LowerOf[@]]
Live(g)    == {x \in Chapters : g[x] # NoChapter}

\* Characters have a directory of their own, any other chapter its act's.
Place(ch)     == IF ch.category = "Character" THEN <<"Characters", "">> ELSE <<"Act", ch.act>>
Path(ch)      == [place |-> Place(ch), title |-> ch.title, temp |-> 0]
Temp(i, path) == [path EXCEPT !.temp = i]          \* .renumber-i-title.md

UniqueTitles(g) == \A x, y \in Live(g) : Key(g[x].title) = Key(g[y].title) => x = y
IndexesApart(g) ==
    \A x, y \in Live(g) : x # y /\ g[x].index = g[y].index => g[x].index = NoIndex

\* A document is created with its chapters numbered from 0, and deletes
\* leave gaps.
ASSUME DocumentsAssumption ==
    \A d \in Documents : /\ d.chapters \in [Chapters -> Chapter \cup {NoChapter}]
                         /\ d.opened \subseteq Live(d.chapters)
                         /\ UniqueTitles(d.chapters) /\ IndexesApart(d.chapters)

\* An id (a uuid the client makes) is given to one new chapter, and to none
\* that is there; the server takes any.
Fresh(s, g) ==
    \A c, d \in Clients : \A i \in 1 .. Len(s[c]), j \in 1 .. Len(s[d]) :
      s[c][i].op = "create" =>
        /\ s[c][i].id \notin Live(g)
        /\ s[d][j].op = "create" /\ s[d][j].id = s[c][i].id => c = d /\ i = j

ASSUME FreshAssumption == \A s \in Scripts, d \in Documents : Fresh(s, d.chapters)

\* The types, and no two chapters with one title, in whatever case: what
\* addresses a chapter by title relies on it (find_id_by_title).
TypeOK ==
    /\ chapters \in [Chapters -> Chapter \cup {NoChapter}]
    /\ \A p \in DOMAIN files : files[p] \in File
    /\ held \in Seq(Write)
    /\ faults \in 0 .. MaxFaults
    /\ gone \subseteq {"unlisted", "adopted", "overlap", "crossed"}
    /\ UniqueTitles(chapters)

\* The request, and the local variables of the call.
Idle == [op |-> "none", id |-> NoChapter, after |-> NoChapter, title |-> "none",
         category |-> "none", start |-> 0,
         at |-> "idle", answer |-> "none", index |-> NoIndex, seen |-> NoIndex,
         ch |-> NoChapter, order |-> << >>, members |-> << >>,
         titles |-> << >>, moves |-> << >>, next |-> 0]

Init ==
    \E d \in Documents :
      /\ chapters = d.chapters
      /\ files = [p \in {Path(d.chapters[x]) : x \in d.opened} |->
                    LET x == CHOOSE x \in d.opened : p = Path(d.chapters[x])
                    IN  [id |-> x, title |-> d.chapters[x].title, tracked |-> TRUE]]
      /\ held = << >>
      /\ script \in Scripts
      /\ call = [c \in Clients |-> Idle]
      /\ faults = 0 /\ gone = {}

At(c, step) == call[c].at = step
Busy        == {c \in Clients : ~At(c, "idle")}

\* The client goes on with its local variables as given.
Goto(c, record) == call' = [call EXCEPT ![c] = record]
Step(c, step)   == Goto(c, [call[c] EXCEPT !.at = step])
Done(c, answer) == Goto(c, [Idle EXCEPT !.op = call[c].op, !.answer = answer])

\* A client makes its next call; each reads the document or the chapter first.
Begin(c) ==
    /\ At(c, "idle") /\ script[c] # << >>
    /\ script' = [script EXCEPT ![c] = Tail(@)]
    /\ LET do == Head(script[c]) IN
       Goto(c, [f \in DOMAIN Idle |->
                  IF f = "at" THEN CASE do.op = "create" -> "resolve"
                                     [] do.op = "renumber" -> "plan" [] OTHER -> "load"
                  ELSE IF f \in DOMAIN do THEN do[f] ELSE Idle[f]])
    /\ gone' = IF Busy = {} THEN gone ELSE gone \cup {"overlap"}
    /\ UNCHANGED <<chapters, files, held, faults>>
-----------------------------------------------------------------------------
(***************************************************************************)
(* Reads of the graph.  list_by_document orders by index, a chapter        *)
(* without one last, and chapters with the same index in any order.        *)
(***************************************************************************)
Before(g, x, y) ==
    g[y].index = NoIndex \/ (g[x].index # NoIndex /\ g[x].index <= g[y].index)
Listings(g) ==
    {s \in SetToSeqs(Live(g)) : \A i, j \in 1 .. Len(s) : i <= j => Before(g, s[i], s[j])}

Ids(s)         == {s[i] : i \in 1 .. Len(s)}
\* The elements of s that are in T, in their order.
Picked(s, T)   == FoldLeft(LAMBDA r, x : IF x \in T THEN Append(r, x) ELSE r, << >>, s)
Others(s, x)   == Picked(s, Ids(s) \ {x})
Position(s, x) == CHOOSE i \in 1 .. Len(s) : s[i] = x
Listed(x)      == IF chapters[x].index = NoIndex THEN 0 ELSE chapters[x].index
TitleTaken(t, others) == \E x \in others : Key(chapters[x].title) = Key(t)

\* Mutant of IndexAfter: the new chapter's place in the list, not its index.
IndexByPosition(after) ==
    IF after = NoChapter THEN 0
    ELSE Cardinality({x \in Live(chapters) : Before(chapters, x, after)})
IndexAfter(after) == IF after = NoChapter THEN 0 ELSE Listed(after) + 1

\* _resolve_index, then the titles in use: two queries.
Resolve(c) ==
    /\ At(c, "resolve")
    /\ IF call[c].after # NoChapter /\ call[c].after \notin Live(chapters)
       THEN Done(c, "no such chapter")
       ELSE Goto(c, [call[c] EXCEPT !.at = "check", !.index = IndexAfter(call[c].after),
                       !.seen = IF call[c].after = NoChapter THEN 0 ELSE Listed(call[c].after)])
    /\ UNCHANGED <<chapters, files, held, script, faults, gone>>

Check(c) ==
    /\ At(c, "check")
    /\ LET others == Live(chapters) \ IF call[c].op = "update" THEN {call[c].id} ELSE {} IN
       IF TitleTaken(call[c].title, others) THEN Done(c, "duplicate") ELSE Step(c, "commit")
    /\ UNCHANGED <<chapters, files, held, script, faults, gone>>

\* load and find_document_id, then a list of the document's chapters.
Load(c) ==
    /\ At(c, "load")
    /\ IF chapters[call[c].id] = NoChapter THEN Done(c, "no such chapter")
       ELSE IF call[c].op = "move" /\ call[c].id = call[c].after THEN Done(c, "ok")
       ELSE Goto(c, [call[c] EXCEPT !.ch = chapters[call[c].id],
                                    !.at = CASE call[c].op = "update" -> "check"
                                             [] call[c].op = "move"   -> "list"
                                             [] call[c].op = "delete" -> "remove"])
    /\ UNCHANGED <<chapters, files, held, script, faults, gone>>
-----------------------------------------------------------------------------
(***************************************************************************)
(* Writes of the graph, through the unit of work.                          *)
(***************************************************************************)
\* Mutant of Created: the later chapters keep their indexes.
CreatedInPlace(g, w) == [g EXCEPT ![w.id] = w.ch]
Created(g, w) ==
    [x \in Chapters |->
       IF x = w.id THEN w.ch
       ELSE IF x \in Live(g) /\ g[x].index >= w.ch.index THEN [g[x] EXCEPT !.index = @ + 1]
       ELSE g[x]]

\* A chapter deleted meanwhile comes back, without an index.
Changed(g, w) ==
    [g EXCEPT ![w.id] =
       [w.ch EXCEPT !.index = IF w.id \in Live(g) THEN g[w.id].index ELSE NoIndex]]

Written(g, w) ==
    CASE w.kind = "new" -> Created(g, w) [] w.kind = "changed" -> Changed(g, w)
      [] w.kind = "deleted" -> [g EXCEPT ![w.id] = NoChapter]

\* One save of a commit: the constraint on titles may refuse it and end it.
Save(result, w) ==
    IF result.ok /\ UniqueTitles(Written(result.graph, w))
    THEN [result EXCEPT !.graph = Written(@, w)]
    ELSE [result EXCEPT !.ok = FALSE]

\* The saves of one of the three lists of the unit of work.
Saved(result, s, kind) ==
    FoldLeft(LAMBDA r, w : IF w.kind = kind THEN Save(r, w) ELSE r, result, s)

\* commit: what a failed commit left is saved again before it or with it.
Commit(c, w, step) ==
    LET all    == Append(held, w)
        new    == Saved([graph |-> chapters, ok |-> TRUE], all, "new")
        result == Saved(Saved(new, all, "changed"), all, "deleted")
    IN  /\ chapters' = result.graph
        /\ IF result.ok
           THEN held' = << >> /\ (IF step = "done" THEN Done(c, "ok") ELSE Step(c, step))
           ELSE held' = all /\ Done(c, "error")

WriteOf(c, kind, ch) == [kind |-> kind, id |-> call[c].id, ch |-> ch]

Create(c) ==
    /\ At(c, "commit") /\ call[c].op = "create"
    /\ Commit(c, WriteOf(c, "new", [title |-> call[c].title, act |-> "",
                                   category |-> call[c].category, index |-> call[c].index]),
              "materialize")
    /\ UNCHANGED <<files, script, faults, gone>>

Update(c) ==
    /\ At(c, "commit") /\ call[c].op = "update"
    /\ Commit(c, WriteOf(c, "changed", [call[c].ch EXCEPT !.title = call[c].title]),
              IF call[c].title = call[c].ch.title THEN "done" ELSE "rename")
    /\ UNCHANGED <<files, script, faults, gone>>

Delete(c) ==
    /\ At(c, "drop")
    /\ Commit(c, WriteOf(c, "deleted", call[c].ch), "done")
    /\ UNCHANGED <<files, script, faults, gone>>
-----------------------------------------------------------------------------
(***************************************************************************)
(* move: the list, the act of the new neighbour, the new order.            *)
(***************************************************************************)
Category(x) == chapters[x].category

Crosses(s, x, after) ==
    LET rest == Others(s, x) IN
    IF after = NoChapter THEN rest # << >> /\ Category(rest[1]) # Category(x)
    ELSE LET i == Position(rest, after) IN
         /\ Category(after) # Category(x)
         /\ i = Len(rest) \/ Category(rest[i + 1]) # Category(x)

Reordered(s, x, after) ==
    LET rest == Others(s, x) IN
    InsertAt(rest, IF after = NoChapter THEN 1 ELSE Position(rest, after) + 1, x)

List(c) ==
    /\ At(c, "list")
    /\ \E s \in Listings(chapters) :
       LET x == call[c].id after == call[c].after IN
       IF after # NoChapter /\ after \notin Ids(s) THEN Done(c, "no such chapter")
       ELSE IF x \notin Ids(s) THEN Done(c, "error")
       ELSE IF Crosses(s, x, after) THEN Done(c, "mismatch")
       ELSE LET neighbor == IF after = NoChapter THEN s[1] ELSE after
                adopts   == /\ Reordered(s, x, after) # s
                            /\ Category(neighbor) = Category(x)
                            /\ call[c].ch.act # chapters[neighbor].act
            IN  Goto(c, [call[c] EXCEPT
                           !.at = IF adopts THEN "adopt" ELSE "reorder",
                           !.ch.act = IF adopts THEN chapters[neighbor].act ELSE @,
                           !.order = Reordered(s, x, after), !.members = s])
    /\ UNCHANGED <<chapters, files, held, script, faults, gone>>

Adopt(c) ==
    /\ At(c, "adopt")
    /\ Commit(c, WriteOf(c, "changed", call[c].ch), "reorder")
    /\ gone' = gone \cup {"adopted"}
    /\ UNCHANGED <<files, script, faults>>

Reorder(c) ==
    /\ At(c, "reorder")
    /\ chapters' = [x \in Chapters |->
         IF x \in Live(chapters) /\ x \in Ids(call[c].order)
         THEN [chapters[x] EXCEPT !.index = Position(call[c].order, x) - 1] ELSE chapters[x]]
    /\ gone' = IF Live(chapters) \subseteq Ids(call[c].order) THEN gone ELSE gone \cup {"unlisted"}
    /\ Done(c, "ok")
    /\ UNCHANGED <<files, held, script, faults>>
-----------------------------------------------------------------------------
(***************************************************************************)
(* The files of the calls on one chapter.                                  *)
(***************************************************************************)
\* Steps that run git; two at once may meet at the index lock.
GitSteps == {"snap", "rename", "remove", "aside", "final", "undo"}
Locked(c) ==
    /\ faults < MaxFaults
    /\ \E d \in Clients \ {c} : call[d].at \in GitSteps
    /\ faults' = faults + 1

\* History: a file moves while another call is in the passes of a renumber.
Passing     == {d \in Clients : call[d].at \in {"aside", "final", "undo"}}
Crossed(c) == gone' = IF Passing \subseteq {c} THEN gone ELSE gone \cup {"crossed"}

Tree(p)             == p \in DOMAIN files
Without(p)          == [q \in DOMAIN files \ {p} |-> files[q]]
With(p, file)       == [q \in DOMAIN files \cup {p} |-> IF q = p THEN file ELSE files[q]]
\* Mutant of MvTo: the front matter keeps the old title.
MvToAsIs(p, q, title) == [r \in (DOMAIN files \ {p}) \cup {q} |->
                            IF r = q THEN files[p] ELSE files[r]]
MvTo(p, q, title)   == [r \in (DOMAIN files \ {p}) \cup {q} |->
                          IF r = q THEN [files[p] EXCEPT !.title = title] ELSE files[r]]
\* git mv refuses a file it does not know and a destination that is there.
MvRefused(p, q) == Tree(p) => (~files[p].tracked \/ Tree(q))

Materialize(c) ==
    /\ At(c, "materialize")
    /\ LET path == Path([title |-> call[c].title, act |-> "", category |-> call[c].category]) IN
       files' = With(path, [id |-> call[c].id, title |-> call[c].title,
                            tracked |-> Tree(path) /\ files[path].tracked])
    /\ Step(c, "snap")
    /\ Crossed(c) /\ UNCHANGED <<chapters, held, script, faults>>

\* git_commit: add, status, commit; it may fail before or after the add.
Snap(c) ==
    /\ At(c, "snap")
    /\ LET added == [p \in DOMAIN files |-> [files[p] EXCEPT !.tracked = TRUE]] IN
       \/ files' = added /\ Done(c, "ok") /\ UNCHANGED faults
       \/ files' \in {files, added} /\ Locked(c) /\ Done(c, "error")
    /\ UNCHANGED <<chapters, held, script, gone>>

Rename(c) ==
    /\ At(c, "rename")
    /\ LET old == Path(call[c].ch)
           new == Path([call[c].ch EXCEPT !.title = call[c].title]) IN
       IF ~Tree(old) THEN Done(c, "ok") /\ UNCHANGED <<files, faults>>
       ELSE \/ /\ MvRefused(old, new) /\ Done(c, "error") /\ UNCHANGED <<files, faults>>
            \/ Locked(c) /\ Done(c, "error") /\ UNCHANGED files
            \/ /\ ~MvRefused(old, new)
               /\ files' = MvTo(old, new, call[c].title) /\ Step(c, "snap") /\ UNCHANGED faults
    /\ Crossed(c) /\ UNCHANGED <<chapters, held, script>>

\* The file goes first; a failure leaves the chapter in the graph for a retry.
RemoveFile(c) ==
    /\ At(c, "remove")
    /\ LET old == Path(call[c].ch) IN
       \/ files' = Without(old) /\ Step(c, "drop") /\ UNCHANGED faults
       \/ Tree(old) /\ files' \in {files, Without(old)} /\ Locked(c) /\ Done(c, "error")
    /\ Crossed(c) /\ UNCHANGED <<chapters, held, script>>
-----------------------------------------------------------------------------
(***************************************************************************)
(* renumber: the plan, the titles in one transaction, the files in two     *)
(* passes: aside under a temporary name, then to the final one.            *)
(***************************************************************************)
Numbered(s)    == Picked(s, {x \in Ids(s) : Category(x) # "Character"})

NewTitle(s, x, start) ==
    IF x \in Ids(Numbered(s))
    THEN [words |-> chapters[x].title.words, letter |-> "",
          number |-> start + Position(Numbered(s), x) - 1]
    ELSE chapters[x].title

Plan(c) ==
    /\ At(c, "plan")
    /\ \E s \in Listings(chapters) :
       LET new == [x \in Ids(s) |-> NewTitle(s, x, call[c].start)]
           changing == Picked(Numbered(s), {x \in Ids(s) : new[x] # chapters[x].title})
       IN IF \E x, y \in Ids(s) : x # y /\ Key(new[x]) = Key(new[y]) THEN Done(c, "duplicate")
          ELSE IF changing = << >> THEN Done(c, "ok")
          ELSE Goto(c, [call[c] EXCEPT
                          !.at = "retitle", !.members = s,
                          !.titles = [x \in Ids(changing) |-> new[x]],
                          !.moves = [i \in 1 .. Len(changing) |->
                            LET ch == chapters[changing[i]] IN
                            [old |-> Path(ch), new |-> Path([ch EXCEPT !.title = new[changing[i]]])]]])
    /\ UNCHANGED <<chapters, files, held, script, faults, gone>>

Retitle(c) ==
    /\ At(c, "retitle")
    /\ LET titles == call[c].titles
           after  == [x \in Chapters |-> IF x \in Live(chapters) \cap DOMAIN titles
                        THEN [chapters[x] EXCEPT !.title = titles[x]] ELSE chapters[x]]
       IN IF UniqueTitles(after) THEN chapters' = after /\ Step(c, "moves")
          ELSE Done(c, "error") /\ UNCHANGED chapters
    /\ UNCHANGED <<files, held, script, faults, gone>>

\* Which files there are to move, and whether a target is somebody else's.
Moves(c) ==
    /\ At(c, "moves")
    /\ LET moves   == Picked(call[c].moves, {m \in Ids(call[c].moves) : Tree(m.old)})
           sources == {moves[i].old : i \in 1 .. Len(moves)}
       IN IF moves = << >> THEN Done(c, "ok")
          ELSE IF \E i \in 1 .. Len(moves) : moves[i].new \notin sources /\ Tree(moves[i].new)
               THEN Done(c, "error")
          ELSE Goto(c, [call[c] EXCEPT !.at = "aside", !.moves = moves, !.next = 1])
    /\ UNCHANGED <<chapters, files, held, script, faults, gone>>

\* The rollback of the n files that have been set aside.
Rollback(c, n) ==
    Goto(c, [call[c] EXCEPT !.at = "undo", !.next = 1, !.moves = SubSeq(@, 1, n)])

\* One git mv of a pass: on to the next file, or the rollback.
Mv(c, p, q, title, n, next) ==
    \/ MvRefused(p, q) /\ Rollback(c, n) /\ UNCHANGED <<files, faults>>
    \/ Locked(c) /\ Rollback(c, n) /\ UNCHANGED files
    \/ /\ ~MvRefused(p, q) /\ files' = MvTo(p, q, title) /\ UNCHANGED faults
       /\ IF call[c].next < Len(call[c].moves)
          THEN Goto(c, [call[c] EXCEPT !.next = @ + 1])
          ELSE Goto(c, [call[c] EXCEPT !.next = 1, !.at = next])

TempOf(c, i) == Temp(i, call[c].moves[i].old)

Aside(c) ==
    /\ At(c, "aside")
    /\ LET i == call[c].next old == call[c].moves[i].old IN
       Mv(c, old, TempOf(c, i), IF Tree(old) THEN files[old].title ELSE old.title, i - 1, "final")
    /\ Crossed(c) /\ UNCHANGED <<chapters, held, script>>

Finish(c) ==
    /\ At(c, "final")
    /\ LET i == call[c].next new == call[c].moves[i].new IN
       Mv(c, TempOf(c, i), new, new.title, Len(call[c].moves), "snap")
    /\ Crossed(c) /\ UNCHANGED <<chapters, held, script>>

\* The rollback: one after the other, the files set aside whose old path is
\* free; a failure ends it.
\* Mutant of Stranded: the last file is not brought back.
StrandedButLast(c, i) == Tree(TempOf(c, i)) /\ ~Tree(call[c].moves[i].old) /\ i < Len(call[c].moves)
Stranded(c, i) == Tree(TempOf(c, i)) /\ ~Tree(call[c].moves[i].old)
Undo(c) ==
    /\ At(c, "undo")
    /\ LET i == call[c].next IN
       IF i > Len(call[c].moves) THEN Done(c, "error") /\ UNCHANGED <<files, faults>>
       ELSE \/ ~Stranded(c, i) /\ Goto(c, [call[c] EXCEPT !.next = i + 1]) /\ UNCHANGED <<files, faults>>
            \/ /\ Stranded(c, i)
               /\ files' = MvTo(TempOf(c, i), call[c].moves[i].old, files[TempOf(c, i)].title)
               /\ Goto(c, [call[c] EXCEPT !.next = i + 1]) /\ UNCHANGED faults
            \/ Stranded(c, i) /\ Locked(c) /\ Done(c, "error") /\ UNCHANGED files
    /\ Crossed(c) /\ UNCHANGED <<chapters, held, script>>
-----------------------------------------------------------------------------
Next ==
    \E c \in Clients :
      \/ Begin(c) \/ Resolve(c) \/ Check(c) \/ Load(c)
      \/ Create(c) \/ Update(c) \/ Delete(c)
      \/ List(c) \/ Adopt(c) \/ Reorder(c)
      \/ Materialize(c) \/ Snap(c) \/ Rename(c) \/ RemoveFile(c)
      \/ Plan(c) \/ Retitle(c) \/ Moves(c) \/ Aside(c) \/ Finish(c) \/ Undo(c)

Spec == Init /\ [][Next]_vars
-----------------------------------------------------------------------------
(***************************************************************************)
(* Properties.                                                             *)
(***************************************************************************)
\* Two chapters never share an index, or their order would be the
\* database's whim: what create shifts, move rewrites and delete leaves out
\* keeps them apart, whatever overlaps, until a move writes an order that
\* misses a chapter created since it listed them.  A chapter that an update
\* brings back after its delete has no index at all.
\* (The types, with the titles that are unique in every state, come first.)
DistinctIndexes ==
    /\ TypeOK
    /\ \/ "unlisted" \in gone
       \/ IndexesApart(chapters)

\* The list of the chapters is determined by their indexes.
Steady(g)  == Cardinality(Listings(g)) = 1 /\ \A x \in Live(g) : g[x].index # NoIndex
TheList(g) == CHOOSE s \in Listings(g) : TRUE

\* A chapter that is created lands right after the one it was asked to
\* follow, or first, and no other two chapters change places, through the
\* gaps that deletes leave in the indexes (_resolve_index, _NEW_CYPHER).
\* Unless, since the index was read, the chapter to follow was moved.
CreatedWhereAsked(c) ==
    LET x == call[c].id after == call[c].after s == TheList(chapters) IN
    At(c, "commit") /\ call[c].op = "create" /\ call'[c].at = "materialize"
      /\ held = << >> /\ x \notin Live(chapters) /\ Steady(chapters)
      /\ (after # NoChapter => after \in Live(chapters) /\ call[c].seen = Listed(after))
    => TheList(chapters') = InsertAt(s, IF after = NoChapter THEN 1 ELSE Position(s, after) + 1, x)

\* Chapters of one category stand together in the list.
Blocks(g, s) ==
    \A i, j, k \in 1 .. Len(s) :
      i < j /\ j < k /\ g[s[i]].category = g[s[k]].category => g[s[j]].category = g[s[i]].category

\* A move on a list that is still the document's puts the chapter where it
\* was asked, leaves the order of the others alone, and never splits the
\* block of characters or of chapters (move, _crosses_category, reorder).
MovedWhereAsked(c) ==
    At(c, "reorder") /\ call'[c].at = "idle" /\ Steady(chapters)
      /\ TheList(chapters) = call[c].members
    => LET x == call[c].id s == TheList(chapters) t == TheList(chapters') IN
       /\ Others(t, x) = Others(s, x)
       /\ IF call[c].after = NoChapter THEN t[1] = x
          ELSE Position(t, x) = Position(t, call[c].after) + 1
       /\ Blocks(chapters, s) => Blocks(chapters', t)

\* So a chapter lands where the editor asked, whether it is created or moved.
PlacedWhereAsked ==
    [][\A c \in Clients : CreatedWhereAsked(c) /\ MovedWhereAsked(c)]_vars

\* As long as calls come one at a time and no move adopts an act (the file
\* stays in the old act's directory), every file is where its chapter says,
\* under its title, known to git, after renumbering through each other too,
\* and no temporary name is left (rename_chapter, renumber_chapters).
FilesAgree ==
    gone = {} /\ Busy = {} =>
      \A p \in DOMAIN files :
        LET x == files[p].id IN
        /\ x \in Live(chapters) /\ p = Path(chapters[x])
        /\ files[p].title = chapters[x].title /\ files[p].tracked

\* The i-th file of a renumber is under its new title, in its front matter too.
Finished(c, i) ==
    LET new == call[c].moves[i].new IN
    ~Tree(TempOf(c, i)) /\ Tree(new) /\ files[new].title = new.title

\* When the rollback of a renumber has come to its end, whichever git command
\* failed before it, every file it had set aside is back under its old title
\* or moved under its new one, and one is left hidden under a temporary name
\* only where another chapter of the same renumber has taken its old title
\* (the two passes and the except clause of renumber_chapters); as long as no
\* other call wrote or moved a file meanwhile.
RollbackRestores ==
    "crossed" \notin gone =>
      \A c \in Clients : At(c, "undo") /\ call[c].next > Len(call[c].moves) =>
        \A i \in 1 .. Len(call[c].moves) :
          LET move == call[c].moves[i] IN
          /\ Tree(move.old) \/ Finished(c, i)
          /\ Tree(TempOf(c, i)) =>
               \E j \in 1 .. Len(call[c].moves) : call[c].moves[j].new = move.old /\ Finished(c, j)
=============================================================================
