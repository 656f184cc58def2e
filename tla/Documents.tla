------------------------------ MODULE Documents ------------------------------
(***************************************************************************)
(* The documents of all accounts, in the graph and as directories of       *)
(* markdown files: DocumentService (services/crud_services.py), the        *)
(* assignment of a document to an account (services/assignment_service.py, *)
(* cli/users.py) and the import of a directory                             *)
(* (services/markdown_import.py, services/import_service.py,               *)
(* cli/import_document.py), over repositories/document_repository.py and   *)
(* the document half of infrastructure/document_store.                     *)
(*                                                                         *)
(* The server and the command line work at the same time; each of them     *)
(* does one thing after another.  One query of the graph, one commit, or   *)
(* one access to the tree (a file, the rename or the removal of a          *)
(* directory) is a step, and either process may die between two steps.     *)
(* The text of a chapter is one value, which a file keeps.  Of git a       *)
(* directory keeps whether the account's repository tracks any file in it, *)
(* for git moves no other; authors, histories and the texts' edits are     *)
(* left out (ChapterFiles, ChapterRebuild).                                *)
(***************************************************************************)
EXTENDS DirectoryWalk

CONSTANTS
    Server, CommandLine,   \* the two processes
    Accounts,
    Flat, Outside,         \* <base>/<title> before accounts; any other place
    Titles,                \* titles of documents and names of directories
    LowerOf,               \* a title in lower case
    Texts,                 \* what chapters say
    Documents, Chapters,   \* ids: naturals, in the order they are drawn
    Libraries,             \* the states to start from
    MaxCalls, MaxCrashes,  \* bounds
    Unowned, NoDocument, NoChapter, NoTree, NoTitle, NoId, NoText, NoPath, NoFile

Workers == {Server, CommandLine}
Places  == Accounts \cup {Flat, Outside}

ASSUME IdsAssumption    == /\ Documents \cup Chapters \subseteq Nat /\ NoId \notin Nat
                           /\ IsFiniteSet(Documents) /\ IsFiniteSet(Chapters)
ASSUME PlacesAssumption == /\ {Flat, Outside} \cap Accounts = {} /\ Flat # Outside
                           /\ {Unowned, NoTree} \cap (Accounts \cup {Flat, Outside}) = {} /\ Unowned # NoTree
                           /\ Server # CommandLine
ASSUME TitlesAssumption == /\ LowerOf \in [Titles -> Titles]
                           /\ NoTitle \notin Titles \cup Names
ASSUME DocumentsBounds  == {MaxCalls, MaxCrashes} \subseteq Nat

VARIABLES
    graph,    \* the nodes: docs and chapters, each by id
    trees,    \* by place and title: the metadata and the files of a directory
    tracked,  \* the directories of accounts git tracks a file of
    held,     \* what the server's unit of work kept of commits that failed
    call,     \* what each process is doing, with its local variables
    drawn,    \* ids drawn so far
    calls, crashes,
    clean     \* history: no crash, never two calls at once, no work left by a
              \* commit, and no rename that git refused

vars == <<graph, trees, tracked, held, call, drawn, calls, crashes, clean>>

IdsIn(s)      == {s[i] : i \in 1 .. Len(s)}
LiveDocs(g)   == {d \in Documents : g.docs[d] # NoDocument}
LiveChaps(g)  == {c \in Chapters : g.chapters[c] # NoChapter}
Parents(node) == {d \in Documents : node.in[d] # NoId}
In(g, d)      == {c \in LiveChaps(g) : d \in Parents(g.chapters[c])}
FilesIn(tree) == {p \in Paths : tree.files[p] # NoFile}
OwnedBy(d, a) == d \in LiveDocs(graph) /\ graph.docs[d].owner = a
Held(a)       == {d \in Documents : OwnedBy(d, a)}
SameKey(t, u) == LowerOf[t] = LowerOf[u]
HasTree(p, t) == trees[<<p, t>>] # NoTree

Document == [title : Titles, owner : Accounts \cup {Unowned}]
File     == [id : Chapters \cup {NoId}, text : Texts \cup {NoText}]
Node     == [path : Paths \cup {NoPath}, text : Texts \cup {NoText}, home : Documents \cup {NoId},
             in : [Documents -> Nat \cup {NoId}]]
Tree     == [meta : Titles \cup {NoTitle}, files : [Paths -> File \cup {NoFile}]]

ASSUME SentinelsAssumption ==
    /\ NoDocument \notin Document /\ NoChapter \notin Node /\ NoTree \notin Tree
    /\ NoPath \notin Paths /\ NoFile \notin File

\* What a process does and has at hand: the account it does it for, the
\* document with the title it had (old) and its chapters, a directory.
Idle == [op |-> "none", at |-> "idle", answer |-> "none", lone |-> TRUE, leftover |-> FALSE,
         owner |-> Unowned, doc |-> NoId, title |-> NoTitle, old |-> NoTitle,
         list |-> << >>, texts |-> << >>, todo |-> << >>, source |-> NoTree, left |-> {},
         place |-> Outside, dir |-> NoTitle, writeBack |-> FALSE, known |-> {},
         files |-> << >>, whole |-> FALSE, ids |-> << >>, new |-> NoId, text |-> NoText]

\* The database's constraints: titles of an owner's documents and of a
\* document's chapters.
Unique(g) ==
    /\ \A d, e \in LiveDocs(g) :
         /\ g.docs[d].owner = g.docs[e].owner /\ g.docs[d].owner # Unowned
         /\ SameKey(g.docs[d].title, g.docs[e].title)
         => d = e
    /\ \A c, e \in LiveChaps(g) :
         g.chapters[c].home # NoId /\ g.chapters[c].home = g.chapters[e].home
           /\ g.chapters[c].path.name = g.chapters[e].path.name => c = e

WellFormed(g, ts) ==
    /\ g \in [docs : [Documents -> Document \cup {NoDocument}], chapters : [Chapters -> Node \cup {NoChapter}]]
    /\ ts \in [Places \X Titles -> Tree \cup {NoTree}]
    /\ \A c \in LiveChaps(g) : \E d \in LiveDocs(g) :
         /\ Parents(g.chapters[c]) = {d}
         /\ g.chapters[c].home = IF g.chapters[c].path = NoPath THEN NoId ELSE d

\* Every directory of an account is that of a document the account has.
AllHeld(g, ts) ==
    \A a \in Accounts, t \in Titles :
      ts[<<a, t>>] # NoTree => \E d \in LiveDocs(g) : g.docs[d] = [title |-> t, owner |-> a]

\* The files of one id are copies of one another, and of its chapter.
FilesOfOneId(g, ts) ==
    \A x \in Places \X Titles : ts[x] # NoTree => \A p \in FilesIn(ts[x]) :
      LET file == ts[x].files[p] IN
      /\ file.id \in LiveChaps(g) /\ g.chapters[file.id].path # NoPath
         => g.chapters[file.id].path = p /\ g.chapters[file.id].text = file.text
      /\ \A y \in Places \X Titles : ts[y] # NoTree => \A q \in FilesIn(ts[y]) :
           file.id # NoId /\ ts[y].files[q].id = file.id => p = q /\ ts[y].files[q].text = file.text

\* A library is the documents, their chapters and the trees, and how many
\* ids were drawn for them.
IsLibrary(l) ==
    /\ WellFormed(l.graph, l.trees) /\ Unique(l.graph)
    /\ AllHeld(l.graph, l.trees) /\ FilesOfOneId(l.graph, l.trees)
    /\ l.tracked \subseteq {x \in Accounts \X Titles : l.trees[x] # NoTree}
    /\ l.drawn \in [docs : Nat, chapters : Nat]
    /\ \A d \in LiveDocs(l.graph) : d <= l.drawn.docs
    /\ \A c \in LiveChaps(l.graph) : c <= l.drawn.chapters
    /\ \A x \in Places \X Titles : l.trees[x] # NoTree =>
         \A p \in FilesIn(l.trees[x]) :
           l.trees[x].files[p].id # NoId => l.trees[x].files[p].id <= l.drawn.chapters

ASSUME LibrariesAssumption == \A library \in Libraries : IsLibrary(library)

Init ==
    \E library \in Libraries :
      /\ graph = library.graph /\ trees = library.trees /\ tracked = library.tracked /\ drawn = library.drawn
      /\ held = << >>
      /\ call = [w \in Workers |-> Idle]
      /\ calls = 0 /\ crashes = 0 /\ clean = TRUE

At(w, step)     == call[w].at = step
Goto(w, record) == call' = [call EXCEPT ![w] = record]
Step(w, step)   == Goto(w, [call[w] EXCEPT !.at = step])
Done(w, answer) == Goto(w, [Idle EXCEPT !.op = call[w].op, !.answer = answer])
-----------------------------------------------------------------------------
(***************************************************************************)
(* The graph.                                                              *)
(***************************************************************************)
Nowhere == [d \in Documents |-> NoId]

\* MERGE of a document and of the chapters in it, by id.
DocNew(g, w) ==
    [docs |-> [g.docs EXCEPT ![w.doc] = [title |-> w.title, owner |-> w.owner]],
     chapters |-> [c \in Chapters |->
       IF c \notin IdsIn(w.list) THEN g.chapters[c]
       ELSE LET index == SelectInSeq(w.list, LAMBDA x : x = c) - 1 IN
            IF c \in LiveChaps(g) THEN [g.chapters[c] EXCEPT !.in[w.doc] = index]
            ELSE [path |-> NoPath, text |-> NoText, home |-> NoId, in |-> [Nowhere EXCEPT ![w.doc] = index]]]]

\* The chapters it no longer lists go, unless it lists none: UNWIND of an
\* empty list leaves no row for the rest of the query.
DocChanged(g, w) ==
    LET kept == DocNew(g, w) IN
    [kept EXCEPT !.chapters = [c \in Chapters |->
       IF w.list # << >> /\ c \in In(kept, w.doc) /\ c \notin IdsIn(w.list) THEN NoChapter ELSE @[c]]]

DocDeleted(g, w) ==
    IF w.doc \in LiveDocs(g) /\ g.docs[w.doc].owner = w.owner
    THEN [docs |-> [g.docs EXCEPT ![w.doc] = NoDocument],
          chapters |-> [c \in Chapters |-> IF c \in In(g, w.doc) THEN NoChapter ELSE g.chapters[c]]]
    ELSE g

\* A chapter is written under a document of its owner only; a new one is
\* the first of the document, for the import gives it no index.
ChapterNew(g, w) ==
    IF w.doc \in LiveDocs(g) /\ g.docs[w.doc].owner = w.owner
    THEN [g EXCEPT !.chapters = [c \in Chapters |->
            IF c = w.chapter
            THEN [path |-> w.path, text |-> w.text, home |-> w.doc,
                  in |-> [(IF c \in LiveChaps(g) THEN g.chapters[c].in ELSE Nowhere) EXCEPT ![w.doc] = 0]]
            ELSE IF c \in In(g, w.doc) THEN [g.chapters[c] EXCEPT !.in[w.doc] = @ + 1]
            ELSE g.chapters[c]]]
    ELSE g

Written(g, w) ==
    CASE w.kind = "document new"     -> DocNew(g, w)
      [] w.kind = "document changed" -> DocChanged(g, w)
      [] w.kind = "document deleted" -> DocDeleted(g, w)
      [] w.kind = "chapter new"      -> ChapterNew(g, w)

Save(result, w) ==
    IF result.ok /\ Unique(Written(result.graph, w)) THEN [result EXCEPT !.graph = Written(@, w)]
    ELSE [result EXCEPT !.ok = FALSE]

\* The saves of some lists of the unit of work.
Saved(result, s, kinds) ==
    FoldLeft(LAMBDA r, x : IF x.kind \in kinds THEN Save(r, x) ELSE r, result, s)

\* commit: the server's unit of work saves what a failed commit left first;
\* the command line ends at the failure, and what it held with it.
Commit(w, write, after) ==
    LET all    == IF w = Server THEN Append(held, write) ELSE <<write>>
        new    == Saved([graph |-> graph, ok |-> TRUE], all, {"document new", "chapter new"})
        result == Saved(Saved(new, all, {"document changed"}), all, {"document deleted"})
    IN  /\ graph' = result.graph
        /\ IF result.ok THEN Goto(w, after) ELSE Done(w, "error")
        /\ held' = IF w # Server THEN held ELSE IF result.ok THEN << >> ELSE all
        /\ clean' = (clean /\ held' = << >>)

\* Reads: the full document with its chapters by index, its shell with
\* their ids, a document whoever owns it, the ones nobody owns.
ChapterList(d) ==
    {s \in SetToSeqs(In(graph, d)) : \A i, j \in 1 .. Len(s) :
       i < j => graph.chapters[s[i]].in[d] <= graph.chapters[s[j]].in[d]}

Shell(d)    == In(graph, d)
Summary(d)  == graph.docs[d]
ListUnowned ==
    {s \in SetToSeqs({d \in LiveDocs(graph) : graph.docs[d].owner = Unowned}) :
       \A i, j \in 1 .. Len(s) : i < j => s[i] < s[j]}

TitleTaken(a, t, others) == \E d \in Held(a) \ others : SameKey(graph.docs[d].title, t)
-----------------------------------------------------------------------------
(***************************************************************************)
(* The trees.                                                              *)
(***************************************************************************)
EmptyTree          == [meta |-> NoTitle, files |-> [p \in Paths |-> NoFile]]
TreeAt(p, t)       == IF HasTree(p, t) THEN trees[<<p, t>>] ELSE EmptyTree
WriteMeta(p, t, m) == trees' = [trees EXCEPT ![<<p, t>>] = [TreeAt(p, t) EXCEPT !.meta = m]]
WriteFile(p, t, path, file) ==
    trees' = [trees EXCEPT ![<<p, t>>] = [TreeAt(p, t) EXCEPT !.files[path] = file]]
RemoveTree(p, t)   == trees' = [trees EXCEPT ![<<p, t>>] = NoTree]

\* git_commit: of a directory that is there and not empty.
GitCommit(a, t) ==
    tracked' = IF TreeAt(a, t) # EmptyTree THEN tracked \cup {<<a, t>>} ELSE tracked

\* rename_document: nothing to do without a directory, refused onto another,
\* and by git where it tracks no file of the directory.
Renamed(a, old, new) ==
    LET tree == trees[<<a, old>>] IN
    [trees EXCEPT ![<<a, old>>] = NoTree,
                  ![<<a, new>>] = IF tree.meta = NoTitle THEN tree ELSE [tree EXCEPT !.meta = new]]
-----------------------------------------------------------------------------
(***************************************************************************)
(* Calls: requests of the server, commands of the command line.            *)
(***************************************************************************)
Asked(op, at, a) == [Idle EXCEPT !.op = op, !.at = at, !.owner = a]

\* An import writes back where the place is in the store; the flags that
\* say otherwise are left out.
DefaultWriteBack(place) == place # Outside

Import(a, p, t) ==
    [Asked("import", "resolve", a) EXCEPT !.place = p, !.dir = t, !.writeBack = DefaultWriteBack(p)]
Imports(places) == {Import(a, p, t) : a \in Accounts, p \in places, t \in Titles}

\* The import of an upload reads a copy outside the store and leaves it.
Uploads == Imports({Outside})

About(op, at, a, d, t) == [Asked(op, at, a) EXCEPT !.doc = d, !.title = t]
Requests ==
    {About(op, "load", a, d, NoTitle) : op \in {"open", "delete"}, a \in Accounts, d \in Documents}
    \cup {About("create", "check", a, NoId, t) : a \in Accounts, t \in Titles}
    \cup {About("update", "load", a, d, t) : a \in Accounts, d \in Documents, t \in Titles}
    \cup Uploads

\* assign takes one document or, with --all-to, every unowned one.
Assign(a, d) == [Asked("assign", "find", a) EXCEPT !.todo = <<d>>]
AssignAll(a) == Asked("assign all", "unowned", a)
Commands ==
    {Assign(a, d) : a \in Accounts, d \in Documents} \cup {AssignAll(a) : a \in Accounts}
    \cup Imports(Places)

Begin(w) ==
    /\ At(w, "idle") /\ calls < MaxCalls
    /\ calls' = calls + 1
    /\ \E c \in (IF w = Server THEN Requests ELSE Commands) :
         /\ c.op = "import" => HasTree(c.place, c.dir)
         /\ LET others == {v \in Workers \ {w} : ~At(v, "idle")} IN
            /\ call' = [v \in Workers |->
                 IF v = w THEN [c EXCEPT !.lone = (others = {}), !.leftover = (w = Server /\ held # << >>)]
                 ELSE IF v \in others THEN [call[v] EXCEPT !.lone = FALSE] ELSE call[v]]
            /\ clean' = (clean /\ others = {})
    /\ UNCHANGED <<graph, trees, tracked, held, drawn, crashes>>

\* A request names a document of its own account or none at all.  update
\* looks for another document of the title as well.
Load(w) ==
    /\ At(w, "load")
    /\ LET c == call[w] IN
       IF ~OwnedBy(c.doc, c.owner) THEN Done(w, "not found")
       ELSE IF c.op = "update" /\ TitleTaken(c.owner, c.title, {c.doc}) THEN Done(w, "duplicate")
       ELSE \E s \in ChapterList(c.doc) :
              Goto(w, [c EXCEPT !.old = graph.docs[c.doc].title, !.list = s,
                                !.texts = [x \in IdsIn(s) |-> graph.chapters[x]],
                                !.at = CASE c.op = "open" -> "exists" [] c.op = "update" -> "commit"
                                         [] c.op = "delete" -> "tree"])
    /\ UNCHANGED <<graph, trees, tracked, held, drawn, calls, crashes, clean>>
-----------------------------------------------------------------------------
(***************************************************************************)
(* open, create, update and delete.                                        *)
(***************************************************************************)
\* The metadata first, in a new directory or in the one that is there; only
\* a new one gets the chapters.
Exists(w) ==
    /\ At(w, "exists")
    /\ LET c == call[w] IN
       /\ WriteMeta(c.owner, c.old, c.old)
       /\ IF HasTree(c.owner, c.old) THEN Done(w, "ok")
          ELSE Step(w, IF c.list = << >> THEN "snapshot" ELSE "materialize")
    /\ UNCHANGED <<graph, tracked, held, drawn, calls, crashes, clean>>

Materialize(w) ==
    /\ At(w, "materialize")
    /\ LET c == call[w]
           chapter == c.texts[Head(c.list)] IN
       /\ IF chapter.path = NoPath THEN UNCHANGED trees
          ELSE WriteFile(c.owner, c.old, chapter.path, [id |-> Head(c.list), text |-> chapter.text])
       /\ IF chapter.path = NoPath THEN Done(w, "error")
          ELSE IF Len(c.list) = 1 THEN Step(w, "snapshot")
          ELSE Goto(w, [c EXCEPT !.list = Tail(@)])
    /\ UNCHANGED <<graph, tracked, held, drawn, calls, crashes, clean>>

Check(w) ==
    /\ At(w, "check")
    /\ IF TitleTaken(call[w].owner, call[w].title, {}) THEN Done(w, "duplicate") ELSE Step(w, "new")
    /\ UNCHANGED <<graph, trees, tracked, held, drawn, calls, crashes, clean>>

\* A new document, of create or of an import.
New(w) ==
    /\ At(w, "new") /\ drawn.docs + 1 \in Documents
    /\ LET c == call[w]
           d == drawn.docs + 1 IN
       /\ drawn' = [drawn EXCEPT !.docs = d]
       /\ Commit(w, [kind |-> "document new", doc |-> d, title |-> c.title, owner |-> c.owner, list |-> << >>],
                 IF c.op = "create" THEN [c EXCEPT !.at = "meta"]
                 ELSE [c EXCEPT !.doc = d, !.at = IF c.writeBack THEN "meta" ELSE "walk"])
    /\ UNCHANGED <<trees, tracked, calls, crashes>>

\* Mutant of Update: the directory is renamed only when the key changes.
UpdateByKey(w) ==
    /\ At(w, "commit")
    /\ LET c == call[w] IN
       Commit(w, [kind |-> "document changed", doc |-> c.doc, title |-> c.title, owner |-> c.owner, list |-> c.list],
              [c EXCEPT !.at = IF SameKey(c.title, c.old) THEN "meta" ELSE "rename"])
    /\ UNCHANGED <<trees, tracked, drawn, calls, crashes>>
Update(w) ==
    /\ At(w, "commit")
    /\ LET c == call[w] IN
       Commit(w, [kind |-> "document changed", doc |-> c.doc, title |-> c.title, owner |-> c.owner, list |-> c.list],
              [c EXCEPT !.at = IF c.title = c.old THEN "meta" ELSE "rename"])
    /\ UNCHANGED <<trees, tracked, drawn, calls, crashes>>

Rename(w) ==
    /\ At(w, "rename")
    /\ LET c == call[w]
           there == HasTree(c.owner, c.old)
           free == ~HasTree(c.owner, c.title)
           moves == there /\ free /\ <<c.owner, c.old>> \in tracked IN
       /\ trees' = IF moves THEN Renamed(c.owner, c.old, c.title) ELSE trees
       /\ tracked' = IF moves THEN (tracked \ {<<c.owner, c.old>>}) \cup {<<c.owner, c.title>>} ELSE tracked
       /\ IF there /\ ~moves THEN Done(w, "error") ELSE Step(w, "meta")
       /\ clean' = (clean /\ (there /\ free => moves))
    /\ UNCHANGED <<graph, held, drawn, calls, crashes>>

\* The metadata of create and update, and that of a new import's source.
Meta(w) ==
    /\ At(w, "meta")
    /\ LET c == call[w] IN
       IF c.op # "import"
       THEN /\ WriteMeta(c.owner, c.title, c.title)
            /\ IF c.op = "update" THEN Step(w, "snapshot") ELSE Done(w, "ok")
       ELSE IF ~HasTree(c.place, c.dir) THEN Done(w, "error") /\ UNCHANGED trees
       ELSE WriteMeta(c.place, c.dir, c.title) /\ Step(w, "walk")
    /\ UNCHANGED <<graph, tracked, held, drawn, calls, crashes, clean>>

\* The git_commit that ends a materialization and an update; create and the
\* refresh of the metadata have none.
Snapshot(w) ==
    /\ At(w, "snapshot")
    /\ LET c == call[w] IN GitCommit(c.owner, IF c.op = "update" THEN c.title ELSE c.old)
    /\ Done(w, "ok")
    /\ UNCHANGED <<graph, trees, held, drawn, calls, crashes, clean>>

\* delete: the tree first, then the graph.
DeleteTree(w) ==
    /\ At(w, "tree")
    /\ RemoveTree(call[w].owner, call[w].old)
    /\ tracked' = tracked \ {<<call[w].owner, call[w].old>>}
    /\ Step(w, "drop")
    /\ UNCHANGED <<graph, held, drawn, calls, crashes, clean>>

Delete(w) ==
    /\ At(w, "drop")
    /\ LET c == call[w] IN
       Commit(w, [kind |-> "document deleted", doc |-> c.doc, owner |-> c.owner],
              [Idle EXCEPT !.op = c.op, !.answer = "ok"])
    /\ UNCHANGED <<trees, tracked, drawn, calls, crashes>>
-----------------------------------------------------------------------------
(***************************************************************************)
(* assign: the tree is copied, the owner stamped, the old tree removed.    *)
(***************************************************************************)
\* A refusal ends the command, or with --all-to only this document's turn.
Turn(w) ==
    IF Len(call[w].todo) = 1 THEN Done(w, "ok")
    ELSE Goto(w, [Asked(call[w].op, "find", call[w].owner) EXCEPT !.todo = Tail(call[w].todo),
                                                                 !.lone = call[w].lone])
Refused(w) == IF call[w].op = "assign" THEN Done(w, "refused") ELSE Turn(w)

Unassigned(w) ==
    /\ At(w, "unowned")
    /\ \E s \in ListUnowned :
         IF s = << >> THEN Done(w, "ok") ELSE Goto(w, [call[w] EXCEPT !.todo = s, !.at = "find"])
    /\ UNCHANGED <<graph, trees, tracked, held, drawn, calls, crashes, clean>>

\* _locate_tree: the owner's directory of the title, else the flat one.
Located(owner, t) ==
    IF owner # Unowned /\ HasTree(owner, t) THEN owner ELSE IF HasTree(Flat, t) THEN Flat ELSE NoTree

Find(w) ==
    /\ At(w, "find")
    /\ LET c == call[w]
           d == Head(c.todo) IN
       IF d \notin LiveDocs(graph) THEN Refused(w)
       ELSE LET doc == Summary(d) IN
            IF doc.owner = c.owner THEN Turn(w)
            ELSE IF TitleTaken(c.owner, doc.title, {d}) THEN Refused(w)
            ELSE LET source == Located(doc.owner, doc.title) IN
                 Goto(w, [c EXCEPT !.old = doc.title, !.source = source,
                                   !.at = IF source = NoTree THEN "stamp" ELSE "copy"])
    /\ UNCHANGED <<graph, trees, tracked, held, drawn, calls, crashes, clean>>

\* Mutant of AdoptOnto: a directory of that title is taken for the copy.
AdoptOntoSkips(w) == Step(w, "stamp")
AdoptOnto(w)      == Refused(w)

\* adopt_document: refused onto a directory, nothing to do without a source.
Adopt(w) ==
    /\ At(w, "copy")
    /\ LET c == call[w] IN
       IF ~HasTree(c.source, c.old) THEN Step(w, "stamp") /\ UNCHANGED trees
       ELSE IF HasTree(c.owner, c.old) THEN AdoptOnto(w) /\ UNCHANGED trees
       ELSE LET tree == trees[<<c.source, c.old>>] IN
            /\ trees' = [trees EXCEPT ![<<c.owner, c.old>>] = [EmptyTree EXCEPT !.meta = tree.meta]]
            /\ Goto(w, [c EXCEPT !.left = FilesIn(tree),
                                 !.at = IF FilesIn(tree) = {} THEN "adopted" ELSE "copying"])
    /\ UNCHANGED <<graph, tracked, held, drawn, calls, crashes, clean>>

\* copytree, a file a step; one that is gone is an error nobody catches.
CopyFile(w) ==
    /\ At(w, "copying")
    /\ LET c == call[w] IN
       \E path \in c.left :
         IF HasTree(c.source, c.old) /\ path \in FilesIn(trees[<<c.source, c.old>>])
            /\ HasTree(c.owner, c.old)
         THEN /\ WriteFile(c.owner, c.old, path, trees[<<c.source, c.old>>].files[path])
              /\ Goto(w, [c EXCEPT !.left = @ \ {path}, !.at = IF c.left = {path} THEN "adopted" ELSE "copying"])
         ELSE Done(w, "error") /\ UNCHANGED trees
    /\ UNCHANGED <<graph, tracked, held, drawn, calls, crashes, clean>>

\* The git_commit that ends an adoption.
Adopted(w) ==
    /\ At(w, "adopted")
    /\ GitCommit(call[w].owner, call[w].old)
    /\ Step(w, "stamp")
    /\ UNCHANGED <<graph, trees, held, drawn, calls, crashes, clean>>

\* assign_owner, a query of its own; the constraint may refuse it, which
\* nobody catches.
Stamp(w) ==
    /\ At(w, "stamp")
    /\ LET c == call[w]
           d == Head(c.todo)
           stamped == [graph EXCEPT !.docs[d].owner = c.owner] IN
       IF d \notin LiveDocs(graph) THEN Refused(w) /\ UNCHANGED graph
       ELSE IF ~Unique(stamped) THEN Done(w, "error") /\ UNCHANGED graph
       ELSE graph' = stamped /\ (IF c.source = NoTree THEN Turn(w) ELSE Step(w, "remove"))
    /\ UNCHANGED <<trees, tracked, held, drawn, calls, crashes, clean>>

\* _remove_tree, where the tree was found.
RemoveSource(w) ==
    /\ At(w, "remove")
    /\ RemoveTree(call[w].source, call[w].old)
    /\ tracked' = tracked \ {<<call[w].source, call[w].old>>}
    /\ Turn(w)
    /\ UNCHANGED <<graph, held, drawn, calls, crashes, clean>>
-----------------------------------------------------------------------------
(***************************************************************************)
(* import: the document by its title, then file after file, then the       *)
(* order.                                                                  *)
(***************************************************************************)
\* _read_document_metadata: without a title of its own, the directory's name.
TitleIn(place, dir) ==
    IF TreeAt(place, dir).meta = NoTitle THEN dir ELSE trees[<<place, dir>>].meta

\* A document of the owner with that title in whatever case, or a new one.
Resolve(w) ==
    /\ At(w, "resolve")
    /\ LET c == call[w]
           title == TitleIn(c.place, c.dir)
           matches == {d \in Held(c.owner) : SameKey(graph.docs[d].title, title)} IN
       IF ~HasTree(c.place, c.dir) THEN Done(w, "error")
       ELSE IF matches = {} THEN Goto(w, [c EXCEPT !.title = title, !.at = "new"])
       ELSE Goto(w, [c EXCEPT !.title = title, !.doc = Min(matches), !.at = "shell"])
    /\ UNCHANGED <<graph, trees, tracked, held, drawn, calls, crashes, clean>>

\* load_shell; a document that went since it was listed makes a new one.
LoadShell(w) ==
    /\ At(w, "shell")
    /\ LET c == call[w] IN
       IF OwnedBy(c.doc, c.owner) THEN Goto(w, [c EXCEPT !.known = Shell(c.doc), !.at = "walk"])
       ELSE Step(w, "new")
    /\ UNCHANGED <<graph, trees, tracked, held, drawn, calls, crashes, clean>>

\* An upload reads the copy it was sent, any other import the place itself.
Walk(w) ==
    /\ At(w, "walk")
    /\ LET c == call[w] IN
       \E walk \in Walks(FilesIn(TreeAt(c.place, c.dir))) :
         IF walk.files = << >> THEN Done(w, IF walk.whole THEN "ok" ELSE "error")
         ELSE Goto(w, [c EXCEPT !.files = walk.files, !.whole = walk.whole, !.at = "apply"])
    /\ UNCHANGED <<graph, trees, tracked, held, drawn, calls, crashes, clean>>

\* After a file: the next one, the refusal the walk ends in, or the order.
After(w, id) ==
    LET c == call[w]
        ids == Append(c.ids, id) IN
    IF Len(ids) < Len(c.files) THEN [c EXCEPT !.ids = ids, !.at = "apply"]
    ELSE IF c.whole THEN [c EXCEPT !.ids = ids, !.at = "order"]
    ELSE [Idle EXCEPT !.op = c.op, !.answer = "error"]

Readable(id, owner) == id \in LiveChaps(graph) /\ \E d \in Parents(graph.chapters[id]) : OwnedBy(d, owner)

\* Mutant of Mismatch: an id nobody can read is taken for a new chapter's.
MismatchIfRead(w, id) == Readable(id, call[w].owner) /\ id \notin call[w].known
\* A file that names a chapter names one of the document it is read for.
Mismatch(w, id) == ~Readable(id, call[w].owner) \/ id \notin call[w].known

\* apply_chapter_file up to the commit.
Apply(w) ==
    /\ At(w, "apply")
    /\ LET c == call[w]
           path == c.files[Len(c.ids) + 1]
           files == TreeAt(c.place, c.dir).files IN
       IF files[path] = NoFile THEN Done(w, "error") /\ UNCHANGED drawn
       ELSE IF files[path].id = NoId
       THEN /\ drawn.chapters + 1 \in Chapters
            /\ drawn' = [drawn EXCEPT !.chapters = @ + 1]
            /\ Goto(w, [c EXCEPT !.new = drawn.chapters + 1, !.text = files[path].text, !.at = "persist"])
       ELSE /\ UNCHANGED drawn
            /\ IF Mismatch(w, files[path].id) THEN Done(w, "error")
               ELSE IF Readable(files[path].id, c.owner) THEN Goto(w, After(w, files[path].id))
               ELSE Goto(w, [c EXCEPT !.new = files[path].id, !.text = files[path].text, !.at = "persist"])
    /\ UNCHANGED <<graph, trees, tracked, held, calls, crashes, clean>>

Persist(w) ==
    /\ At(w, "persist")
    /\ LET c == call[w] IN
       Commit(w, [kind |-> "chapter new", doc |-> c.doc, owner |-> c.owner, chapter |-> c.new,
                  path |-> c.files[Len(c.ids) + 1], text |-> c.text],
              IF c.writeBack THEN [c EXCEPT !.at = "back"] ELSE After(w, c.new))
    /\ UNCHANGED <<trees, tracked, drawn, calls, crashes>>

\* The new chapter's id goes into the front matter of its file.
WriteBack(w) ==
    /\ At(w, "back")
    /\ LET c == call[w]
           path == c.files[Len(c.ids) + 1] IN
       IF HasTree(c.place, c.dir)
       THEN /\ WriteFile(c.place, c.dir, path, [id |-> c.new, text |-> c.text])
            /\ Goto(w, After(w, c.new))
       ELSE Done(w, "error") /\ UNCHANGED trees
    /\ UNCHANGED <<graph, tracked, held, drawn, calls, crashes, clean>>

\* Mutant of Reordered: the chapters stay where their insertion put them.
ReorderedNot(g, d, ids) == g
Reordered(g, d, ids) ==
    [g EXCEPT !.chapters = [c \in Chapters |->
       IF c \in In(g, d) \cap IdsIn(ids)
       THEN [g.chapters[c] EXCEPT !.in[d] = SelectLastInSeq(ids, LAMBDA x : x = c) - 1] ELSE g.chapters[c]]]

Order(w) ==
    /\ At(w, "order")
    /\ LET c == call[w] IN
       graph' = IF OwnedBy(c.doc, c.owner) THEN Reordered(graph, c.doc, c.ids) ELSE graph
    /\ Done(w, "ok")
    /\ UNCHANGED <<trees, tracked, held, drawn, calls, crashes, clean>>
-----------------------------------------------------------------------------
\* A process dies where it is; the server's unit of work dies with it.
Crash(w) ==
    /\ ~At(w, "idle") /\ crashes < MaxCrashes
    /\ crashes' = crashes + 1 /\ clean' = FALSE
    /\ Goto(w, Idle)
    /\ held' = IF w = Server THEN << >> ELSE held
    /\ UNCHANGED <<graph, trees, tracked, drawn, calls>>

Next ==
    \E w \in Workers :
      \/ Begin(w) \/ Load(w) \/ Exists(w) \/ Materialize(w) \/ Check(w) \/ New(w)
      \/ Update(w) \/ Rename(w) \/ Meta(w) \/ Snapshot(w) \/ DeleteTree(w) \/ Delete(w)
      \/ Unassigned(w) \/ Find(w) \/ Adopt(w) \/ CopyFile(w) \/ Adopted(w) \/ Stamp(w) \/ RemoveSource(w)
      \/ Resolve(w) \/ LoadShell(w) \/ Walk(w) \/ Apply(w) \/ Persist(w) \/ WriteBack(w) \/ Order(w)
      \/ Crash(w)

Spec == Init /\ [][Next]_vars
-----------------------------------------------------------------------------
\* The types, and every chapter is part of one document: no import takes a
\* chapter of another document or account, whatever ids its files carry
\* (apply_chapter_file), and none is left over when a document goes.
OneDocumentEach == WellFormed(graph, trees)

TextsOf(ts) ==
    UNION {{ts[x].files[p].text : p \in FilesIn(ts[x])} : x \in {y \in Places \X Titles : ts[y] # NoTree}}

\* A step loses the last file of a text only where a document is deleted or
\* where a call that writes files ran beside another one: whatever crashed
\* before, assign copies before it removes and writes over nothing, and a
\* rename, a materialization or a write-back keeps what is there.  (Beside
\* another call each of the four may write over, or remove, a directory that
\* a rename or a copy has put in the place of the one it knows.)
Replaces == {"remove", "copying", "materialize", "back"}

FilesKept ==
    [][\A text \in TextsOf(trees) \ TextsOf(trees') :
         \E w \in Workers : /\ call'[w] # call[w]
                            /\ At(w, "tree") \/ (call[w].at \in Replaces /\ ~call[w].lone)]_vars

\* Between calls that never crashed nor met nor left work in the server's
\* unit of work, and of which git refused no rename, a directory of an account
\* is the directory of a document the account has: create, update, delete and
\* assign each leave graph and tree with the same titles.  (A title that a
\* later commit saves for an update that failed is a title no rename follows,
\* and a directory that git tracks nothing of stays behind: RenameMoves.)
NoStrayTrees ==
    clean /\ (\A w \in Workers : At(w, "idle")) => AllHeld(graph, trees)

\* "A title rename moves the owned directory or markdown file, so a rename
\* never leaves a stale title-keyed tree behind": the rename of an update that
\* met no other call, after calls that neither crashed nor failed.
RenameMoves ==
    [][\A w \in Workers : At(w, "rename") /\ clean /\ ~At(w, "rename")' /\ crashes' = crashes
         => trees'[<<call[w].owner, call[w].old>>] = NoTree]_vars

\* One chapter for every file of the directory, with the file's text, in the
\* order of the acts and of the files in them; where the import writes back,
\* the file carries that chapter's id.  (The text of a chapter that a stale
\* list of ids brought back is ChapterRebuild's: it has lost its title.)
IsWhole(c, g, tree) ==
    /\ IdsIn(c.files) = FilesIn(tree) /\ Cardinality(IdsIn(c.ids)) = Len(c.files)
    /\ \A i, j \in 1 .. Len(c.ids) :
         /\ c.doc \in Parents(g.chapters[c.ids[i]])
         /\ g.chapters[c.ids[i]].path # NoPath => g.chapters[c.ids[i]].text = tree.files[c.files[i]].text
         /\ i < j => /\ g.chapters[c.ids[i]].in[c.doc] < g.chapters[c.ids[j]].in[c.doc]
                     /\ c.files[j].act # Characters => ActNumber(c.files[i].act) <= ActNumber(c.files[j].act)
         /\ c.writeBack => tree.files[c.files[i]].id = c.ids[i]

\* An import that met no other call nor work of a failed commit and ends
\* well, even after one that was cut short, has brought in the whole directory.
ImportIsWhole ==
    [][\A w \in Workers : At(w, "order") /\ call'[w].answer = "ok" /\ call[w].lone /\ ~call[w].leftover
         => IsWhole(call[w], graph', trees'[<<call[w].place, call[w].dir>>])]_vars
=============================================================================
