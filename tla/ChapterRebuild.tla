--------------------------- MODULE ChapterRebuild ---------------------------
(***************************************************************************)
(* How a chapter's markdown file becomes the chapter of the graph and goes *)
(* back to the file: detect_changes (infrastructure/changes), the rebuild, *)
(* the commit and the write-back of apply_chapter_file                     *)
(* (services/markdown_import.py), with the character properties and the    *)
(* point of view of the front matter and set_pov                           *)
(* (services/chapter_front_matter.py).                                     *)
(*                                                                         *)
(* One call at a time works on the chapter (module ChapterFiles is about   *)
(* several).  Its file may be edited by the writer at any moment, the      *)
(* chapters of characters are renamed and deleted, and the server may die  *)
(* between any two queries.  The text of a paragraph is its sentences; the *)
(* file keeps its id, and the id, title, act and category of the chapter   *)
(* are right in its front matter (save_document forces them).  Spans,      *)
(* tokens, layout and the git history are left out.                        *)
(***************************************************************************)
EXTENDS Naturals, FiniteSets, SequencesExt

CONSTANTS
    Ids,          \* paragraph ids: naturals, a fresh one is the least unused
    Foreign,      \* the id of a paragraph of another chapter
    Texts,        \* what a paragraph of the file may say; <<>> is blank
    Quotes,       \* quote types other than none
    Props,        \* the character properties a chapter may have
    People,       \* the chapters of characters
    Titles,       \* their titles
    Categories,   \* the categories the chapter may have
    Drafts,       \* the paragraphs the graph may start with
    MaxBlocks,    \* bound on the paragraphs of a file and of the chapter
    MaxEdits,     \* bound on edits of the file and of the characters
    MaxCalls,     \* bound on saves and calls of set_pov
    MaxCrashes,   \* bound on crashes
    NoId, NoPerson, NoQuote,
    NoLine, EmptyLine, Gone   \* the pov line is absent or empty; no such chapter

ASSUME IdsAssumption    == Ids \subseteq Nat /\ NoId \notin Ids /\ Foreign \in Ids
ASSUME TextsAssumption  == << >> \in Texts /\ \A t \in Texts : t \in Seq(ToSet(t))
ASSUME TitlesAssumption == {NoLine, EmptyLine, Gone} \cap Titles = {} /\ NoPerson \notin People
ASSUME BoundsAssumption == {MaxBlocks, MaxEdits, MaxCalls, MaxCrashes} \subseteq Nat

VARIABLES
    graph,     \* the chapter in the graph: paragraphs, properties and pov
    file,      \* the markdown file: blocks, properties and pov line
    people,    \* the title of each character's chapter
    category,  \* of the chapter
    call,      \* the call being served, with its local variables
    edits, calls, crashes,
    clean      \* history: nothing but this call has touched the file since it began

vars == <<graph, file, people, category, call, edits, calls, crashes, clean>>

\* The k-th least of a set of indexes, and what a sequence has at them.
Nth(K, k)  == CHOOSE i \in K : Cardinality({j \in K : j <= i}) = k
Part(s, K) == [k \in 1 .. Cardinality(K) |-> s[Nth(K, k)]]

\* Where a paragraph is in a sequence, first and last; 0 for nowhere.
Where(s, id)  == {i \in DOMAIN s : s[i].id = id}
At(s, id)     == IF Where(s, id) = {} THEN 0 ELSE Min(Where(s, id))
LastAt(s, id) == IF Where(s, id) = {} THEN 0 ELSE Max(Where(s, id))

IdsOf(s)  == {s[i].id : i \in DOMAIN s} \ {NoId}
IdList(s) == [i \in DOMAIN s |-> s[i].id]
Spoken(s) == Part(s, {i \in DOMAIN s : s[i].text # << >>})
Kept(s, ids) == Part(s, {i \in DOMAIN s : s[i].id \in ids})
Words(s)  == [i \in DOMAIN s |-> [text |-> s[i].text, quote |-> s[i].quote]]

Blocks   == [id : Ids \cup {NoId}, text : Seq(UNION {ToSet(t) : t \in Texts}), quote : Quotes \cup {NoQuote}]
\* The paragraphs of a chapter have ids, each its own.
Distinct(s) == \A i \in DOMAIN s : s[i].id # NoId /\ \A j \in DOMAIN s : s[j].id = s[i].id => j = i

\* They came out of files, where a blank one is none.
ASSUME DraftsAssumption ==
    \A s \in Drafts : s \in Seq(Blocks) /\ Distinct(s) /\ \A i \in DOMAIN s : s[i].text # << >>

Writes   == {"sentences", "added", "chapter", "changed"}
Steps    == {"idle", "persist", "back", "done", "pov", "line"}

TypeOK ==
    /\ graph.paras \in Seq(Blocks) /\ Distinct(graph.paras)
    /\ graph.props \subseteq Props /\ graph.pov \in People \cup {NoPerson}
    /\ file.blocks \in Seq(Blocks)
    /\ file.props \subseteq Props /\ file.pov \in Titles \cup {NoLine, EmptyLine}
    /\ people \in [People -> Titles \cup {Gone}] /\ category \in Categories
    /\ call.at \in Steps
    /\ edits \in 0 .. MaxEdits /\ calls \in 0 .. MaxCalls /\ crashes \in 0 .. MaxCrashes
    /\ clean \in BOOLEAN

Idle(a) == [at |-> a, chapter |-> [paras |-> << >>, props |-> {}, pov |-> NoPerson],
            writes |-> << >>, seen |-> << >>, old |-> << >>, title |-> NoLine]

\* _serialize_paragraph and serialize_body: a paragraph without a sentence
\* leaves nothing in the file.
Rendered(paras) == Spoken(paras)

\* find_character_title.
TitleOf(person) == IF person = NoPerson \/ people[person] = Gone THEN NoLine ELSE people[person]

Init ==
    \E paras \in Drafts, cast \in [People -> Titles], who \in People \cup {NoPerson} :
      /\ \A a, b \in People : a # b => cast[a] # cast[b]
      /\ category \in Categories
      /\ people = cast
      /\ graph = [paras |-> paras, props |-> {}, pov |-> who]
      /\ file = [blocks |-> paras, props |-> {}, pov |-> IF who = NoPerson THEN NoLine ELSE cast[who]]
      /\ call = Idle("idle")
      /\ edits = 0 /\ calls = 0 /\ crashes = 0
      /\ clean = TRUE
-----------------------------------------------------------------------------
(***************************************************************************)
(* detect_changes.                                                         *)
(***************************************************************************)
\* A span left blank is still there: its paragraph is neither changed nor deleted.
Seen(blocks) == IdsOf(blocks)

Deleted(blocks, paras) == IdsOf(paras) \ Seen(blocks)

\* The blocks of known paragraphs whose text or quote differs, in file order.
Changed(blocks, paras) ==
    LET Differs(b) == LET p == paras[At(paras, b.id)] IN b.text # p.text \/ b.quote # p.quote IN
    Part(blocks, {i \in DOMAIN blocks : /\ blocks[i].text # << >> /\ blocks[i].id \in IdsOf(paras)
                                       /\ Differs(blocks[i])})

\* Where a new block belongs: after the last known one before it, NoId for none.
Anchor(spoken, i, paras) ==
    LET known == {j \in 1 .. i - 1 : spoken[j].id \in IdsOf(paras)} IN
    IF known = {} THEN NoId ELSE spoken[Max(known)].id

\* The blocks without an id, or with one the graph does not know.
New(blocks, paras) ==
    LET spoken  == Spoken(blocks)
        unknown == {i \in DOMAIN spoken : spoken[i].id \notin IdsOf(paras)} IN
    [k \in 1 .. Cardinality(unknown) |->
       LET i == Nth(unknown, k) IN
       [text |-> spoken[i].text, after |-> Anchor(spoken, i, paras),
        quote |-> IF spoken[i].id = NoId THEN NoQuote ELSE spoken[i].quote]]

SameText(blocks, paras) ==
    Changed(blocks, paras) = << >> /\ New(blocks, paras) = << >> /\ Deleted(blocks, paras) = {}
-----------------------------------------------------------------------------
(***************************************************************************)
(* The rebuild, in memory.                                                 *)
(***************************************************************************)
\* The ids that uuid4 gives n new paragraphs.
Unused == Ids \ (IdsOf(graph.paras) \cup IdsOf(file.blocks) \cup {Foreign})

FreshIds(n) == [k \in 1 .. n |-> Nth(Unused, k)]

\* The bound on ids: n of them are still unused.
Available(n) == \E top \in Ids : n <= Cardinality({i \in Unused : i <= top})

\* _apply_changed, for each change in turn: of two blocks of one paragraph the later wins.
Reworded(paras, changed) ==
    [i \in DOMAIN paras |->
       LET k == LastAt(changed, paras[i].id) IN
       IF k = 0 THEN paras[i] ELSE changed[k]]

\* Mutant of Consecutive: the run of new paragraphs is not noticed.
ConsecutiveNever(new, k) == FALSE

\* A new paragraph that follows the one placed just before it.
Consecutive(new, k) == k > 1 /\ new[k].after = new[k - 1].after

\* DockbCollection.insert: AFTER a paragraph, or FIRST.
Inserted(s, after, p) == InsertAt(s, At(s, after) + 1, p)

\* _place_new_paragraphs: after the one placed before it, after its anchor, or first.
Placed(paras, new, ids) ==
    LET place[k \in 0 .. Len(new)] ==
          IF k = 0 THEN paras
          ELSE Inserted(place[k - 1], IF Consecutive(new, k) THEN ids[k - 1] ELSE new[k].after,
                        [id |-> ids[k], text |-> new[k].text, quote |-> new[k].quote])
    IN place[Len(new)]

\* chapter.delete_child, for each deleted one.
Without(paras, gone) == Part(paras, {i \in DOMAIN paras : paras[i].id \notin gone})

Rebuilt(blocks, paras, ids) ==
    Placed(Reworded(Without(paras, Deleted(blocks, paras)), Changed(blocks, paras)),
           New(blocks, paras), ids)

\* apply_character_props: replaced as a whole, unless a manuscript chapter's
\* file carries none of them.
PropsApplied == IF file.props # {} \/ category = "Character" THEN file.props ELSE graph.props

\* reconcile_pov: the title of the file's line becomes the id of the character.
Matches == {c \in People : people[c] = file.pov}

\* No pov: the key is absent, or present and empty.
NoPov == {NoLine, EmptyLine}

PovApplied ==
    IF file.pov \in NoPov THEN NoPerson
    ELSE IF Matches # {} THEN CHOOSE c \in Matches : TRUE
    ELSE graph.pov

\* Mutant of Warned: only an id that no longer resolves is reported.
WarnedDangling(pov) == pov # NoPerson /\ people[pov] = Gone

\* A title that names nobody, or an id that no longer resolves.
Warned(pov) ==
    \/ file.pov \in Titles /\ Matches = {}
    \/ pov # NoPerson /\ people[pov] = Gone

PropsChanged == file.props # graph.props

\* _reconcile_front_matter_only: what the graph still has to learn of a file
\* whose paragraphs it knows.
FrontChanged == PovApplied # graph.pov \/ Warned(PovApplied) \/ PropsChanged

\* _persist in the order the unit of work saves: the new sentences of changed
\* paragraphs, the new paragraphs, the chapter, the changed paragraphs.
WritesOf(changed, ids) ==
    LET Each(kind, s) == [i \in DOMAIN s |-> [kind |-> kind, id |-> s[i]]]
        known == IdList(Part(changed, {i \in DOMAIN changed : At(changed, changed[i].id) = i})) IN
    Each("sentences", known) \o Each("added", ids)
      \o <<[kind |-> "chapter", id |-> NoId]>> \o Each("changed", known)

-----------------------------------------------------------------------------
(***************************************************************************)
(* apply_chapter_file.  The read, the diff and the rebuild change nothing  *)
(* but the call's own variables; each save of the commit is a query.       *)
(***************************************************************************)
Free == call.at \in {"idle", "done"}

Save ==
    LET blocks  == file.blocks
        new     == New(blocks, graph.paras)
        ids     == FreshIds(Len(new))
        rebuilt == [paras |-> Rebuilt(blocks, graph.paras, ids),
                    props |-> PropsApplied, pov |-> PovApplied]
        local   == [Idle("done") EXCEPT !.chapter = rebuilt, !.seen = blocks, !.old = graph.paras] IN
    /\ Free /\ calls < MaxCalls
    /\ Available(Len(new)) /\ Len(rebuilt.paras) <= MaxBlocks
    /\ calls' = calls + 1
    /\ clean' = TRUE
    /\ call' = IF SameText(blocks, graph.paras) /\ ~FrontChanged THEN local
               ELSE [local EXCEPT !.at = "persist",
                                  !.writes = WritesOf(Changed(blocks, graph.paras), ids)]
    /\ UNCHANGED <<graph, file, people, category, edits, crashes>>

Rebuild(id) == call.chapter.paras[At(call.chapter.paras, id)]
Node(id)    == At(graph.paras, id)

\* The new sentences join the old ones, which the paragraph still has.
WithSentences(id) ==
    [graph EXCEPT !.paras[Node(id)].text = @ \o Rebuild(id).text]

\* A new paragraph has no index yet.
WithAdded(id) == [graph EXCEPT !.paras = Append(@, Rebuild(id))]

\* The whole list, by id; the paragraphs it leaves out are deleted, except
\* that over an empty list the UNWIND leaves no row and nothing is.
WithChapter(whole) ==
    [paras |-> IF whole.paras = << >> THEN graph.paras
               ELSE [i \in DOMAIN whole.paras |-> graph.paras[At(graph.paras, whole.paras[i].id)]],
     props |-> whole.props, pov |-> whole.pov]

\* Mutant of WithChanged: the sentences the text has lost stay.
WithChangedKept(id) == [graph EXCEPT !.paras[Node(id)].quote = Rebuild(id).quote]

\* The paragraph's quote and its list of sentences; the others are deleted.
WithChanged(id) == [graph EXCEPT !.paras[Node(id)] = Rebuild(id)]

Persist ==
    LET w == Head(call.writes) IN
    /\ call.at = "persist"
    /\ graph' = CASE w.kind = "sentences" -> WithSentences(w.id)
                  [] w.kind = "added"     -> WithAdded(w.id)
                  [] w.kind = "chapter"   -> WithChapter(call.chapter)
                  [] w.kind = "changed"   -> WithChanged(w.id)
    /\ call' = [call EXCEPT !.writes = Tail(@),
                            !.at = IF Tail(call.writes) = << >> THEN "back" ELSE "persist"]
    /\ UNCHANGED <<file, people, category, edits, calls, crashes, clean>>

(***************************************************************************)
(* write_back_chapter_file: the front matter as the file has it by now,    *)
(* with the properties that are set and the pov line; the body is the      *)
(* rebuilt chapter, whatever the file says by now.                         *)
(***************************************************************************)
\* Only the properties that are set are written: one the file has stays.
PropsWritten == file.props \cup call.chapter.props

WriteBack ==
    /\ call.at = "back"
    /\ file' = [blocks |-> Rendered(call.chapter.paras),
                props  |-> PropsWritten,
                pov    |-> TitleOf(call.chapter.pov)]
    /\ call' = [call EXCEPT !.at = "done"]
    /\ UNCHANGED <<graph, people, category, edits, calls, crashes, clean>>
-----------------------------------------------------------------------------
(***************************************************************************)
(* set_pov: a name that matches a character, or none; a name that matches  *)
(* nobody is answered with a suggestion and changes nothing.  The chapter  *)
(* is written as it was loaded, then the line of the file.                 *)
(***************************************************************************)
\* The characters a name may find in the document: first, last or nickname.
Found == {c \in People : people[c] # Gone}

\* An empty name clears the pov, a name that finds a character sets it.
PovChoices == {NoPerson} \cup Found

SetPov(who) ==
    /\ Free /\ calls < MaxCalls
    /\ who \in PovChoices
    /\ calls' = calls + 1
    /\ call' = [Idle("pov") EXCEPT !.chapter = [graph EXCEPT !.pov = who], !.title = TitleOf(who)]
    /\ UNCHANGED <<graph, file, people, category, edits, crashes, clean>>

PovCommit ==
    /\ call.at = "pov"
    /\ graph' = WithChapter(call.chapter)
    /\ call' = [call EXCEPT !.at = "line"]
    /\ UNCHANGED <<file, people, category, edits, calls, crashes, clean>>

PovLine ==
    /\ call.at = "line"
    /\ file' = [file EXCEPT !.pov = call.title]
    /\ call' = Idle("idle")
    /\ UNCHANGED <<graph, people, category, edits, calls, crashes, clean>>
-----------------------------------------------------------------------------
(***************************************************************************)
(* The writer's editor, at any moment.                                     *)
(***************************************************************************)
Retyped(blocks)  == UNION {{[blocks EXCEPT ![i].text = t] : t \in Texts} : i \in DOMAIN blocks}
Requoted(blocks) == UNION {{[blocks EXCEPT ![i].quote = q] : q \in Quotes} : i \in {j \in DOMAIN blocks : blocks[j].id # NoId}}
Cut(blocks)      == {RemoveAt(blocks, i) : i \in DOMAIN blocks}
Swapped(blocks)  == {ReplaceAt(ReplaceAt(blocks, i, blocks[i + 1]), i + 1, blocks[i]) : i \in 1 .. Len(blocks) - 1}
Copied(blocks)   == {InsertAt(blocks, i, blocks[i]) : i \in DOMAIN blocks}
Pasted(blocks)   ==
    UNION {{InsertAt(blocks, i, b) : b \in [id : {NoId, Foreign}, text : Texts \ {<< >>}, quote : {NoQuote}]} :
             i \in 1 .. Len(blocks) + 1}

Edited(blocks) == Retyped(blocks) \cup Requoted(blocks) \cup Cut(blocks)
                  \cup Swapped(blocks) \cup Copied(blocks) \cup Pasted(blocks)

Touch == /\ edits < MaxEdits
         /\ edits' = edits + 1
         /\ call' = IF Free THEN Idle("idle") ELSE call

EditFile ==
    /\ Touch
    /\ \/ \E blocks \in Edited(file.blocks) :
            Len(blocks) <= MaxBlocks /\ file' = [file EXCEPT !.blocks = blocks]
       \/ \E line \in Titles \cup {NoLine, EmptyLine} : file' = [file EXCEPT !.pov = line]
       \/ \E props \in SUBSET Props : file' = [file EXCEPT !.props = props]
    /\ clean' = FALSE
    /\ UNCHANGED <<graph, people, category, calls, crashes>>

\* The chapter of a character is renamed, or deleted.
EditPeople ==
    /\ Touch
    /\ \E c \in People, t \in Titles \cup {Gone} :
         /\ people[c] # Gone
         /\ t # Gone => \A d \in People : people[d] # t
         /\ people' = [people EXCEPT ![c] = t]
    /\ UNCHANGED <<graph, file, category, calls, crashes, clean>>

Crash ==
    /\ crashes < MaxCrashes /\ ~Free
    /\ crashes' = crashes + 1
    /\ call' = Idle("idle")
    /\ UNCHANGED <<graph, file, people, category, edits, calls, clean>>

Next == \/ Save \/ Persist \/ WriteBack
        \/ (\E who \in People \cup {NoPerson} : SetPov(who)) \/ PovCommit \/ PovLine
        \/ EditFile \/ EditPeople \/ Crash

Spec == Init /\ [][Next]_vars
-----------------------------------------------------------------------------
\* A save is through, and the file is as the save left it or found it.
Saved == call.at = "done" /\ clean

\* Of a file: no id twice, no known span left blank, the known ones in order.
Ordinary(blocks, paras) ==
    /\ \A i, j \in DOMAIN blocks : i # j => blocks[i].id # blocks[j].id \/ blocks[i].id = NoId
    /\ \A i \in DOMAIN blocks : blocks[i].id \in IdsOf(paras) => blocks[i].text # << >>
    /\ \A i, j \in DOMAIN blocks :
         i < j /\ {blocks[i].id, blocks[j].id} \subseteq IdsOf(paras)
         => At(paras, blocks[i].id) < At(paras, blocks[j].id)

(***************************************************************************)
(* After a save the graph holds the words of the file, paragraph by        *)
(* paragraph and in the file's order, wherever the new ones were typed and *)
(* whatever a crash of an earlier save left in the graph                   *)
(* (apply_chapter_file: "persists the whole rebuilt chapter").  A file     *)
(* that has no words left is the exception: UNWIND of an empty list.       *)
(* A paragraph whose span is still in the file keeps its id and its place  *)
(* among the others, also when the writer blanked, copied or moved it:     *)
(* nothing else knows the paragraph by anything but its id ("data-par-id   *)
(* on spans identifies paragraphs", README_markdown_redesign.md:93).       *)
(***************************************************************************)
WordsKept ==
    /\ TypeOK
    /\ Saved /\ Ordinary(call.seen, call.old) /\ Spoken(call.seen) # << >>
       => Words(graph.paras) = Words(Spoken(call.seen))
    /\ Saved /\ call.chapter.paras # << >>
       => IdList(Kept(graph.paras, IdsOf(call.old))) = IdList(Kept(call.old, IdsOf(call.seen)))

(***************************************************************************)
(* A save settles the chapter: what it leaves in the file and in the graph *)
(* differs in nothing the next save would have to write, so opening a      *)
(* chapter again and again changes nothing.                                *)
(***************************************************************************)
SettledAfterSave ==
    Saved /\ call.chapter.paras # << >> => SameText(file.blocks, graph.paras)

(***************************************************************************)
(* After a save the file names the properties of the graph and the title   *)
(* the point-of-view character has by now; a point of view that no longer  *)
(* resolves has no line, which is what makes the next save clear it        *)
(* (reconcile_pov).                                                        *)
(***************************************************************************)
FrontMatterAgrees ==
    Saved =>
      /\ file.props = graph.props
      /\ IF graph.pov = NoPerson THEN file.pov \in {NoLine, EmptyLine}
         ELSE file.pov = IF people[graph.pov] = Gone THEN NoLine ELSE people[graph.pov]
=============================================================================
