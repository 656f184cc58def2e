----------------------------- MODULE MCDocuments -----------------------------
(***************************************************************************)
(* Instances of Documents: two accounts; a library from before accounts, a *)
(* document whose tree was never written, and directories to import.       *)
(***************************************************************************)
EXTENDS Documents

MCActs     == {<<1>>, <<1, 5>>, <<4>>}
MCNumberIn == ("Opening 1" :> 1) @@ ("Setup 2" :> 2) @@ ("Jael" :> NoNumber)
MCLowerOf  == [t \in {"Dune", "dune"} |-> "dune"]

\* Numerals as they are written: I, IV, 4, IX, XLII, MCMXCIV.
ASSUME /\ RomanToInt(<<1>>) = 1 /\ RomanToInt(<<1, 5>>) = 4 /\ RomanToInt(<<4>>) = 4
       /\ RomanToInt(<<1, 10>>) = 9 /\ RomanToInt(<<10, 50, 1, 1>>) = 42
       /\ RomanToInt(<<1000, 100, 1000, 10, 100, 1, 5>>) = 1994

P1 == [act |-> <<1>>, name |-> "Opening 1"]
P2 == [act |-> <<1, 5>>, name |-> "Setup 2"]
P3 == [act |-> <<4>>, name |-> "Jael"]
P4 == [act |-> <<4>>, name |-> "Opening 1"]
P5 == [act |-> Characters, name |-> "Jael"]

\* Two acts that number 4: one is read.  An unnumbered file in the first
\* act: nothing is.  Characters come last and need no number.
ASSUME /\ \A walk \in Walks({P2, P4}) : ~walk.whole /\ Len(walk.files) = 1
       /\ Walks({P1, P3}) = {[files |-> <<P1>>, whole |-> FALSE]}
       /\ Walks({P5, P2, P1}) = {[files |-> <<P1, P2, P5>>, whole |-> TRUE]}

ChapterAt(p, text, d, i) == [path |-> p, text |-> text, home |-> d, in |-> (d :> i) @@ Nowhere]
Directory(meta, files) == [meta |-> meta, files |-> files @@ EmptyTree.files]
NoTrees == [x \in Places \X Titles |-> NoTree]
Empty   == [docs |-> [d \in Documents |-> NoDocument], chapters |-> [c \in Chapters |-> NoChapter]]
One(owner, chapters) ==
    [docs |-> (1 :> [title |-> "Dune", owner |-> owner]) @@ Empty.docs, chapters |-> chapters @@ Empty.chapters]
TwoChapters == (1 :> ChapterAt(P1, "t1", 1, 0)) @@ (2 :> ChapterAt(P2, "t2", 1, 1))

\* Before accounts: nobody's document, its tree in the flat layout; and a
\* directory elsewhere with two acts of one number.
OldLibrary ==
    [tracked |-> {}, graph |-> One(Unowned, TwoChapters), drawn |-> [docs |-> 1, chapters |-> 2],
     trees |-> [NoTrees EXCEPT
       ![<<Flat, "Dune">>] = Directory("Dune", (P1 :> [id |-> 1, text |-> "t1"]) @@ (P2 :> [id |-> 2, text |-> "t2"])),
       ![<<Outside, "dune">>] = Directory(NoTitle, (P2 :> [id |-> NoId, text |-> "t3"]) @@ (P4 :> [id |-> NoId, text |-> "t3"]))]]
\* A document never opened, and a directory elsewhere that was not imported.
NewLibrary ==
    [tracked |-> {}, graph |-> One("ann", 1 :> ChapterAt(P1, "t1", 1, 0)), drawn |-> [docs |-> 1, chapters |-> 1],
     trees |-> [NoTrees EXCEPT ![<<Outside, "dune">>] =
                  Directory(NoTitle, (P2 :> [id |-> NoId, text |-> "t3"]))]]
\* Nothing in the graph; manuscripts in the flat layout and elsewhere.
Manuscripts ==
    [tracked |-> {}, graph |-> Empty, drawn |-> [docs |-> 0, chapters |-> 0],
     trees |-> [NoTrees EXCEPT
       ![<<Flat, "Dune">>] = Directory(NoTitle, (P1 :> [id |-> NoId, text |-> "t1"]) @@ (P2 :> [id |-> NoId, text |-> "t2"])),
       ![<<Outside, "dune">>] = Directory("Dune", (P5 :> [id |-> NoId, text |-> "t3"]))]]
MCLibraries == {OldLibrary, NewLibrary, Manuscripts}
==============================================================================
