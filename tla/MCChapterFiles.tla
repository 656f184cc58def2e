--------------------------- MODULE MCChapterFiles ---------------------------
(***************************************************************************)
(* Instances of ChapterFiles: two titles and two acts, which is a place to *)
(* go and a place to come back to, and texts over two paragraphs, so that  *)
(* one text can lack what another has.                                     *)
(***************************************************************************)
EXTENDS ChapterFiles, TLC

CONSTANTS p, q, t1, t2

MCParas == {p, q}

\* Texts that share a paragraph and differ; none of them empty.
WrittenTexts == {{p}, {p, q}, {q}}

TwoTexts == {{p}, {p, q}}

\* Which calls come in at which thread.
SerialOps == [t \in {t1} |-> {"save", "open", "rename", "move", "delete"}]
RaceOps   == (t1 :> {"save", "open", "move"}) @@ (t2 :> {"save", "open", "rename", "delete"})
=============================================================================
