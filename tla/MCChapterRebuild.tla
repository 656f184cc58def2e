--------------------------- MODULE MCChapterRebuild ---------------------------
(***************************************************************************)
(* Instances of ChapterRebuild: a chapter of two paragraphs, files of up   *)
(* to four, two sentences to say.                                          *)
(***************************************************************************)
EXTENDS ChapterRebuild

MCTexts    == {<< >>, <<"a">>, <<"b">>}
MCDrafts == {<<[id |-> 1, text |-> <<"a">>, quote |-> NoQuote],
                 [id |-> 2, text |-> <<"b">>, quote |-> NoQuote]>>}
===============================================================================
