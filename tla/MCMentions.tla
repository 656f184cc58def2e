------------------------------ MODULE MCMentions ------------------------------
(***************************************************************************)
(* Instances of Mentions: Jael Adams and Jeremiah Edgar Adams, the second  *)
(* of them also Jer, in two paragraphs; two evaluations and one edit.      *)
(***************************************************************************)
EXTENDS Mentions, TLC

CONSTANTS p1, p2, jael, jeremiah, j1, j2

JobSymmetry == Permutations(Jobs)

Word(w)   == [word |-> w, proper |-> TRUE]
Common(w) == [word |-> w, proper |-> FALSE]

Jael     == [first |-> <<"jael">>, middle |-> << >>, surname |-> <<"adams">>, nicknames |-> {}]
Jeremiah == [first |-> <<"jeremiah">>, middle |-> <<"edgar">>, surname |-> <<"adams">>,
             nicknames |-> {<<"adams">>, <<"jer">>}]
JustJer  == [Jeremiah EXCEPT !.surname = << >>, !.nicknames = {<<"jer">>}]

Both     == <<Word("jael"), Word("adams")>>
Shared   == <<Common("said"), Word("adams")>>
Mixed    == <<Word("jer"), Common("."), Word("adams")>>
Neither  == <<Common("adams"), Common("apple")>>
MCTexts  == {Both, Shared, Mixed, Neither}

MCIdentities == {Jael, Jeremiah, JustJer}
MCTextEdits == {<<p2, Mixed>>, <<p2, Neither>>, <<p1, NoText>>}
MCNameEdits == {<<jeremiah, JustJer>>, <<jael, Nobody>>}
MCBooks == {[text |-> (p1 :> Both) @@ (p2 :> Shared), cast |-> (jael :> Jael) @@ (jeremiah :> Jeremiah)],
            [text |-> (p1 :> Mixed) @@ (p2 :> NoText), cast |-> (jael :> Jael) @@ (jeremiah :> JustJer)]}
===============================================================================
