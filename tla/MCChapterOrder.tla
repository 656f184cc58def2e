---------------------------- MODULE MCChapterOrder ----------------------------
(***************************************************************************)
(* Instances of ChapterOrder: two clients, one or two calls each, on       *)
(* documents whose numbers must change places, with a gap in the indexes,  *)
(* two acts, and a character whose title a renumber would take.            *)
(***************************************************************************)
EXTENDS ChapterOrder

CONSTANTS p, q, k, n, a, b

MCNone  == -1
MCLower == [w \in Words |-> IF w = "Opening" THEN "opening" ELSE w]

T(w, i, l) == [words |-> w, number |-> i, letter |-> l]
Ch(t, act, category, i) == [title |-> t, act |-> act, category |-> category, index |-> i]

MCDocuments ==
    {[chapters |-> (p :> Ch(T("Opening", 2, ""), "One", "Chapter", 0))
                @@ (q :> Ch(T("Opening", 1, ""), "One", "Chapter", 2))
                @@ (k :> Ch(T("Knight", -1, ""), "", "Character", 5)) @@ (n :> NoChapter),
      opened   |-> {p, q, k}],
     [chapters |-> (k :> Ch(T("opening", 1, ""), "", "Character", 0))
                @@ (p :> Ch(T("Opening", 2, "b"), "One", "Chapter", 1))
                @@ (q :> Ch(T("Knight", -1, ""), "", "Chapter", 2)) @@ (n :> NoChapter),
      opened   |-> {p, k}]}

New(after, t, category) ==
    [op |-> "create", id |-> n, after |-> after, title |-> t, category |-> category]
Move(x, after)     == [op |-> "move", id |-> x, after |-> after]
Rename_(x, t)      == [op |-> "update", id |-> x, title |-> t]
Drop(x)            == [op |-> "delete", id |-> x]
Renumber(start)    == [op |-> "renumber", start |-> start]

Calls ==
    {New(q, T("opening", 2, ""), "Chapter"), New(NoChapter, T("Storm", -1, ""), "Character"),
     Move(p, q), Move(q, NoChapter), Move(p, k), Move(k, p),
     Rename_(p, T("Storm", -1, "")), Rename_(q, T("Opening", 2, "")), Drop(p), Renumber(1), Renumber(0)}

\* An id is only ever given to one new chapter (a uuid the client makes).
OneNew(s) == Cardinality({i \in 1 .. Len(s) : s[i].op = "create"}) <= 1

MCScripts ==
    {(a :> <<z[1]>>) @@ (b :> <<z[2]>>) : z \in {y \in [1 .. 2 -> Calls] : OneNew(y)}}
    \cup {(a :> z) @@ (b :> << >>) : z \in {y \in [1 .. 3 -> Calls] : OneNew(y)}}
    \cup {(a :> <<z[1], z[2]>>) @@ (b :> <<z[3]>>) : z \in {y \in [1 .. 3 -> Calls] : OneNew(y)}}
===============================================================================
