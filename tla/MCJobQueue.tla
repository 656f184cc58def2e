------------------------------ MODULE MCJobQueue ------------------------------
(***************************************************************************)
(* Instances of JobQueue: three edits of a sentence and a paragraph.       *)
(***************************************************************************)
EXTENDS JobQueue

CONSTANTS s1, p1, a, b

Edit(op, n, t)   == [op |-> op, node |-> n, text |-> t, parented |-> TRUE]
Unparented(n, t) == [op |-> "update", node |-> n, text |-> t, parented |-> FALSE]

MCScripts == {
    <<Edit("update", s1, a), Edit("update", s1, b), Edit("update", s1, a)>>,
    <<Edit("create", s1, a), Edit("update", s1, b)>>,
    <<Edit("create", p1, a), Unparented(s1, b)>>,
    <<Edit("update", s1, a), Edit("update", p1, Blank), Edit("delete", s1, Blank)>>}
===============================================================================
