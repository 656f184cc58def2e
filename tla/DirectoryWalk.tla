---------------------------- MODULE DirectoryWalk ----------------------------
(***************************************************************************)
(* Which files of a document's directory an import reads, in which order,  *)
(* and where it stops (_discover_chapter_files and its helpers in          *)
(* services/markdown_import.py).                                           *)
(*                                                                         *)
(* The directory of an act is the sequence of its numeral's values, so     *)
(* <<1, 5>> is "Act IV", <<4>> is "Act 4" and << >> is "Act None";         *)
(* <<-1>> stands for any name that is no number.  A file is the directory  *)
(* it is in and its name; the letter after its number is left out.         *)
(***************************************************************************)
EXTENDS Integers, FiniteSets, SequencesExt

CONSTANTS
    Acts,        \* the directories of acts
    Characters,  \* the directory of the characters
    Names,       \* names of files
    NumberIn     \* the sequence number in a name, NoNumber for none

NoNumber == -1

ASSUME ActsAssumption  == Acts \subseteq Seq(Int) /\ IsFiniteSet(Acts) /\ Characters \notin Acts
ASSUME NamesAssumption == NumberIn \in [Names -> Nat \cup {NoNumber}] /\ IsFiniteSet(Names)

Paths == [act : Acts \cup {Characters}, name : Names]

\* A digit counts against the total when a larger one follows it.
WithDigit(digit, sum) ==
    [total |-> sum.total + (IF digit < sum.previous THEN 0 - digit ELSE digit), previous |-> digit]
RomanToInt(digits) == FoldRight(WithDigit, digits, [total |-> 0, previous |-> 0]).total

ActNumber(act) == IF act = <<-1>> THEN NoNumber ELSE RomanToInt(act)
Number(path)   == NumberIn[path.name]

\* Acts by number and then the characters; in an act the files by number.
Precedes(p, q) ==
    IF p.act = q.act THEN p.act = Characters \/ Number(p) <= Number(q)
    ELSE q.act = Characters \/ (p.act # Characters /\ ActNumber(p.act) <= ActNumber(q.act))

Together(s) ==
    \A i, k \in 1 .. Len(s) : i < k /\ s[i].act = s[k].act => \A j \in i .. k : s[j].act = s[i].act

Orders(paths) ==
    {s \in SetToSeqs(paths) :
       Together(s) /\ \A i, j \in 1 .. Len(s) : i < j => Precedes(s[i], s[j])}

\* The generator raises when it comes to the i-th file: at once for an act
\* without a number, at the act for a file without one, else at the second
\* act or file of a number.
Raises(s, i) ==
    LET first == i = 1 \/ s[i - 1].act # s[i].act IN
    /\ s[i].act # Characters
    /\ \/ \E j \in 1 .. Len(s) : s[j].act # Characters /\ ActNumber(s[j].act) = NoNumber
       \/ first /\ \E j \in 1 .. Len(s) : s[j].act = s[i].act /\ Number(s[j]) = NoNumber
       \/ first /\ i > 1 /\ ActNumber(s[i - 1].act) = ActNumber(s[i].act)
       \/ ~first /\ Number(s[i - 1]) = Number(s[i])

\* What is read of a directory: the files before the first refusal, and
\* whether these are all.
Walks(paths) ==
    {LET bad == {i \in 1 .. Len(s) : Raises(s, i)} IN
       [files |-> IF bad = {} THEN s ELSE SubSeq(s, 1, Min(bad) - 1), whole |-> bad = {}]
     : s \in Orders(paths)}
==============================================================================
